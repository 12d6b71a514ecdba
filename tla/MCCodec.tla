------------------------------ MODULE MCCodec ------------------------------
(* Up to two buffers, two arrays for each port, and every call able to fail. *)
EXTENDS Codec

MCGeometries == [raw   |-> {[format |-> "NV21", size |-> 1], [format |-> "NV12_TILED", size |-> 2]},
                 coded |-> {[format |-> "AVC", size |-> 1]}]
=============================================================================
