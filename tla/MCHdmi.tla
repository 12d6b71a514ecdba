------------------------------- MODULE MCHdmi -------------------------------
(* Model checking of Hdmi: two resolutions of different size, and a frame that *)
(* is shown at its own size on the smaller one, scaled or not, in two places.  *)
EXTENDS Hdmi

MCSrcs  == {[w |-> 720, h |-> 360, format |-> "rgb"]}
MCSpots == {[x |-> 0, y |-> 120]}
MCSizeOf == [r \in Res |-> IF r = "480p" THEN [w |-> 720, h |-> 480]
                                         ELSE [w |-> 1920, h |-> 1080]]
=============================================================================
