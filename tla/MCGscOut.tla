------------------------------ MODULE MCGscOut ------------------------------
(***************************************************************************)
(* GscOut with the ring of the code (three buffers), a display that keeps  *)
(* the newest frame on screen, and every driver call able to fail.         *)
(***************************************************************************)
EXTENDS GscOut

MCFaults == FaultKinds
=============================================================================
