------------------------------- MODULE MCMxr -------------------------------
(* Mxr with the three buffers of the code and every driver call able to fail. *)
EXTENDS Mxr

MCFaults == FaultKinds
=============================================================================
