------------------------------ MODULE MCGscCap ------------------------------
(***************************************************************************)
(* GscCap with rings of one, two and three buffers, so that a failed       *)
(* reconfiguration may leave the handle and the driver with different      *)
(* counts, and every driver call able to fail.                             *)
(***************************************************************************)
EXTENDS GscCap

MCFaults == FaultKinds
=============================================================================
