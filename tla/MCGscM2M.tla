------------------------------ MODULE MCGscM2M ------------------------------
(***************************************************************************)
(* GscM2M with two threads on one handle, two geometries to mix up, and    *)
(* every driver call able to fail.                                         *)
(***************************************************************************)
EXTENDS GscM2M

MCFaults == FaultKinds
=============================================================================
