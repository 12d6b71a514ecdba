------------------------------ MODULE MCTVOut ------------------------------
(* Model checking of TVOut: see the two configurations for the bounds. *)
EXTENDS TVOut
=============================================================================
