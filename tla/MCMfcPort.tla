----------------------------- MODULE MCMfcPort -----------------------------
(* MfcPort with two enqueuing threads and every driver call able to fail.   *)
EXTENDS MfcPort, TLC

MCFaults == FaultKinds

\* The threads run the same code.
Symmetric == Permutations(Enqueuers)
=============================================================================
