------------------------ MODULE MCConcurrentLifecycle ------------------------
(* An instance of ConcurrentLifecycle for TLC: two rendered revisions. *)
EXTENDS ConcurrentLifecycle

CONSTANTS r1, r2

AllExecutable == [d \in Digest |-> d]
=============================================================================
