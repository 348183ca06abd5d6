----------------------------- MODULE MCLifecycle -----------------------------
(***************************************************************************)
(* Instances of Lifecycle for TLC.  r1 and r2 are two rendered revisions,  *)
(* k a bundle after "sync commit", x what r1 becomes when the executor     *)
(* makes its hooks executable.                                             *)
(***************************************************************************)
EXTENDS LifecycleRefinement

CONSTANTS r1, r2, k, x

\* The hooks of r1 are packaged without the x bits.
R1NeedsChmod == [d \in Digest |-> IF d = r1 THEN x ELSE d]
=============================================================================
