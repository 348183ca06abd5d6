--------------------------- MODULE RevisionLedger ---------------------------
(***************************************************************************)
(* What the applied-revision record of a cluster promises, without files,  *)
(* processes or crashes: which revision is wanted, which one was last      *)
(* reported healthy, and which revisions the cluster has.  The record may  *)
(* call only a wanted revision healthy, and only while the cluster has it. *)
(***************************************************************************)
CONSTANTS Digest, None

VARIABLES
    desired,  \* revision the record wants, or None
    blessed,  \* revision the record last called successful, or None
    at        \* revisions the cluster has, the one it was given

ledger == <<desired, blessed, at>>

Init ==
    /\ desired = None
    /\ blessed = None
    /\ at \subseteq Digest

\* A render, a commit or a rollback wants a revision.
Want ==
    /\ desired' \in Digest
    /\ UNCHANGED <<blessed, at>>

\* Executing a bundle, or an edit by hand, changes the cluster.
Change ==
    /\ at' \subseteq Digest
    /\ UNCHANGED <<desired, blessed>>

\* The wanted revision is called successful.
Bless ==
    /\ desired \in at
    /\ blessed' = desired
    /\ UNCHANGED <<desired, at>>

Next == Want \/ Change \/ Bless

Spec == Init /\ [][Next]_ledger
=============================================================================
