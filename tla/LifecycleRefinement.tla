------------------------- MODULE LifecycleRefinement -------------------------
(***************************************************************************)
(* Lifecycle implements RevisionLedger, and the invariant that makes it so *)
(* and that its other safety properties follow from.                       *)
(***************************************************************************)
EXTENDS Lifecycle

Ledger == INSTANCE RevisionLedger WITH
    desired <- IF doc = None THEN None ELSE doc.spec,
    blessed <- IF doc = None THEN None ELSE doc.last,
    at      <- {d \in Digest : ClusterAt(d)}

(***************************************************************************)
(* The applied-revision record calls only the wanted revision successful,  *)
(* and only while every component of the cluster has been given it: the    *)
(* file operations, crashes, failures, rollbacks and drift commands of     *)
(* Lifecycle are steps of RevisionLedger or change nothing it sees.        *)
(***************************************************************************)
ImplementsLedger == Ledger!Spec

-----------------------------------------------------------------------------
\* The store holds under each digest what was rendered, or its hooks fixed.
StoreInv == \A d \in Digest : revisions[d] = None \/ Matches(revisions[d], d)

\* The record has seen every revision it calls successful converge.
RecordInv == doc # None => doc.last \in converged \cup {None}

\* Components 1 to step - 1 have been given the revision being executed.
Executed ==
    /\ dig \in Digest
    /\ \A c \in Component : c < step => Matches(live[c], dig)

\* An apply executes the current bundle, which the document records.
ApplyInv ==
    pc = "exec" /\ ~RollingBack =>
        /\ doc # None /\ doc.spec = dig
        /\ Matches(current, dig)
        /\ Executed

\* From its start until it saves the document, a rollback finds the document
\* it loaded, and restores the revision that document calls successful.
RollbackInv ==
    RollingBack /\ pc \in {"exec", "mirror", "copy", "backup", "install",
                          "cleanup", "restore"} =>
        /\ doc = snap /\ snap # None
        /\ dig = snap.last /\ dig \in converged
        /\ revisions[dig] # None
        /\ Executed
        /\ pc # "exec" => ClusterAt(dig)

\* What is about to be marked successful has just been executed, and a
\* rollback marks only what was marked before.
MarkInv ==
    pc = "mark" =>
        /\ doc # None
        /\ doc.spec = dig /\ dig \in converged
        /\ ClusterAt(dig)
        /\ RollingBack => doc.last = dig

\* The digest at hand is stored before it is mirrored, and only what was
\* mirrored is installed, recorded or marked.
BundleInv ==
    /\ pc \in {"mirror", "copy", "backup", "install", "cleanup"} =>
           revisions[dig] # None
    /\ pc = "persist" => revisions[dig] # None \/ dig \in patched
    /\ pc \in {"backup", "install"} => Matches(stage, dig)
    /\ pc \in {"cleanup", "persist", "restore", "mark"} =>
           Matches(current, dig)

\* A revision the document names is stored, unless a commit made it.
RetainedInv ==
    doc # None =>
        \A d \in {doc.spec, doc.last} \ ({None} \cup patched) :
            revisions[d] # None

\* While a command runs nothing is reported, and what was reported of an
\* apply stays true until the next command or drift.
FinishedInv ==
    /\ pc # "idle" => outcome = "none"
    /\ outcome \in {"Applied", "RolledBack"} => doc # None
    /\ FinishedApplyAgrees

\* When the process may be rolling back, and where it has a digest at hand.
ControlInv ==
    /\ RollingBack => pc \in {"exec", "mirror", "copy", "backup", "install",
                              "cleanup", "restore", "mark", "degrade"}
    /\ pc = "restore" => RollingBack
    /\ pc \in {"render", "promote", "mirror", "copy", "backup", "install",
               "cleanup", "persist"} => dig \in Digest

IInv ==
    /\ TypeOK
    /\ StoreInv
    /\ RecordInv
    /\ ApplyInv
    /\ RollbackInv
    /\ MarkInv
    /\ ControlInv
    /\ BundleInv
    /\ RetainedInv
    /\ FinishedInv
=============================================================================
