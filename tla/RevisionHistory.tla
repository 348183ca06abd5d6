--------------------------- MODULE RevisionHistory ---------------------------
(***************************************************************************)
(* Status.SuccessfulRevisions of the applied-revision document: the        *)
(* snapshots of the last successful applies, most recent first, one per    *)
(* revision and at most MaxHistory of them (state/store.go).               *)
(*                                                                         *)
(* A snapshot is a pair of its key (BOM name, revision, channel and digest *)
(* with the desired-state digest: what revisionHistoryKey compares) and of *)
(* its detail (requested and resolved target, local repo and local patch   *)
(* revisions: what it ignores).                                            *)
(***************************************************************************)
EXTENDS Naturals, Sequences, FiniteSets, SequencesExt

CONSTANTS
    Key,         \* identities of revisions
    Detail,      \* what a snapshot records besides
    NoSnapshot,  \* LastSuccessfulRevision of a cluster that never succeeded
    MaxHistory,  \* maxSuccessfulRevisionHistory
    MaxApplies   \* bound: successful applies

HistoryAssumption ==
    /\ MaxHistory \in Nat \ {0}
    /\ MaxApplies \in Nat
    /\ NoSnapshot \notin [key : Key, detail : Detail]

Snapshot == [key : Key, detail : Detail]

VARIABLES
    last,       \* Status.LastSuccessfulRevision
    revisions,  \* Status.SuccessfulRevisions
    legacy,     \* last success of a document that had no history, if any
    log         \* history: every success marked since, most recent first

vars == <<last, revisions, legacy, log>>

-----------------------------------------------------------------------------
SameRevision(s, t) == s.key = t.key

\* One turn of the loop that drops repeated revisions and stops at the cap.
Keep(out, s) ==
    IF (\E i \in DOMAIN out : SameRevision(out[i], s)) \/ Len(out) = MaxHistory
    THEN out
    ELSE Append(out, s)

\* Mutant: the cap is applied before repeated revisions are dropped.
PrependCapsFirst(snapshot, existing) ==
    LET all == <<snapshot>> \o existing.revisions
        cut == SubSeq(all, 1, IF Len(all) < MaxHistory THEN Len(all)
                              ELSE MaxHistory)
    IN  FoldLeft(Keep, <<>>, cut)

(***************************************************************************)
(* prependSuccessfulRevisionHistory.  If the document it is given has no   *)
(* history yet, that document's last successful revision continues it.     *)
(***************************************************************************)
PrependSuccessfulRevisionHistory(snapshot, existing) ==
    LET older == IF existing.revisions = <<>> /\ existing.last # NoSnapshot
                 THEN <<existing.last>> ELSE existing.revisions
    IN  FoldLeft(Keep, <<>>, <<snapshot>> \o older)

-----------------------------------------------------------------------------
\* A new cluster, or the document of an earlier release.
Init ==
    /\ revisions = <<>> /\ log = <<>>
    /\ legacy \in Snapshot \cup {NoSnapshot}
    /\ last = legacy

(***************************************************************************)
(* MarkSuccessfulApply; renders, failures and observations copy both       *)
(* fields.  LastSuccessfulRevision is assigned before the document is      *)
(* passed on, so the last revision passed is the new one.                  *)
(***************************************************************************)
MarkSuccessfulApply ==
    /\ Len(log) < MaxApplies
    /\ \E s \in Snapshot :
           /\ last' = s
           /\ revisions' = PrependSuccessfulRevisionHistory(
                               s, [last |-> last', revisions |-> revisions])
           /\ log' = <<s>> \o log
    /\ UNCHANGED legacy

Next == MarkSuccessfulApply

Spec == Init /\ [][Next]_vars

-----------------------------------------------------------------------------
(* Properties *)

TypeOK ==
    /\ last \in Snapshot \cup {NoSnapshot}
    /\ legacy \in Snapshot \cup {NoSnapshot}
    /\ revisions \in Seq(Snapshot)
    /\ Len(revisions) <= MaxHistory

\* Position in the log of the latest success of a revision.
Latest(key) ==
    CHOOSE i \in DOMAIN log :
        /\ log[i].key = key
        /\ \A j \in DOMAIN log : log[j].key = key => i <= j

Succeeded == {log[i].key : i \in DOMAIN log}

(***************************************************************************)
(* The recorded history is the log of marked successes cut to MaxHistory   *)
(* most recently applied revisions, each with the snapshot of its latest   *)
(* success: dropping repetitions and cutting at the cap, one apply at a    *)
(* time, loses no revision that a longer memory would have kept.           *)
(***************************************************************************)
HistoryIsRecentSuccesses ==
    revisions # <<>> =>
        LET kept == {revisions[i].key : i \in DOMAIN revisions} IN
        /\ Len(revisions) =
               IF Cardinality(Succeeded) < MaxHistory
               THEN Cardinality(Succeeded) ELSE MaxHistory
        /\ \A i \in DOMAIN revisions :
               /\ revisions[i] = log[Latest(revisions[i].key)]
               /\ \A j \in DOMAIN revisions :
                      i < j => Latest(revisions[i].key)
                                   < Latest(revisions[j].key)
        /\ \A a \in kept, b \in Succeeded \ kept : Latest(a) < Latest(b)
        /\ revisions[1] = last
=============================================================================
