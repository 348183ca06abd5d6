--------------------------- MODULE AppliedRevision ---------------------------
(***************************************************************************)
(* The applied-revision document of one cluster and the operations of      *)
(* pkg/distribution/state/store.go on it, as operators from the document   *)
(* that is loaded to the document that is saved.                           *)
(*                                                                         *)
(* A revision is identified by the digest of its rendered bundle: the      *)
(* bundle manifest that is part of what is digested carries the BOM name,  *)
(* revision, channel and provenance, so these travel with the digest.      *)
(* LastAppliedTime is set exactly when LastSuccessfulRevision is.          *)
(* ObservedSummary and the Observed condition are written and dropped      *)
(* together: "observed" stands for both.  SuccessfulRevisions is read by   *)
(* nothing but its own update and is the subject of RevisionHistory.       *)
(***************************************************************************)

CONSTANTS
    Digest,     \* digests of bundle contents
    None        \* absent file, nil pointer, empty path

ClusterState == {"Clean", "Dirty", "Orphan", "Degraded"}

\* What the Applied condition reports.
AppliedReason == {"DesiredStateRendered", "ReconcileSucceeded", "Failed"}

Document ==
    [spec     : Digest,
     state    : ClusterState,
     last     : Digest \cup {None},
     applied  : AppliedReason,
     observed : ClusterState \cup {None}]

ASSUME NoneAssumption == None \notin Digest /\ None \notin Document

\* A document file that may not exist.
DocumentFile == Document \cup {None}

-----------------------------------------------------------------------------
\* Mutant: a render forgets what was last applied successfully.
PersistRenderedStateForgetsLast(existing, d) ==
    [spec |-> d, state |-> "Dirty", last |-> None,
     applied |-> "DesiredStateRendered", observed |-> None]

\* Mutant: every render is recorded as not yet applied, a no-op one too.
PersistRenderedStateAlwaysDirty(existing, d) ==
    [spec |-> d, state |-> "Dirty",
     last |-> IF existing = None THEN None ELSE existing.last,
     applied |-> "DesiredStateRendered", observed |-> None]

(***************************************************************************)
(* A render replaces the desired digest.  The status of a Clean document   *)
(* whose last successful revision is the one rendered is kept as it is; in *)
(* every other case only the last successful revision survives.            *)
(***************************************************************************)
PersistRenderedState(existing, d) ==
    IF existing # None /\ existing.state = "Clean" /\ existing.last = d
    THEN [existing EXCEPT !.spec = d]
    ELSE [spec     |-> d,
          state    |-> "Dirty",
          last     |-> IF existing = None THEN None ELSE existing.last,
          applied  |-> "DesiredStateRendered",
          observed |-> None]

\* Success is recorded for whatever the document names when it is reloaded.
MarkSuccessfulApply(existing) ==
    [spec     |-> existing.spec,
     state    |-> "Clean",
     last     |-> existing.spec,
     applied  |-> "ReconcileSucceeded",
     observed |-> None]

\* Mutant: a failure also drops the last successful revision.
MarkDegradedForgetsLast(existing) ==
    IF existing = None THEN None
    ELSE [existing EXCEPT !.state = "Degraded", !.applied = "Failed",
                          !.last = None]

\* A failure keeps the last successful revision; without a document it is
\* not recorded at all.
MarkDegraded(existing) ==
    IF existing = None THEN None
    ELSE [existing EXCEPT !.state = "Degraded", !.applied = "Failed"]

\* Mutant: an observation is recorded whatever bundle it was made against.
PersistObservedStateUnchecked(existing, d, s) ==
    IF existing = None THEN existing
    ELSE [existing EXCEPT !.state = s, !.observed = s]

\* An observation made against another bundle than the recorded one is
\* dropped.
PersistObservedState(existing, d, s) ==
    IF existing = None \/ existing.spec # d THEN existing
    ELSE [existing EXCEPT !.state = s, !.observed = s]

\* What a rollback saves before it marks success: the snapshot's revision as
\* the desired one.
RestoreSnapshot(applied) ==
    [applied EXCEPT !.spec = applied.last, !.state = "Dirty"]
=============================================================================
