--------------------------- MODULE Lifecycle_proofs ---------------------------
(***************************************************************************)
(* Proofs about Lifecycle for every set of revisions, every number of      *)
(* components and every number of faults and commands.                     *)
(***************************************************************************)
EXTENDS LifecycleRefinement, TLAPS

(***************************************************************************)
(* The operations of state/store.go on the applied-revision document save  *)
(* a document, given one and digests.                                      *)
(***************************************************************************)
LEMMA DocumentOps ==
    ASSUME NEW f \in DocumentFile
    PROVE  /\ \A d \in Digest : PersistRenderedState(f, d) \in Document
           /\ f # None => MarkSuccessfulApply(f) \in Document
           /\ MarkDegraded(f) \in DocumentFile
           /\ f # None => MarkDegraded(f) \in Document
           /\ \A d \in Digest, s \in ClusterState :
                  /\ PersistObservedState(f, d, s) \in DocumentFile
                  /\ f # None => PersistObservedState(f, d, s) \in Document
           /\ f # None /\ f.last # None => RestoreSnapshot(f) \in Document
<1> USE DEF DocumentFile, Document, ClusterState, AppliedReason
<1>1. ASSUME NEW d \in Digest PROVE PersistRenderedState(f, d) \in Document
    BY DEF PersistRenderedState
<1>2. f # None => MarkSuccessfulApply(f) \in Document
    BY DEF MarkSuccessfulApply
<1>3. MarkDegraded(f) \in DocumentFile /\ (f # None => MarkDegraded(f) \in Document)
    BY DEF MarkDegraded
<1>4. ASSUME NEW d \in Digest, NEW s \in ClusterState
      PROVE  /\ PersistObservedState(f, d, s) \in DocumentFile
             /\ f # None => PersistObservedState(f, d, s) \in Document
    BY DEF PersistObservedState
<1>5. f # None /\ f.last # None => RestoreSnapshot(f) \in Document
    BY DEF RestoreSnapshot
<1> HIDE DEF DocumentFile, Document, ClusterState, AppliedReason
<1> QED
    BY <1>1, <1>2, <1>3, <1>4, <1>5

(***************************************************************************)
(* Making hooks executable keeps a content a match of its digest.          *)
(***************************************************************************)
LEMMA MatchesFixed ==
    ASSUME NEW d \in Digest, NEW y, Matches(y, d)
    PROVE  /\ y \in Digest /\ HookFixed[y] \in Digest
           /\ Matches(HookFixed[y], d)
           /\ y # None /\ y # Mixed /\ y # Foreign
BY LifecycleAssumption, NoneAssumption DEF Matches

-----------------------------------------------------------------------------
(***************************************************************************)
(* Every step of the process, an operator or the environment keeps the     *)
(* files, the cluster and the process state of the shape TypeOK gives.     *)
(***************************************************************************)
LEMMA TypeStep ==
    ASSUME TypeOK, ApplyInv, RollbackInv, ControlInv, [Next]_vars
    PROVE  TypeOK'
<1> USE LifecycleAssumption, NoneAssumption
    DEF TypeOK, PC, Operation, Outcome, File, LiveValue, DocumentFile,
        RollingBack
<1>1. CASE RunOnce
  BY <1>1 DEF RunOnce, Begin, store, cluster, env
<1>2. CASE Commands
  BY <1>2 DEF Commands, SyncRender, SyncApply, SyncCommit, SyncStatus,
              SyncRevert, Command, Begin, store, cluster
<1>3. CASE Materialize
  <2> USE DEF Goto, Finish, Fail, Fault, local, cluster, env, store, bundles
  <2>1. CASE RenderBundle BY <2>1 DEF RenderBundle
  <2>2. CASE FileStepFails
    <3>1. /\ Fault /\ Fail
          /\ UNCHANGED <<doc, revisions, current, stage, cluster>>
      BY <2>2 DEF FileStepFails
    <3>2. backup' \in File BY <2>2 DEF FileStepFails
    <3> QED BY <3>1, <3>2
  <2>3. CASE PromoteRevision
    <3>1. revisions' \in [Digest -> File]
      BY <2>3 DEF PromoteRevision, ControlInv
    <3> QED BY <2>3, <3>1 DEF PromoteRevision
  <2>4. CASE MirrorBundle BY <2>4 DEF MirrorBundle
  <2>5. CASE CopyBundle BY <2>5 DEF CopyBundle, ControlInv
  <2>6. CASE PromoteBundleBackup BY <2>6 DEF PromoteBundleBackup
  <2>7. CASE PromoteBundleInstall BY <2>7 DEF PromoteBundleInstall
  <2>8. CASE PromoteBundleRestore BY <2>8 DEF PromoteBundleRestore
  <2>9. CASE PromoteBundleCleanup BY <2>9 DEF PromoteBundleCleanup
  <2>10. CASE PersistRendered
    <3>1. dig \in Digest BY <2>10 DEF PersistRendered, ControlInv
    <3>2. doc' \in DocumentFile
      BY <2>10, <3>1, DocumentOps DEF PersistRendered
    <3> QED BY <2>10, <3>2 DEF PersistRendered
  <2> QED
    BY <1>3, <2>1, <2>2, <2>3, <2>4, <2>5, <2>6, <2>7, <2>8, <2>9, <2>10
    DEF Materialize
<1>4. CASE Apply
  <2> USE DEF Goto, Finish, Fail, Fault, local, cluster, env, store, bundles
  <2>1. CASE ApplyStart BY <2>1 DEF ApplyStart
  <2>2. CASE ApplyRejected BY <2>2 DEF ApplyRejected
  <2>3. CASE ApplyPreflightFails BY <2>3 DEF ApplyPreflightFails
  <2>a. ASSUME pc = "exec"
        PROVE  /\ dig \in Digest
               /\ BundleDir # None =>
                      BundleDir \in Digest /\ HookFixed[BundleDir] \in Digest
    BY <2>a DEF ApplyInv, RollbackInv, Executed, BundleDir
  <2>b. ASSUME pc = "exec", BundleDir # None, MaybeFixHooks
        PROVE  current' \in File /\ revisions' \in [Digest -> File]
    BY <2>a, <2>b DEF MaybeFixHooks
  <2>4. CASE ApplyComponent
    <3>1. live' \in [Component -> LiveValue]
      BY <2>4, <2>a DEF ApplyComponent
    <3>2. step' \in 0..(Components + 1)
      BY <2>4 DEF ApplyComponent
    <3> QED BY <2>4, <2>b, <3>1, <3>2 DEF ApplyComponent
  <2>5. CASE ApplyComponentFails
    <3>1. current' \in File /\ revisions' \in [Digest -> File]
      BY <2>5, <2>b DEF ApplyComponentFails
    <3>2. live' \in [Component -> LiveValue]
      BY <2>5, <2>a DEF ApplyComponentFails, Component
    <3>3. ApplyFailure /\ UNCHANGED <<doc, backup, stage, converged>>
      BY <2>5 DEF ApplyComponentFails
    <3>4. /\ faults' \in 0..MaxFaults
          /\ target' \in Rendered /\ commands' \in 0..MaxCommands
      BY <2>5 DEF ApplyComponentFails
    <3>5. pc' \in PC /\ op' \in Operation /\ onFail' \in {"Stop", "Rollback"}
      BY <3>3 DEF ApplyFailure
    <3>6. /\ dig' \in File /\ step' \in 0..(Components + 1)
          /\ exe' \in {"apply", "rollback"} /\ snap' \in DocumentFile
          /\ outcome' \in Outcome /\ loop' \in {"running", "ended"}
      BY <3>3 DEF ApplyFailure
    <3>7. UNCHANGED <<doc, backup, stage, converged, patched>>
      BY <2>5 DEF ApplyComponentFails
    <3> QED BY <3>1, <3>2, <3>4, <3>5, <3>6, <3>7
  <2>6. CASE ApplyPauses
    <3>1. current' \in File /\ revisions' \in [Digest -> File]
      BY <2>6, <2>b DEF ApplyPauses
    <3>2. live' \in [Component -> LiveValue]
      BY <2>6 DEF ApplyPauses
    <3> QED BY <2>6, <3>1, <3>2 DEF ApplyPauses
  <2>7. CASE ApplyDone BY <2>7, <2>a DEF ApplyDone
  <2>8. CASE MarkSuccess
    <3>1. doc' \in DocumentFile
      BY <2>8, DocumentOps DEF MarkSuccess
    <3> QED BY <2>8, <3>1 DEF MarkSuccess
  <2>9. CASE RollbackStart
    BY <2>9 DEF RollbackStart, CanRollback, Document
  <2>10. CASE RollbackImpossible BY <2>10 DEF RollbackImpossible
  <2>11. CASE RollbackRestore
    <3>1. snap \in Document /\ snap.last \in Digest
      BY <2>11 DEF RollbackRestore, ControlInv, RollbackInv, Executed
    <3>2. doc' \in DocumentFile
      BY <2>11, <3>1, DocumentOps DEF RollbackRestore
    <3> QED BY <2>11, <3>2 DEF RollbackRestore
  <2>12. CASE RecordDegraded
    <3>1. doc' \in DocumentFile
      BY <2>12, DocumentOps DEF RecordDegraded
    <3> QED BY <2>12, <3>1 DEF RecordDegraded
  <2> QED
    BY <1>4, <2>1, <2>2, <2>3, <2>4, <2>5, <2>6, <2>7, <2>8, <2>9, <2>10,
       <2>11, <2>12
    DEF Apply
<1>5. CASE DriftCommands
  <2> USE DEF Goto, Finish, Fault, local, cluster, env, store, bundles
  <2>1. CASE CommitPatches BY <2>1 DEF CommitPatches, Drifted
  <2>2. CASE CommitFails BY <2>2 DEF CommitFails, Drifted
  <2>3. CASE ObserveState
    <3>0. Compared \subseteq Digest BY DEF Compared
    <3>1. doc' \in DocumentFile
      BY <2>3, <3>0, DocumentOps DEF ObserveState, Observations, ClusterState
    <3> QED BY <2>3, <3>1 DEF ObserveState
  <2>4. CASE ObserveFails BY <2>4 DEF ObserveFails
  <2>5. CASE RevertTargets BY <2>5 DEF RevertTargets, Reverted
  <2>6. CASE RevertFails
    <3>1. live' \in [Component -> LiveValue]
      BY <2>6 DEF RevertFails, Reverted
    <3>2. UNCHANGED env \/ Fault BY <2>6 DEF RevertFails
    <3> QED BY <2>6, <3>1, <3>2 DEF RevertFails
  <2> QED BY <1>5, <2>1, <2>2, <2>3, <2>4, <2>5, <2>6 DEF DriftCommands
<1>6. CASE Environment
  <2> USE DEF Finish, Fault, local, proc, cluster, store
  <2>1. CASE Crash BY <2>1 DEF Crash
  <2>2. CASE Drift BY <2>2 DEF Drift, Component
  <2>3. CASE StartAgent BY <2>3 DEF StartAgent, env
  <2>4. CASE RetargetAgent BY <2>4 DEF RetargetAgent
  <2> QED BY <1>6, <2>1, <2>2, <2>3, <2>4 DEF Environment
<1>7. CASE UNCHANGED vars
  BY <1>7 DEF vars, store, cluster, proc, env, local
<1> QED BY <1>1, <1>2, <1>3, <1>4, <1>5, <1>6, <1>7 DEF Next

-----------------------------------------------------------------------------
(***************************************************************************)
(* Which steps write the revision store, and which the document: every     *)
(* other step leaves them alone.                                           *)
(***************************************************************************)
LEMMA RevisionsFrame ==
    ASSUME [Next]_vars
    PROVE  \/ PromoteRevision \/ ApplyComponent \/ ApplyComponentFails
           \/ ApplyPauses \/ UNCHANGED revisions
BY DEF Next, RunOnce, Commands, SyncRender, SyncApply, SyncCommit, SyncStatus,
       SyncRevert, Command, Begin, Materialize, RenderBundle, FileStepFails,
       MirrorBundle, CopyBundle, PromoteBundleBackup, PromoteBundleInstall,
       PromoteBundleRestore, PromoteBundleCleanup, PersistRendered, Apply,
       ApplyStart, ApplyRejected, ApplyPreflightFails, ApplyDone, MarkSuccess,
       RollbackStart, RollbackImpossible, RollbackRestore, RecordDegraded,
       DriftCommands, CommitPatches, CommitFails, ObserveState, ObserveFails,
       RevertTargets, RevertFails, Environment, Crash, Drift, StartAgent,
       RetargetAgent, vars, store, bundles

\* Only a render, a mark, a restore, a failure record or an observation
\* saves the document (the callers of SaveAppliedRevision).
LEMMA DocumentFrame ==
    ASSUME [Next]_vars
    PROVE  \/ PersistRendered \/ MarkSuccess \/ RollbackRestore
           \/ RecordDegraded \/ ObserveState \/ UNCHANGED doc
BY DEF Next, RunOnce, Commands, SyncRender, SyncApply, SyncCommit, SyncStatus,
       SyncRevert, Command, Begin, Materialize, RenderBundle, FileStepFails,
       PromoteRevision, MirrorBundle, CopyBundle, PromoteBundleBackup,
       PromoteBundleInstall, PromoteBundleRestore, PromoteBundleCleanup,
       Apply, ApplyStart, ApplyRejected, ApplyPreflightFails, ApplyComponent,
       ApplyComponentFails, ApplyPauses, ApplyDone, RollbackStart,
       RollbackImpossible, DriftCommands, CommitPatches, CommitFails,
       ObserveFails, RevertTargets, RevertFails, Environment, Crash, Drift,
       StartAgent, RetargetAgent, vars, store

\* What converged is never forgotten.
LEMMA ConvergedGrows ==
    ASSUME [Next]_vars
    PROVE  converged \subseteq converged'
BY DEF Next, RunOnce, Commands, SyncRender, SyncApply, SyncCommit, SyncStatus,
       SyncRevert, Command, Begin, Materialize, RenderBundle, FileStepFails,
       PromoteRevision, MirrorBundle, CopyBundle, PromoteBundleBackup,
       PromoteBundleInstall, PromoteBundleRestore, PromoteBundleCleanup,
       PersistRendered, Apply, ApplyStart, ApplyRejected, ApplyPreflightFails,
       ApplyComponent, ApplyComponentFails, ApplyPauses, ApplyDone,
       MarkSuccess, RollbackStart, RollbackImpossible, RollbackRestore,
       RecordDegraded, DriftCommands, CommitPatches, CommitFails,
       ObserveState, ObserveFails, RevertTargets, RevertFails, Environment,
       Crash, Drift, StartAgent, RetargetAgent, vars, cluster

(***************************************************************************)
(* How the process gets to execute components, to mark success and through *)
(* the restoring half of a rollback.  A step that leaves it where it is    *)
(* writes no file and changes no component.                                *)
(***************************************************************************)
LEMMA ExecEntry ==
    ASSUME TypeOK, [Next]_vars, pc' = "exec"
    PROVE  \/ ApplyStart \/ ApplyComponent \/ RollbackStart
           \/ UNCHANGED <<store, cluster, proc>>
<1> USE DEF Goto, Fail, Finish
<1>1. CASE RunOnce BY <1>1 DEF RunOnce, Begin
<1>2. CASE Commands
  BY <1>2 DEF Commands, SyncRender, SyncApply, SyncCommit, SyncStatus,
              SyncRevert, Command, Begin
<1>3. CASE Materialize
  BY <1>3 DEF Materialize, RenderBundle, FileStepFails, PromoteRevision,
       MirrorBundle, CopyBundle, PromoteBundleBackup, PromoteBundleInstall,
       PromoteBundleRestore, PromoteBundleCleanup, PersistRendered
<1>4. CASE Apply
  BY <1>4 DEF Apply, ApplyRejected, ApplyPreflightFails, ApplyComponentFails,
       ApplyFailure, ApplyPauses, ApplyDone, MarkSuccess, RollbackImpossible,
       RollbackRestore, RecordDegraded
<1>5. CASE DriftCommands
  BY <1>5 DEF DriftCommands, CommitPatches, CommitFails, ObserveState,
       ObserveFails, RevertTargets, RevertFails
<1>6. CASE Environment
  BY <1>6 DEF Environment, Crash, Drift, StartAgent, RetargetAgent
<1>7. CASE UNCHANGED vars BY <1>7 DEF vars
<1> QED BY <1>1, <1>2, <1>3, <1>4, <1>5, <1>6, <1>7 DEF Next

\* A process is about to mark success only after the last component of an
\* apply, or after a rollback restored the document.
LEMMA MarkEntry ==
    ASSUME TypeOK, [Next]_vars, pc' = "mark"
    PROVE  \/ ApplyDone \/ RollbackRestore
           \/ UNCHANGED <<store, cluster, proc>>
<1> USE DEF Goto, Fail, Finish
<1>1. CASE RunOnce BY <1>1 DEF RunOnce, Begin
<1>2. CASE Commands
  BY <1>2 DEF Commands, SyncRender, SyncApply, SyncCommit, SyncStatus,
              SyncRevert, Command, Begin
<1>3. CASE Materialize
  BY <1>3 DEF Materialize, RenderBundle, FileStepFails, PromoteRevision,
       MirrorBundle, CopyBundle, PromoteBundleBackup, PromoteBundleInstall,
       PromoteBundleRestore, PromoteBundleCleanup, PersistRendered
<1>4. CASE Apply
  BY <1>4 DEF Apply, ApplyStart, ApplyRejected, ApplyPreflightFails,
       ApplyComponent, ApplyComponentFails, ApplyFailure, ApplyPauses,
       MarkSuccess, RollbackStart, RollbackImpossible, RecordDegraded
<1>5. CASE DriftCommands
  BY <1>5 DEF DriftCommands, CommitPatches, CommitFails, ObserveState,
       ObserveFails, RevertTargets, RevertFails
<1>6. CASE Environment
  BY <1>6 DEF Environment, Crash, Drift, StartAgent, RetargetAgent
<1>7. CASE UNCHANGED vars BY <1>7 DEF vars
<1> QED BY <1>1, <1>2, <1>3, <1>4, <1>5, <1>6, <1>7 DEF Next

\* A process that is rolling back stays on the path to "mark", or fails.
RollbackPath == {"mirror", "copy", "backup", "install", "cleanup", "restore"}

\* A process is rolling back only from RollbackStart on, and until it has
\* finished it restores the revision it started with.
LEMMA RollbackEntry ==
    ASSUME TypeOK, ControlInv, [Next]_vars,
           RollingBack', pc' \in RollbackPath
    PROVE  /\ RollingBack
           /\ UNCHANGED <<doc, live, converged, dig, step, snap>> \/ ApplyDone
           /\ \/ ApplyDone
              \/ pc \in RollbackPath
           /\ UNCHANGED revisions \/ PromoteRevision
<1> USE DEF Goto, Fail, Finish, RollingBack, RollbackPath, local, store,
            cluster, bundles, ControlInv
<1>1. CASE RunOnce BY <1>1 DEF RunOnce, Begin
<1>2. CASE Commands
  BY <1>2 DEF Commands, SyncRender, SyncApply, SyncCommit, SyncStatus,
              SyncRevert, Command, Begin
<1>3. CASE Materialize
  BY <1>3 DEF Materialize, RenderBundle, FileStepFails, PromoteRevision,
       MirrorBundle, CopyBundle, PromoteBundleBackup, PromoteBundleInstall,
       PromoteBundleRestore, PromoteBundleCleanup, PersistRendered
<1>4. CASE Apply
  BY <1>4 DEF Apply, ApplyStart, ApplyRejected, ApplyPreflightFails,
       ApplyComponent, ApplyComponentFails, ApplyFailure, ApplyPauses,
       ApplyDone, MarkSuccess, RollbackStart, RollbackImpossible,
       RollbackRestore, RecordDegraded
<1>5. CASE DriftCommands
  BY <1>5 DEF DriftCommands, CommitPatches, CommitFails, ObserveState,
       ObserveFails, RevertTargets, RevertFails
<1>6. CASE Environment
  BY <1>6 DEF Environment, Crash, Drift, StartAgent, RetargetAgent, proc
<1>7. CASE UNCHANGED vars BY <1>7 DEF vars, proc
<1> QED BY <1>1, <1>2, <1>3, <1>4, <1>5, <1>6, <1>7 DEF Next

\* Every step keeps the control states in which the process may be rolling
\* back or has a digest at hand.
LEMMA ControlStep ==
    ASSUME TypeOK, ControlInv, RollbackInv, [Next]_vars
    PROVE  ControlInv'
<1> USE LifecycleAssumption, NoneAssumption
    DEF Goto, Fail, Finish, RollingBack, local, ControlInv
<1>1. CASE RunOnce BY <1>1 DEF RunOnce, Begin, TypeOK
<1>2. CASE Commands
  BY <1>2 DEF Commands, SyncRender, SyncApply, SyncCommit, SyncStatus,
              SyncRevert, Command, Begin
<1>3. CASE Materialize
  BY <1>3 DEF Materialize, RenderBundle, FileStepFails, PromoteRevision,
       MirrorBundle, CopyBundle, PromoteBundleBackup, PromoteBundleInstall,
       PromoteBundleRestore, PromoteBundleCleanup, PersistRendered
<1>4. CASE Apply
  BY <1>4 DEF Apply, ApplyStart, ApplyRejected, ApplyPreflightFails,
       ApplyComponent, ApplyComponentFails, ApplyFailure, ApplyPauses,
       ApplyDone, MarkSuccess, RollbackStart, RollbackImpossible,
       RollbackRestore, RecordDegraded, RollbackInv, Executed
<1>5. CASE DriftCommands
  BY <1>5 DEF DriftCommands, CommitPatches, CommitFails, ObserveState,
       ObserveFails, RevertTargets, RevertFails, TypeOK, File, Drifted
<1>6. CASE Environment
  BY <1>6 DEF Environment, Crash, Drift, StartAgent, RetargetAgent, proc
<1>7. CASE UNCHANGED vars BY <1>7 DEF vars, proc
<1> QED BY <1>1, <1>2, <1>3, <1>4, <1>5, <1>6, <1>7 DEF Next

-----------------------------------------------------------------------------
\* What the executor reads while it applies components matches the digest.
LEMMA BundleMatches ==
    ASSUME TypeOK, StoreInv, ApplyInv, RollbackInv, pc = "exec"
    PROVE  /\ dig \in Digest
           /\ BundleDir # None => Matches(BundleDir, dig)
BY DEF TypeOK, StoreInv, ApplyInv, RollbackInv, Executed, BundleDir,
       RollingBack

\* Rendering, and making hooks executable during a rollback, keep under each
\* digest of the revision store what was rendered for it.
LEMMA StoreStep ==
    ASSUME TypeOK, StoreInv, ApplyInv, RollbackInv, ControlInv, [Next]_vars
    PROVE  StoreInv'
<1>1. CASE PromoteRevision
  BY <1>1 DEF PromoteRevision, StoreInv, Matches, TypeOK, ControlInv
<1>2. CASE ApplyComponent \/ ApplyComponentFails \/ ApplyPauses
  <2>1. /\ pc = "exec"
        /\ UNCHANGED revisions \/ (BundleDir # None /\ MaybeFixHooks)
    BY <1>2 DEF ApplyComponent, ApplyComponentFails, ApplyPauses
  <2>2. CASE UNCHANGED revisions BY <2>2 DEF StoreInv, Matches
  <2>3. CASE BundleDir # None /\ MaybeFixHooks
    <3>1. dig \in Digest /\ Matches(BundleDir, dig)
      BY <2>1, <2>3, BundleMatches
    <3>2. \A y \in {BundleDir, HookFixed[BundleDir]} : Matches(y, dig)
      BY <3>1, MatchesFixed
    <3> QED
      BY <2>3, <3>1, <3>2 DEF MaybeFixHooks, StoreInv, TypeOK, Matches
  <2> QED BY <2>1, <2>2, <2>3
<1>3. CASE UNCHANGED revisions BY <1>3 DEF StoreInv, Matches
<1> QED BY <1>1, <1>2, <1>3, RevisionsFrame

\* Every save of the document keeps its last successful revision among the
\* ones that converged.
LEMMA RecordStep ==
    ASSUME TypeOK, RecordInv, RollbackInv, MarkInv, ControlInv, [Next]_vars
    PROVE  RecordInv'
<1> USE ConvergedGrows, NoneAssumption DEF RecordInv
<1>1. CASE PersistRendered
  BY <1>1 DEF PersistRendered, PersistRenderedState, TypeOK, DocumentFile,
              Document
<1>2. CASE MarkSuccess
  BY <1>2 DEF MarkSuccess, MarkSuccessfulApply, MarkInv
<1>3. CASE RollbackRestore
  BY <1>3 DEF RollbackRestore, RestoreSnapshot, RollbackInv, ControlInv,
              TypeOK, DocumentFile, Document
<1>4. CASE RecordDegraded
  BY <1>4 DEF RecordDegraded, MarkDegraded, TypeOK, DocumentFile, Document
<1>5. CASE ObserveState
  BY <1>5 DEF ObserveState, PersistObservedState, TypeOK, DocumentFile,
              Document
<1>6. CASE UNCHANGED doc BY <1>6
<1> QED BY <1>1, <1>2, <1>3, <1>4, <1>5, <1>6, DocumentFrame

\* While an apply executes, the document, the current bundle and the
\* components already applied stay those of the revision it executes.
LEMMA ApplyStep ==
    ASSUME IInv, [Next]_vars
    PROVE  ApplyInv'
<1> SUFFICES ASSUME pc' = "exec", ~RollingBack'
             PROVE  /\ doc' # None /\ doc'.spec = dig'
                    /\ Matches(current', dig')
                    /\ Executed'
  BY DEF ApplyInv, Matches
<1> USE DEF IInv
<1>1. CASE ApplyStart
  <2>1. doc' # None /\ doc'.spec = dig' /\ current' = dig' /\ dig' \in Digest
    BY <1>1 DEF ApplyStart, TypeOK, File, store
  <2>2. Executed'
    BY <1>1, <2>1 DEF ApplyStart, Executed, Component
  <2> QED BY <2>1, <2>2 DEF Matches
<1>2. CASE ApplyComponent
  <2>1. ~RollingBack /\ pc = "exec" /\ UNCHANGED <<doc, dig>>
    BY <1>2 DEF ApplyComponent, RollingBack
  <2>2. dig \in Digest /\ Matches(current, dig) /\ BundleDir = current
    BY <2>1 DEF ApplyInv, Executed, BundleDir
  <2>3. Matches(current', dig)
    BY <1>2, <2>1, <2>2, MatchesFixed DEF ApplyComponent, MaybeFixHooks
  <2>4. Executed'
    BY <1>2, <2>1, <2>2 DEF ApplyComponent, ApplyInv, Executed, Matches,
                            Component, TypeOK
  <2> QED BY <2>1, <2>3, <2>4 DEF ApplyInv
<1>3. CASE RollbackStart BY <1>3 DEF RollbackStart, RollingBack
<1>4. CASE UNCHANGED <<store, cluster, proc>>
  BY <1>4 DEF store, cluster, proc, local, ApplyInv, Executed, Matches,
              RollingBack
<1> QED BY <1>1, <1>2, <1>3, <1>4, ExecEntry

\* Until a rollback saves the document, that is the document it loaded, and
\* the revision it restores is stored and converged.
LEMMA RollbackStep ==
    ASSUME IInv, [Next]_vars
    PROVE  RollbackInv'
<1> DEFINE Goal == /\ doc' = snap' /\ snap' # None
                   /\ dig' = snap'.last /\ dig' \in converged'
                   /\ revisions'[dig'] # None
                   /\ Executed'
                   /\ pc' # "exec" => ClusterAt(dig)'
<1> SUFFICES ASSUME RollingBack', pc' \in {"exec"} \cup RollbackPath
             PROVE  Goal
  BY DEF RollbackInv, RollbackPath
<1> USE DEF IInv
<1>1. CASE pc' = "exec"
  <2>1. CASE ApplyStart BY <2>1 DEF ApplyStart, ControlInv, RollingBack
  <2>2. CASE ApplyComponent
    <3>1. RollingBack /\ pc = "exec" /\ UNCHANGED <<doc, dig, snap, converged>>
      BY <2>2 DEF ApplyComponent, RollingBack
    <3>2. dig \in Digest /\ Matches(BundleDir, dig)
      BY <2>2, <3>1, BundleMatches DEF ApplyComponent
    <3>3. revisions'[dig] # None
      BY <2>2, <3>1, <3>2, MatchesFixed, NoneAssumption
      DEF ApplyComponent, MaybeFixHooks, TypeOK
    <3>4. Executed'
      BY <2>2, <3>1, <3>2 DEF ApplyComponent, RollbackInv, Executed, Matches,
                              Component, TypeOK
    <3> QED BY <1>1, <3>1, <3>3, <3>4 DEF RollbackInv
  <2>3. CASE RollbackStart
    <3>1. /\ snap' = doc /\ doc' = doc /\ doc # None /\ dig' = doc.last
          /\ doc.last # None /\ revisions[doc.last] # None /\ step' = 1
          /\ UNCHANGED <<revisions, converged, live>>
      BY <2>3 DEF RollbackStart, CanRollback, store, cluster
    <3>2. dig' \in converged' /\ dig' \in Digest
      BY <3>1 DEF RecordInv, TypeOK
    <3>3. Executed'
      BY <3>1, <3>2 DEF Executed, Component
    <3> QED BY <1>1, <3>1, <3>2, <3>3
  <2>4. CASE UNCHANGED <<store, cluster, proc>>
    BY <1>1, <2>4 DEF store, cluster, proc, local, RollbackInv, Executed,
                      Matches, RollingBack
  <2> QED BY <1>1, <2>1, <2>2, <2>3, <2>4, ExecEntry
<1>2. CASE pc' \in RollbackPath
  <2>1. RollingBack BY <1>2, RollbackEntry
  <2>2. ~PromoteRevision
    BY <2>1 DEF PromoteRevision, ControlInv
  <2>3. UNCHANGED revisions BY <1>2, <2>2, RollbackEntry
  <2>4. CASE ApplyDone
    <3>1. /\ pc = "exec" /\ step > Components
          /\ UNCHANGED <<doc, live, dig, step, snap>>
          /\ converged \subseteq converged'
      BY <2>4 DEF ApplyDone, Goto, local, store
    <3>2. ClusterAt(dig)
      BY <2>1, <3>1, LifecycleAssumption
      DEF RollbackInv, Executed, ClusterAt, Component, TypeOK
    <3>3. Executed' /\ ClusterAt(dig)'
      BY <2>1, <3>1, <3>2 DEF RollbackInv, Executed, ClusterAt, Matches
    <3> QED BY <2>1, <2>3, <3>1, <3>3 DEF RollbackInv
  <2>5. CASE ~ApplyDone
    <3>1. /\ UNCHANGED <<doc, live, converged, dig, step, snap>>
          /\ pc \in RollbackPath
      BY <1>2, <2>5, RollbackEntry
    <3>2. Executed' /\ ClusterAt(dig)'
      BY <2>1, <3>1 DEF RollbackInv, Executed, ClusterAt, Matches,
                        RollbackPath
    <3> QED BY <2>1, <2>3, <3>1, <3>2 DEF RollbackInv, RollbackPath
  <2> QED BY <2>4, <2>5
<1> QED BY <1>1, <1>2

\* What is about to be marked successful has converged and is what every
\* component of the cluster was given.
LEMMA MarkStep ==
    ASSUME IInv, [Next]_vars
    PROVE  MarkInv'
<1> SUFFICES ASSUME pc' = "mark"
             PROVE  /\ doc' # None
                    /\ doc'.spec = dig' /\ dig' \in converged'
                    /\ ClusterAt(dig)'
                    /\ RollingBack' => doc'.last = dig'
  BY DEF MarkInv
<1> USE DEF IInv
<1>1. CASE ApplyDone
  <2>1. /\ pc = "exec" /\ ~RollingBack /\ step > Components
        /\ UNCHANGED <<doc, live, dig, exe>>
    BY <1>1 DEF ApplyDone, Goto, store, local
  <2>2. doc # None /\ doc.spec = dig /\ ClusterAt(dig)
    BY <2>1, LifecycleAssumption
    DEF ApplyInv, Executed, ClusterAt, Component, TypeOK
  <2>3. dig \in converged'
    BY <1>1, <2>2 DEF ApplyDone
  <2> QED BY <2>1, <2>2, <2>3 DEF ClusterAt, Matches, RollingBack
<1>2. CASE RollbackRestore
  <2>1. /\ pc = "restore" /\ doc' = RestoreSnapshot(snap)
        /\ UNCHANGED <<live, converged, dig>>
    BY <1>2 DEF RollbackRestore, cluster, Goto, local
  <2>2. /\ snap \in Document /\ dig = snap.last
        /\ dig \in converged /\ ClusterAt(dig)
    BY <2>1 DEF RollbackInv, ControlInv, TypeOK, DocumentFile
  <2>3. doc' # None /\ doc'.spec = dig /\ doc'.last = dig
    <3>1. doc' \in Document /\ doc'.spec = dig /\ doc'.last = dig
      BY <2>1, <2>2, TypeStep
      DEF RestoreSnapshot, TypeOK, Document, DocumentFile, ClusterState
    <3> QED BY <3>1, NoneAssumption
  <2> QED BY <2>1, <2>2, <2>3 DEF ClusterAt, Matches
<1>3. CASE UNCHANGED <<store, cluster, proc>>
  BY <1>3 DEF store, cluster, proc, local, MarkInv, ClusterAt, Matches,
              RollingBack
<1> QED BY <1>1, <1>2, <1>3, MarkEntry

(***************************************************************************)
(* The revision store only grows: no step takes a stored revision away.    *)
(***************************************************************************)
LEMMA RevisionsKept ==
    ASSUME IInv, [Next]_vars, NEW d \in Digest, revisions[d] # None
    PROVE  revisions'[d] # None
<1> USE LifecycleAssumption, NoneAssumption DEF IInv, TypeOK
<1>1. CASE PromoteRevision
  BY <1>1 DEF PromoteRevision, ControlInv
<1>2. CASE ApplyComponent \/ ApplyComponentFails \/ ApplyPauses
  <2>1. /\ pc = "exec"
        /\ UNCHANGED revisions \/ (BundleDir # None /\ MaybeFixHooks)
    BY <1>2 DEF ApplyComponent, ApplyComponentFails, ApplyPauses
  <2>2. CASE BundleDir # None /\ MaybeFixHooks
    <3>1. dig \in Digest /\ Matches(BundleDir, dig)
      BY <2>1, <2>2, BundleMatches
    <3>2. \A y \in {BundleDir, HookFixed[BundleDir]} : y # None
      BY <3>1, MatchesFixed
    <3> QED BY <2>2, <3>1, <3>2 DEF MaybeFixHooks
  <2> QED BY <2>1, <2>2
<1> QED BY <1>1, <1>2, RevisionsFrame

(***************************************************************************)
(* From the store to the staging directory to the current bundle to the    *)
(* document: what is copied, renamed and recorded matches the digest.      *)
(***************************************************************************)
LEMMA BundleStep ==
    ASSUME IInv, [Next]_vars
    PROVE  BundleInv'
<1> USE LifecycleAssumption, NoneAssumption
    DEF IInv, BundleInv, Goto, Fail, Finish, local, Matches
<1>1. CASE RunOnce BY <1>1 DEF RunOnce, Begin
<1>2. CASE Commands
  BY <1>2 DEF Commands, SyncRender, SyncApply, SyncCommit, SyncStatus,
              SyncRevert, Command, Begin
<1>3. CASE Materialize
  <2> USE DEF bundles, cluster, store
  <2>1. CASE RenderBundle BY <2>1 DEF RenderBundle
  <2>2. CASE FileStepFails BY <2>2 DEF FileStepFails
  <2>3. CASE PromoteRevision
    BY <2>3 DEF PromoteRevision, ControlInv, TypeOK
  <2>4. CASE MirrorBundle BY <2>4 DEF MirrorBundle
  <2>5. CASE CopyBundle
    <3>1. dig \in Digest /\ revisions[dig] # None
      BY <2>5 DEF CopyBundle, ControlInv
    <3>2. stage' \in {dig, HookFixed[dig]}
      BY <2>5, <3>1 DEF CopyBundle, StoreInv
    <3> QED BY <2>5, <3>1, <3>2 DEF CopyBundle
  <2>6. CASE PromoteBundleBackup BY <2>6 DEF PromoteBundleBackup
  <2>7. CASE PromoteBundleInstall BY <2>7 DEF PromoteBundleInstall
  <2>8. CASE PromoteBundleRestore BY <2>8 DEF PromoteBundleRestore
  <2>9. CASE PromoteBundleCleanup BY <2>9 DEF PromoteBundleCleanup
  <2>10. CASE PersistRendered BY <2>10 DEF PersistRendered
  <2> QED
    BY <1>3, <2>1, <2>2, <2>3, <2>4, <2>5, <2>6, <2>7, <2>8, <2>9, <2>10
    DEF Materialize
<1>4. CASE Apply
  <2>1. CASE ApplyDone
    <3>1. CASE RollingBack
      <4>1. pc = "exec" /\ revisions[dig] # None
        BY <2>1, <3>1 DEF ApplyDone, RollbackInv
      <4> QED BY <2>1, <3>1, <4>1 DEF ApplyDone, store
    <3>2. CASE ~RollingBack
      <4>1. pc = "exec" /\ Matches(current, dig)
        BY <2>1, <3>2 DEF ApplyDone, ApplyInv
      <4> QED BY <2>1, <3>2, <4>1 DEF ApplyDone, store
    <3> QED BY <3>1, <3>2
  <2>2. CASE RollbackRestore
    BY <2>2 DEF RollbackRestore, bundles, cluster
  <2> QED
    BY <1>4, <2>1, <2>2 DEF Apply, ApplyStart, ApplyRejected,
       ApplyPreflightFails, ApplyComponent, ApplyComponentFails,
       ApplyFailure, ApplyPauses, MarkSuccess, RollbackStart,
       RollbackImpossible, RecordDegraded
<1>5. CASE DriftCommands
  BY <1>5 DEF DriftCommands, CommitPatches, CommitFails, ObserveState,
       ObserveFails, RevertTargets, RevertFails
<1>6. CASE Environment
  BY <1>6 DEF Environment, Crash, Drift, StartAgent, RetargetAgent, proc,
       store, cluster
<1>7. CASE UNCHANGED vars BY <1>7 DEF vars, proc, store, cluster
<1> QED BY <1>1, <1>2, <1>3, <1>4, <1>5, <1>6, <1>7 DEF Next

\* What "sync commit" made is never forgotten.
LEMMA PatchedGrows ==
    ASSUME [Next]_vars
    PROVE  patched \subseteq patched'
BY DEF Next, RunOnce, Commands, SyncRender, SyncApply, SyncCommit, SyncStatus,
       SyncRevert, Command, Begin, Materialize, RenderBundle, FileStepFails,
       PromoteRevision, MirrorBundle, CopyBundle, PromoteBundleBackup,
       PromoteBundleInstall, PromoteBundleRestore, PromoteBundleCleanup,
       PersistRendered, Apply, ApplyStart, ApplyRejected, ApplyPreflightFails,
       ApplyComponent, ApplyComponentFails, ApplyPauses, ApplyDone,
       MarkSuccess, RollbackStart, RollbackImpossible, RollbackRestore,
       RecordDegraded, DriftCommands, CommitPatches, CommitFails,
       ObserveState, ObserveFails, RevertTargets, RevertFails, Environment,
       Crash, Drift, StartAgent, RetargetAgent, vars, cluster

(***************************************************************************)
(* What a save of the document may put into it: the digest at hand, or     *)
(* revisions the document names already.                                   *)
(***************************************************************************)
LEMMA DocumentStep ==
    ASSUME IInv, [Next]_vars, doc' # None
    PROVE  /\ doc' \in Document
           /\ \/ /\ doc # None
                 /\ {doc'.spec, doc'.last} \subseteq {doc.spec, doc.last}
              \/ /\ PersistRendered
                 /\ doc'.spec = dig
                 /\ doc'.last = IF doc = None THEN None ELSE doc.last
<1> USE NoneAssumption
<1> USE DEF IInv
<1>1. doc' \in Document
  BY TypeStep DEF TypeOK, DocumentFile
<1>2. CASE PersistRendered
  <2>1. doc' = PersistRenderedState(doc, dig) BY <1>2 DEF PersistRendered
  <2> QED
    BY <1>1, <1>2, <2>1
    DEF PersistRenderedState, TypeOK, DocumentFile, Document
<1>3. CASE MarkSuccess
  BY <1>1, <1>3 DEF MarkSuccess, MarkSuccessfulApply
<1>4. CASE RollbackRestore
  <2>1. /\ doc' = RestoreSnapshot(snap) /\ doc = snap /\ snap \in Document
    BY <1>4 DEF RollbackRestore, RollbackInv, ControlInv, TypeOK, DocumentFile
  <2> QED BY <1>1, <2>1 DEF RestoreSnapshot, Document
<1>5. CASE RecordDegraded \/ ObserveState
  BY <1>1, <1>5 DEF RecordDegraded, MarkDegraded, ObserveState,
     PersistObservedState, TypeOK, DocumentFile, Document
<1>6. CASE UNCHANGED doc BY <1>1, <1>6
<1> QED BY <1>2, <1>3, <1>4, <1>5, <1>6, DocumentFrame

\* Every revision a save puts into the document is stored or was patched.
LEMMA RetainedStep ==
    ASSUME IInv, [Next]_vars
    PROVE  RetainedInv'
<1> SUFFICES ASSUME doc' # None,
                    NEW d \in {doc'.spec, doc'.last},
                    d # None, d \notin patched'
             PROVE  revisions'[d] # None
  BY DEF RetainedInv
<1>1. doc' \in Document /\ d \in Digest /\ d \notin patched
  BY DocumentStep, PatchedGrows DEF Document
<1>2. CASE doc # None /\ d \in {doc.spec, doc.last}
  BY <1>1, <1>2, RevisionsKept DEF IInv, RetainedInv
<1>3. CASE PersistRendered /\ d = dig
  BY <1>1, <1>3, RevisionsKept DEF IInv, BundleInv, PersistRendered
<1> QED BY <1>1, <1>2, <1>3, DocumentStep

\* Nothing is reported while a command runs, and nothing but a command or an
\* edit by hand changes what an apply reported.
LEMMA FinishedStep ==
    ASSUME IInv, [Next]_vars
    PROVE  FinishedInv'
<1> USE DEF IInv
<1> DEFINE Agrees == /\ doc.state = "Clean"
                     /\ doc.spec = doc.last
                     /\ Matches(current, doc.last)
                     /\ ClusterAt(doc.last)
<1> SUFFICES /\ pc' # "idle" => outcome' = "none"
             /\ outcome' \in {"Applied", "RolledBack"} => doc' # None /\ Agrees'
  BY DEF FinishedInv, FinishedApplyAgrees
<1>1. CASE MarkSuccess
  <2>1. /\ pc = "mark" /\ doc # None /\ doc' = MarkSuccessfulApply(doc)
        /\ UNCHANGED <<current, live>> /\ pc' = "idle"
    BY <1>1 DEF MarkSuccess, bundles, cluster, Finish
  <2>2. doc.spec = dig /\ Matches(current, dig) /\ ClusterAt(dig)
    BY <2>1 DEF MarkInv, BundleInv
  <2>3. /\ doc' \in Document /\ doc' # None /\ doc'.state = "Clean"
        /\ doc'.spec = dig /\ doc'.last = dig
    BY <2>1, <2>2, DocumentOps, NoneAssumption
    DEF MarkSuccessfulApply, TypeOK
  <2> QED BY <2>1, <2>2, <2>3 DEF Matches, ClusterAt
<1>2. CASE pc = "idle" /\ UNCHANGED <<store, cluster, pc, outcome>>
  BY <1>2 DEF store, cluster, Matches, ClusterAt, FinishedInv,
     FinishedApplyAgrees
<1>3. \/ MarkSuccess
      \/ pc = "idle" /\ UNCHANGED <<store, cluster, pc, outcome>>
      \/ UNCHANGED <<store, cluster, pc, outcome>>
      \/ outcome' \notin {"Applied", "RolledBack"} /\
             (pc' # "idle" => outcome' = "none")
  <2> USE DEF Goto, Fail, Finish, FinishedInv
  <2>1. CASE RunOnce BY <2>1 DEF RunOnce, Begin
  <2>2. CASE Commands
    BY <2>2 DEF Commands, SyncRender, SyncApply, SyncCommit, SyncStatus,
                SyncRevert, Command, Begin
  <2>3. CASE Materialize
    BY <2>3 DEF Materialize, RenderBundle, FileStepFails, PromoteRevision,
         MirrorBundle, CopyBundle, PromoteBundleBackup, PromoteBundleInstall,
         PromoteBundleRestore, PromoteBundleCleanup, PersistRendered
  <2>4. CASE Apply
    BY <2>4 DEF Apply, ApplyStart, ApplyRejected, ApplyPreflightFails,
         ApplyComponent, ApplyComponentFails, ApplyFailure, ApplyPauses,
         ApplyDone, RollbackStart, RollbackImpossible, RollbackRestore,
         RecordDegraded
  <2>5. CASE DriftCommands
    BY <2>5 DEF DriftCommands, CommitPatches, CommitFails, ObserveState,
         ObserveFails, RevertTargets, RevertFails
  <2>6. CASE Environment
    BY <2>6 DEF Environment, Crash, Drift, StartAgent, RetargetAgent, proc
  <2>7. CASE UNCHANGED vars BY <2>7 DEF vars, proc
  <2> QED BY <2>1, <2>2, <2>3, <2>4, <2>5, <2>6, <2>7 DEF Next
<1>4. CASE UNCHANGED <<store, cluster, pc, outcome>>
  BY <1>4 DEF store, cluster, Matches, ClusterAt, FinishedInv,
     FinishedApplyAgrees
<1> QED BY <1>1, <1>2, <1>3, <1>4

-----------------------------------------------------------------------------
\* The invariant holds of a cluster no process has worked on.
LEMMA InitInv == Init => IInv
<1> SUFFICES ASSUME Init PROVE IInv OBVIOUS
<1> USE LifecycleAssumption, NoneAssumption
<1>1. TypeOK
  BY DEF Init, TypeOK, DocumentFile, File, LiveValue, PC, Operation, Outcome
<1>2. /\ StoreInv /\ RecordInv /\ ApplyInv /\ RollbackInv /\ MarkInv
      /\ ControlInv /\ BundleInv /\ RetainedInv /\ FinishedInv
  BY DEF Init, StoreInv, RecordInv, ApplyInv, RollbackInv, MarkInv,
         ControlInv, RollingBack, BundleInv, RetainedInv, FinishedInv,
         FinishedApplyAgrees
<1> QED BY <1>1, <1>2 DEF IInv

\* Every step of the process, an operator or the environment preserves the
\* invariant.
LEMMA StepInv == IInv /\ [Next]_vars => IInv'
BY TypeStep, StoreStep, RecordStep, ApplyStep, RollbackStep, MarkStep,
   ControlStep, BundleStep, RetainedStep, FinishedStep
DEF IInv

(***************************************************************************)
(* The inductive invariant of Lifecycle holds in every reachable state.    *)
(***************************************************************************)
THEOREM Invariance == Spec => []IInv
BY InitInv, StepInv, PTL DEF Spec

(***************************************************************************)
(* The files, the cluster and the process always have the types of TypeOK. *)
(***************************************************************************)
THEOREM TypeCorrect == Spec => []TypeOK
<1>1. IInv => TypeOK BY DEF IInv
<1> QED BY <1>1, Invariance, PTL

(***************************************************************************)
(* LastSuccessfulRevision only ever names a revision all of whose          *)
(* components were applied, whatever crashed or failed on the way.         *)
(***************************************************************************)
THEOREM LastSuccessfulIsConverged == Spec => []LastSuccessfulConverged
<1>1. IInv => LastSuccessfulConverged
  BY DEF IInv, RecordInv, LastSuccessfulConverged
<1> QED BY <1>1, Invariance, PTL

(***************************************************************************)
(* Apply and rollback only ever execute the revision that the applied-     *)
(* revision document records as desired, or as last successful.            *)
(***************************************************************************)
THEOREM ExecutionFollowsRecord == Spec => []ExecutesRecordedRevision
<1>1. IInv => ExecutesRecordedRevision
  <2> SUFFICES ASSUME IInv, pc = "exec"
               PROVE  /\ doc # None
                      /\ dig = IF RollingBack THEN doc.last ELSE doc.spec
                      /\ Matches(BundleDir, dig)
    BY DEF ExecutesRecordedRevision
  <2> USE DEF IInv
  <2>1. CASE RollingBack
    <3>1. doc # None /\ dig = doc.last /\ revisions[dig] # None
      BY <2>1 DEF RollbackInv
    <3> QED BY <2>1, <3>1, BundleMatches DEF BundleDir
  <2>2. CASE ~RollingBack
    BY <2>2 DEF ApplyInv, BundleDir
  <2> QED BY <2>1, <2>2
<1> QED BY <1>1, Invariance, PTL

(***************************************************************************)
(* When Apply has returned after a success or a rollback, the document,    *)
(* the current bundle and every component agree on one revision.           *)
(***************************************************************************)
THEOREM FinishedAgrees == Spec => []FinishedApplyAgrees
<1>1. IInv => FinishedApplyAgrees BY DEF IInv, FinishedInv
<1> QED BY <1>1, Invariance, PTL

(***************************************************************************)
(* Materialize stores a revision before it records it, and nothing takes   *)
(* it away: a revision of the document that no commit made is stored.      *)
(***************************************************************************)
THEOREM RevisionsRetained == Spec => []RenderedRevisionsRetained
<1>1. IInv => RenderedRevisionsRetained
  <2> SUFFICES ASSUME IInv, doc # None,
                      NEW d \in {doc.spec, doc.last} \ ({None} \cup patched)
               PROVE  Matches(revisions[d], d)
    BY DEF RenderedRevisionsRetained
  <2>1. d \in Digest BY DEF IInv, TypeOK, DocumentFile, Document
  <2> QED BY <2>1 DEF IInv, RetainedInv, StoreInv
<1> QED BY <1>1, Invariance, PTL

(***************************************************************************)
(* The last successful revision is never dropped and changes only to what  *)
(* an apply has just executed completely; an observation calls clean only  *)
(* a revision that the cluster has.                                        *)
(***************************************************************************)
THEOREM RecordIsKept == Spec => RecordKept
<1> USE NoneAssumption
<1> DEFINE Kept == doc # None /\ doc.last # None =>
                     /\ doc' # None
                     /\ doc'.last # None
                     /\ doc'.last # doc.last =>
                            ~RollingBack /\ doc'.last = dig /\ dig \in converged
           Truthful == doc # None /\ doc' # doc /\ doc'.observed = "Clean"
                           /\ pc = "observe" => ClusterAt(doc'.spec)
<1>1. IInv /\ [Next]_vars => [Kept]_vars
  <2> SUFFICES ASSUME IInv, [Next]_vars, doc # None, doc.last # None
               PROVE  /\ doc' # None
                      /\ doc'.last # None
                      /\ doc'.last # doc.last =>
                            ~RollingBack /\ doc'.last = dig /\ dig \in converged
    OBVIOUS
  <2> USE DEF IInv
  <2>1. CASE MarkSuccess
    <3>1. /\ doc.spec = dig /\ dig \in converged /\ dig # None
          /\ RollingBack => doc.last = dig
      BY <2>1 DEF MarkSuccess, MarkInv, TypeOK
    <3>2. doc' \in Document /\ doc'.last = dig
      BY <2>1, <3>1, DocumentOps DEF MarkSuccess, MarkSuccessfulApply, TypeOK
    <3> QED BY <3>1, <3>2
  <2>2. CASE PersistRendered
    <3>1. doc' = PersistRenderedState(doc, dig) /\ dig \in Digest
      BY <2>2 DEF PersistRendered, ControlInv
    <3>2. doc' \in Document /\ doc'.last = doc.last
      BY <3>1, DocumentOps
      DEF PersistRenderedState, TypeOK, DocumentFile, Document
    <3> QED BY <3>2
  <2>3. CASE RollbackRestore
    <3>1. doc' = RestoreSnapshot(snap) /\ doc = snap /\ snap \in Document
      BY <2>3 DEF RollbackRestore, RollbackInv, ControlInv, TypeOK, DocumentFile
    <3>2. doc' \in Document /\ doc'.last = doc.last
      BY <3>1, DocumentOps DEF RestoreSnapshot, Document, TypeOK
    <3> QED BY <3>2
  <2>4. CASE RecordDegraded \/ ObserveState
    <3>1. doc \in Document BY DEF TypeOK, DocumentFile
    <3>2. Compared \subseteq Digest BY DEF Compared, TypeOK, File
    <3>3. \/ doc' = MarkDegraded(doc)
          \/ \E d \in Digest, o \in ClusterState :
                 doc' = PersistObservedState(doc, d, o)
          \/ doc' = doc
      BY <2>4, <3>2
      DEF RecordDegraded, ObserveState, Observations, ClusterState
    <3>4. doc' # None
      BY <3>1, <3>3, DocumentOps DEF TypeOK
    <3>5. doc'.last = doc.last
      BY <3>1, <3>3 DEF MarkDegraded, PersistObservedState, Document
    <3> QED BY <3>4, <3>5
  <2>5. CASE UNCHANGED doc BY <2>5
  <2> QED BY <2>1, <2>2, <2>3, <2>4, <2>5, DocumentFrame
<1>2. IInv /\ [Next]_vars => [Truthful]_vars
  <2> SUFFICES ASSUME IInv, [Next]_vars, doc # None, doc' # doc,
                      doc'.observed = "Clean", pc = "observe"
               PROVE  ClusterAt(doc'.spec)
    OBVIOUS
  <2>1. ObserveState
    BY DocumentFrame DEF PersistRendered, MarkSuccess, RollbackRestore,
       RecordDegraded
  <2>a. PICK b \in Compared : \E s \in Observations(b) :
             doc' = PersistObservedState(doc, b, s)
    BY <2>1 DEF ObserveState
  <2>2. PICK s \in Observations(b) : doc' = PersistObservedState(doc, b, s)
    BY <2>a
  <2>3. doc \in Document BY DEF IInv, TypeOK, DocumentFile
  <2>4. doc.spec = b /\ doc' = [doc EXCEPT !.state = s, !.observed = s]
    BY <2>2 DEF PersistObservedState
  <2>5. doc'.spec = b /\ s = "Clean" BY <2>3, <2>4 DEF Document
  <2> QED BY <2>2, <2>5 DEF Observations
<1>3. Spec => LastSuccessfulKept
  BY <1>1, Invariance, PTL DEF Spec, LastSuccessfulKept
<1>4. Spec => ObservedCleanIsTrue
  BY <1>2, Invariance, PTL DEF Spec, ObservedCleanIsTrue
<1> QED BY <1>3, <1>4 DEF RecordKept

(***************************************************************************)
(* Lifecycle implements RevisionLedger: nothing but a wanted revision is   *)
(* called successful, and only while the whole cluster has it.             *)
(***************************************************************************)
THEOREM Refinement == Spec => ImplementsLedger
<1> USE NoneAssumption
<1>1. Init => Ledger!Init
  BY DEF Init, Ledger!Init
<1>2. IInv /\ [Next]_vars => [Ledger!Next]_(Ledger!ledger)
  <2> SUFFICES ASSUME IInv, [Next]_vars
               PROVE  [Ledger!Next]_(Ledger!ledger)
    OBVIOUS
  <2> USE DEF IInv
  <2> DEFINE At == {d \in Digest : ClusterAt(d)}
  <2>1. CASE UNCHANGED doc
    <3>1. At' \subseteq Digest OBVIOUS
    <3> QED BY <2>1, <3>1 DEF Ledger!Next, Ledger!Change
  <2>2. ASSUME UNCHANGED live PROVE At' = At
    BY <2>2 DEF ClusterAt, Matches
  <2>3. CASE PersistRendered
    <3>1. /\ doc' = PersistRenderedState(doc, dig) /\ dig \in Digest
          /\ UNCHANGED live
      BY <2>3 DEF PersistRendered, ControlInv, cluster
    <3>2. /\ doc' \in Document /\ doc' # None /\ doc'.spec = dig
          /\ doc'.last = IF doc = None THEN None ELSE doc.last
      <4>1. doc' \in Document BY <3>1, DocumentOps DEF TypeOK
      <4> QED
        BY <3>1, <4>1 DEF PersistRenderedState, TypeOK, DocumentFile, Document
    <3> QED BY <2>2, <3>1, <3>2 DEF Ledger!Next, Ledger!Want
  <2>4. CASE MarkSuccess
    <3>1. /\ doc # None /\ doc' = MarkSuccessfulApply(doc)
          /\ doc.spec \in At /\ UNCHANGED live
      BY <2>4 DEF MarkSuccess, MarkInv, cluster, TypeOK, DocumentFile, Document
    <3>2. /\ doc' \in Document /\ doc' # None
          /\ doc'.spec = doc.spec /\ doc'.last = doc.spec
      BY <3>1, DocumentOps DEF MarkSuccessfulApply, TypeOK
    <3> QED BY <2>2, <3>1, <3>2 DEF Ledger!Next, Ledger!Bless
  <2>5. CASE RollbackRestore
    <3>1. /\ doc' = RestoreSnapshot(snap) /\ UNCHANGED live
          /\ doc = snap /\ snap \in Document /\ snap.last \in Digest
      BY <2>5 DEF RollbackRestore, RollbackInv, ControlInv, Executed, cluster,
                  TypeOK, DocumentFile
    <3>2. /\ doc' \in Document /\ doc' # None
          /\ doc'.spec = snap.last /\ doc'.last = doc.last
      BY <3>1, DocumentOps DEF RestoreSnapshot, TypeOK, Document
    <3> QED BY <2>2, <3>1, <3>2 DEF Ledger!Next, Ledger!Want
  <2>6. CASE RecordDegraded \/ ObserveState
    <3>1. /\ doc = None => doc' = None
          /\ doc # None => /\ doc' \in Document
                           /\ doc'.spec = doc.spec /\ doc'.last = doc.last
          /\ UNCHANGED live
      BY <2>6 DEF RecordDegraded, ObserveState, MarkDegraded, Observations,
                  PersistObservedState, TypeOK, DocumentFile, Document,
                  ClusterState, AppliedReason, cluster
    <3> QED BY <2>2, <3>1 DEF Ledger!ledger
  <2> QED BY <2>1, <2>3, <2>4, <2>5, <2>6, DocumentFrame
<1> QED BY <1>1, <1>2, Invariance, PTL DEF Spec, ImplementsLedger, Ledger!Spec
=============================================================================
