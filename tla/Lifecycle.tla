------------------------------ MODULE Lifecycle ------------------------------
(***************************************************************************)
(* One process of the distribution lifecycle (a pass of sealos-agent, or   *)
(* one "sealos sync" command at a time) working on the files of one        *)
(* cluster: the applied-revision document, the content-addressed revision  *)
(* store, the current bundle with its backup and staging directories, and  *)
(* what has been applied to the cluster itself.                            *)
(*                                                                         *)
(* Every action is one step that is atomic in the file system (a rename, a *)
(* whole-file save) or one component of an apply; the process may crash    *)
(* between any two of them and starts again from the files.                *)
(***************************************************************************)
EXTENDS AppliedRevision, Naturals

CONSTANTS
    Rendered,    \* digests that rendering a target can produce
    Committed,   \* digests of bundles that "sync commit" edited in place
    HookFixed,   \* content of a bundle once its hooks were made executable
    Components,  \* number of components of a bundle, applied in order
    Mixed,       \* a component some steps of which have been applied
    Foreign,     \* a live component somebody changed by hand
    MaxFaults,   \* bound: crashes, failures, pauses, drifts, new targets
    MaxCommands  \* bound: operator commands besides the agent's passes

(***************************************************************************)
(* DigestBundle covers the permission bits, so giving a hook its x bits    *)
(* changes the digest; doing it twice changes nothing more.                *)
(***************************************************************************)
ASSUME LifecycleAssumption ==
    /\ Rendered \subseteq Digest
    /\ Committed \subseteq Digest
    /\ HookFixed \in [Digest -> Digest]
    /\ \A d \in Digest : HookFixed[HookFixed[d]] = HookFixed[d]
    /\ Components \in Nat \ {0}
    /\ Mixed \notin Digest
    /\ Foreign \notin Digest
    /\ None # Mixed /\ None # Foreign
    /\ MaxFaults \in Nat
    /\ MaxCommands \in Nat

VARIABLES
    doc,        \* applied-revision.yaml, or None
    revisions,  \* bundles/revisions/<digest>: content of each, or None
    current,    \* bundles/current
    backup,     \* bundles/current.bak
    stage,      \* bundles/current.stage, None while absent or incomplete
    live,       \* what each component of the cluster was last given
    converged,  \* history: digests all of whose components were applied
    patched,    \* history: digests "sync commit" gave the bundle it edited
    pc,         \* next step of the process
    op,         \* command being executed
    onFail,     \* rollout failure action of this apply
    dig,        \* digest being rendered, committed, executed or restored
    step,       \* component being applied
    exe,        \* what is executed: an apply or the rollback of one
    snap,       \* document a rollback loaded when it began
    outcome,    \* how the last finished command ended
    loop,       \* whether the agent loop is running
    target,     \* desired revision the agent is configured with
    faults,     \* faults so far
    commands    \* operator commands so far

store   == <<doc, revisions, current, backup, stage>>
bundles == <<revisions, current, backup, stage>>
cluster == <<live, converged, patched>>
local   == <<op, onFail, dig, step, exe, snap>>
proc    == <<pc, local, outcome>>
env     == <<target, faults, commands>>
vars    == <<store, cluster, proc, loop, env>>

Component == 1..Components
File      == Digest \cup {None}
LiveValue == Digest \cup {None, Mixed, Foreign}

PC == {"idle", "render", "promote", "mirror", "copy", "backup", "install",
       "cleanup", "persist", "start", "exec", "rollback", "restore", "mark",
       "degrade", "commit", "observe", "revert"}

Operation == {"none", "agent", "render", "apply", "commit", "status", "revert"}
Outcome   == {"none", "Succeeded", "Applied", "RolledBack", "Paused", "Failed",
              "Crashed"}

TypeOK ==
    /\ doc \in DocumentFile
    /\ revisions \in [Digest -> File]
    /\ current \in File
    /\ backup \in File
    /\ stage \in File
    /\ live \in [Component -> LiveValue]
    /\ converged \subseteq Digest
    /\ patched \subseteq Digest
    /\ pc \in PC
    /\ op \in Operation
    /\ onFail \in {"Stop", "Rollback"}
    /\ dig \in File
    /\ step \in 0..(Components + 1)
    /\ exe \in {"apply", "rollback"}
    /\ snap \in DocumentFile
    /\ outcome \in Outcome
    /\ loop \in {"running", "ended"}
    /\ target \in Rendered
    /\ faults \in 0..MaxFaults
    /\ commands \in 0..MaxCommands

Init ==
    /\ doc = None
    /\ revisions = [d \in Digest |-> None]
    /\ current = None /\ backup = None /\ stage = None
    /\ live = [c \in Component |-> None]
    /\ converged = {} /\ patched = {}
    /\ pc = "idle" /\ op = "none" /\ onFail = "Stop"
    /\ dig = None /\ step = 0 /\ exe = "apply" /\ snap = None
    /\ outcome = "none" /\ loop = "ended"
    /\ target \in Rendered
    /\ faults = 0 /\ commands = 0

-----------------------------------------------------------------------------
\* A content applied or stored for a digest, its hooks fixed or not.
Matches(x, d) == x \in {d, HookFixed[d]}

RollingBack == exe = "rollback"

ClusterAt(d) == \A c \in Component : Matches(live[c], d)

Fault   == faults < MaxFaults /\ faults' = faults + 1
                              /\ UNCHANGED <<target, commands>>

\* The process is done with its command; nothing in memory survives it.  A
\* pause or a rollback also ends the loop of the agent, and so does a crash.
Finish(o) ==
    /\ pc' = "idle" /\ op' = "none" /\ onFail' = "Stop"
    /\ dig' = None /\ step' = 0 /\ exe' = "apply" /\ snap' = None
    /\ outcome' = o
    /\ loop' = IF op = "agent" /\ o \in {"Paused", "RolledBack", "Crashed"}
               THEN "ended" ELSE loop

Goto(l) == pc' = l /\ UNCHANGED <<local, outcome, loop>>

\* An error ends a command; the agent first records it in the document.
Fail == IF op = "agent" THEN Goto("degrade") ELSE Finish("Failed")

-----------------------------------------------------------------------------
(* Commands *)

Begin(o, l) ==
    /\ pc = "idle"
    /\ pc' = l /\ op' = o /\ outcome' = "none"
    /\ UNCHANGED <<exe, step, snap, loop>>
    /\ UNCHANGED <<store, cluster>>

Command(o, l) ==
    /\ commands < MaxCommands
    /\ commands' = commands + 1
    /\ UNCHANGED <<target, faults>>
    /\ Begin(o, l)

\* Runner.runOnce: resolve the configured target, then render and apply it.
RunOnce ==
    /\ loop = "running"
    /\ Begin("agent", "render")
    /\ dig' = target
    /\ onFail' \in {"Stop", "Rollback"}
    /\ UNCHANGED env

SyncRender ==
    /\ Command("render", "render")
    /\ dig' \in Rendered
    /\ UNCHANGED onFail

SyncApply ==
    /\ Command("apply", "start")
    /\ onFail' \in {"Stop", "Rollback"}
    /\ UNCHANGED dig

SyncCommit == Command("commit", "commit") /\ UNCHANGED <<dig, onFail>>
SyncStatus == Command("status", "observe") /\ UNCHANGED <<dig, onFail>>
SyncRevert == Command("revert", "revert") /\ UNCHANGED <<dig, onFail>>

-----------------------------------------------------------------------------
(* Materialize *)

\* The bundle is rendered into a directory of its own and digested.
RenderBundle ==
    /\ pc = "render"
    /\ Goto("promote")
    /\ UNCHANGED <<store, cluster, env>>

\* Resolving or rendering the target fails, or a step on the files: nothing
\* that the step would have written is, but an old backup may be gone.
FileStepFails ==
    /\ pc \in {"render", "promote", "mirror", "copy", "backup", "cleanup",
              "persist", "restore", "mark"}
    /\ Fault
    /\ Fail
    /\ backup' \in IF pc = "backup" THEN {backup, None} ELSE {backup}
    /\ UNCHANGED <<doc, revisions, current, stage, cluster>>

\* A revision that is already stored is reused, whatever it now contains.
PromoteRevision ==
    /\ pc = "promote"
    /\ revisions' = [revisions EXCEPT ![dig] = IF @ = None THEN dig ELSE @]
    /\ Goto("mirror")
    /\ UNCHANGED <<doc, current, backup, stage, cluster, env>>

\* mirrorBundle: remove the old staging directory, then fill a new one.
MirrorBundle ==
    /\ pc = "mirror"
    /\ stage' = None
    /\ Goto("copy")
    /\ UNCHANGED <<doc, revisions, current, backup, cluster, env>>

\* Mutant: the stored revision is moved, not copied.
CopyBundleMoves ==
    /\ pc = "copy"
    /\ stage' = revisions[dig]
    /\ revisions' = [revisions EXCEPT ![dig] = None]
    /\ Goto("backup")
    /\ UNCHANGED <<doc, current, backup, cluster, env>>

CopyBundle ==
    /\ pc = "copy"
    /\ stage' = revisions[dig]
    /\ Goto("backup")
    /\ UNCHANGED <<doc, revisions, current, backup, cluster, env>>

\* promoteBundle: the old backup goes, the current bundle becomes the backup.
PromoteBundleBackup ==
    /\ pc = "backup"
    /\ backup' = current
    /\ current' = None
    /\ Goto("install")
    /\ UNCHANGED <<doc, revisions, stage, cluster, env>>

\* promoteBundle: the staged bundle is renamed into place.
PromoteBundleInstall ==
    /\ pc = "install"
    /\ stage # None
    /\ current' = stage
    /\ stage' = None
    /\ Goto("cleanup")
    /\ UNCHANGED <<doc, revisions, backup, cluster, env>>

\* The rename fails: the backup, if there was a bundle, is renamed back,
\* which may fail as well.
PromoteBundleRestore ==
    /\ pc = "install"
    /\ IF stage = None THEN UNCHANGED env ELSE Fault
    /\ \/ current' = backup /\ backup' = None
       \/ UNCHANGED <<current, backup>>
    /\ Fail
    /\ UNCHANGED <<doc, revisions, stage, cluster>>

PromoteBundleCleanup ==
    /\ pc = "cleanup"
    /\ backup' = None
    /\ Goto(IF RollingBack THEN "restore" ELSE "persist")
    /\ UNCHANGED <<doc, revisions, current, stage, cluster, env>>

\* The desired digest is recorded after the bundle is in place.
PersistRendered ==
    /\ pc = "persist"
    /\ doc' = PersistRenderedState(doc, dig)
    /\ CASE op = "agent"  -> Goto("start")
         [] op = "commit" -> Goto("observe")
         [] OTHER         -> Finish("Succeeded")
    /\ UNCHANGED <<bundles, cluster, env>>

-----------------------------------------------------------------------------
(* Apply *)

\* Mutant: the digest of the bundle is not compared with the document.
ApplyStartUnchecked ==
    /\ pc = "start"
    /\ current # None /\ doc # None
    /\ pc' = "exec" /\ dig' = current /\ step' = 1
    /\ UNCHANGED <<op, onFail, exe, snap, outcome, loop>>
    /\ UNCHANGED <<store, cluster, env>>

\* Apply runs only the bundle whose digest the document records.
ApplyStart ==
    /\ pc = "start"
    /\ current # None /\ doc # None
    /\ doc.spec = current
    /\ pc' = "exec" /\ dig' = current /\ step' = 1
    /\ UNCHANGED <<op, onFail, exe, snap, outcome, loop>>
    /\ UNCHANGED <<store, cluster, env>>

ApplyRejected ==
    /\ pc = "start"
    /\ \/ current = None
       \/ doc = None
       \/ doc # None /\ doc.spec # current
    /\ Fail
    /\ UNCHANGED <<store, cluster, env>>

\* Topology, payload validation or the remote client fails before any change.
ApplyPreflightFails ==
    /\ pc = "start"
    /\ Fault
    /\ Fail
    /\ UNCHANGED <<store, cluster>>

\* The bundle directory the executor reads: the current bundle, or the stored
\* revision itself during a rollback.
BundleDir == IF RollingBack THEN revisions[dig] ELSE current

\* A local hook that is not executable is made so inside that directory.
MaybeFixHooks ==
    \E y \in {BundleDir, HookFixed[BundleDir]} :
        IF RollingBack
        THEN revisions' = [revisions EXCEPT ![dig] = y] /\ UNCHANGED current
        ELSE current' = y /\ UNCHANGED revisions

\* Mutant: the loop over the components runs once too often.
ApplyComponentOvershoots ==
    /\ pc = "exec"
    /\ step <= Components + 1
    /\ BundleDir # None
    /\ live' = [live EXCEPT ![step] = BundleDir]
    /\ MaybeFixHooks
    /\ step' = step + 1
    /\ UNCHANGED <<pc, op, onFail, dig, exe, snap, outcome, loop>>
    /\ UNCHANGED <<doc, backup, stage, converged, patched, env>>

\* applyComponent succeeds for the next component of the bundle.
ApplyComponent ==
    /\ pc = "exec"
    /\ step <= Components
    /\ BundleDir # None
    /\ live' = [live EXCEPT ![step] = BundleDir]
    /\ MaybeFixHooks
    /\ step' = step + 1
    /\ UNCHANGED <<pc, op, onFail, dig, exe, snap, outcome, loop>>
    /\ UNCHANGED <<doc, backup, stage, converged, patched, env>>

\* Mutant: a rollback that fails starts another rollback.
ApplyFailureRetries ==
    IF onFail = "Rollback" THEN Goto("rollback") ELSE Fail

\* Only the first execution of an apply is rolled back.
ApplyFailure ==
    IF onFail = "Rollback" /\ ~RollingBack THEN Goto("rollback") ELSE Fail

\* Any step of a component fails or times out: before it changed anything,
\* with only some hosts or steps done, or in its last health check.
ApplyComponentFails ==
    /\ pc = "exec"
    /\ step <= Components
    /\ IF BundleDir = None
       THEN UNCHANGED <<live, revisions, current, env>>
       ELSE /\ Fault
            /\ MaybeFixHooks
            /\ \E v \in {live[step], Mixed, BundleDir} :
                   live' = [live EXCEPT ![step] = v]
    /\ ApplyFailure
    /\ UNCHANGED <<doc, backup, stage, converged, patched>>

\* The rollout stops after the canary hosts; a rollback has no canary.
ApplyPauses ==
    /\ pc = "exec"
    /\ step <= Components
    /\ ~RollingBack
    /\ BundleDir # None
    /\ Fault
    /\ live' = [live EXCEPT ![step] = Mixed]
    /\ MaybeFixHooks
    /\ Finish("Paused")
    /\ UNCHANGED <<doc, backup, stage, converged, patched>>

\* Mutant: success is recorded although components are left to apply.
ApplyDoneEarly ==
    /\ pc = "exec"
    /\ converged' = converged \cup {d \in {dig} : ClusterAt(d)}
    /\ Goto(IF RollingBack THEN "mirror" ELSE "mark")
    /\ UNCHANGED <<store, live, patched, env>>

\* All components are applied.
ApplyDone ==
    /\ pc = "exec"
    /\ step > Components
    /\ converged' = converged \cup {d \in {dig} : ClusterAt(d)}
    /\ Goto(IF RollingBack THEN "mirror" ELSE "mark")
    /\ UNCHANGED <<store, live, patched, env>>

\* MarkSuccessfulApply reloads the document and blesses what it names.
MarkSuccess ==
    /\ pc = "mark"
    /\ doc # None
    /\ doc' = MarkSuccessfulApply(doc)
    /\ Finish(IF RollingBack THEN "RolledBack" ELSE "Applied")
    /\ UNCHANGED <<bundles, cluster, env>>

CanRollback ==
    /\ doc # None
    /\ doc.last # None
    /\ revisions[doc.last] # None

\* rollbackToLastSuccessfulRevision, up to the execution of the old bundle.
RollbackStart ==
    /\ pc = "rollback"
    /\ CanRollback
    /\ pc' = "exec" /\ dig' = doc.last /\ step' = 1
    /\ exe' = "rollback" /\ snap' = doc
    /\ UNCHANGED <<op, onFail, outcome, loop, store, cluster, env>>

\* There is nothing to roll back to, or its topology or a remote client fails.
RollbackImpossible ==
    /\ pc = "rollback"
    /\ IF CanRollback THEN Fault ELSE UNCHANGED env
    /\ Fail
    /\ UNCHANGED <<store, cluster>>

\* Mutant: the rollback marks success without restoring the desired digest.
RollbackRestoreSkipped ==
    /\ pc = "restore"
    /\ doc' = [snap EXCEPT !.state = "Dirty"]
    /\ Goto("mark")
    /\ UNCHANGED <<bundles, cluster, env>>

\* The document loaded when the rollback began is saved with the old digest.
RollbackRestore ==
    /\ pc = "restore"
    /\ doc' = RestoreSnapshot(snap)
    /\ Goto("mark")
    /\ UNCHANGED <<bundles, cluster, env>>

\* markDegraded of the agent; its own failure is only reported.
RecordDegraded ==
    /\ pc = "degrade"
    /\ \/ doc' = MarkDegraded(doc) /\ UNCHANGED env
       \/ UNCHANGED doc /\ Fault
    /\ Finish("Failed")
    /\ UNCHANGED <<bundles, cluster>>

-----------------------------------------------------------------------------
(* Drift: commit, status and revert *)

\* The edits "sync commit" can take over from the live cluster.
Drifted == {live[c] : c \in Component} \cap Committed

\* LocalPatches rewrites files of the current bundle where it is.
CommitPatches ==
    /\ pc = "commit"
    /\ current # None
    /\ \E d \in Drifted \cup {current} :
           current' = d /\ dig' = d /\ patched' = patched \cup {d}
    /\ pc' = "persist"
    /\ UNCHANGED <<op, onFail, step, exe, snap, outcome, loop>>
    /\ UNCHANGED <<doc, revisions, backup, stage, live, converged, env>>

\* Planning fails, or a write in the middle of several.
CommitFails ==
    /\ pc = "commit"
    /\ \/ current = None /\ UNCHANGED <<current, env>>
       \/ /\ current # None /\ Fault
          /\ \E d \in Drifted \cup {current} : current' = d
    /\ Finish("Failed")
    /\ UNCHANGED <<doc, revisions, backup, stage, cluster>>

\* What comparing a bundle with the cluster can report.
Observations(b) ==
    IF ClusterAt(b) THEN {"Clean"} ELSE {"Dirty", "Orphan", "Degraded"}

\* The bundles a command compares: --bundle-dir names any stored one.
Compared ==
    ({current} \cup IF op = "status" THEN {revisions[d] : d \in Digest} ELSE {})
        \ {None}

\* The bundle is compared with the cluster and digested, and the observation
\* saved; commit and revert observe the bundle they worked on.
ObserveState ==
    /\ pc = "observe"
    /\ \E b \in Compared : \E s \in Observations(b) :
           doc' = PersistObservedState(doc, b, s)
    /\ Finish("Succeeded")
    /\ UNCHANGED <<bundles, cluster, env>>

\* There is nothing to compare, or comparing fails.
ObserveFails ==
    /\ pc = "observe"
    /\ IF current = None THEN UNCHANGED env ELSE Fault
    /\ Finish("Failed")
    /\ UNCHANGED <<store, cluster>>

\* The objects and host paths selected may be none, some or all of what has
\* drifted in each component.
Reverted ==
    {new \in [Component -> LiveValue] :
        \A c \in Component :
            \/ new[c] \in {live[c], current}
            \/ new[c] = Mixed /\ live[c] # current}

\* What is selected gets the content of the current bundle back.
RevertTargets ==
    /\ pc = "revert"
    /\ current # None /\ doc # None
    /\ live' \in Reverted
    /\ Goto("observe")
    /\ UNCHANGED <<store, converged, patched, env>>

\* There is nothing to revert to, or reverting fails on the way.
RevertFails ==
    /\ pc = "revert"
    /\ \/ (current = None \/ doc = None) /\ UNCHANGED <<live, env>>
       \/ current # None /\ doc # None /\ Fault /\ live' \in Reverted
    /\ Finish("Failed")
    /\ UNCHANGED <<store, converged, patched>>

-----------------------------------------------------------------------------
(* Environment *)

Crash ==
    /\ pc # "idle"
    /\ Fault
    /\ Finish("Crashed")
    /\ UNCHANGED <<store, cluster>>

\* Somebody edits a component by hand.  An edit during an apply shows the
\* record nothing that an edit right after it does not.
Drift ==
    /\ pc = "idle"
    /\ Fault
    /\ \E c \in Component, v \in Committed \cup {Foreign} :
           live' = [live EXCEPT ![c] = v]
    /\ outcome' = "none"
    /\ UNCHANGED <<store, converged, patched, pc, local, loop>>

\* Whoever runs the agent starts it, for the first time or again.
StartAgent ==
    /\ loop = "ended"
    /\ loop' = "running"
    /\ UNCHANGED <<store, cluster, proc, env>>

RetargetAgent ==
    /\ faults < MaxFaults
    /\ faults' = faults + 1
    /\ target' \in Rendered \ {target}
    /\ UNCHANGED <<store, cluster, proc, loop, commands>>

-----------------------------------------------------------------------------
Materialize ==
    \/ RenderBundle \/ FileStepFails \/ PromoteRevision
    \/ MirrorBundle \/ CopyBundle \/ PromoteBundleBackup
    \/ PromoteBundleInstall \/ PromoteBundleRestore \/ PromoteBundleCleanup
    \/ PersistRendered

Apply ==
    \/ ApplyStart \/ ApplyRejected \/ ApplyPreflightFails
    \/ ApplyComponent \/ ApplyComponentFails \/ ApplyPauses \/ ApplyDone
    \/ MarkSuccess \/ RollbackStart \/ RollbackImpossible \/ RollbackRestore
    \/ RecordDegraded

DriftCommands ==
    \/ CommitPatches \/ CommitFails \/ ObserveState \/ ObserveFails
    \/ RevertTargets \/ RevertFails

Commands ==
    \/ SyncRender \/ SyncApply \/ SyncCommit \/ SyncStatus \/ SyncRevert

Environment == Crash \/ Drift \/ StartAgent \/ RetargetAgent

Next ==
    RunOnce \/ Commands \/ Materialize \/ Apply \/ DriftCommands \/ Environment

Spec == Init /\ [][Next]_vars

(***************************************************************************)
(* A started command keeps running, and so does the loop of a running      *)
(* agent; operators and whoever starts the agent owe nothing.  Faults and  *)
(* commands are bounded, so a behaviour is eventually left to the agent.   *)
(***************************************************************************)
FairSpec == Spec /\ WF_vars(RunOnce \/ Materialize \/ Apply \/ DriftCommands)

-----------------------------------------------------------------------------
(* Properties *)

(***************************************************************************)
(* LastSuccessfulRevision names only revisions all of whose components     *)
(* were applied in one execution (MarkSuccessfulApply is reached only      *)
(* after applyBundle returned without error).                              *)
(***************************************************************************)
LastSuccessfulConverged ==
    doc # None => doc.last \in converged \cup {None}

(***************************************************************************)
(* While components are being applied, the directory they come from holds  *)
(* the revision the document records: the desired one in an apply, the     *)
(* last successful one in a rollback.  No crash between moving the bundle  *)
(* and saving the document may lead to executing anything else.            *)
(***************************************************************************)
ExecutesRecordedRevision ==
    pc = "exec" =>
        /\ doc # None
        /\ dig = IF RollingBack THEN doc.last ELSE doc.spec
        /\ Matches(BundleDir, dig)

(***************************************************************************)
(* When Apply returns, after a success or after a rollback, the document,  *)
(* the current bundle and the cluster agree on one revision.               *)
(***************************************************************************)
FinishedApplyAgrees ==
    outcome \in {"Applied", "RolledBack"} =>
        /\ doc.state = "Clean"
        /\ doc.spec = doc.last
        /\ Matches(current, doc.last)
        /\ ClusterAt(doc.last)

(***************************************************************************)
(* Every revision the document refers to is in the revision store, so a    *)
(* lost current bundle can be made again and a rollback finds its bundle:  *)
(* Materialize stores the revision before it records it.  The exception is *)
(* what "sync commit" made of the current bundle, which is stored nowhere  *)
(* else until it is rendered.                                              *)
(***************************************************************************)
RenderedRevisionsRetained ==
    doc # None =>
        \A d \in {doc.spec, doc.last} \ ({None} \cup patched) :
            Matches(revisions[d], d)

(***************************************************************************)
(* No failure, render, observation, rollback or crash drops the last       *)
(* successful revision; it changes only to the revision that an apply,     *)
(* not a rollback, has just executed completely.                           *)
(***************************************************************************)
LastSuccessfulKept ==
    [][doc # None /\ doc.last # None =>
          /\ doc' # None
          /\ doc'.last # None
          /\ doc'.last # doc.last =>
                 ~RollingBack /\ doc'.last = dig /\ dig \in converged]_vars

(***************************************************************************)
(* A state observed by diff, status, commit or revert is recorded only for *)
(* the bundle it was observed against: an observation never says Clean of  *)
(* a document whose revision the cluster does not have.                    *)
(***************************************************************************)
ObservedCleanIsTrue ==
    [][doc # None /\ doc' # doc /\ doc'.observed = "Clean" /\ pc = "observe"
          => ClusterAt(doc'.spec)]_vars

\* What the document says of the past, both of the above.
RecordKept == LastSuccessfulKept /\ ObservedCleanIsTrue

\* The cluster and its record are at the target.
AtTarget ==
    /\ doc # None
    /\ doc.state = "Clean" /\ doc.spec = target /\ doc.last = target
    /\ ClusterAt(target)

(***************************************************************************)
(* Once faults and operator commands have ended, an agent that is started  *)
(* again whenever it stopped brings the cluster and its record to the      *)
(* target and keeps them there, whatever was left behind by crashes,       *)
(* failed applies, rollbacks, drift and commands.                          *)
(***************************************************************************)
Converges == []<>(loop = "running") => <>[]AtTarget
=============================================================================
