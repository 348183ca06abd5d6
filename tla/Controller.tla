----------------------------- MODULE Controller -----------------------------
(***************************************************************************)
(* sealos-agent --controller (pkg/distribution/controller/reconciler.go)   *)
(* reconciling one DistributionTarget and its DistributionRolloutPolicy:   *)
(* the objects in the API server, the watches and the cache the controller *)
(* reads, its work queue with one worker, and the agent run.               *)
(*                                                                         *)
(* The API server, the cache and the queue are external (Kubernetes and    *)
(* controller-runtime).  The cache trails the API server: every write is   *)
(* an event in a FIFO watch.  Optimistic concurrency is modelled by whether *)
(* the copy a reconcile works on is still at the object's resourceVersion. *)
(* Every status differs from the one before by its LastReconcileTime.      *)
(* A run returns a result together with an error only when it paused or    *)
(* rolled back, so PartiallyFailed does not occur with agent.Runner.       *)
(***************************************************************************)
EXTENDS Naturals, Sequences

CONSTANTS
    Deleted,       \* a deleted object
    RequeueAfter,  \* "yes" if spec.requeueAfter is set
    MaxEdits,      \* bound: changes of the target or the policy by users
    MaxFaults,     \* bound: restarts and failed API calls
    MaxRetry       \* bound: RetryCount is counted up to here

ASSUME ControllerAssumption ==
    /\ RequeueAfter \in {"yes", "no"}
    /\ MaxEdits \in Nat /\ MaxFaults \in Nat /\ MaxRetry \in Nat \ {0}

Phase   == {"", "Succeeded", "Retrying", "Paused", "RollbackHold"}
Outcome == {"none", "Succeeded", "Failed", "Paused", "RolledBack"}

(***************************************************************************)
(* A target: its generation, whether it refers to the policy, and its      *)
(* status.  "policy" is a history value: the version of the policy that    *)
(* the recorded run used (0 for none).                                     *)
(***************************************************************************)
Target ==
    [gen : 1..(MaxEdits + 1), ref : {"yes", "no"},
     phase : Phase, observed : 0..(MaxEdits + 1), retry : 0..MaxRetry,
     policy : 0..MaxEdits]

VARIABLES
    object,       \* the target in the API server, or Deleted
    policy,       \* version of the policy there, 0 while it does not exist
    watch,        \* target versions the cache has not received
    cache,        \* the target in the cache
    policyCache,  \* version of the policy in the cache
    queue,        \* whether the target is in the work queue
    timer,        \* whether a delayed requeue is pending
    worker,       \* "idle", "running" the agent, or about to "update"
    seen,         \* copy of the target the reconcile works on
    current,      \* whether that copy is at the object's resourceVersion
    used,         \* policy version of the run
    outcome,      \* outcome of the run
    succeeded,    \* history: generations that a run applied successfully
    streak,       \* history: failures recorded since the last success
    edits, faults

api     == <<object, policy, watch>>
caches  == <<cache, policyCache>>
work    == <<queue, timer>>
process == <<worker, seen, current, used, outcome>>
history == <<succeeded, streak>>
bounds  == <<edits, faults>>
vars    == <<api, caches, work, process, history, bounds>>

NewTarget(r) ==
    [gen |-> 1, ref |-> r, phase |-> "", observed |-> 0, retry |-> 0,
     policy |-> 0]

TypeOK ==
    /\ object \in Target \cup {Deleted}
    /\ policy \in 0..MaxEdits
    /\ \A i \in DOMAIN watch : watch[i] \in Target \cup {Deleted}
    /\ Len(watch) <= MaxEdits + 1
    /\ cache \in Target \cup {Deleted}
    /\ policyCache \in 0..policy
    /\ queue \in {"empty", "queued"} /\ timer \in {"off", "on"}
    /\ worker \in {"idle", "running", "update"}
    /\ seen \in Target \cup {Deleted}
    /\ current \in {"yes", "no"}
    /\ used \in 0..MaxEdits /\ outcome \in Outcome
    /\ succeeded \subseteq 1..(MaxEdits + 1) /\ streak \in 0..MaxRetry
    /\ edits \in 0..MaxEdits /\ faults \in 0..MaxFaults

\* The controller has listed a new target.
Init ==
    /\ \E r \in {"yes", "no"} : object = NewTarget(r) /\ cache = NewTarget(r)
    /\ policy = 0 /\ watch = <<>> /\ policyCache = 0
    /\ queue = "queued" /\ timer = "off"
    /\ worker = "idle" /\ seen = Deleted /\ current = "no"
    /\ used = 0 /\ outcome = "none"
    /\ succeeded = {} /\ streak = 0
    /\ edits = 0 /\ faults = 0

-----------------------------------------------------------------------------
(* Users *)

Write(t) ==
    /\ object' = t
    /\ watch' = Append(watch, t)
    /\ current' = "no"

UserEdit == edits < MaxEdits /\ edits' = edits + 1 /\ UNCHANGED faults

EditTarget ==
    /\ object # Deleted
    /\ UserEdit
    /\ \E r \in {"yes", "no"} :
           Write([object EXCEPT !.gen = @ + 1, !.ref = r])
    /\ UNCHANGED <<policy, caches, work, worker, seen, used, outcome, history>>

DeleteTarget ==
    /\ object # Deleted
    /\ UserEdit
    /\ Write(Deleted)
    /\ UNCHANGED <<policy, caches, work, worker, seen, used, outcome, history>>

\* The policy is created or changed.
EditPolicy ==
    /\ UserEdit
    /\ policy' = policy + 1
    /\ UNCHANGED <<object, watch, caches, work, process, history>>

-----------------------------------------------------------------------------
(* Watches and queue *)

\* For(&DistributionTarget{}) without a predicate: every event of the target
\* enqueues it, an update of its status too.
DeliverTarget ==
    /\ watch # <<>>
    /\ cache' = Head(watch) /\ watch' = Tail(watch)
    /\ queue' = "queued"
    /\ UNCHANGED <<object, policy, policyCache, timer>>
    /\ UNCHANGED <<process, history, bounds>>

\* Watches(&DistributionRolloutPolicy{}): the cached targets that refer to it.
DeliverPolicy ==
    /\ policyCache < policy
    /\ policyCache' = policyCache + 1
    /\ queue' = IF cache # Deleted /\ cache.ref = "yes" THEN "queued" ELSE queue
    /\ UNCHANGED <<api, cache, timer, process, history, bounds>>

TimerFires ==
    /\ timer = "on"
    /\ timer' = "off" /\ queue' = "queued"
    /\ UNCHANGED <<api, caches, process, history, bounds>>

-----------------------------------------------------------------------------
(* Reconcile *)

Dequeue == worker = "idle" /\ queue = "queued" /\ queue' = "empty"

\* The Get from the cache.
ReconcileStart ==
    /\ Dequeue
    /\ cache # Deleted
    /\ seen' = cache
    /\ current' = IF watch = <<>> THEN "yes" ELSE "no"
    /\ worker' = "running"
    /\ UNCHANGED <<api, caches, timer, used, outcome, history, bounds>>

\* Mutant: a target that is gone is reported as an error.
ReconcileGoneErrors ==
    /\ Dequeue
    /\ cache = Deleted
    /\ timer' = "on"
    /\ UNCHANGED <<api, caches, process, history, bounds>>

ReconcileGone ==
    /\ Dequeue
    /\ cache = Deleted
    /\ UNCHANGED <<api, caches, timer, process, history, bounds>>

\* reconcileTarget: a policy that does not exist is an error before the run.
ReconcileTarget ==
    /\ worker = "running"
    /\ used' = IF seen.ref = "yes" THEN policyCache ELSE 0
    /\ outcome' \in IF seen.ref = "yes" /\ policyCache = 0
                    THEN {"Failed"} ELSE Outcome \ {"none"}
    /\ succeeded' = IF outcome' = "Succeeded"
                    THEN succeeded \cup {seen.gen} ELSE succeeded
    /\ worker' = "update"
    /\ UNCHANGED <<api, caches, work, seen, current, streak, bounds>>

Count(n) == IF n < MaxRetry THEN n + 1 ELSE n

\* markSucceeded, markFailed, markPaused and markRollbackHold on a copy of
\* the target.
Marked(t) ==
    LET phase == CASE outcome = "Succeeded"  -> "Succeeded"
                   [] outcome = "Failed"     -> "Retrying"
                   [] outcome = "Paused"     -> "Paused"
                   [] outcome = "RolledBack" -> "RollbackHold"
        retry == CASE outcome = "Succeeded" -> 0
                   [] outcome = "Failed"    -> Count(t.retry)
                   [] OTHER                 -> t.retry
    IN  [object EXCEPT !.phase = phase, !.retry = retry,
                       !.observed = t.gen, !.policy = used]

Idle == worker' = "idle" /\ seen' = Deleted /\ used' = 0 /\ outcome' = "none"

RecordStreak ==
    streak' = CASE outcome = "Succeeded" -> 0
                [] outcome = "Failed"    -> Count(streak)
                [] OTHER                 -> streak

\* What Reconcile returns: a backoff or an error requeues a failure,
\* spec.requeueAfter a success; a pause or a rollback is not requeued.
Requeue ==
    timer' = IF \/ outcome = "Failed"
                \/ outcome = "Succeeded" /\ RequeueAfter = "yes"
             THEN "on" ELSE timer

\* Mutant: the status is written over whatever version the object has.
UpdateStatusUnconditional ==
    /\ worker = "update"
    /\ object # Deleted
    /\ Write(Marked(seen))
    /\ Requeue /\ RecordStreak
    /\ Idle
    /\ UNCHANGED <<policy, caches, queue, succeeded, bounds>>

\* Mutant: the object is read again before its status is written.
UpdateStatusOnLatest ==
    /\ worker = "update"
    /\ object # Deleted
    /\ Write(Marked(object))
    /\ Requeue /\ RecordStreak
    /\ Idle
    /\ UNCHANGED <<policy, caches, queue, succeeded, bounds>>

UpdateStatus ==
    /\ worker = "update"
    /\ object # Deleted /\ current = "yes"
    /\ Write(Marked(seen))
    /\ Requeue /\ RecordStreak
    /\ Idle
    /\ UNCHANGED <<policy, caches, queue, succeeded, bounds>>

\* Mutant: an error of the status update is not returned.
UpdateStatusFailsSilently ==
    /\ worker = "update"
    /\ IF object = Deleted \/ current = "no"
       THEN UNCHANGED bounds
       ELSE faults < MaxFaults /\ faults' = faults + 1 /\ UNCHANGED edits
    /\ Idle /\ current' = "no"
    /\ UNCHANGED <<api, caches, queue, timer, history>>

\* A conflict, a deleted object or an API failure: the error is returned.
UpdateStatusFails ==
    /\ worker = "update"
    /\ IF object = Deleted \/ current = "no"
       THEN UNCHANGED bounds
       ELSE faults < MaxFaults /\ faults' = faults + 1 /\ UNCHANGED edits
    /\ timer' = "on"
    /\ Idle /\ current' = "no"
    /\ UNCHANGED <<api, caches, queue, history>>

\* The controller stops anywhere and lists the objects when it is back.
Restart ==
    /\ faults < MaxFaults /\ faults' = faults + 1 /\ UNCHANGED edits
    /\ cache' = object /\ watch' = <<>> /\ policyCache' = policy
    /\ queue' = IF object = Deleted THEN "empty" ELSE "queued"
    /\ timer' = "off"
    /\ Idle /\ current' = "no"
    /\ UNCHANGED <<object, policy, history>>

-----------------------------------------------------------------------------
Users     == EditTarget \/ DeleteTarget \/ EditPolicy
Events    == DeliverTarget \/ DeliverPolicy \/ TimerFires
Reconcile ==
    \/ ReconcileStart \/ ReconcileGone \/ ReconcileTarget
    \/ UpdateStatus \/ UpdateStatusFails

Next == Users \/ Events \/ Reconcile \/ Restart

Spec == Init /\ [][Next]_vars

-----------------------------------------------------------------------------
(* Properties *)

(***************************************************************************)
(* A target reports Succeeded for a generation only if a run of that very  *)
(* generation succeeded, however the target was edited while the agent ran *)
(* and however stale the cache was: ObservedGeneration is taken from the   *)
(* copy the run started from, and a conflicting update is refused.         *)
(***************************************************************************)
SucceededIsEarned ==
    object # Deleted /\ object.phase = "Succeeded"
        => object.observed \in succeeded

(***************************************************************************)
(* RetryCount is the number of failures recorded since the last success:   *)
(* no increment is lost to a status that the cache had not received yet.   *)
(***************************************************************************)
RetryCountExact == object # Deleted => object.retry = streak

(***************************************************************************)
(* Whatever is edited while the agent runs: a reported success was earned  *)
(* by that generation, and no failure is lost from the count.              *)
(***************************************************************************)
StatusIsTrue == TypeOK /\ SucceededIsEarned /\ RetryCountExact

(***************************************************************************)
(* The status reports on the latest generation of the target and on the    *)
(* latest version of the policy it refers to, unless the target is gone.   *)
(***************************************************************************)
LatestSpecReported ==
    \/ object = Deleted
    \/ /\ object.observed = object.gen
       /\ object.ref = "yes" => object.policy = policy

(***************************************************************************)
(* Nothing is left to do for a target that is gone, which never returns.   *)
(***************************************************************************)
DeletedTargetForgotten ==
    object = Deleted => worker = "idle" /\ queue = "empty" /\ timer = "off"

(***************************************************************************)
(* Once users are done and faults have ended, the status gets up to date,  *)
(* and a target that was deleted, even during a run, is forgotten.         *)
(***************************************************************************)
Settles == <>[](LatestSpecReported /\ DeletedTargetForgotten)
=============================================================================
