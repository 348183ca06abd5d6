-------------------------- MODULE Controller_proofs --------------------------
(***************************************************************************)
(* Proofs about Controller for every number of edits, faults and retries:  *)
(* what the status of a target says is true although the controller works  *)
(* on a copy from a cache that trails the API server.                      *)
(***************************************************************************)
EXTENDS Controller, SequenceTheorems, TLAPS

MaybeTarget == Target \cup {Deleted}

\* Each user edit adds one event to the watch, and a status update is written
\* only while there is none.
WatchInv ==
    /\ watch \in Seq(MaybeTarget)
    /\ Len(watch) <= edits + 1
    /\ policy <= edits
    /\ object # Deleted => object.gen <= edits + 1

\* The cache ends up with the object once the watch is empty.
CacheInv ==
    IF watch = <<>> THEN cache = object ELSE watch[Len(watch)] = object

(***************************************************************************)
(* The copy a reconcile works on: while it is at the resourceVersion of    *)
(* the object, it is the object, and every event has been received.        *)
(***************************************************************************)
CopyInv ==
    /\ worker # "idle" => seen \in Target
    /\ current = "yes" => worker # "idle" /\ seen = object /\ watch = <<>>
    /\ worker = "update" => outcome # "none"
    /\ worker = "update" /\ outcome = "Succeeded" => seen.gen \in succeeded

IInv ==
    /\ TypeOK
    /\ WatchInv
    /\ CacheInv
    /\ CopyInv
    /\ SucceededIsEarned
    /\ RetryCountExact

-----------------------------------------------------------------------------
\* A count never exceeds its bound.
LEMMA CountBounded ==
    ASSUME NEW n \in 0..MaxRetry
    PROVE  Count(n) \in 0..MaxRetry
BY ControllerAssumption DEF Count

(***************************************************************************)
(* The status markSucceeded, markFailed, markPaused or markRollbackHold    *)
(* writes, given a copy that is at the object's resourceVersion.           *)
(***************************************************************************)
LEMMA MarkedCopy ==
    ASSUME TypeOK, seen \in Target, seen = object, outcome # "none"
    PROVE  /\ Marked(seen) \in Target
           /\ Marked(seen).gen = object.gen
           /\ Marked(seen).observed = seen.gen
           /\ Marked(seen).phase = "Succeeded" => outcome = "Succeeded"
           /\ Marked(seen).retry = CASE outcome = "Succeeded" -> 0
                                     [] outcome = "Failed" -> Count(seen.retry)
                                     [] OTHER -> seen.retry
<1>1. Count(seen.retry) \in 0..MaxRetry
  BY CountBounded DEF Target
<1>2. seen.gen \in 0..(MaxEdits + 1)
  BY ControllerAssumption DEF Target
<1>3. outcome \in {"Succeeded", "Failed", "Paused", "RolledBack"}
  BY DEF TypeOK, Outcome
<1>4. used \in 0..MaxEdits /\ object \in Target BY DEF TypeOK
<1>5. \E p \in Phase, n \in 0..MaxRetry :
          /\ Marked(seen) = [object EXCEPT !.phase = p, !.retry = n,
                               !.observed = seen.gen, !.policy = used]
          /\ p = "Succeeded" => outcome = "Succeeded"
          /\ n = CASE outcome = "Succeeded" -> 0
                   [] outcome = "Failed"    -> Count(seen.retry)
                   [] OTHER                 -> seen.retry
  <2>1. CASE outcome = "Succeeded"
    <3>1. Marked(seen) = [object EXCEPT !.phase = "Succeeded", !.retry = 0,
                              !.observed = seen.gen, !.policy = used]
      BY <2>1 DEF Marked
    <3>2. "Succeeded" \in Phase /\ 0 \in 0..MaxRetry
      BY ControllerAssumption DEF Phase
    <3> QED BY <2>1, <3>1, <3>2
  <2>2. CASE outcome = "Failed"
    <3>1. Marked(seen) = [object EXCEPT !.phase = "Retrying",
                              !.retry = Count(seen.retry),
                              !.observed = seen.gen, !.policy = used]
      BY <2>2 DEF Marked
    <3> QED BY <1>1, <2>2, <3>1 DEF Phase
  <2>3. CASE outcome \in {"Paused", "RolledBack"}
    <3>1. PICK p \in {"Paused", "RollbackHold"} :
               Marked(seen) = [object EXCEPT !.phase = p, !.retry = seen.retry,
                                   !.observed = seen.gen, !.policy = used]
      BY <2>3 DEF Marked
    <3>2. seen.retry \in 0..MaxRetry BY DEF Target
    <3> QED BY <2>3, <3>1, <3>2 DEF Phase
  <2> QED BY <1>3, <2>1, <2>2, <2>3
<1> QED BY <1>2, <1>4, <1>5 DEF Target

\* Appending an event makes it the last one.
LEMMA AppendLast ==
    ASSUME NEW S, NEW q \in Seq(S), NEW t \in S
    PROVE  /\ Append(q, t) \in Seq(S)
           /\ Len(Append(q, t)) = Len(q) + 1
           /\ Append(q, t) # <<>>
           /\ Append(q, t)[Len(Append(q, t))] = t
OBVIOUS

\* Receiving the first event leaves the last one where it was.
LEMMA TailLast ==
    ASSUME NEW S, NEW q \in Seq(S), q # <<>>
    PROVE  /\ Head(q) \in S /\ Tail(q) \in Seq(S)
           /\ Len(Tail(q)) = Len(q) - 1
           /\ Tail(q) = <<>> => Head(q) = q[Len(q)]
           /\ Tail(q) # <<>> => Tail(q)[Len(Tail(q))] = q[Len(q)]
<1>1. /\ Head(q) = q[1] /\ Head(q) \in S /\ Tail(q) \in Seq(S)
      /\ Len(q) \in Nat /\ Len(q) >= 1
      /\ Len(Tail(q)) = Len(q) - 1
      /\ \A i \in 1..Len(Tail(q)) : Tail(q)[i] = q[i + 1]
  BY HeadTailProperties, LenProperties, EmptySeq
<1>2. ASSUME Tail(q) = <<>> PROVE Head(q) = q[Len(q)]
  <2>1. Len(<<>>) = 0 BY EmptySeq
  <2>2. Len(Tail(q)) = 0 BY <1>2, <2>1, Zenon
  <2>3. Len(q) = 1 BY <1>1, <2>2
  <2> QED BY <1>1, <2>3
<1>3. ASSUME Tail(q) # <<>> PROVE Tail(q)[Len(Tail(q))] = q[Len(q)]
  <2>1. Len(Tail(q)) >= 1 BY <1>1, <1>3, EmptySeq
  <2> QED BY <1>1, <2>1
<1> QED BY <1>1, <1>2, <1>3

\* TypeOK's view of the watch: its elements, by position.
LEMMA WatchElements ==
    ASSUME NEW q \in Seq(MaybeTarget)
    PROVE  \A i \in DOMAIN q : q[i] \in Target \cup {Deleted}
BY DEF MaybeTarget

-----------------------------------------------------------------------------
(***************************************************************************)
(* A write of the object: an edit or a deletion by a user, or a status     *)
(* update by the worker.  It is the newest event of the watch, and no copy *)
(* is at the object's resourceVersion after it.                            *)
(***************************************************************************)
LEMMA WriteKeeps ==
    ASSUME IInv, NEW t \in MaybeTarget, Write(t)
    PROVE  /\ object' \in Target \cup {Deleted}
           /\ watch' \in Seq(MaybeTarget) /\ Len(watch') = Len(watch) + 1
           /\ \A i \in DOMAIN watch' : watch'[i] \in Target \cup {Deleted}
           /\ UNCHANGED cache => CacheInv'
           /\ current' = "no"
<1>1. watch \in Seq(MaybeTarget) /\ watch' = Append(watch, t)
  BY DEF IInv, WatchInv, Write
<1>2. /\ watch' \in Seq(MaybeTarget) /\ Len(watch') = Len(watch) + 1
      /\ watch' # <<>> /\ watch'[Len(watch')] = t
  BY <1>1, AppendLast
<1> QED
  BY <1>2, WatchElements DEF Write, CacheInv, MaybeTarget

LEMMA StepInv == IInv /\ [Next]_vars => IInv'
<1> SUFFICES ASSUME IInv, [Next]_vars PROVE IInv' OBVIOUS
<1> USE ControllerAssumption
<1> USE DEF IInv
<1>1. CASE EditTarget
  <2>1. PICK r \in {"yes", "no"} :
             Write([object EXCEPT !.gen = @ + 1, !.ref = r])
    BY <1>1 DEF EditTarget
  <2> DEFINE t == [object EXCEPT !.gen = @ + 1, !.ref = r]
  <2>2. object \in Target /\ edits' = edits + 1 /\ edits' \in 0..MaxEdits
    BY <1>1 DEF EditTarget, UserEdit, TypeOK
  <2>a. /\ object.gen \in 1..(MaxEdits + 1) /\ object.gen <= edits + 1
        /\ edits \in 0..MaxEdits
    BY <1>1, <2>2 DEF WatchInv, TypeOK, Target, EditTarget
  <2>b. object.gen + 1 \in 1..(MaxEdits + 1) /\ object.gen + 1 <= edits' + 1
    BY <2>2, <2>a
  <2>3. /\ t \in Target /\ t.gen = object.gen + 1 /\ t.gen <= edits' + 1
        /\ t.phase = object.phase /\ t.observed = object.observed
        /\ t.retry = object.retry
    BY <2>2, <2>b DEF Target
  <2>4. object' = t BY <2>1 DEF Write
  <2> HIDE DEF t
  <2>5. Write(t) BY <2>1 DEF t
  <2>6. UNCHANGED <<policy, cache, policyCache, queue, timer, worker, seen,
                    used, outcome, succeeded, streak, faults>>
    BY <1>1 DEF EditTarget, UserEdit, caches, work, history
  <2>7. /\ TypeOK' /\ CacheInv' /\ current' = "no" /\ WatchInv'
    <3>1. /\ object' \in Target \cup {Deleted}
          /\ watch' \in Seq(MaybeTarget) /\ Len(watch') = Len(watch) + 1
          /\ \A i \in DOMAIN watch' : watch'[i] \in Target \cup {Deleted}
          /\ CacheInv' /\ current' = "no"
      BY <2>3, <2>5, <2>6, WriteKeeps DEF MaybeTarget
    <3>2. WatchInv' BY <2>2, <2>3, <2>4, <2>6, <3>1 DEF WatchInv, TypeOK
    <3>3. TypeOK' BY <2>2, <2>6, <3>1, <3>2 DEF TypeOK, WatchInv
    <3> QED BY <3>1, <3>2, <3>3
  <2>8. CopyInv' BY <2>6, <2>7 DEF CopyInv
  <2>9. SucceededIsEarned' /\ RetryCountExact'
    BY <1>1, <2>3, <2>4, <2>6 DEF SucceededIsEarned, RetryCountExact, EditTarget
  <2> QED BY <2>7, <2>8, <2>9
<1>2. CASE DeleteTarget
  <2>1. /\ Write(Deleted) /\ Deleted \in MaybeTarget /\ object' = Deleted
        /\ edits' = edits + 1 /\ edits' \in 0..MaxEdits
    BY <1>2 DEF DeleteTarget, UserEdit, TypeOK, MaybeTarget, Write
  <2>2. UNCHANGED <<policy, cache, policyCache, queue, timer, worker, seen,
                    used, outcome, succeeded, streak, faults>>
    BY <1>2 DEF DeleteTarget, UserEdit, caches, work, history
  <2>3. /\ object' \in Target \cup {Deleted}
        /\ watch' \in Seq(MaybeTarget) /\ Len(watch') = Len(watch) + 1
        /\ \A i \in DOMAIN watch' : watch'[i] \in Target \cup {Deleted}
        /\ CacheInv' /\ current' = "no"
    BY <2>1, <2>2, WriteKeeps
  <2>4. WatchInv' BY <2>1, <2>2, <2>3 DEF WatchInv, TypeOK
  <2>5. TypeOK' BY <2>1, <2>2, <2>3, <2>4 DEF TypeOK, WatchInv
  <2>6. CopyInv' BY <2>2, <2>3 DEF CopyInv
  <2>7. SucceededIsEarned' /\ RetryCountExact'
    BY <2>1 DEF SucceededIsEarned, RetryCountExact
  <2> QED BY <2>3, <2>4, <2>5, <2>6, <2>7
<1>3. CASE EditPolicy
  <2>1. /\ policy' = policy + 1 /\ edits' = edits + 1 /\ edits' \in 0..MaxEdits
        /\ UNCHANGED <<object, watch, caches, work, process, history, faults>>
    BY <1>3 DEF EditPolicy, UserEdit, TypeOK
  <2>a. policy' \in 0..MaxEdits /\ policy' <= edits' /\ policyCache \in 0..policy'
    BY <2>1 DEF TypeOK, WatchInv
  <2>b. Len(watch) <= edits' + 1 /\ (object # Deleted => object.gen <= edits' + 1)
    <3>1. Len(watch) \in Nat BY LenProperties DEF WatchInv
    <3>2. object # Deleted => object.gen \in Nat BY DEF TypeOK, Target
    <3> QED BY <2>1, <3>1, <3>2 DEF WatchInv, TypeOK
  <2>c. TypeOK' BY <2>1, <2>a DEF TypeOK, caches, work, process, history
  <2>d. WatchInv' BY <2>1, <2>a, <2>b DEF WatchInv
  <2>2. TypeOK' /\ WatchInv' BY <2>c, <2>d
  <2>3. CacheInv' /\ CopyInv' /\ SucceededIsEarned' /\ RetryCountExact'
    BY <2>1 DEF CacheInv, CopyInv, SucceededIsEarned, RetryCountExact, caches,
                process, history
  <2> QED BY <2>2, <2>3
<1>4. CASE DeliverTarget
  <2>1. /\ watch # <<>> /\ cache' = Head(watch) /\ watch' = Tail(watch)
        /\ queue' = "queued"
        /\ UNCHANGED <<object, policy, policyCache, timer>>
        /\ UNCHANGED <<process, history, bounds>>
    BY <1>4 DEF DeliverTarget
  <2>2. /\ cache' \in MaybeTarget /\ watch' \in Seq(MaybeTarget)
        /\ Len(watch') = Len(watch) - 1 /\ CacheInv'
    <3>1. watch \in Seq(MaybeTarget) /\ watch[Len(watch)] = object
      BY <2>1 DEF WatchInv, CacheInv
    <3> QED BY <2>1, <3>1, TailLast DEF CacheInv
  <2>3. WatchInv' BY <2>1, <2>2 DEF WatchInv, TypeOK, bounds
  <2>4. \A i \in DOMAIN watch' : watch'[i] \in Target \cup {Deleted}
    BY <2>2, WatchElements
  <2>5. TypeOK'
    BY <2>1, <2>2, <2>3, <2>4
    DEF TypeOK, WatchInv, MaybeTarget, process, history, bounds
  <2>6. CopyInv' BY <2>1 DEF CopyInv, process, history
  <2>7. SucceededIsEarned' /\ RetryCountExact'
    BY <2>1 DEF SucceededIsEarned, RetryCountExact, history
  <2> QED BY <2>2, <2>3, <2>5, <2>6, <2>7
<1>5. CASE DeliverPolicy \/ TimerFires \/ ReconcileGone
  <2>1. /\ policyCache' \in 0..policy /\ queue' \in {"empty", "queued"}
        /\ timer' \in {"off", "on"}
        /\ UNCHANGED <<api, cache, process, history, bounds>>
    BY <1>5 DEF DeliverPolicy, TimerFires, ReconcileGone, Dequeue, caches,
                TypeOK
  <2>2. TypeOK'
    BY <2>1 DEF TypeOK, api, process, history, bounds
  <2> QED
    BY <2>1, <2>2 DEF WatchInv, CacheInv, CopyInv, SucceededIsEarned,
       RetryCountExact, api, process, history, bounds
<1>6. CASE ReconcileStart
  <2>1. /\ queue' = "empty" /\ cache \in Target /\ seen' = cache
        /\ current' = IF watch = <<>> THEN "yes" ELSE "no"
        /\ worker' = "running"
        /\ UNCHANGED <<api, caches, timer, used, outcome, history, bounds>>
    BY <1>6 DEF ReconcileStart, Dequeue, TypeOK
  <2>2. TypeOK'
    BY <2>1 DEF TypeOK, api, caches, history, bounds
  <2>3. CopyInv' BY <2>1 DEF CopyInv, CacheInv, api
  <2> QED
    BY <2>1, <2>2, <2>3 DEF WatchInv, CacheInv, SucceededIsEarned,
       RetryCountExact, api, caches, history, bounds
<1>7. CASE ReconcileTarget
  <2>1. /\ worker = "running" /\ worker' = "update" /\ seen \in Target
        /\ used' \in 0..MaxEdits /\ outcome' \in Outcome \ {"none"}
        /\ succeeded' = IF outcome' = "Succeeded"
                        THEN succeeded \cup {seen.gen} ELSE succeeded
        /\ UNCHANGED <<api, caches, work, seen, current, streak, bounds>>
    BY <1>7 DEF ReconcileTarget, Outcome, CopyInv, TypeOK
  <2>2. seen.gen \in 1..(MaxEdits + 1) BY <2>1 DEF Target
  <2>3. TypeOK'
    BY <2>1, <2>2 DEF TypeOK, api, caches, work, bounds
  <2>4. CopyInv' BY <2>1 DEF CopyInv, api
  <2>5. SucceededIsEarned' /\ RetryCountExact'
    BY <2>1 DEF SucceededIsEarned, RetryCountExact, api
  <2> QED
    BY <2>1, <2>3, <2>4, <2>5 DEF WatchInv, CacheInv, api, caches, bounds
<1>8. CASE UpdateStatus
  <2> DEFINE t == Marked(seen)
  <2>1. /\ worker = "update" /\ object # Deleted /\ current = "yes"
        /\ Write(t) /\ Requeue /\ RecordStreak /\ Idle
        /\ UNCHANGED <<policy, cache, policyCache, queue, succeeded, bounds>>
    BY <1>8 DEF UpdateStatus, caches
  <2>2. /\ seen \in Target /\ seen = object /\ watch = <<>>
        /\ outcome # "none"
        /\ outcome = "Succeeded" => seen.gen \in succeeded
    BY <2>1 DEF CopyInv
  <2>3. /\ t \in Target /\ t.gen = object.gen /\ t.observed = seen.gen
        /\ t.phase = "Succeeded" => outcome = "Succeeded"
        /\ t.retry = CASE outcome = "Succeeded" -> 0
                       [] outcome = "Failed" -> Count(seen.retry)
                       [] OTHER -> seen.retry
    BY <2>2, MarkedCopy
  <2> HIDE DEF t
  <2>4. /\ object' \in Target \cup {Deleted}
        /\ watch' \in Seq(MaybeTarget) /\ Len(watch') = 1
        /\ \A i \in DOMAIN watch' : watch'[i] \in Target \cup {Deleted}
        /\ CacheInv' /\ current' = "no"
    BY <2>1, <2>2, <2>3, WriteKeeps DEF MaybeTarget
  <2>5. object' = t BY <2>1 DEF Write
  <2>6. streak' = t.retry /\ streak' \in 0..MaxRetry
    BY <2>1, <2>2, <2>3 DEF RecordStreak, RetryCountExact, Target
  <2>7. WatchInv'
    BY <2>1, <2>3, <2>4, <2>5 DEF WatchInv, TypeOK, bounds
  <2>8. TypeOK'
    BY <2>1, <2>4, <2>6, <2>7
    DEF TypeOK, WatchInv, Requeue, Idle, Outcome, bounds
  <2>9. CopyInv' BY <2>1, <2>4 DEF CopyInv, Idle
  <2>10. SucceededIsEarned' /\ RetryCountExact'
    BY <2>1, <2>2, <2>3, <2>5, <2>6 DEF SucceededIsEarned, RetryCountExact
  <2> QED BY <2>4, <2>7, <2>8, <2>9, <2>10
<1>9. CASE UpdateStatusFails \/ Restart
  <2>1. /\ Idle /\ current' = "no" /\ UNCHANGED <<object, policy, history>>
        /\ queue' \in {"empty", "queued"} /\ timer' \in {"off", "on"}
        /\ edits' = edits /\ faults' \in 0..MaxFaults
    BY <1>9 DEF UpdateStatusFails, Restart, api, bounds, TypeOK
  <2>2. \/ UNCHANGED <<cache, policyCache, watch>>
        \/ cache' = object /\ watch' = <<>> /\ policyCache' = policy
    BY <1>9 DEF UpdateStatusFails, Restart, api, caches
  <2>3. TypeOK'
    BY <2>1, <2>2 DEF TypeOK, Idle, Outcome, history
  <2>a. <<>> \in Seq(MaybeTarget) /\ Len(<<>>) = 0 BY EmptySeq
  <2>4. WatchInv'
    <3>1. CASE UNCHANGED <<cache, policyCache, watch>>
      BY <2>1, <3>1 DEF WatchInv
    <3>2. CASE watch' = <<>>
      <4>1. watch' \in Seq(MaybeTarget) /\ Len(watch') = 0 BY <2>a, <3>2
      <4> QED BY <2>1, <4>1 DEF WatchInv, TypeOK
    <3> QED BY <2>2, <3>1, <3>2
  <2>5. CacheInv' BY <2>1, <2>2 DEF CacheInv
  <2>6. CopyInv' BY <2>1 DEF CopyInv, Idle
  <2>7. SucceededIsEarned' /\ RetryCountExact'
    BY <2>1 DEF SucceededIsEarned, RetryCountExact, history
  <2> QED BY <2>3, <2>4, <2>5, <2>6, <2>7
<1>10. CASE UNCHANGED vars
  BY <1>10 DEF vars, api, caches, work, process, history, bounds, TypeOK,
     WatchInv, CacheInv, CopyInv, SucceededIsEarned, RetryCountExact
<1> QED
  BY <1>1, <1>2, <1>3, <1>4, <1>5, <1>6, <1>7, <1>8, <1>9, <1>10
  DEF Next, Users, Events, Reconcile

\* The invariant holds once the controller has listed a new target.
LEMMA InitInv == Init => IInv
<1> SUFFICES ASSUME Init PROVE IInv OBVIOUS
<1>1. PICK r \in {"yes", "no"} : object = NewTarget(r) /\ cache = NewTarget(r)
  BY DEF Init
<1> USE ControllerAssumption
<1>a. /\ 1 \in 1..(MaxEdits + 1) /\ 0 \in 0..(MaxEdits + 1)
      /\ 0 \in 0..MaxRetry /\ 0 \in 0..MaxEdits /\ 0 \in 0..MaxFaults
  OBVIOUS
<1>2. /\ object \in Target /\ object.gen = 1 /\ object.retry = 0
      /\ object.phase = ""
  BY <1>1, <1>a DEF NewTarget, Target, Phase
<1>b. <<>> \in Seq(MaybeTarget) /\ Len(<<>>) = 0 /\ DOMAIN <<>> = {}
  BY EmptySeq
<1>c. /\ watch \in Seq(MaybeTarget) /\ Len(watch) = 0 /\ DOMAIN watch = {}
      /\ policy = 0 /\ edits = 0
  BY <1>b DEF Init
<1>3. TypeOK
  <2>1. \A i \in DOMAIN watch : watch[i] \in Target \cup {Deleted}
    BY <1>c
  <2>2. cache \in Target \cup {Deleted} BY <1>1, <1>2
  <2>3. Len(watch) <= MaxEdits + 1 BY <1>c
  <2>4. policyCache \in 0..policy BY DEF Init
  <2> QED BY <1>2, <1>a, <1>c, <2>1, <2>2, <2>3, <2>4 DEF Init, TypeOK, Outcome
<1>4. WatchInv
  <2>1. Len(watch) <= edits + 1 /\ policy <= edits BY <1>c
  <2>2. edits = 0 /\ object.gen = 1 BY <1>2, <1>c
  <2>3. object.gen <= edits + 1 BY <2>2
  <2> QED BY <1>c, <2>1, <2>3 DEF WatchInv
<1> QED
  BY <1>1, <1>2, <1>3, <1>4 DEF Init, IInv, CacheInv, CopyInv,
     SucceededIsEarned, RetryCountExact

(***************************************************************************)
(* A status of a target says Succeeded only of a generation that a run     *)
(* applied successfully, and its RetryCount is the number of failures      *)
(* recorded since the last success, whatever users edit while the agent    *)
(* runs and however far the cache is behind.                               *)
(***************************************************************************)
THEOREM StatusAlwaysTrue == Spec => []StatusIsTrue
<1>1. IInv => StatusIsTrue BY DEF IInv, StatusIsTrue
<1> QED BY <1>1, InitInv, StepInv, PTL DEF Spec
=============================================================================
