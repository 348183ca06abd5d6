------------------------------- MODULE Rollout -------------------------------
(***************************************************************************)
(* One execution of a rendered bundle by bundleExecutor.applyBundle        *)
(* (reconcile/apply.go): the components in order, and within a component   *)
(* the host phases, in host batches where the component allows it, and the *)
(* steps on the cluster as a whole.                                        *)
(*                                                                         *)
(* A step on a host (the all-node hooks of a phase, stopping the services, *)
(* copying the content) succeeds or fails; the first failure ends the      *)
(* execution.  Hooks for the first master or the cluster, which only the   *)
(* components without batches have, show by their failure; among them is   *)
(* kubeadm bootstrap, which also repairs hosts that have joined.           *)
(***************************************************************************)
EXTENDS Naturals, Sequences, FiniteSets, SequencesExt

CONSTANTS
    Hosts,       \* nodeExecutionHosts, a sequence without repetition
    Components,  \* number of components of the bundle
    MaxSize      \* bound: batch and canary sizes considered

ASSUME RolloutAssumption ==
    /\ Hosts \in Seq(Range(Hosts)) /\ Hosts # <<>> /\ IsInjective(Hosts)
    /\ Components \in Nat \ {0}
    /\ MaxSize \in Nat

Host == Range(Hosts)

(***************************************************************************)
(* componentMode.  "batched" is a runtime rootfs all of whose preflight,   *)
(* bootstrap, configure and install hooks target all nodes and that has no *)
(* kubeadm configuration; "runtime" is any other one.  "fresh" components  *)
(* (containerd, kubernetes) leave the hosts that have joined alone.        *)
(***************************************************************************)
Kind ==
    [mode  : {"batched", "runtime", "bootstrap", "application"},
     fresh : BOOLEAN]

Strategy ==
    [batchSize : 0..MaxSize, canary : 0..MaxSize,
     healthGate : BOOLEAN, pause : BOOLEAN]

VARIABLES
    kinds,      \* kind of each component
    rollout,    \* RolloutStrategy of the execution
    joined,     \* hosts with a kubelet identity
    component,  \* component being applied
    batches,    \* host batches of the component, none before they are made
    index,      \* batch being worked on
    phase,      \* position in the host phases, then in the cluster steps
    pos,        \* host of the batch being worked on
    reached,    \* per component and host: host phases done
    localResourcesApplied,  \* the executor's flag
    resources,  \* history: times the local resources were applied
    manifests,  \* components whose manifests were applied
    status      \* what the execution is doing, or how it ended

config   == <<kinds, rollout, joined>>
progress == <<component, batches, index, phase, pos>>
shared   == <<localResourcesApplied, resources, manifests>>
effects  == <<reached, shared>>
vars     == <<config, progress, effects, status>>

Component == 1..Components
Status    == {"component", "hosts", "cluster", "Succeeded", "Paused", "Failed"}

-----------------------------------------------------------------------------
(* Host batches *)

\* Mutant: the last, shorter batch is dropped.
SplitDropsRest(hosts, size) ==
    IF size = 0 \/ size >= Len(hosts)
    THEN IF hosts = <<>> THEN <<>> ELSE <<hosts>>
    ELSE [i \in 1..(Len(hosts) \div size) |->
             SubSeq(hosts, (i - 1) * size + 1, i * size)]

\* splitRolloutHosts: batches of the size, the last one perhaps shorter.
SplitRolloutHosts(hosts, size) ==
    IF size = 0 \/ size >= Len(hosts)
    THEN IF hosts = <<>> THEN <<>> ELSE <<hosts>>
    ELSE [i \in 1..((Len(hosts) + size - 1) \div size) |->
             SubSeq(hosts, (i - 1) * size + 1,
                    IF i * size > Len(hosts) THEN Len(hosts) ELSE i * size)]

\* rolloutCanaryBatchCount: a canary of all hosts is no canary.
HasCanary(hosts) == rollout.canary > 0 /\ rollout.canary < Len(hosts)

\* Mutant: hosts of the canary are in the batches after it, too.
RolloutHostBatchesOverlap(hosts) ==
    IF HasCanary(hosts)
    THEN <<SubSeq(hosts, 1, rollout.canary)>>
             \o SplitRolloutHosts(hosts, rollout.batchSize)
    ELSE SplitRolloutHosts(hosts, rollout.batchSize)

\* Mutant: after the canary all other hosts follow at once.
RolloutHostBatchesUnbounded(hosts) ==
    IF HasCanary(hosts)
    THEN <<SubSeq(hosts, 1, rollout.canary),
           SubSeq(hosts, rollout.canary + 1, Len(hosts))>>
    ELSE SplitRolloutHosts(hosts, rollout.batchSize)

\* Mutant: the canary is forgotten.
RolloutHostBatchesNoCanary(hosts) ==
    SplitRolloutHosts(hosts, rollout.batchSize)

\* rolloutHostBatches
RolloutHostBatches(hosts) ==
    IF HasCanary(hosts)
    THEN LET rest == SubSeq(hosts, rollout.canary + 1, Len(hosts))
         IN  <<SubSeq(hosts, 1, rollout.canary)>>
                 \o SplitRolloutHosts(rest, rollout.batchSize)
    ELSE SplitRolloutHosts(hosts, rollout.batchSize)

-----------------------------------------------------------------------------
(* What a component does *)

ModeOf(c) == kinds[c].mode

\* supportsRuntimeRootfsRolloutBatches
Batchable(c) == ModeOf(c) = "batched"

\* hostHasKubeletIdentity: the positions of the hosts that have not joined,
\* and which of them comes n-th.
Fresh == {i \in DOMAIN Hosts : Hosts[i] \notin joined}

NthFresh(n) == CHOOSE i \in Fresh : Cardinality({j \in Fresh : j <= i}) = n

\* provisioningHostsForComponent; a single-node topology skips nothing.
ProvisioningHosts(c) ==
    IF kinds[c].fresh /\ Len(Hosts) > 1
    THEN [n \in 1..Cardinality(Fresh) |-> Hosts[NthFresh(n)]]
    ELSE Hosts

\* Health checks are run on each batch, not at the end of the component.
GatedBatches(c) ==
    Batchable(c) /\ rollout.healthGate /\ ProvisioningHosts(c) # <<>>

\* Phases on the hosts of a batch, each on all of them before the next one.
HostPhases(c) ==
    CASE ModeOf(c) = "application" -> <<>>
      [] ModeOf(c) = "bootstrap"   ->
             <<"stop", "content", "preflight", "reload", "bootstrap",
               "configure", "install">>
      [] OTHER ->
             <<"preflight", "stop", "content", "reload", "bootstrap",
               "configure", "install">>
             \o (IF GatedBatches(c) THEN <<"health">> ELSE <<>>)

\* Steps on the cluster once all batches are done.
ClusterSteps(c) ==
    CASE ModeOf(c) = "application" ->
             <<"preflight", "resources", "manifests", "configure", "install",
               "health">>
      [] ModeOf(c) = "bootstrap" -> <<"resources", "manifests", "health">>
      [] OTHER -> IF GatedBatches(c) THEN <<>> ELSE <<"health">>

BatchesOf(c) ==
    IF ModeOf(c) = "application" \/ ProvisioningHosts(c) = <<>> THEN <<>>
    ELSE IF Batchable(c) THEN RolloutHostBatches(ProvisioningHosts(c))
    ELSE <<ProvisioningHosts(c)>>

-----------------------------------------------------------------------------
(* The execution *)

Init ==
    /\ kinds \in [Component -> Kind]
    /\ rollout \in Strategy
    /\ joined \in SUBSET Host
    /\ component = 1 /\ batches = <<>> /\ index = 1 /\ phase = 1 /\ pos = 1
    /\ reached = [c \in Component |-> [h \in Host |-> 0]]
    /\ localResourcesApplied = "no" /\ resources = 0 /\ manifests = {}
    /\ status = "component"

ApplyComponent ==
    /\ status = "component"
    /\ batches' = BatchesOf(component)
    /\ index' = 1 /\ phase' = 1 /\ pos' = 1
    /\ status' = "hosts"
    /\ UNCHANGED <<config, component, effects>>

\* Whether a host has joined cannot be found out.
ApplyComponentFails ==
    /\ status = "component"
    /\ kinds[component].fresh /\ Len(Hosts) > 1
    /\ status' = "Failed"
    /\ UNCHANGED <<config, progress, effects>>

AtHost == status = "hosts" /\ index <= Len(batches)

CurrentHost == batches[index][pos]

\* Mutant: the canary does not have to be followed by other batches.
PausesHereAlways == rollout.pause /\ Batchable(component)

\* forEachHostBatch returns rolloutPausedError after the canary batch.
PausesHere ==
    /\ rollout.pause
    /\ Batchable(component) /\ HasCanary(ProvisioningHosts(component))
    /\ index = 1 /\ index < Len(batches)

\* The next host of the phase, the next phase, or the end of the batch.
Advance ==
    IF pos < Len(batches[index])
    THEN pos' = pos + 1 /\ UNCHANGED <<index, phase, status>>
    ELSE /\ pos' = 1
         /\ IF phase < Len(HostPhases(component))
            THEN phase' = phase + 1 /\ UNCHANGED <<index, status>>
            ELSE /\ phase' = 1 /\ index' = index + 1
                 /\ status' = IF PausesHere THEN "Paused" ELSE status

HostStep ==
    /\ AtHost
    /\ reached' = [reached EXCEPT ![component][CurrentHost] = phase]
    /\ Advance
    /\ UNCHANGED <<config, component, batches, shared>>

\* A step fails on a host, having done nothing there or everything.
HostStepFails ==
    /\ AtHost
    /\ \/ UNCHANGED reached
       \/ reached' = [reached EXCEPT ![component][CurrentHost] = phase]
    /\ status' = "Failed"
    /\ UNCHANGED <<config, progress, shared>>

\* A hook for the first master or the cluster fails; it is run even if no
\* host is left to provision.
HookFails ==
    /\ status = "hosts"
    /\ ModeOf(component) \in {"runtime", "bootstrap"}
    /\ status' = "Failed"
    /\ UNCHANGED <<config, progress, effects>>

HostsDone ==
    /\ status = "hosts" /\ index > Len(batches)
    /\ status' = "cluster" /\ phase' = 1
    /\ UNCHANGED <<config, component, batches, index, pos, effects>>

AtClusterStep == status = "cluster" /\ phase <= Len(ClusterSteps(component))

CurrentStep == ClusterSteps(component)[phase]

\* Mutant: the flag is not set once the local resources are applied.
ApplyLocalResourcesForgets ==
    /\ resources' = resources + 1
    /\ UNCHANGED localResourcesApplied

\* applyLocalResources, for a bundle that has some: once per execution.
ApplyLocalResources ==
    IF localResourcesApplied = "no"
    THEN localResourcesApplied' = "yes" /\ resources' = resources + 1
    ELSE UNCHANGED <<localResourcesApplied, resources>>

ClusterStep ==
    /\ AtClusterStep
    /\ IF CurrentStep = "resources"
       THEN ApplyLocalResources
       ELSE UNCHANGED <<localResourcesApplied, resources>>
    /\ manifests' = IF CurrentStep = "manifests"
                    THEN manifests \cup {component} ELSE manifests
    /\ phase' = phase + 1
    /\ UNCHANGED <<config, component, batches, index, pos, reached, status>>

ClusterStepFails ==
    /\ AtClusterStep
    /\ status' = "Failed"
    /\ UNCHANGED <<config, progress, effects>>

ComponentDone ==
    /\ status = "cluster" /\ phase > Len(ClusterSteps(component))
    /\ IF component < Components
       THEN component' = component + 1 /\ status' = "component"
       ELSE UNCHANGED component /\ status' = "Succeeded"
    /\ UNCHANGED <<config, batches, index, phase, pos, effects>>

\* The executor has returned.
Returned ==
    /\ status \in {"Succeeded", "Paused", "Failed"}
    /\ UNCHANGED vars

Next ==
    \/ ApplyComponent \/ ApplyComponentFails
    \/ HostStep \/ HostStepFails \/ HookFails \/ HostsDone
    \/ ClusterStep \/ ClusterStepFails \/ ComponentDone
    \/ Returned

Spec == Init /\ [][Next]_vars

-----------------------------------------------------------------------------
(* Properties *)

TypeOK ==
    /\ kinds \in [Component -> Kind] /\ rollout \in Strategy
    /\ joined \subseteq Host
    /\ component \in Component
    /\ \A i \in DOMAIN batches :
           batches[i] # <<>> /\ Range(batches[i]) \subseteq Host
    /\ index \in 1..(Len(batches) + 1)
    /\ phase \in 1..9 /\ pos \in 1..Len(Hosts)
    /\ reached \in [Component -> [Host -> 0..8]]
    /\ localResourcesApplied \in {"no", "yes"} /\ resources \in 0..Components
    /\ manifests \subseteq Component
    /\ status \in Status

Full(c) == Len(HostPhases(c))

Done(c, h) == reached[c][h] = Full(c)

Canary(c) == {ProvisioningHosts(c)[i] : i \in 1..rollout.canary}

(***************************************************************************)
(* However an execution of a batched component goes, at most one batch of  *)
(* hosts is between its first and its last phase (services stopped, old    *)
(* and new content mixed), so a failure leaves no more hosts than that     *)
(* half-provisioned.                                                       *)
(***************************************************************************)
FailureContained ==
    \A c \in Component : Batchable(c) /\ rollout.batchSize > 0 =>
        Cardinality({h \in Host : reached[c][h] > 0 /\ ~Done(c, h)}) <=
            IF /\ HasCanary(ProvisioningHosts(c))
               /\ rollout.canary > rollout.batchSize
            THEN rollout.canary ELSE rollout.batchSize

(***************************************************************************)
(* A host outside the canary batch is touched only when all canary hosts   *)
(* have passed every phase, with the health gate their health checks too,  *)
(* and never in an execution that is to pause after the canary.            *)
(***************************************************************************)
CanaryFirst ==
    \A c \in Component :
        /\ Batchable(c) /\ HasCanary(ProvisioningHosts(c))
        /\ \E h \in Host \ Canary(c) : reached[c][h] > 0
        => ~rollout.pause /\ \A h \in Canary(c) : Done(c, h)

(***************************************************************************)
(* An execution that reports a pause has done the canary hosts of the      *)
(* component it stopped in and nothing else of that or a later component.  *)
(***************************************************************************)
PausedAtCanary ==
    status = "Paused" =>
        /\ \A h \in Host : reached[component][h] =
               IF h \in Canary(component) THEN Full(component) ELSE 0
        /\ Canary(component) # Range(ProvisioningHosts(component))
        /\ \A c \in (component + 1)..Components, h \in Host : reached[c][h] = 0
        /\ \A c \in manifests : c < component

(***************************************************************************)
(* An execution that succeeds, the only one after which the revision is    *)
(* marked successful, has put every provisioning host through every phase  *)
(* of every component, no joined host that it skips through any, and       *)
(* applied all manifests.                                                  *)
(***************************************************************************)
SucceededIsComplete ==
    status = "Succeeded" =>
        /\ \A c \in Component, h \in Host :
               reached[c][h] = IF h \in Range(ProvisioningHosts(c))
                               THEN Full(c) ELSE 0
        /\ manifests = {c \in Component :
                            ModeOf(c) \in {"bootstrap", "application"}}

(***************************************************************************)
(* Local resources are applied at most once in an execution, and before    *)
(* the first manifest of any component.                                    *)
(***************************************************************************)
ResourcesOnceAndFirst ==
    resources <= 1 /\ (manifests # {} => resources = 1)

(***************************************************************************)
(* No host phase is skipped or repeated: batches neither overlap nor lose  *)
(* hosts, and a component starts on a host only after the ones before it   *)
(* have finished on every host they provision.                             *)
(***************************************************************************)
PhasesInOrder ==
    [][\A c \in Component, h \in Host : reached'[c][h] # reached[c][h] =>
          /\ reached'[c][h] = reached[c][h] + 1
          /\ \A b \in 1..(c - 1) :
                 \A g \in Range(ProvisioningHosts(b)) : Done(b, g)
      ]_vars

(***************************************************************************)
(* Every strategy, hosts that fail: a failure stays in its batch, the      *)
(* canary alone is first, a pause follows it, success is complete,         *)
(* resources come once and first, and hosts go through the phases in       *)
(* order.                                                                  *)
(***************************************************************************)
RolloutSound ==
    /\ [](TypeOK /\ FailureContained)
    /\ [](CanaryFirst /\ PausedAtCanary /\ SucceededIsComplete /\ ResourcesOnceAndFirst)
    /\ PhasesInOrder
=============================================================================
