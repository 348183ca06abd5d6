------------------------------ MODULE MCRollout ------------------------------
(***************************************************************************)
(* Machines of and around an apply, which share no state: the execution of *)
(* a bundle, the bootstrap phase of its kubernetes component, the history  *)
(* of successful revisions, and the drift from what was applied.  A        *)
(* behaviour runs one of them; the others stay in an initial state:        *)
(*   rollout    two components on three hosts, every strategy              *)
(*   bootstrap  a control plane, a worker and a second control plane       *)
(*   history    three revisions with two details, a history of two         *)
(*   object     a workload, its package, local patches and live edits      *)
(*   hosts      files of two hosts, both with an input of their own        *)
(*   host       files of one host, which can be repaired                   *)
(* Variables of object have the initial o, those of the hosts an h.        *)
(***************************************************************************)
EXTENDS Rollout

CONSTANTS Machines, h1, h2, h3, k1, k2, k3, NoSnapshot

ThreeHosts == <<h1, h2, h3>>

VARIABLES machine,
    size, down, kubeadm, kubelet, images, endpoint, pc, todo, fresh, repair, first, regen,
    result, faults,
    last, revisions, legacy, log,
    oKind, oBase, oRepo, oBundle, oLive, oPhase,
    hRepo, hBundle, hLive, hEdits, hLast

bootstrapVars == <<size, down, kubeadm, kubelet, images, endpoint, pc, todo, fresh, repair,
                   first, regen, result, faults>>
historyVars == <<last, revisions, legacy, log>>
objectVars == <<oKind, oBase, oRepo, oBundle, oLive, oPhase>>
hostVars == <<hRepo, hBundle, hLive, hEdits, hLast>>
driftVars == <<objectVars, hostVars>>
allVars == <<machine, vars, bootstrapVars, historyVars, driftVars>>

Bootstrap == INSTANCE KubeadmBootstrap WITH
    config <- kubeadm, ControlPlane <- {h1, h3}, LocalFirstMaster <- TRUE, Unset <- "unset",
    MasterAddress <- "10.0.0.1:6443", RenderedEndpoint <- "unset", InitIsAtomic <- FALSE,
    MaxFaults <- 2

History == INSTANCE RevisionHistory WITH
    Key <- {k1, k2, k3}, Detail <- {"d1", "d2"}, MaxHistory <- 2, MaxApplies <- 5

Cases == INSTANCE DriftCases

Object == INSTANCE DriftLoop WITH
    kind <- oKind, base <- oBase, repo <- oRepo, bundle <- oBundle, live <- oLive,
    phase <- oPhase, Baselines <- Cases!PlacementBase, Overlays <- Cases!PlacementOverlays,
    LiveForms <- Cases!PlacementLive, Policy <- Cases!MCPolicy

TwoHosts == INSTANCE HostDrift WITH
    repo <- hRepo, bundle <- hBundle, live <- hLive, edits <- hEdits, last <- hLast,
    Hosts <- <<"n1", "n2">>, LocalHosts <- {"n1"}, Masters <- {"n1"}, Scoped <- {"n1", "n2"},
    Paths <- {"input", "package", "pod"}, Contents <- {"a", "b"}, Modes <- {"0644"},
    Repairable <- FALSE, MaxEdits <- 2
OneHost == INSTANCE HostDrift WITH
    repo <- hRepo, bundle <- hBundle, live <- hLive, edits <- hEdits, last <- hLast,
    Hosts <- <<"n1">>, LocalHosts <- {"n1"}, Masters <- {"n1"}, Scoped <- {},
    Paths <- {"input", "bootstrap", "package", "pod"}, Contents <- {"a", "b"},
    Modes <- {"0644", "0600"}, Repairable <- TRUE, MaxEdits <- 2

ASSUME TwoHosts!TopologyAssumption /\ OneHost!TopologyAssumption
ASSUME Bootstrap!BootstrapAssumption /\ History!HistoryAssumption

-----------------------------------------------------------------------------
(* What no step of a rollout reads is not varied: whether an application is *)
(* fresh, a strategy without a component in batches, and who has joined     *)
(* without a fresh component.                                               *)
UnreadFixed ==
    /\ \A c \in Component : ModeOf(c) = "application" => ~kinds[c].fresh
    /\ (\A c \in Component : ~Batchable(c)) =>
          rollout = [batchSize |-> 0, canary |-> 0, healthGate |-> FALSE, pause |-> FALSE]
    /\ (\A c \in Component : ~kinds[c].fresh) => joined = {}

(* The machine of a rollout starts from one of the strategies. *)
MCInit ==
    /\ machine \in Machines
    /\ IF machine = "host" THEN OneHost!Init ELSE TwoHosts!Init
    /\ machine \notin {"host", "hosts"} =>
          \A p \in DOMAIN hRepo : \A t \in DOMAIN hRepo[p] : hRepo[p][t] = "a"
    /\ Object!Init
    /\ machine # "object" => oKind = "plain" /\ oBase = CHOOSE d \in Cases!PlacementBase : TRUE
    /\ History!Init
    /\ machine # "history" => legacy = NoSnapshot
    /\ Bootstrap!Init
    /\ machine # "bootstrap" => size = 1
    /\ Init
    /\ machine # "rollout" => \A c \in Component : ModeOf(c) = "application"
    /\ UnreadFixed

MCNext ==
    \/ /\ UNCHANGED <<machine, driftVars>>
       /\ \/ machine = "rollout" /\ Next /\ UNCHANGED <<bootstrapVars, historyVars>>
          \/ machine = "bootstrap" /\ Bootstrap!Next /\ UNCHANGED <<vars, historyVars>>
          \/ machine = "history" /\ History!Next /\ UNCHANGED <<vars, bootstrapVars>>
    \/ /\ UNCHANGED <<machine, vars, bootstrapVars, historyVars>>
       /\ \/ machine = "object" /\ Object!Next /\ UNCHANGED hostVars
          \/ machine = "hosts" /\ TwoHosts!Next /\ UNCHANGED objectVars
          \/ machine = "host" /\ OneHost!Next /\ UNCHANGED objectVars

MCSpec == MCInit /\ [][MCNext]_allVars

-----------------------------------------------------------------------------
(* The properties of each machine are stated and explained in its module;   *)
(* RolloutSound is that of the rollout.                                     *)

(* Bootstrap passes that fail anywhere and are repeated: a host joins only  *)
(* what is prepared, a success is complete, and neither members nor the     *)
(* endpoint of the cluster are disturbed.                                   *)
BootstrapSound ==
    /\ [](Bootstrap!TypeOK /\ Bootstrap!JoinPrepared /\ Bootstrap!SuccessIsComplete)
    /\ Bootstrap!MembersUndisturbed
    /\ Bootstrap!EndpointStable

(* The history of successful applies. *)
HistoryIsRecentSuccesses == History!TypeOK /\ History!HistoryIsRecentSuccesses

(* The drift of a workload: an apply, a commit and a revert end clean, and  *)
(* each field of it has the owner and the guidance that its drift needs.    *)
ObjectDriftSound ==
    /\ Object!AppliedIsClean /\ Object!CommitAbsorbsDrift /\ Object!RevertRestores
    /\ Object!GlobalDriftIsOrphan /\ Object!ForbiddenFieldsKept /\ Object!GuidanceIsHonest

(* The drift of host files, on two hosts with inputs of their own: apply,   *)
(* commit and revert agree on the content of each host, and a step for one  *)
(* leaves the other alone.                                                  *)
HostDriftSound ==
    /\ [](machine = "hosts" =>
            TwoHosts!AppliedHostsClean /\ TwoHosts!RepoIsBundle /\ TwoHosts!RevertRestores)
    /\ [](machine = "host" => OneHost!CommitAbsorbsContent /\ OneHost!RevertRestores)
    /\ [][machine = "hosts" =>
            TwoHosts!ContainedStep /\ TwoHosts!SplitStep /\ TwoHosts!ScopedCommitStep]_hostVars
=============================================================================
