--------------------------- MODULE KubeadmBootstrap ---------------------------
(***************************************************************************)
(* The bootstrap phase of the kubernetes component on several hosts        *)
(* (reconcile/kubeadm_bootstrap.go, called from                            *)
(* applyBootstrapRootfsComponent): a pass provisions the hosts that have   *)
(* no kubelet identity, initialises the first master, keeps the            *)
(* control-plane endpoint, joins the provisioned hosts and repairs the     *)
(* control planes that had joined before.  The same steps repair one       *)
(* control plane for sync revert (generated_control_plane_repair.go).      *)
(*                                                                         *)
(* A pass may fail before any of its steps, and the agent repeats it.  The *)
(* hook is scripts/poc/minimal-single-node/packages/kubernetes/hooks/      *)
(* bootstrap.sh; kubeadm itself is external: a command takes effect or     *)
(* fails, and kubeadm init may fail after it has written admin.conf.       *)
(***************************************************************************)
EXTENDS Naturals, Sequences, FiniteSets, SequencesExt

CONSTANTS
    Hosts,             \* all hosts the cluster may get, in order
    ControlPlane,      \* hosts with the master role
    LocalFirstMaster,  \* the agent runs on the first master
    Unset,             \* no control-plane endpoint
    MasterAddress,     \* address of the first master, port 6443
    RenderedEndpoint,  \* controlPlaneEndpoint of the rendered kubeadm.yaml
    InitIsAtomic,      \* kubeadm init leaves nothing behind when it fails
    MaxFaults          \* bound: failed steps

Host == Range(Hosts)
FirstMaster == Hosts[1]

BootstrapAssumption ==
    /\ Hosts # <<>> /\ IsInjective(Hosts)
    /\ FirstMaster \in ControlPlane /\ ControlPlane \subseteq Host
    /\ MasterAddress # Unset
    /\ MaxFaults \in Nat

VARIABLES
    size,      \* the cluster's hosts are the first `size' of Hosts
    down,      \* hosts whose services provisioning has stopped
    config,    \* /etc/kubernetes/kubeadm.yaml of each host
    kubelet,   \* fresh, partial (files of a failed init) or member
    images,    \* hosts the kubeadm images were imported to
    endpoint,  \* controlPlaneEndpoint in the kubeadm-config map
    pc,        \* next step of the pass
    todo,      \* hosts left for this step
    fresh,     \* targetHosts: hosts provisioned by this pass
    repair,    \* repairHosts: joined secondary control planes
    first,     \* firstMasterRepairHost is set
    regen,     \* history: control planes regenerated by this pass
    result,    \* how the last pass ended
    faults

cluster == <<down, config, kubelet, images, endpoint>>
plan    == <<fresh, repair, first>>
vars    == <<size, cluster, pc, todo, plan, regen, result, faults>>

Config == {"none", "rendered", "cluster", "join"}

Init ==
    /\ size \in 1..Len(Hosts)
    /\ down = {} /\ images = {}
    /\ config = [h \in Host |-> "none"]
    /\ kubelet = [h \in Host |-> "fresh"]
    /\ endpoint = Unset
    /\ pc = "idle" /\ todo = <<>> /\ fresh = <<>> /\ repair = <<>>
    /\ first = FALSE /\ regen = {} /\ result = "None" /\ faults = 0

-----------------------------------------------------------------------------
Nodes == SubSeq(Hosts, 1, size)      \* nodeExecutionHosts
Single == size = 1                   \* isSingleNode

\* Mutant: a host with a kubeadm configuration counts as joined.
JoinedByConfig(h) == config[h] # "none"

Joined(h) == kubelet[h] # "fresh"    \* hostHasKubeletIdentity

\* Mutant: an empty list of fresh hosts is taken for no list at all.
ProvisioningHostsNil ==
    LET found == SelectSeq(Nodes, LAMBDA h : ~Joined(h))
    IN  IF Single \/ found = <<>> THEN Nodes ELSE found

\* provisioningHostsForComponent: joined hosts are left alone, except that a
\* single node is always provisioned.
ProvisioningHosts ==
    IF Single THEN Nodes ELSE SelectSeq(Nodes, LAMBDA h : ~Joined(h))

\* joinedControlPlaneRepairHosts
RepairHosts ==
    IF Single THEN <<>>
    ELSE SelectSeq(Nodes, LAMBDA h : /\ h # FirstMaster
                                     /\ h \in ControlPlane /\ Joined(h))

Remaining == SelectSeq(fresh, LAMBDA h : h # FirstMaster)

Goto(step, hosts) == pc' = step /\ todo' = hosts

Finish(how) ==
    /\ Goto("idle", <<>>)
    /\ result' = how

Begin ==
    /\ pc = "idle"
    /\ fresh' = ProvisioningHosts
    /\ repair' = RepairHosts
    /\ first' = (fresh' = <<>> /\ ~Single /\ Joined(FirstMaster))
    /\ regen' = {} /\ result' = "None"
    /\ Goto("stop", <<>>)
    /\ UNCHANGED <<size, cluster, faults>>

\* RepairGeneratedControlPlaneHost, for a revert of one host.
BeginRepair ==
    /\ pc = "idle"
    /\ \E h \in Range(Nodes) \cap ControlPlane :
           /\ Joined(h)
           /\ repair' = IF h = FirstMaster THEN <<>> ELSE <<h>>
           /\ first' = (h = FirstMaster)
    /\ fresh' = <<>> /\ regen' = {} /\ result' = "None"
    /\ Goto("endpoint", <<>>)
    /\ UNCHANGED <<size, cluster, faults>>

-----------------------------------------------------------------------------
(* Provisioning *)

StopServices ==
    /\ pc = "stop"
    /\ down' = down \cup Range(fresh)
    /\ Goto("content", fresh)
    /\ UNCHANGED <<size, config, kubelet, images, endpoint, plan, regen, result,
                   faults>>

\* Content, preflight hooks and reload; a failure may come after any host.
ApplyContent ==
    /\ pc = "content"
    /\ IF todo # <<>>
       THEN /\ config' = [config EXCEPT ![Head(todo)] = "rendered"]
            /\ Goto("content", Tail(todo))
       ELSE Goto("init", <<>>) /\ UNCHANGED config
    /\ UNCHANGED <<size, down, kubelet, images, endpoint, plan, regen, result,
                   faults>>

\* Mutant: a pass that joins nobody ends here.
AfterInitJoinOnly ==
    IF Single \/ Remaining = <<>>
    THEN Finish("Succeeded")
    ELSE Goto("endpoint", <<>>) /\ UNCHANGED result

\* What comes after the first master's hook: nothing more for a single node
\* or if there is nobody to join or to repair.
AfterInit ==
    IF Single \/ (Remaining = <<>> /\ repair = <<>> /\ ~first)
    THEN Finish("Succeeded")
    ELSE Goto("endpoint", <<>>) /\ UNCHANGED result

\* Mutant: the hook initialises a first master that has joined, too.
RunHookOnFirstMasterAgain ==
    /\ pc = "init"
    /\ IF fresh = <<>> THEN UNCHANGED <<kubelet, endpoint, down>>
       ELSE /\ down' = down \ {FirstMaster}
            /\ kubelet' = [kubelet EXCEPT ![FirstMaster] = "member"]
            /\ endpoint' = RenderedEndpoint
    /\ AfterInit
    /\ UNCHANGED <<size, config, images, plan, regen, faults>>

\* The hook on the first master: kubeadm init unless admin.conf exists.  It
\* runs if there are hosts to provision, even if the first master has joined.
RunHookOnFirstMaster ==
    /\ pc = "init"
    /\ IF fresh = <<>> THEN UNCHANGED <<kubelet, endpoint, down>>
       ELSE /\ down' = down \ {FirstMaster}
            /\ IF Joined(FirstMaster) THEN UNCHANGED <<kubelet, endpoint>>
               ELSE /\ kubelet' = [kubelet EXCEPT ![FirstMaster] = "member"]
                    /\ endpoint' = RenderedEndpoint
    /\ AfterInit
    /\ UNCHANGED <<size, config, images, plan, regen, faults>>

\* kubeadm init fails with admin.conf written.
InitLeavesFiles ==
    /\ pc = "init" /\ fresh # <<>> /\ ~Joined(FirstMaster)
    /\ ~InitIsAtomic /\ faults < MaxFaults
    /\ faults' = faults + 1
    /\ kubelet' = [kubelet EXCEPT ![FirstMaster] = "partial"]
    /\ Finish("Failed")
    /\ UNCHANGED <<size, down, config, images, endpoint, plan, regen>>

-----------------------------------------------------------------------------
(* Endpoint, repair of the first master, join metadata, images *)

Involved ==
    Range(Remaining) \cup Range(repair)
        \cup IF first THEN {FirstMaster} ELSE {}

\* Mutant: only control planes that have joined need the endpoint.
EndpointNeededToRepair == repair # <<>> \/ first

EndpointNeeded == Involved \cap ControlPlane # {}   \* containsControlPlaneHost

\* uploadKubeadmClusterConfig
Upload(address) ==
    /\ endpoint' = address
    /\ config' = [config EXCEPT ![FirstMaster] = "cluster"]

(***************************************************************************)
(* ensureStableControlPlaneEndpoint keeps the endpoint that the            *)
(* kubeadm-config map has; without one, or if the map cannot be read, it   *)
(* is the address of the first master.                                     *)
(***************************************************************************)
EnsureStableControlPlaneEndpoint ==
    /\ pc = "endpoint"
    /\ IF ~EndpointNeeded THEN UNCHANGED <<endpoint, config, faults>>
       ELSE /\ kubelet[FirstMaster] = "member"
            /\ \/ /\ Upload(IF endpoint = Unset THEN MasterAddress ELSE endpoint)
                  /\ UNCHANGED faults
               \/ /\ faults < MaxFaults /\ faults' = faults + 1
                  /\ Upload(MasterAddress)
    /\ Goto("first", <<>>)
    /\ UNCHANGED <<size, down, kubelet, images, plan, regen, result>>

RepairJoinedFirstControlPlane ==
    /\ pc = "first"
    /\ regen' = IF first THEN regen \cup {FirstMaster} ELSE regen
    /\ IF Remaining = <<>> /\ repair = <<>>
       THEN Finish("Succeeded")
       ELSE Goto("metadata", <<>>) /\ UNCHANGED result
    /\ UNCHANGED <<size, cluster, plan, faults>>

\* generateKubeadmJoinMetadata needs the API server of the first master.
GenerateKubeadmJoinMetadata ==
    /\ pc = "metadata"
    /\ kubelet[FirstMaster] = "member"
    /\ Goto("preload", IF LocalFirstMaster THEN Remaining ELSE <<>>)
    /\ UNCHANGED <<size, cluster, plan, regen, result, faults>>

PreloadKubeadmBootstrapImages ==
    /\ pc = "preload"
    /\ IF todo # <<>>
       THEN /\ images' = images \cup {Head(todo)}
            /\ Goto("preload", Tail(todo))
       ELSE Goto("config", Remaining) /\ UNCHANGED images
    /\ UNCHANGED <<size, down, config, kubelet, endpoint, plan, regen, result,
                   faults>>

-----------------------------------------------------------------------------
(* Join and repair *)

\* renderKubeadmJoinConfig and writeKubeadmConfigForHost, with the token and
\* certificate key of this pass.
JoinConfig(h) == [config EXCEPT ![h] = "join"]

WriteJoinConfig ==
    /\ pc = "config"
    /\ IF todo # <<>>
       THEN /\ config' = JoinConfig(Head(todo))
            /\ Goto("join", todo)
       ELSE Goto("repair", repair) /\ UNCHANGED config
    /\ UNCHANGED <<size, down, kubelet, images, endpoint, plan, regen, result,
                   faults>>

\* The hook on another host: kubeadm join with that configuration.
RunHookOnHost ==
    /\ pc = "join"
    /\ kubelet' = [kubelet EXCEPT ![Head(todo)] = "member"]
    /\ down' = down \ {Head(todo)}
    /\ Goto("config", Tail(todo))
    /\ UNCHANGED <<size, config, images, endpoint, plan, regen, result, faults>>

RepairJoinedControlPlanes ==
    /\ pc = "repair"
    /\ IF todo # <<>>
       THEN /\ config' = JoinConfig(Head(todo))
            /\ regen' = regen \cup {Head(todo)}
            /\ Goto("repair", Tail(todo)) /\ UNCHANGED result
       ELSE Finish("Succeeded") /\ UNCHANGED <<config, regen>>
    /\ UNCHANGED <<size, down, kubelet, images, endpoint, plan, faults>>

-----------------------------------------------------------------------------
\* A command that cannot succeed as there is no API server.
Impossible ==
    /\ \/ pc = "endpoint" /\ EndpointNeeded /\ kubelet[FirstMaster] # "member"
       \/ pc = "metadata" /\ kubelet[FirstMaster] # "member"
    /\ Finish("Failed")
    /\ UNCHANGED <<size, cluster, plan, regen, faults>>

\* A step fails or the agent dies before it takes effect.
StepFails ==
    /\ pc # "idle" /\ faults < MaxFaults
    /\ faults' = faults + 1
    /\ Finish("Failed")
    /\ UNCHANGED <<size, cluster, plan, regen>>

\* A host is added to the Clusterfile.
AddHost ==
    /\ pc = "idle" /\ size < Len(Hosts)
    /\ size' = size + 1
    /\ UNCHANGED <<cluster, pc, todo, plan, regen, result, faults>>

Step ==
    \/ StopServices \/ ApplyContent \/ RunHookOnFirstMaster
    \/ EnsureStableControlPlaneEndpoint \/ RepairJoinedFirstControlPlane
    \/ GenerateKubeadmJoinMetadata \/ PreloadKubeadmBootstrapImages
    \/ WriteJoinConfig \/ RunHookOnHost \/ RepairJoinedControlPlanes
    \/ Impossible

Next ==
    Begin \/ BeginRepair \/ Step
        \/ InitLeavesFiles \/ StepFails \/ AddHost

Spec == Init /\ [][Next]_vars

-----------------------------------------------------------------------------
(* Properties *)

TypeOK ==
    /\ size \in 1..Len(Hosts)
    /\ down \subseteq Host /\ images \subseteq Host /\ regen \subseteq Host
    /\ config \in [Host -> Config]
    /\ kubelet \in [Host -> {"fresh", "partial", "member"}]
    /\ endpoint \in {Unset, MasterAddress, RenderedEndpoint}
    /\ {todo, fresh, repair} \subseteq Seq(Host)
    /\ faults \in 0..MaxFaults

(***************************************************************************)
(* A host that has joined keeps its services while the cluster has other   *)
(* hosts: no later pass, whatever it provisions or repairs and wherever an *)
(* earlier one failed, stops them (provisioningHostsForComponent).  Only a *)
(* single node is provisioned again, and its hook starts the kubelet.      *)
(***************************************************************************)
MembersUndisturbed ==
    [][\A h \in Host :
           Joined(h) /\ ~Single /\ h \notin down => h \notin down']_vars

(***************************************************************************)
(* Whoever joined did so with everything in place: the first master was    *)
(* initialised, the images were imported if they can be, and for a control *)
(* plane the cluster had an endpoint of its own.                           *)
(***************************************************************************)
JoinPrepared ==
    \A h \in Host \ {FirstMaster} :
        Joined(h) =>
            /\ kubelet[FirstMaster] = "member"
            /\ LocalFirstMaster => h \in images
            /\ h \in ControlPlane => endpoint # Unset

(***************************************************************************)
(* After a successful pass or repair every host it provisioned has joined  *)
(* and runs, and every control plane it was to repair has been             *)
(* regenerated, with an endpoint in the uploaded configuration.  (Whether  *)
(* the API server answers is up to the steps on the cluster that follow.)  *)
(***************************************************************************)
SuccessIsComplete ==
    result = "Succeeded" =>
        /\ \A h \in Range(fresh) : Joined(h) /\ h \notin down
        /\ Range(repair) \subseteq regen
        /\ first => FirstMaster \in regen
        /\ regen # {} => endpoint # Unset

\* The control-plane endpoint of a cluster, once there is one, stays
\* (ensureStableControlPlaneEndpoint).
EndpointStable ==
    [][endpoint # Unset => endpoint' = endpoint]_vars

\* Every host of the cluster is a member.
AllMembers == \A h \in Range(Nodes) : kubelet[h] = "member"

(***************************************************************************)
(* Wherever passes failed, once failures end the repeated pass makes every *)
(* host of the cluster a member and leaves no host with its services down. *)
(***************************************************************************)
EventuallyJoined == <>[]AllMembers /\ []<>(down = {})
=============================================================================
