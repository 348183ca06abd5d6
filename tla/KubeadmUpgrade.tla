--------------------------- MODULE KubeadmUpgrade ---------------------------
(* The upgrade of a cluster's Kubernetes (pkg/runtime/kubernetes/upgrade.go, *)
(* with the ConfigMap access of pkg/client-go/kubernetes/expansion.go): the  *)
(* stored configurations first, then the first master, then the other        *)
(* masters and the workers one by one.  Every command on a host may fail and *)
(* the process may be killed; the operator runs the upgrade again.           *)
(* A version is its minor number.  kubeadm, the kubelet and the API server   *)
(* are external.                                                             *)
EXTENDS Naturals, Sequences

CONSTANTS Masters, Workers,      \* sequences of hosts; Masters[1] is master0
          None,
          MaxVersion,            \* versions 1 .. MaxVersion
          Local,                 \* the host the command is run on
          Faults,                \* "cmd", "batch", "kill", "api"
          MaxCommands            \* bound of the instance

Hosts == Masters \o Workers

KubeadmUpgradeAssumption ==
    /\ Masters \in Seq(STRING) /\ Workers \in Seq(STRING) /\ Masters # <<>>
    /\ MaxVersion \in Nat \ {0} /\ MaxCommands \in Nat
    /\ Faults \subseteq {"cmd", "batch", "kill", "api"}
    /\ \A i, j \in 1 .. Len(Hosts) : Hosts[i] = Hosts[j] => i = j

Versions == 1 .. MaxVersion
HostSet == {Hosts[i] : i \in 1 .. Len(Hosts)}
FirstMaster == Masters[1]

VARIABLES
    image,      \* the version of the rootfs image the cluster records
    cmKubeadm,  \* kubeadm-config: the version of its ClusterConfiguration
    cmKubelet,  \* kubelet-config: what its keys hold; "kubelet" is what is read
    kubeadm, kubelet, plane,  \* per host: binaries, control plane
    cordoned, running,        \* per host: node cordoned, kubelet running
    lost,       \* history: hosts whose node or kubelet an upgrade left behind unnoticed
    api,        \* does the API server answer?
    at,         \* index of the host being upgraded, 0 before the first
    step,       \* where the upgrade is
    target,     \* the version of the running or last upgrade
    result,     \* "none", "ok", "failed"
    commands    \* upgrades begun, for the bound

nodes == <<kubeadm, kubelet, plane, cordoned, running, lost>>
stored == <<cmKubeadm, cmKubelet>>
vars == <<image, stored, nodes, api, at, step, target, result, commands>>

Fails == "cmd" \in Faults

(* kubelet-config may be missing: older clusters name it by their version *)
Init ==
    /\ image = 1 /\ cmKubeadm = 1
    /\ cmKubelet \in {[kubelet |-> v, other |-> None] : v \in {None, 1}}
    /\ kubeadm = [h \in HostSet |-> 1] /\ kubelet = [h \in HostSet |-> 1]
    /\ plane = [h \in HostSet |-> IF \E i \in 1 .. Len(Masters) : Masters[i] = h THEN 1 ELSE None]
    /\ cordoned = [h \in HostSet |-> FALSE] /\ running = [h \in HostSet |-> TRUE]
    /\ api = TRUE /\ lost = {}
    /\ at = 0 /\ step = "idle" /\ target = 1 /\ result = "none" /\ commands = 0

Host == Hosts[at]

Goto(s) == step' = s /\ UNCHANGED result
Stop(r) == step' = "idle" /\ result' = r

(* The command of this step fails. *)
FailAt(s) == step = s /\ Fails /\ Stop("failed") /\ UNCHANGED <<image, stored, nodes, at>>

(* A command in the middle of a list fails.  On the local host the list ends *)
(* there; on another host ssh runs "a; b; c" and returns the result of c.    *)
MiddleFails(next) ==
    IF Host = Local THEN Stop("failed") ELSE Goto(next)

(* So does the upgrade of the node or the copy of the kubelet: the host      *)
(* keeps its version and the upgrade goes on.                                *)
LeftBehind(next) ==
    /\ MiddleFails(next)
    /\ lost' = IF Host = Local THEN lost ELSE lost \cup {Host}

-----------------------------------------------------------------------------
(* Upgrade: the same version is skipped, an older one and one more than a    *)
(* minor ahead of the recorded image are refused.                            *)
RefusedOlder(v) == v < image   \* mutant: no limit of one minor
Refused(v) == v < image \/ image + 1 < v

Upgrade(v) ==
    /\ step = "idle" /\ commands < MaxCommands
    /\ commands' = commands + 1
    /\ target' = v /\ at' = 0
    /\ IF v = image THEN Stop("none")
       ELSE IF Refused(v) THEN Stop("failed")
       ELSE step' = "config" /\ result' = "none"
    /\ UNCHANGED <<image, stored, nodes, api>>

(* FetchKubeletConfig copies the older cluster's document when there is none *)
Fetched == IF cmKubelet.kubelet = None THEN 1 ELSE cmKubelet.kubelet

(* autoUpdateConfig.  UpdateKubeletConfig writes the document under the      *)
(* ConfigMap's own name instead of the key FetchKubeletConfig reads.         *)
UpdateKubeadmConfig ==
    /\ step = "config" /\ api
    /\ cmKubelet' = [cmKubelet EXCEPT !.kubelet = Fetched]
    /\ cmKubeadm' = target
    /\ Goto("kubelet_config")
    /\ UNCHANGED <<image, nodes, at>>

UpdateKubeletConfig ==
    /\ step = "kubelet_config" /\ api
    /\ cmKubelet' = [cmKubelet EXCEPT !.other = target]
    /\ at' = 1
    /\ Goto("prepare")
    /\ UNCHANGED <<image, cmKubeadm, nodes>>

ConfigUnreachable ==
    /\ step \in {"config", "kubelet_config"} /\ ~api
    /\ Stop("failed") /\ UNCHANGED <<image, stored, nodes, at>>

-----------------------------------------------------------------------------
(* changeCRIVersion and changeKubeletExtraArgs edit files and restart the    *)
(* kubelet; then pingAPIServer waits up to a minute for the API server.      *)
Prepare ==
    /\ step = "prepare"
    /\ running' = [running EXCEPT ![Host] = TRUE]
    /\ Goto("ping")
    /\ UNCHANGED <<image, stored, kubeadm, kubelet, plane, cordoned, lost, at>>

Ping ==
    /\ step = "ping"
    /\ \/ api /\ Goto("kubeadm")
       \/ ~api /\ Stop("failed")
    /\ UNCHANGED <<image, stored, nodes, at>>

InstallKubeadm ==
    /\ step = "kubeadm"
    /\ kubeadm' = [kubeadm EXCEPT ![Host] = target]
    /\ Goto(IF Host = FirstMaster THEN "apply" ELSE "node")
    /\ UNCHANGED <<image, stored, kubelet, plane, cordoned, running, lost, at>>

(* kubeadm upgrade apply: external; it runs again without the CreateJob      *)
(* check when that check is what failed.                                     *)
Apply ==
    /\ step \in {"apply", "apply_again"}
    /\ \/ /\ kubeadm[Host] = target
          /\ plane' = [plane EXCEPT ![Host] = target]
          /\ Goto("cordon")
       \/ /\ Fails /\ step = "apply"
          /\ Goto("apply_again") /\ UNCHANGED plane
    /\ UNCHANGED <<image, stored, kubeadm, kubelet, cordoned, running, lost, at>>

(* One list of commands from here to the restart of the kubelet; on master0  *)
(* it begins with Cordon.                                                    *)
MayFailInside == (Host = Local /\ Fails) \/ (Host # Local /\ "batch" \in Faults)

(* kubeadm upgrade node: external; a master gets the cluster's version *)
UpgradeNode ==
    /\ step = "node"
    /\ \/ /\ plane' = IF plane[Host] = None THEN plane ELSE [plane EXCEPT ![Host] = cmKubeadm]
          /\ Goto("cordon") /\ UNCHANGED lost
       \/ MayFailInside /\ LeftBehind("cordon") /\ UNCHANGED plane
    /\ UNCHANGED <<image, stored, kubeadm, kubelet, cordoned, running, at>>

Cordon ==
    /\ step = "cordon"
    /\ \/ api /\ cordoned' = [cordoned EXCEPT ![Host] = TRUE] /\ Goto("kubelet")
       \/ ~api /\ MiddleFails("kubelet") /\ UNCHANGED cordoned
    /\ UNCHANGED <<image, stored, kubeadm, kubelet, plane, running, lost, at>>

\* mutant: a failed copy of the kubelet is ignored on every host
InstallKubeletLoose ==
    /\ step = "kubelet"
    /\ \/ kubelet' = [kubelet EXCEPT ![Host] = target]
       \/ Fails /\ UNCHANGED kubelet
    /\ Goto("restart")
    /\ UNCHANGED <<image, stored, kubeadm, plane, cordoned, running, lost, at>>

InstallKubelet ==
    /\ step = "kubelet"
    /\ \/ kubelet' = [kubelet EXCEPT ![Host] = target] /\ Goto("restart") /\ UNCHANGED lost
       \/ MayFailInside /\ LeftBehind("restart") /\ UNCHANGED kubelet
    /\ UNCHANGED <<image, stored, kubeadm, plane, cordoned, running, at>>

Restart ==
    /\ step = "restart"
    /\ \/ running' = [running EXCEPT ![Host] = TRUE] /\ Goto("uncordon")
       \/ Fails /\ running' = [running EXCEPT ![Host] = FALSE] /\ Stop("failed")
    /\ UNCHANGED <<image, stored, kubeadm, kubelet, plane, cordoned, lost, at>>

(* The next host of the list, or the end: the old rootfs image is replaced   *)
(* in the cluster's record only now.                                         *)
Proceed ==
    IF at < Len(Hosts)
    THEN at' = at + 1 /\ Goto("prepare") /\ UNCHANGED image
    ELSE image' = target /\ Stop("ok") /\ UNCHANGED at

\* mutant: the timeout of the uncordon is not an error
UncordonGivesUp ==
    /\ step = "uncordon"
    /\ \/ api /\ cordoned' = [cordoned EXCEPT ![Host] = FALSE]
       \/ UNCHANGED cordoned
    /\ Proceed
    /\ UNCHANGED <<stored, kubeadm, kubelet, plane, running, lost>>

(* tryUncordonNode retries every five seconds for a minute. *)
Uncordon ==
    /\ step = "uncordon"
    /\ \/ /\ api
          /\ cordoned' = [cordoned EXCEPT ![Host] = FALSE]
          /\ Proceed
       \/ /\ ~api \/ Fails
          /\ Stop("failed") /\ UNCHANGED <<cordoned, image, at>>
    /\ UNCHANGED <<stored, kubeadm, kubelet, plane, running, lost>>

-----------------------------------------------------------------------------
Step ==
    \/ UpdateKubeadmConfig \/ UpdateKubeletConfig \/ ConfigUnreachable
    \/ Prepare \/ Ping \/ InstallKubeadm \/ Apply \/ UpgradeNode
    \/ Cordon \/ InstallKubelet \/ Restart \/ Uncordon

Failure == \E s \in {"config", "kubelet_config", "prepare", "kubeadm", "apply", "apply_again",
                     "node", "cordon", "kubelet"} : FailAt(s)

Kill == /\ "kill" \in Faults /\ step # "idle"
        /\ Stop("failed") /\ UNCHANGED <<image, stored, nodes, at>>

(* The API server goes away and comes back: external *)
ApiChanges == /\ "api" \in Faults /\ api' = ~api
              /\ UNCHANGED <<image, stored, nodes, at, step, target, result, commands>>

Done == step = "idle" /\ commands = MaxCommands /\ UNCHANGED vars

Next ==
    \/ \E v \in Versions : Upgrade(v)
    \/ (Step \/ Failure \/ Kill) /\ UNCHANGED <<api, target, commands>>
    \/ ApiChanges
    \/ Done

Spec == Init /\ [][Next]_vars

-----------------------------------------------------------------------------
(* Every variable has its type. *)
TypeOK ==
    /\ image \in Versions /\ cmKubeadm \in Versions
    /\ cmKubelet \in [kubelet : Versions \cup {None}, other : Versions \cup {None}]
    /\ kubeadm \in [HostSet -> Versions] /\ kubelet \in [HostSet -> Versions]
    /\ plane \in [HostSet -> Versions \cup {None}]
    /\ cordoned \in [HostSet -> BOOLEAN] /\ running \in [HostSet -> BOOLEAN]
    /\ lost \subseteq HostSet
    /\ at \in 0 .. Len(Hosts) /\ result \in {"none", "ok", "failed"}

(* No kubelet is newer than the first master's API server or more than one   *)
(* minor behind it.                                                          *)
SkewAll == \A h \in HostSet :
    kubelet[h] <= plane[FirstMaster] /\ plane[FirstMaster] <= kubelet[h] + 1

(* However often upgrades fail and whichever version is tried next, no       *)
(* kubelet is newer than the first master's API server, and only one whose   *)
(* upgrade was lost is more than one minor behind it.                        *)
SkewHolds == \A h \in HostSet :
    /\ kubelet[h] <= plane[FirstMaster]
    /\ h \notin lost => plane[FirstMaster] <= kubelet[h] + 1

(* The hosts are upgraded in the order of the list, over all retries: a host *)
(* never runs a newer kubelet than one before it whose upgrade was not lost. *)
InOrder == \A i, j \in 1 .. Len(Hosts) :
    i < j /\ Hosts[i] \notin lost => kubelet[Hosts[j]] <= kubelet[Hosts[i]]

(* A host at the version of the upgrade, its control plane too.              *)
Upgraded(h) == kubelet[h] = target /\ plane[h] \in {None, target}

(* An upgrade that reports success leaves no host cordoned or without a      *)
(* running kubelet, and every host at the version but those whose upgrade    *)
(* was lost, whatever earlier runs left behind.                              *)
SuccessIsComplete == (step = "idle" /\ result = "ok") =>
    \A h \in HostSet : ~cordoned[h] /\ running[h] /\ (h \notin lost => Upgraded(h))

(* Whatever fails, over all retries. *)
UpgradeSound == TypeOK /\ SkewHolds /\ InOrder /\ SuccessIsComplete
=============================================================================
