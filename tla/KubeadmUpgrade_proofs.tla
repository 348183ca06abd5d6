------------------------ MODULE KubeadmUpgrade_proofs ------------------------
(***************************************************************************)
(* Proofs about KubeadmUpgrade for any masters, workers, versions, number  *)
(* of upgrades and place the command is run on.                            *)
(***************************************************************************)
EXTENDS KubeadmUpgrade, SequenceTheorems, TLAPS

Late == {"cordon", "kubelet", "restart", "uncordon"}
HostSteps == {"prepare", "ping", "kubeadm", "apply", "apply_again", "node"} \cup Late
Steps == {"idle", "config", "kubelet_config"} \cup HostSteps

Complete(h) == ~cordoned[h] /\ running[h] /\ (h \notin lost => Upgraded(h))

\* Where the running upgrade is: the hosts before the current one are done,
\* and the first master comes before all others.
ProgressInv ==
    /\ step \in Steps /\ target \in Versions
    /\ step # "idle" => target = image + 1
    /\ step \in HostSteps \cup {"kubelet_config"} => cmKubeadm = target
    /\ step \in HostSteps =>
          /\ at >= 1
          /\ \A i \in 1 .. at - 1 : Complete(Hosts[i])
          /\ step \in {"apply", "apply_again"} => at = 1
          /\ step = "node" => at > 1
          /\ at > 1 \/ step \in Late => plane[FirstMaster] = target
          /\ step \in Late /\ Host \notin lost => plane[Host] \in {None, target}
          /\ step \in {"restart", "uncordon"} /\ Host \notin lost => kubelet[Host] = target
          /\ step = "uncordon" => running[Host]

\* The first master's API server has the recorded version or the next, no
\* kubelet is newer, and older than the record only one that was lost.
VersionInv ==
    /\ plane[FirstMaster] \in {image, image + 1}
    /\ \A h \in HostSet : /\ kubelet[h] <= plane[FirstMaster]
                          /\ h \notin lost => image <= kubelet[h]

IInv == TypeOK /\ ProgressInv /\ VersionInv /\ InOrder /\ SuccessIsComplete

-----------------------------------------------------------------------------
(* The list of hosts. *)

\* Hosts begins with the first master and lists every host once.
LEMMA HostList ==
    ASSUME KubeadmUpgradeAssumption
    PROVE  /\ Len(Hosts) \in Nat /\ Len(Hosts) >= 1
           /\ Hosts[1] = FirstMaster /\ FirstMaster \in HostSet
           /\ \A i \in 1 .. Len(Hosts) : Hosts[i] \in HostSet
           /\ \A h \in HostSet : \E i \in 1 .. Len(Hosts) : h = Hosts[i]
           /\ \A i, j \in 1 .. Len(Hosts) : Hosts[i] = Hosts[j] => i = j
<1>1. Masters \in Seq(STRING) /\ Workers \in Seq(STRING) /\ Masters # <<>>
    BY DEF KubeadmUpgradeAssumption
<1>2. Len(Masters) \in Nat /\ Len(Masters) >= 1 /\ Len(Workers) \in Nat
    BY <1>1, EmptySeq, LenProperties
<1>3. Len(Hosts) = Len(Masters) + Len(Workers) /\ Hosts[1] = Masters[1]
    BY <1>1, <1>2, ConcatProperties DEF Hosts
<1>4. Len(Hosts) \in Nat /\ Len(Hosts) >= 1
    BY <1>2, <1>3
<1>5. \A i, j \in 1 .. Len(Hosts) : Hosts[i] = Hosts[j] => i = j
    BY DEF KubeadmUpgradeAssumption
<1> QED
    BY <1>3, <1>4, <1>5 DEF HostSet, FirstMaster

\* The versions are an interval that starts at 1.
LEMMA VersionRange ==
    ASSUME KubeadmUpgradeAssumption
    PROVE  1 \in Versions /\ Versions \subseteq Nat
BY DEF KubeadmUpgradeAssumption, Versions

-----------------------------------------------------------------------------
(* The invariant holds at the start... *)

\* The start: one version everywhere, nothing under way.
LEMMA Start ==
    ASSUME KubeadmUpgradeAssumption
    PROVE  Init => IInv
<1> SUFFICES ASSUME Init PROVE IInv
    OBVIOUS
<1>1. TypeOK
    BY HostList, VersionRange DEF Init, TypeOK
<1>2. plane[FirstMaster] = 1
    <2>1. \E i \in 1 .. Len(Masters) : Masters[i] = FirstMaster
        <3>1. Len(Masters) \in Nat /\ Len(Masters) >= 1
            BY EmptySeq, LenProperties DEF KubeadmUpgradeAssumption
        <3> QED
            BY <3>1 DEF FirstMaster
    <2> QED
        BY <2>1, HostList DEF Init
<1>3. ProgressInv
    BY VersionRange DEF Init, ProgressInv, Steps, HostSteps, Late
<1>4. VersionInv /\ InOrder /\ SuccessIsComplete
    BY <1>2, HostList DEF Init, VersionInv, InOrder, SuccessIsComplete
<1> QED
    BY <1>1, <1>3, <1>4 DEF IInv

-----------------------------------------------------------------------------
(* ...and every step keeps it. *)

\* The host an upgrade works on, none of those before it.
LEMMA CurrentHost ==
    ASSUME KubeadmUpgradeAssumption, IInv, step \in HostSteps
    PROVE  /\ at \in 1 .. Len(Hosts) /\ Host \in HostSet
           /\ \A i \in 1 .. at - 1 : Hosts[i] \in HostSet /\ Hosts[i] # Host
           /\ Host = FirstMaster <=> at = 1
           /\ target = image + 1 /\ cmKubeadm = target
<1>1. at \in 1 .. Len(Hosts)
    BY HostList DEF IInv, TypeOK, ProgressInv
<1>2. step # "idle"
    BY DEF HostSteps, Late
<1> QED
    BY <1>1, <1>2, HostList DEF IInv, ProgressInv, Host

\* The parts an action that only fails or waits can disturb.
LEMMA StopStep ==
    ASSUME KubeadmUpgradeAssumption, IInv, step' = "idle", result' \in {"none", "failed"},
           target' \in Versions, at' \in 0 .. Len(Hosts), UNCHANGED <<image, stored, nodes>>
    PROVE  IInv'
<1>1. TypeOK'
    BY DEF IInv, TypeOK, stored, nodes
<1>2. ProgressInv'
    BY DEF ProgressInv, Steps, HostSteps, Late
<1>3. VersionInv' /\ InOrder' /\ SuccessIsComplete'
    BY DEF IInv, VersionInv, InOrder, SuccessIsComplete, stored, nodes
<1> QED
    BY <1>1, <1>2, <1>3 DEF IInv

\* A step that touches no kubelet and no recorded image, and not the first
\* master's control plane, while an upgrade goes on.
LEMMA QuietStep ==
    ASSUME KubeadmUpgradeAssumption, IInv, TypeOK', ProgressInv',
           UNCHANGED <<image, kubelet>>, plane'[FirstMaster] = plane[FirstMaster],
           step' # "idle", lost' = lost
    PROVE  IInv'
<1>1. VersionInv' /\ InOrder' /\ SuccessIsComplete'
    BY DEF IInv, VersionInv, InOrder, SuccessIsComplete
<1> QED
    BY <1>1 DEF IInv

\* A new request: accepted only for the version after the recorded one.
LEMMA UpgradeStep ==
    ASSUME KubeadmUpgradeAssumption, IInv, NEW v \in Versions, Upgrade(v)
    PROVE  IInv'
<1>1. target' = v /\ at' = 0 /\ UNCHANGED <<image, stored, nodes>>
    BY DEF Upgrade
<1>2. at' \in 0 .. Len(Hosts)
    BY <1>1, HostList
<1>3. CASE step' = "idle" /\ result' \in {"none", "failed"}
    BY <1>1, <1>2, <1>3, StopStep
<1>4. CASE v # image /\ ~Refused(v) /\ step' = "config" /\ result' = "none"
    <2>1. v = image + 1
        BY <1>4, VersionRange DEF Refused, IInv, TypeOK
    <2>2. TypeOK'
        BY <1>1, <1>2, <1>4 DEF IInv, TypeOK, stored, nodes
    <2>3. ProgressInv'
        BY <1>1, <1>4, <2>1 DEF ProgressInv, Steps, HostSteps, Late
    <2> QED
        BY <1>1, <1>4, <2>2, <2>3, QuietStep DEF nodes
<1> QED
    BY <1>3, <1>4 DEF Upgrade, Stop

\* The stored configurations first: kubeadm-config has the version before any
\* host is touched.
LEMMA ConfigStep ==
    ASSUME KubeadmUpgradeAssumption, IInv, UNCHANGED <<api, target, commands>>,
           UpdateKubeadmConfig \/ UpdateKubeletConfig
    PROVE  IInv'
<1>t. TypeOK /\ target \in Versions /\ (step # "idle" => target = image + 1)
    BY DEF IInv, ProgressInv
<1>1. CASE UpdateKubeadmConfig
    <2>1. step = "config" /\ step' = "kubelet_config" /\ UNCHANGED <<image, nodes, at, result>>
        BY <1>1 DEF UpdateKubeadmConfig, Goto
    <2>2. Fetched \in Versions
        BY <1>t, VersionRange DEF TypeOK, Fetched
    <2>3. TypeOK'
        BY <1>1, <1>t, <2>1, <2>2 DEF TypeOK, nodes, UpdateKubeadmConfig
    <2>4. ProgressInv'
        BY <1>1, <1>t, <2>1 DEF ProgressInv, UpdateKubeadmConfig, Steps, HostSteps, Late
    <2> QED
        BY <2>1, <2>3, <2>4, QuietStep DEF nodes
<1>2. CASE UpdateKubeletConfig
    <2>1. /\ step = "kubelet_config" /\ step' = "prepare" /\ at' = 1
          /\ UNCHANGED <<image, cmKubeadm, nodes, result>>
        BY <1>2 DEF UpdateKubeletConfig, Goto
    <2>2. cmKubeadm = target
        BY <2>1 DEF IInv, ProgressInv
    <2>3. TypeOK'
        <3>1. cmKubelet' \in [kubelet : Versions \cup {None}, other : Versions \cup {None}]
            BY <1>2, <1>t DEF TypeOK, UpdateKubeletConfig
        <3>2. at' \in 0 .. Len(Hosts)
            BY <2>1, HostList
        <3> QED
            BY <1>t, <2>1, <3>1, <3>2 DEF TypeOK, nodes
    <2>4. ProgressInv'
        BY <1>t, <2>1, <2>2 DEF ProgressInv, Steps, HostSteps, Late
    <2> QED
        BY <2>1, <2>3, <2>4, QuietStep DEF nodes
<1> QED
    BY <1>1, <1>2

\* Files and binaries before the control plane of the host.
LEMMA BinariesStep ==
    ASSUME KubeadmUpgradeAssumption, IInv, UNCHANGED <<api, target, commands>>,
           Prepare \/ InstallKubeadm \/ (Ping /\ step' # "idle")
    PROVE  IInv'
<1>1. /\ step \in {"prepare", "ping", "kubeadm"} /\ step \in HostSteps
      /\ UNCHANGED <<image, stored, kubelet, plane, cordoned, lost, at, result>>
      /\ \A h \in HostSet : running[h] => running'[h]
      /\ running' \in [HostSet -> BOOLEAN] /\ kubeadm' \in [HostSet -> Versions]
      /\ step' \in {"ping", "kubeadm", "apply", "node"}
      /\ step' = "apply" => at = 1
      /\ step' = "node" => at > 1
    <2>1. step \in {"prepare", "ping", "kubeadm"} /\ step \in HostSteps
        BY DEF Prepare, InstallKubeadm, Ping, HostSteps
    <2>2. /\ kubeadm \in [HostSet -> Versions] /\ running \in [HostSet -> BOOLEAN]
          /\ target \in Versions
        BY DEF IInv, TypeOK, ProgressInv
    <2>3. at \in 1 .. Len(Hosts) /\ Host \in HostSet /\ (Host = FirstMaster <=> at = 1)
        BY <2>1, CurrentHost
    <2>4. CASE Prepare
        BY <2>1, <2>2, <2>3, <2>4 DEF Prepare, Goto
    <2>5. CASE InstallKubeadm
        BY <2>1, <2>2, <2>3, <2>5, HostList DEF InstallKubeadm, Goto
    <2>6. CASE Ping /\ step' # "idle"
        BY <2>1, <2>2, <2>6 DEF Ping, Goto, Stop, nodes
    <2> QED
        BY <2>4, <2>5, <2>6
<1>2. TypeOK'
    BY <1>1 DEF IInv, TypeOK, stored
<1>3. ProgressInv'
    <2>1. \A i \in 1 .. at - 1 : Complete(Hosts[i])'
        BY <1>1, CurrentHost DEF IInv, ProgressInv, Complete, Upgraded
    <2>2. target = image + 1 /\ cmKubeadm = target /\ at >= 1 /\ target \in Versions
          /\ (at > 1 => plane[FirstMaster] = target)
        BY <1>1, CurrentHost DEF IInv, ProgressInv
    <2> QED
        BY <1>1, <2>1, <2>2 DEF ProgressInv, Steps, HostSteps, Late, stored
<1> QED
    BY <1>1, <1>2, <1>3, QuietStep

\* The upgrade of the node or the copy of the kubelet fails unnoticed.
LEMMA LossStep ==
    ASSUME KubeadmUpgradeAssumption, IInv, UNCHANGED <<api, target, commands>>,
           UNCHANGED <<image, stored, kubeadm, kubelet, plane, cordoned, running, at, result>>,
           lost' = lost \cup {Host},
           \/ step = "node" /\ step' = "cordon"
           \/ step = "kubelet" /\ step' = "restart"
    PROVE  IInv'
<1>1. step \in HostSteps /\ step' \in Late /\ step' \in HostSteps /\ step' \in Steps
    BY DEF Steps, HostSteps, Late
<1>2. Host \in HostSet /\ Host' = Host /\ target = image + 1 /\ cmKubeadm = target
    BY <1>1, CurrentHost DEF Host
<1>3. TypeOK'
    BY <1>2 DEF IInv, TypeOK, stored
<1>4. \A i \in 1 .. at - 1 : Complete(Hosts[i])'
    BY <1>1 DEF IInv, ProgressInv, Complete, Upgraded
<1>5. ProgressInv'
    BY <1>1, <1>2, <1>4 DEF IInv, ProgressInv, HostSteps, Late, stored
<1>6. VersionInv' /\ InOrder' /\ SuccessIsComplete'
    BY <1>1 DEF IInv, VersionInv, InOrder, SuccessIsComplete, HostSteps, Late
<1> QED
    BY <1>3, <1>5, <1>6 DEF IInv

\* The control plane of the host: on the first master it gets the version of
\* the upgrade, elsewhere the one kubeadm-config has, which is the same.
LEMMA PlaneStep ==
    ASSUME KubeadmUpgradeAssumption, IInv,
           UNCHANGED <<api, target, commands>>,
           Apply \/ (UpgradeNode /\ step' # "idle")
    PROVE  IInv'
<1>1. step \in {"apply", "apply_again", "node"} /\ step \in HostSteps
    BY DEF Apply, UpgradeNode, HostSteps
<1>2. /\ at \in 1 .. Len(Hosts) /\ Host \in HostSet
      /\ \A i \in 1 .. at - 1 : Hosts[i] \in HostSet /\ Hosts[i] # Host
      /\ Host = FirstMaster <=> at = 1
      /\ target = image + 1 /\ cmKubeadm = target
    BY <1>1, CurrentHost
<1>3. TypeOK /\ target \in Versions /\ plane \in [HostSet -> Versions \cup {None}]
    BY DEF IInv, TypeOK, ProgressInv
<1>4. \A i \in 1 .. at - 1 : Complete(Hosts[i])
    BY <1>1 DEF IInv, ProgressInv
<1>5. CASE step' = "apply_again"
    <2>1. Apply /\ step = "apply" /\ UNCHANGED plane
        BY <1>5 DEF Apply, UpgradeNode, Goto, LeftBehind, MiddleFails, Stop
    <2>2. UNCHANGED <<image, stored, kubeadm, kubelet, cordoned, running, lost, at, result>>
        BY <1>5, <2>1 DEF Apply, Goto
    <2>3. TypeOK'
        BY <1>3, <2>1, <2>2 DEF TypeOK, stored
    <2>4. ProgressInv'
        BY <1>5, <2>1, <2>2, HostList
           DEF IInv, ProgressInv, Steps, HostSteps, Late, Complete, Upgraded, stored, Host
    <2> QED
        BY <1>5, <2>1, <2>2, <2>3, <2>4, QuietStep
<1>6. ASSUME NEW new \in {None, target}, plane' = [plane EXCEPT ![Host] = new],
             Host = FirstMaster => new = target, step' = "cordon",
             at > 1 => plane[FirstMaster] = target,
             UNCHANGED <<image, stored, kubeadm, kubelet, cordoned, running, lost, at, result>>
      PROVE  IInv'
    <2>1. plane'[Host] = new /\ plane'[FirstMaster] = target
        BY <1>2, <1>3, <1>6, HostList
    <2>2. TypeOK'
        BY <1>2, <1>3, <1>6 DEF TypeOK, stored
    <2>3. \A i \in 1 .. at - 1 : Complete(Hosts[i])'
        BY <1>2, <1>3, <1>4, <1>6 DEF Complete, Upgraded
    <2>4. ProgressInv'
        BY <1>2, <1>3, <1>6, <2>1, <2>3 DEF ProgressInv, Steps, HostSteps, Late, stored, Host
    <2>5. VersionInv'
        <3>1. image \in Nat /\ \A h \in HostSet : kubelet[h] \in Nat
            BY VersionRange DEF IInv, TypeOK
        <3> QED
            BY <1>2, <1>6, <2>1, <3>1 DEF IInv, VersionInv
    <2>6. InOrder' /\ SuccessIsComplete'
        BY <1>6 DEF IInv, InOrder, SuccessIsComplete
    <2> QED
        BY <2>2, <2>4, <2>5, <2>6 DEF IInv
<1>7. CASE step' # "apply_again"
    <2>1. CASE Apply
        <3>1. /\ plane' = [plane EXCEPT ![Host] = target] /\ step' = "cordon"
              /\ UNCHANGED <<image, stored, kubeadm, kubelet, cordoned, running, lost, at, result>>
            BY <1>7, <2>1 DEF Apply, Goto
        <3>2. at = 1
            BY <2>1, <1>1 DEF IInv, ProgressInv, Apply
        <3> QED
            BY <3>1, <3>2, <1>6
    <2>2. CASE UpgradeNode /\ step' # "idle"
        <3>1. at > 1 /\ plane[FirstMaster] = target /\ Host # FirstMaster
            BY <2>2, <1>1, <1>2 DEF IInv, ProgressInv, UpgradeNode
        <3>2. CASE /\ plane' = IF plane[Host] = None THEN plane ELSE [plane EXCEPT ![Host] = cmKubeadm]
                   /\ Goto("cordon") /\ UNCHANGED lost
            <4>1. step' = "cordon"
                  /\ UNCHANGED <<image, stored, kubeadm, kubelet, cordoned, running, lost, at, result>>
                BY <2>2, <3>2 DEF UpgradeNode, Goto
            <4>2. plane' = [plane EXCEPT ![Host] = IF plane[Host] = None THEN None ELSE target]
                BY <1>2, <1>3, <3>2
            <4> QED
                BY <3>1, <4>1, <4>2, <1>6
        <3>3. CASE LeftBehind("cordon") /\ UNCHANGED plane
            <4>1. /\ step = "node" /\ step' = "cordon" /\ lost' = lost \cup {Host}
                  /\ UNCHANGED <<image, stored, kubeadm, kubelet, plane, cordoned, running, at, result>>
                BY <2>2, <3>3 DEF UpgradeNode, LeftBehind, MiddleFails, Goto, Stop
            <4> QED
                BY <4>1, LossStep
        <3> QED
            BY <2>2, <3>2, <3>3 DEF UpgradeNode
    <2> QED
        BY <2>1, <2>2
<1> QED
    BY <1>5, <1>7

\* The kubelet of the host, between cordon and uncordon.
LEMMA KubeletStep ==
    ASSUME KubeadmUpgradeAssumption, IInv,
           UNCHANGED <<api, target, commands>>, step' # "idle",
           Cordon \/ InstallKubelet \/ Restart
    PROVE  IInv'
<1>1. step \in {"cordon", "kubelet", "restart"} /\ step \in Late /\ step \in HostSteps
    BY DEF Cordon, InstallKubelet, Restart, Late, HostSteps
<1>2. /\ at \in 1 .. Len(Hosts) /\ Host \in HostSet
      /\ \A i \in 1 .. at - 1 : Hosts[i] \in HostSet /\ Hosts[i] # Host
      /\ target = image + 1 /\ cmKubeadm = target
    BY <1>1, CurrentHost
<1>3. /\ TypeOK /\ target \in Versions /\ plane[FirstMaster] = target
      /\ Host \notin lost => plane[Host] \in {None, target}
      /\ \A i \in 1 .. at - 1 : Complete(Hosts[i])
      /\ image \in Nat /\ kubelet \in [HostSet -> Versions] /\ Versions \subseteq Nat
    BY <1>1, VersionRange DEF IInv, ProgressInv, TypeOK
<1>4. CASE Cordon
    <2>1. /\ step' = "kubelet" /\ UNCHANGED <<image, stored, kubeadm, kubelet, plane, running, lost, at, result>>
          /\ cordoned' \in [HostSet -> BOOLEAN]
          /\ \A h \in HostSet : h # Host => cordoned'[h] = cordoned[h]
        BY <1>2, <1>3, <1>4 DEF Cordon, Goto, LeftBehind, MiddleFails, Stop, TypeOK
    <2>2. TypeOK'
        BY <1>3, <2>1 DEF TypeOK, stored
    <2>3. \A i \in 1 .. at - 1 : Complete(Hosts[i])'
        BY <1>2, <1>3, <2>1 DEF Complete, Upgraded
    <2>4. ProgressInv'
        BY <1>2, <1>3, <2>1, <2>3 DEF ProgressInv, Steps, HostSteps, Late, stored, Host
    <2> QED
        BY <2>1, <2>2, <2>4, QuietStep
<1>n. CASE InstallKubelet /\ LeftBehind("restart") /\ UNCHANGED kubelet
    <2>1. /\ step = "kubelet" /\ step' = "restart" /\ lost' = lost \cup {Host}
          /\ UNCHANGED <<image, stored, kubeadm, kubelet, plane, cordoned, running, at, result>>
        BY <1>n DEF InstallKubelet, LeftBehind, MiddleFails, Goto, Stop
    <2> QED
        BY <2>1, LossStep
<1>5. CASE /\ InstallKubelet /\ kubelet' = [kubelet EXCEPT ![Host] = target]
           /\ Goto("restart") /\ UNCHANGED lost
    <2>1. /\ step' = "restart" /\ kubelet' = [kubelet EXCEPT ![Host] = target]
          /\ UNCHANGED <<image, stored, kubeadm, plane, cordoned, running, lost, at, result>>
        BY <1>5 DEF InstallKubelet, Goto
    <2>2. TypeOK'
        BY <1>2, <1>3, <2>1 DEF TypeOK, stored
    <2>3. \A i \in 1 .. at - 1 : Complete(Hosts[i])'
        BY <1>2, <1>3, <2>1 DEF Complete, Upgraded, TypeOK
    <2>4. kubelet'[Host] = target /\ \A h \in HostSet : h # Host => kubelet'[h] = kubelet[h]
        BY <1>2, <1>3, <2>1 DEF TypeOK
    <2>5. ProgressInv'
        BY <1>2, <1>3, <2>1, <2>3, <2>4 DEF ProgressInv, Steps, HostSteps, Late, stored, Host
    <2>6. VersionInv'
        BY <1>2, <1>3, <2>1, <2>4 DEF IInv, VersionInv
    <2>7. InOrder'
        <3> SUFFICES ASSUME NEW i \in 1 .. Len(Hosts), NEW j \in 1 .. Len(Hosts), i < j,
                            Hosts[i] \notin lost
                     PROVE  kubelet'[Hosts[j]] <= kubelet'[Hosts[i]]
            BY <2>1 DEF InOrder
        <3>1. Hosts[i] \in HostSet /\ Hosts[j] \in HostSet
            BY HostList
        <3>2. \A h \in HostSet : kubelet'[h] <= target
            BY <1>3, <2>1, <2>6 DEF VersionInv
        <3>3. CASE i < at
            <4>1. kubelet'[Hosts[i]] = target
                BY <1>2, <2>1, <2>3, <3>3, HostList DEF Complete, Upgraded
            <4> QED
                BY <3>1, <3>2, <4>1
        <3>4. CASE i = at
            <4>1. kubelet'[Hosts[i]] = target
                BY <1>2, <2>4, <3>4 DEF Host
            <4> QED
                BY <3>1, <3>2, <4>1
        <3>5. CASE i > at
            <4>1. Hosts[i] # Host /\ Hosts[j] # Host
                BY <1>2, <3>5, HostList DEF Host
            <4> QED
                BY <2>4, <3>1, <4>1 DEF IInv, InOrder
        <3> QED
            BY <1>2, <3>3, <3>4, <3>5, HostList
    <2>8. SuccessIsComplete'
        BY <2>1 DEF SuccessIsComplete
    <2> QED
        BY <2>2, <2>5, <2>6, <2>7, <2>8 DEF IInv
<1>6. CASE Restart
    <2>1. /\ step' = "uncordon" /\ running' = [running EXCEPT ![Host] = TRUE]
          /\ UNCHANGED <<image, stored, kubeadm, kubelet, plane, cordoned, lost, at, result>>
        BY <1>6 DEF Restart, Goto, Stop
    <2>2. TypeOK'
        BY <1>2, <1>3, <2>1 DEF TypeOK, stored
    <2>3. running'[Host] /\ \A i \in 1 .. at - 1 : Complete(Hosts[i])'
        BY <1>2, <1>3, <2>1 DEF Complete, Upgraded, TypeOK
    <2>4. Host \notin lost => kubelet[Host] = target
        BY <1>1, <1>6 DEF IInv, ProgressInv, Restart
    <2>5. ProgressInv'
        BY <1>2, <1>3, <2>1, <2>3, <2>4 DEF ProgressInv, Steps, HostSteps, Late, stored, Host
    <2> QED
        BY <2>1, <2>2, <2>5, QuietStep
<1> QED
    BY <1>4, <1>n, <1>5, <1>6 DEF InstallKubelet

\* The end of a host, and after the last one of the upgrade.
LEMMA UncordonStep ==
    ASSUME KubeadmUpgradeAssumption, IInv, UNCHANGED <<api, target, commands>>,
           Uncordon, api /\ cordoned' = [cordoned EXCEPT ![Host] = FALSE] /\ Proceed
    PROVE  IInv'
<1>1. step = "uncordon" /\ step \in Late /\ step \in HostSteps
    BY DEF Uncordon, Late, HostSteps
<1>2. /\ at \in 1 .. Len(Hosts) /\ Host \in HostSet
      /\ \A i \in 1 .. at - 1 : Hosts[i] \in HostSet /\ Hosts[i] # Host
      /\ target = image + 1 /\ cmKubeadm = target
    BY <1>1, CurrentHost
<1>3. /\ TypeOK /\ target \in Versions /\ plane[FirstMaster] = target
      /\ Host \notin lost => Upgraded(Host)
      /\ running[Host]
      /\ \A i \in 1 .. at - 1 : Complete(Hosts[i])
      /\ image \in Nat /\ kubelet \in [HostSet -> Versions] /\ Versions \subseteq Nat
      /\ \A h \in HostSet : kubelet[h] <= target
    BY <1>1, VersionRange DEF IInv, ProgressInv, VersionInv, TypeOK, Upgraded
<1>4. /\ cordoned' = [cordoned EXCEPT ![Host] = FALSE] /\ Proceed
      /\ UNCHANGED <<stored, kubeadm, kubelet, plane, running, lost>>
    BY DEF Uncordon
<1>5. \A i \in 1 .. at : Complete(Hosts[i])'
    <2>1. TAKE i \in 1 .. at
    <2>2. CASE i = at
        BY <1>2, <1>3, <1>4, <2>2 DEF Complete, Upgraded, Host, TypeOK
    <2>3. CASE i # at
        BY <1>2, <1>3, <1>4, <2>3 DEF Complete, Upgraded, TypeOK
    <2> QED
        BY <2>2, <2>3
<1>6. CASE at < Len(Hosts)
    <2>1. at' = at + 1 /\ step' = "prepare" /\ UNCHANGED <<image, result>>
        BY <1>4, <1>6 DEF Proceed, Goto
    <2>2. TypeOK'
        BY <1>2, <1>3, <1>4, <1>6, <2>1, HostList DEF TypeOK, stored
    <2>3. ProgressInv'
        BY <1>2, <1>3, <1>4, <1>5, <2>1 DEF ProgressInv, Steps, HostSteps, Late, stored
    <2> QED
        BY <1>4, <2>1, <2>2, <2>3, QuietStep
<1>7. CASE ~(at < Len(Hosts))
    <2>1. image' = target /\ step' = "idle" /\ result' = "ok" /\ UNCHANGED at
        BY <1>4, <1>7 DEF Proceed, Stop
    <2>2. \A h \in HostSet : Complete(h)'
        BY <1>2, <1>5, <1>7, HostList
    <2>3. TypeOK'
        BY <1>2, <1>3, <1>4, <2>1 DEF TypeOK, stored
    <2>4. ProgressInv'
        BY <1>3, <2>1 DEF ProgressInv, Steps, HostSteps, Late
    <2>5. VersionInv'
        BY <1>3, <1>4, <2>1, <2>2 DEF VersionInv, Complete, Upgraded
    <2>6. InOrder'
        <3>1. \A h \in HostSet : h \notin lost' => kubelet'[h] = target
            BY <1>4, <2>2 DEF Complete, Upgraded
        <3> QED
            BY <1>3, <1>4, <3>1, HostList DEF InOrder
    <2>7. SuccessIsComplete'
        BY <2>2 DEF SuccessIsComplete, Complete, Upgraded
    <2> QED
        BY <2>3, <2>4, <2>5, <2>6, <2>7 DEF IInv
<1> QED
    BY <1>6, <1>7

\* Every step of an upgrade, every failure and every change of the API server.
LEMMA NextStep ==
    ASSUME KubeadmUpgradeAssumption, IInv, [Next]_vars
    PROVE  IInv'
<1>1. ASSUME UNCHANGED <<image, stored, nodes, at, step, target, result>> PROVE IInv'
    BY <1>1 DEF IInv, TypeOK, ProgressInv, VersionInv, InOrder, SuccessIsComplete, Complete,
                Upgraded, Host, stored, nodes
<1>2. ASSUME NEW v \in Versions, Upgrade(v) PROVE IInv'
    BY <1>2, UpgradeStep
\* Whatever stops the upgrade leaves the hosts as they are.
<1>3. ASSUME step' = "idle", result' = "failed", UNCHANGED <<image, stored, at, target>>,
             UNCHANGED <<kubeadm, kubelet, plane, lost>>,
             cordoned' \in [HostSet -> BOOLEAN], running' \in [HostSet -> BOOLEAN]
      PROVE  IInv'
    <2>1. TypeOK'
        BY <1>3 DEF IInv, TypeOK, stored
    <2>2. ProgressInv'
        BY <1>3 DEF IInv, ProgressInv, Steps, HostSteps, Late
    <2>3. VersionInv' /\ InOrder' /\ SuccessIsComplete'
        BY <1>3 DEF IInv, VersionInv, InOrder, SuccessIsComplete
    <2> QED
        BY <2>1, <2>2, <2>3 DEF IInv
<1>t. cordoned \in [HostSet -> BOOLEAN] /\ running \in [HostSet -> BOOLEAN]
    BY DEF IInv, TypeOK
<1>4. CASE (Failure \/ Kill) /\ UNCHANGED <<api, target, commands>>
    BY <1>4, <1>3, <1>t DEF Failure, FailAt, Kill, Stop, nodes
<1>5. CASE Step /\ UNCHANGED <<api, target, commands>>
    <2>1. CASE UpdateKubeadmConfig \/ UpdateKubeletConfig
        BY <1>5, <2>1, ConfigStep
    <2>2. CASE ConfigUnreachable
        BY <1>5, <2>2, <1>3, <1>t DEF ConfigUnreachable, Stop, nodes
    <2>3. CASE Prepare \/ InstallKubeadm
        BY <1>5, <2>3, BinariesStep
    <2>4. CASE Ping
        <3>1. CASE step' # "idle"
            BY <1>5, <2>4, <3>1, BinariesStep
        <3>2. CASE step' = "idle"
            <4>1. Stop("failed") /\ UNCHANGED <<image, stored, nodes, at>>
                BY <2>4, <3>2 DEF Ping, Goto
            <4> QED
                BY <1>5, <4>1, <1>3, <1>t DEF Stop, nodes
        <3> QED
            BY <3>1, <3>2
    <2>5. CASE Apply
        BY <1>5, <2>5, PlaneStep
    <2>6. CASE UpgradeNode
        <3>1. CASE step' # "idle"
            BY <1>5, <2>6, <3>1, PlaneStep
        <3>2. CASE step' = "idle"
            <4>1. Stop("failed") /\ UNCHANGED <<plane, lost>>
                BY <2>6, <3>2 DEF UpgradeNode, Goto, LeftBehind, MiddleFails
            <4> QED
                BY <1>5, <2>6, <4>1, <1>3, <1>t DEF Stop, UpgradeNode
        <3> QED
            BY <3>1, <3>2
    <2>7. CASE Cordon \/ InstallKubelet \/ Restart
        <3>1. CASE step' # "idle"
            BY <1>5, <2>7, <3>1, KubeletStep
        <3>2. CASE step' = "idle"
            <4>1. /\ Stop("failed") /\ UNCHANGED <<image, stored, kubeadm, kubelet, plane, cordoned, lost, at>>
                  /\ running' \in [HostSet -> BOOLEAN]
                BY <2>7, <3>2, <1>t DEF Cordon, InstallKubelet, Restart, Goto, LeftBehind, MiddleFails
            <4> QED
                BY <1>5, <4>1, <1>3, <1>t DEF Stop
        <3> QED
            BY <3>1, <3>2
    <2>8. CASE Uncordon
        <3>1. CASE Stop("failed") /\ UNCHANGED <<cordoned, image, at>>
            BY <1>5, <2>8, <3>1, <1>3, <1>t DEF Stop, Uncordon
        <3>2. CASE api /\ cordoned' = [cordoned EXCEPT ![Host] = FALSE] /\ Proceed
            BY <1>5, <2>8, <3>2, UncordonStep
        <3> QED
            BY <2>8, <3>1, <3>2 DEF Uncordon
    <2> QED
        BY <1>5, <2>1, <2>2, <2>3, <2>4, <2>5, <2>6, <2>7, <2>8 DEF Step
<1>6. CASE ApiChanges \/ UNCHANGED vars \/ Done
    BY <1>6, <1>1 DEF ApiChanges, vars, Done
<1> QED
    BY <1>2, <1>4, <1>5, <1>6 DEF Next

\* What the invariant says of the versions.
LEMMA UpgradeFollows ==
    ASSUME KubeadmUpgradeAssumption, IInv
    PROVE  UpgradeSound
<1> SUFFICES SkewHolds
    BY DEF IInv, UpgradeSound
<1>1. image \in Nat /\ \A h \in HostSet : kubelet[h] \in Nat
    BY VersionRange DEF IInv, TypeOK
<1> QED
    BY <1>1 DEF IInv, VersionInv, SkewHolds

(* Whatever fails - a command, also one in the middle of a list that nobody  *)
(* notices, the API server, the process - and however often and to whichever *)
(* version the upgrade is run again: no kubelet is newer than the first      *)
(* master's API server; on the hosts where no command was lost unnoticed no  *)
(* kubelet is two minors behind it, they come in their order, and a reported *)
(* success finds them at the version; no host is left cordoned or stopped    *)
(* (upgradeCluster, upgradeMaster0, upgradeOtherNodes, ssh/sshcmd.go).       *)
THEOREM UpgradesAreSound ==
    ASSUME KubeadmUpgradeAssumption
    PROVE  Spec => []UpgradeSound
<1>1. IInv => UpgradeSound
    BY UpgradeFollows
<1>2. Init => IInv
    BY Start
<1>3. IInv /\ [Next]_vars => IInv'
    BY NextStep
<1> QED
    BY <1>1, <1>2, <1>3, PTL DEF Spec
-----------------------------------------------------------------------------
(* The first upgrade of a cluster, with failures nobody notices: a command   *)
(* in the middle of a list on another host fails and the list goes on.       *)

\* Only versions 1 and 2 are in the cluster, and 2 only after the first
\* master's API server has it; nothing is said of a host being complete.
FirstInv ==
    /\ TypeOK /\ step \in Steps /\ target \in Versions
    /\ commands \in {0, 1}
    /\ commands = 0 => step = "idle" /\ image = 1
    /\ step # "idle" => target = 2
    /\ step \in HostSteps =>
          /\ at >= 1
          /\ step \in {"apply", "apply_again"} => at = 1
          /\ step = "node" => at > 1
          /\ at > 1 \/ step \in Late => plane[FirstMaster] = 2
    /\ plane[FirstMaster] \in {1, 2}
    /\ \A h \in HostSet : kubelet[h] \in {1, 2} /\ (kubelet[h] = 2 => plane[FirstMaster] = 2)

\* What a step of a first upgrade leaves alone or sets.
LEMMA FirstStart ==
    ASSUME KubeadmUpgradeAssumption
    PROVE  Init => FirstInv
<1> SUFFICES ASSUME Init PROVE FirstInv
    OBVIOUS
<1>1. IInv
    BY Start
<1>2. /\ image = 1 /\ step = "idle" /\ commands = 0
      /\ \A h \in HostSet : kubelet[h] = 1
    BY DEF Init
<1>3. plane[FirstMaster] = 1
    <2>1. \E i \in 1 .. Len(Masters) : Masters[i] = FirstMaster
        <3>1. Len(Masters) \in Nat /\ Len(Masters) >= 1
            BY EmptySeq, LenProperties DEF KubeadmUpgradeAssumption
        <3> QED
            BY <3>1 DEF FirstMaster
    <2> QED
        BY <2>1, HostList DEF Init
<1> QED
    BY <1>1, <1>2, <1>3 DEF FirstInv, IInv, ProgressInv, HostSteps, Late

\* The one request that is accepted is for version 2.
LEMMA FirstUpgradeStep ==
    ASSUME KubeadmUpgradeAssumption, MaxCommands <= 1, FirstInv,
           NEW v \in Versions, Upgrade(v)
    PROVE  FirstInv'
<1>1. /\ commands = 0 /\ commands' = 1 /\ image = 1 /\ target' = v /\ at' = 0
      /\ UNCHANGED <<image, stored, nodes>>
    BY DEF Upgrade, FirstInv, KubeadmUpgradeAssumption
<1>2. at' \in 0 .. Len(Hosts)
    BY <1>1, HostList
<1>3. \/ step' = "idle" /\ result' \in {"none", "failed"}
      \/ step' = "config" /\ result' = "none" /\ v = 2
    BY <1>1, VersionRange DEF Upgrade, Stop, Refused
<1>4. TypeOK'
    BY <1>1, <1>2, <1>3 DEF FirstInv, TypeOK, stored, nodes
<1> QED
    BY <1>1, <1>3, <1>4 DEF FirstInv, Steps, HostSteps, Late, nodes

\* Where the step after a host's last, or after a failure, leads.
LEMMA FirstHost ==
    ASSUME KubeadmUpgradeAssumption, FirstInv, step \in HostSteps
    PROVE  /\ at \in 1 .. Len(Hosts) /\ Host \in HostSet
           /\ Host = FirstMaster <=> at = 1
           /\ target = 2
<1>1. at \in 1 .. Len(Hosts) /\ step # "idle"
    BY HostList DEF FirstInv, TypeOK, HostSteps, Late
<1> QED
    BY <1>1, HostList DEF FirstInv, Host

\* A step that touches neither a kubelet nor the first master's control plane.
LEMMA FirstQuietStep ==
    ASSUME KubeadmUpgradeAssumption, FirstInv, TypeOK', step' \in Steps, step # "idle",
           UNCHANGED <<kubelet, target, commands>>, plane'[FirstMaster] = plane[FirstMaster],
           step' \in HostSteps =>
              /\ at' >= 1
              /\ step' \in {"apply", "apply_again"} => at' = 1
              /\ step' = "node" => at' > 1
              /\ at' > 1 \/ step' \in Late => plane[FirstMaster] = 2
    PROVE  FirstInv'
BY DEF FirstInv

LEMMA FirstBinaries ==
    ASSUME KubeadmUpgradeAssumption, FirstInv, UNCHANGED <<api, target, commands>>,
           \/ UpdateKubeadmConfig \/ UpdateKubeletConfig \/ ConfigUnreachable
           \/ Prepare \/ Ping \/ InstallKubeadm
    PROVE  FirstInv'
<1>t. TypeOK /\ target \in Versions
    BY DEF FirstInv
<1>1. CASE UpdateKubeadmConfig \/ UpdateKubeletConfig \/ ConfigUnreachable
    <2>1. /\ step \in {"config", "kubelet_config"} /\ UNCHANGED <<image, nodes>>
          /\ step' \in {"idle", "kubelet_config", "prepare"}
          /\ at' \in {at, 1} /\ (step' = "prepare" => at' = 1)
          /\ result' \in {result, "failed"}
        BY <1>1 DEF UpdateKubeadmConfig, UpdateKubeletConfig, ConfigUnreachable, Goto, Stop
    <2>2. Fetched \in Versions
        BY <1>t, VersionRange DEF TypeOK, Fetched
    <2>3. /\ cmKubeadm' \in Versions
          /\ cmKubelet' \in [kubelet : Versions \cup {None}, other : Versions \cup {None}]
        BY <1>1, <1>t, <2>2
           DEF UpdateKubeadmConfig, UpdateKubeletConfig, ConfigUnreachable, stored, TypeOK
    <2>4. at' \in 0 .. Len(Hosts)
        BY <1>t, <2>1, HostList DEF TypeOK
    <2>5. TypeOK'
        BY <1>t, <2>1, <2>3, <2>4 DEF TypeOK, nodes
    <2> QED
        BY <2>1, <2>5, FirstQuietStep DEF Steps, HostSteps, Late, nodes
<1>2. CASE Prepare \/ Ping \/ InstallKubeadm
    <2>1. step \in {"prepare", "ping", "kubeadm"} /\ step \in HostSteps
        BY <1>2 DEF Prepare, InstallKubeadm, Ping, HostSteps
    <2>2. at \in 1 .. Len(Hosts) /\ Host \in HostSet /\ (Host = FirstMaster <=> at = 1)
        BY <2>1, FirstHost
    <2>3. /\ step' \in {"idle", "ping", "kubeadm", "apply", "node"}
          /\ step' = "apply" => at = 1
          /\ step' = "node" => at > 1
          /\ UNCHANGED <<image, stored, kubelet, plane, cordoned, lost, at>>
          /\ running' \in [HostSet -> BOOLEAN] /\ kubeadm' \in [HostSet -> Versions]
          /\ result' \in {result, "failed"}
        <3>1. CASE Prepare
            BY <1>t, <2>1, <2>2, <3>1 DEF Prepare, Goto, TypeOK
        <3>2. CASE Ping
            BY <1>t, <2>1, <2>2, <3>2 DEF Ping, Goto, Stop, nodes, TypeOK
        <3>3. CASE InstallKubeadm
            BY <1>t, <2>1, <2>2, <3>3 DEF InstallKubeadm, Goto, TypeOK
        <3> QED
            BY <1>2, <3>1, <3>2, <3>3
    <2>4. TypeOK'
        BY <1>t, <2>3 DEF TypeOK, stored
    <2>5. at > 1 => plane[FirstMaster] = 2
        BY <2>1 DEF FirstInv
    <2>6. step # "idle"
        BY <2>1
    <2> QED
        BY <2>2, <2>3, <2>4, <2>5, <2>6, FirstQuietStep DEF Steps, HostSteps, Late
<1> QED
    BY <1>1, <1>2

LEMMA FirstPlane ==
    ASSUME KubeadmUpgradeAssumption, FirstInv, UNCHANGED <<api, target, commands>>,
           Apply \/ UpgradeNode
    PROVE  FirstInv'
<1>t. TypeOK /\ target \in Versions
    BY DEF FirstInv
<1>1. step \in {"apply", "apply_again", "node"} /\ step \in HostSteps /\ step # "idle"
    BY DEF Apply, UpgradeNode, HostSteps
<1>2. /\ at \in 1 .. Len(Hosts) /\ Host \in HostSet /\ (Host = FirstMaster <=> at = 1)
      /\ target = 2
    BY <1>1, FirstHost
<1>3. /\ step' \in {"idle", "apply_again", "cordon"}
      /\ UNCHANGED <<image, stored, kubeadm, kubelet, cordoned, running, at>>
      /\ lost' \in {lost, lost \cup {Host}}
      /\ result' \in {result, "failed"}
      /\ step' = "apply_again" => step = "apply"
    BY DEF Apply, UpgradeNode, Goto, LeftBehind, MiddleFails, Stop
<1>4. CASE UNCHANGED plane /\ ~ (Apply /\ step' = "cordon")
    <2>1. TypeOK'
        BY <1>t, <1>2, <1>3, <1>4 DEF TypeOK, stored
    <2>2. step' = "cordon" => at > 1 /\ plane[FirstMaster] = 2
        BY <1>4 DEF FirstInv, UpgradeNode, HostSteps
    <2>3. step' = "apply_again" => at = 1
        BY <1>1, <1>3 DEF FirstInv
    <2> QED
        BY <1>1, <1>2, <1>3, <1>4, <2>1, <2>2, <2>3, FirstQuietStep DEF Steps, HostSteps, Late
<1>5. CASE Apply /\ plane' = [plane EXCEPT ![Host] = target] /\ step' = "cordon"
    <2>1. at = 1
        BY <1>1, <1>5 DEF FirstInv, Apply
    <2>2. TypeOK'
        BY <1>t, <1>2, <1>3, <1>5 DEF TypeOK, stored
    <2>3. plane'[FirstMaster] = 2
        BY <1>t, <1>2, <1>5, <2>1, HostList DEF TypeOK
    <2> QED
        BY <1>1, <1>2, <1>3, <1>5, <2>1, <2>2, <2>3 DEF FirstInv, Steps, HostSteps, Late
<1>6. CASE UpgradeNode /\ plane' = [plane EXCEPT ![Host] = cmKubeadm] /\ step' = "cordon"
    <2>1. at > 1 /\ plane[FirstMaster] = 2 /\ Host # FirstMaster
        BY <1>1, <1>2, <1>6 DEF FirstInv, UpgradeNode
    <2>2. TypeOK'
        BY <1>t, <1>2, <1>3, <1>6 DEF TypeOK, stored
    <2>3. plane'[FirstMaster] = plane[FirstMaster]
        BY <1>t, <1>6, <2>1, HostList DEF TypeOK
    <2> QED
        BY <1>1, <1>2, <1>3, <1>6, <2>1, <2>2, <2>3, FirstQuietStep DEF Steps, HostSteps, Late
<1>7. \/ UNCHANGED plane /\ ~ (Apply /\ step' = "cordon")
      \/ Apply /\ plane' = [plane EXCEPT ![Host] = target] /\ step' = "cordon"
      \/ UpgradeNode /\ plane' = [plane EXCEPT ![Host] = cmKubeadm] /\ step' = "cordon"
    BY DEF Apply, UpgradeNode, Goto, LeftBehind, MiddleFails, Stop
<1> QED
    BY <1>4, <1>5, <1>6, <1>7

LEMMA FirstKubelet ==
    ASSUME KubeadmUpgradeAssumption, FirstInv, UNCHANGED <<api, target, commands>>,
           Cordon \/ InstallKubelet \/ Restart \/ Uncordon
    PROVE  FirstInv'
<1>t. TypeOK /\ target \in Versions
    BY DEF FirstInv
<1>1. step \in Late /\ step \in HostSteps /\ step # "idle"
    BY DEF Cordon, InstallKubelet, Restart, Uncordon, HostSteps, Late
<1>2. at \in 1 .. Len(Hosts) /\ Host \in HostSet /\ target = 2 /\ plane[FirstMaster] = 2
    BY <1>1, FirstHost DEF FirstInv
<1>3. /\ step' \in {"idle", "prepare"} \cup Late /\ UNCHANGED <<stored, kubeadm, plane>>
      /\ result' \in {result, "failed", "ok"}
      /\ \/ at' = at
         \/ at < Len(Hosts) /\ at' = at + 1
      /\ image' \in {image, target}
    <2>1. CASE Cordon \/ InstallKubelet \/ Restart
        BY <2>1 DEF Cordon, InstallKubelet, Restart, Goto, LeftBehind, MiddleFails, Stop, Late
    <2>2. CASE Uncordon
        BY <2>2 DEF Uncordon, Proceed, Goto, Stop
    <2> QED
        BY <2>1, <2>2
<1>k. kubelet' = kubelet \/ kubelet' = [kubelet EXCEPT ![Host] = target]
    BY DEF Cordon, InstallKubelet, Restart, Uncordon
<1>c. cordoned' \in [HostSet -> BOOLEAN]
    BY <1>t, <1>2 DEF Cordon, InstallKubelet, Restart, Uncordon, TypeOK
<1>r. running' \in [HostSet -> BOOLEAN]
    BY <1>t, <1>2 DEF Cordon, InstallKubelet, Restart, Uncordon, TypeOK
<1>l. lost' \in {lost, lost \cup {Host}}
    BY DEF Cordon, InstallKubelet, Restart, Uncordon, LeftBehind
<1>4. TypeOK'
    <2>1. at' \in 0 .. Len(Hosts)
        BY <1>2, <1>3, HostList
    <2> QED
        BY <1>t, <1>2, <1>3, <1>k, <1>c, <1>r, <1>l, <2>1 DEF TypeOK, stored
<1>5. \A h \in HostSet : kubelet'[h] \in {1, 2}
    BY <1>t, <1>2, <1>k DEF FirstInv, TypeOK
<1>6. /\ at' >= 1 /\ step' \in Steps
      /\ step' \notin {"apply", "apply_again", "node"}
      /\ commands' = commands /\ commands # 0
    BY <1>1, <1>2, <1>3, HostList DEF FirstInv, Steps, HostSteps, Late
<1> QED
    BY <1>2, <1>3, <1>4, <1>5, <1>6 DEF FirstInv

LEMMA FirstStep ==
    ASSUME KubeadmUpgradeAssumption, MaxCommands <= 1, FirstInv, [Next]_vars
    PROVE  FirstInv'
<1>1. CASE \E v \in Versions : Upgrade(v)
    BY <1>1, FirstUpgradeStep
<1>2. CASE (Failure \/ Kill) /\ UNCHANGED <<api, target, commands>>
    <2>1. /\ step # "idle" /\ step' = "idle" /\ result' = "failed"
          /\ UNCHANGED <<image, stored, nodes, at>>
        BY <1>2 DEF Failure, FailAt, Kill, Stop
    <2>2. TypeOK'
        BY <2>1 DEF FirstInv, TypeOK, stored, nodes
    <2> QED
        BY <1>2, <2>1, <2>2, FirstQuietStep DEF Steps, HostSteps, Late, nodes
<1>3. CASE Step /\ UNCHANGED <<api, target, commands>>
    BY <1>3, FirstBinaries, FirstPlane, FirstKubelet DEF Step
<1>4. CASE ApiChanges \/ UNCHANGED vars \/ Done
    <2>1. UNCHANGED <<image, stored, nodes, at, step, target, result, commands>>
        BY <1>4 DEF ApiChanges, Done, vars
    <2>2. TypeOK'
        BY <2>1 DEF FirstInv, TypeOK, stored, nodes
    <2> QED
        BY <2>1, <2>2 DEF FirstInv, nodes
<1> QED
    BY <1>1, <1>2, <1>3, <1>4 DEF Next

\* What the invariant of a first upgrade says of the versions.
LEMMA FirstFollows ==
    ASSUME KubeadmUpgradeAssumption, FirstInv
    PROVE  TypeOK /\ SkewAll
BY DEF FirstInv, SkewAll

(* The first upgrade of a cluster keeps the versions within the skew even    *)
(* where commands of a host's list fail unnoticed: kubeadm upgrade apply on   *)
(* the first master is checked, and no kubelet comes before it               *)
(* (upgradeMaster0, upgradeOtherNodes).                                       *)
THEOREM FirstUpgradeFits ==
    ASSUME KubeadmUpgradeAssumption, MaxCommands <= 1
    PROVE  Spec => [](TypeOK /\ SkewAll)
<1>1. Init => FirstInv
    BY FirstStart
<1>2. FirstInv /\ [Next]_vars => FirstInv'
    BY FirstStep
<1>3. FirstInv => TypeOK /\ SkewAll
    BY FirstFollows
<1> QED
    BY <1>1, <1>2, <1>3, PTL DEF Spec
=============================================================================
