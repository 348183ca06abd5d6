----------------------------- MODULE MCKubeadm -----------------------------
(***************************************************************************)
(* The machines of the kubeadm runtime, which share no state.  A           *)
(* behaviour runs one of them; the others stay in an initial state:        *)
(*   join     creates, joins and removals, as the configuration says       *)
(*   single   one more master and a single worker, whatever fails          *)
(*   rotate   the operator rotates the certificate key, nothing fails      *)
(*   upgrade  two masters, one worker, three versions; remote commands may *)
(*            also fail unnoticed                                          *)
(*   first    the same, for the first upgrade of a cluster                 *)
(*   certs    two masters, two extra names, two kubeconfig files           *)
(***************************************************************************)
EXTENDS ClusterCerts

CONSTANTS Machines, w1,
    Workers, Rotate, JoinFaults, JoinCommands, MaxTokens,  \* of KubeadmJoin
    MaxVersion, Upgrades, UpgradeFaults                    \* of KubeadmUpgrade

VARIABLES machine,
    keyFile, tokenFile, life, initKey, uploaded, joinConf, members, phase, joinCmd, token, config,
    pc, got, lock, err, reported, joinCommands,
    image, cmKubeadm, cmKubelet, kubeadm, kubelet, plane, cordoned, running, lost,
    api, at, upStep, target, upResult, upgrades

joinVars == <<keyFile, tokenFile, life, initKey, uploaded, joinConf, members, phase, joinCmd, token,
              config, pc, got, lock, err, reported, joinCommands>>
upgradeVars == <<image, cmKubeadm, cmKubelet, kubeadm, kubelet, plane, cordoned, running,
                 lost, api, at, upStep, target, upResult, upgrades>>
allVars == <<machine, joinVars, upgradeVars, vars>>

Hosts == Masters \ {Master0}  \* masters to join

(* The instances are of the modules with the proofs, which extend those of   *)
(* the components: their lemmas hold of the same definitions.                *)

Join == INSTANCE KubeadmJoin_proofs WITH
    Masters <- Hosts, Faults <- JoinFaults, MaxCommands <- JoinCommands,
    conf <- joinConf, cmd <- joinCmd, commands <- joinCommands

Single == INSTANCE KubeadmJoin_proofs WITH
    Masters <- Hosts, Workers <- {w1}, Rotate <- FALSE, Faults <- {"cmd", "worker", "kill"},
    MaxCommands <- 2, MaxTokens <- 2,
    conf <- joinConf, cmd <- joinCmd, commands <- joinCommands

Rotating == INSTANCE KubeadmJoin_proofs WITH
    Masters <- Hosts, Workers <- {w1}, Rotate <- TRUE, Faults <- {},
    MaxCommands <- 3, MaxTokens <- 3,
    conf <- joinConf, cmd <- joinCmd, commands <- joinCommands

Up == INSTANCE KubeadmUpgrade_proofs WITH
    Masters <- <<"m0", "m1">>, Workers <- <<"w1">>, Local <- "m0",
    Faults <- UpgradeFaults, MaxCommands <- Upgrades,
    step <- upStep, result <- upResult, commands <- upgrades

First == INSTANCE KubeadmUpgrade_proofs WITH
    Masters <- <<"m0", "m1">>, Workers <- <<"w1">>, Local <- "m0",
    Faults <- UpgradeFaults, MaxCommands <- 1,
    step <- upStep, result <- upResult, commands <- upgrades

ASSUME MCKubeadmAssumption ==
    /\ Join!KubeadmJoinAssumption /\ Single!KubeadmJoinAssumption
    /\ Rotating!KubeadmJoinAssumption
    /\ Up!KubeadmUpgradeAssumption /\ First!KubeadmUpgradeAssumption
    /\ ClusterCertsAssumption

-----------------------------------------------------------------------------
MCInit ==
    /\ machine \in Machines
    /\ CASE machine = "single" -> Single!Init
         [] machine = "rotate" -> Rotating!Init
         [] OTHER -> Join!Init
    /\ Up!Init /\ Init
    /\ machine \notin {"upgrade", "first"} => cmKubelet.kubelet # None

MCNext ==
    \/ /\ UNCHANGED <<machine, upgradeVars, vars>>
       /\ \/ machine = "join" /\ Join!Next
          \/ machine = "single" /\ Single!Next
          \/ machine = "rotate" /\ Rotating!Next
    \/ /\ UNCHANGED <<machine, joinVars, vars>>
       /\ \/ machine = "upgrade" /\ Up!Next
          \/ machine = "first" /\ First!Next
    \/ /\ UNCHANGED <<machine, joinVars, upgradeVars>>
       /\ machine = "certs" /\ Next

MCSpec == MCInit /\ [][MCNext]_allVars

-----------------------------------------------------------------------------
(* The properties of each machine are stated and explained in its module;   *)
(* CertsSound is that of ClusterCerts.                                      *)

(* Creates, joins, removals, failing commands, kills and ageing tokens:     *)
(* each host gets its own configuration and a key that opens the uploaded   *)
(* certificates, a reported success has joined every master, with a single  *)
(* worker a failure of any of its steps is reported, and a finished refresh *)
(* leaves the token embedding the cached key.                               *)
JoinSound ==
    /\ machine = "join" => Join!JoinSound
    /\ machine = "single" => Single!JoinSound
    /\ machine = "rotate" => Rotating!JoinSound

(* "succeeded in joining": a scale up that reports success has joined every *)
(* worker it was asked to join, also when it is asked to join several.      *)
WorkersReported == machine = "join" => Join!WorkersReported

(* Upgrades that fail anywhere and are repeated, also with other versions:  *)
(* the versions fit, the order of the hosts is kept and a reported success  *)
(* is complete, but on the hosts whose upgrade was lost unnoticed; in the   *)
(* first upgrade of a cluster the versions fit on those hosts too.          *)
UpgradeSound ==
    /\ machine = "upgrade" => Up!UpgradeSound
    /\ machine = "first" => First!TypeOK /\ First!SkewAll
=============================================================================
