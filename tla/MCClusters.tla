----------------------------- MODULE MCClusters -----------------------------
(***************************************************************************)
(* The commands that make and change a cluster, and the load balancer of   *)
(* one of its workers: two machines that share no state.  A behaviour runs *)
(* one of them; the other stays in an initial state:                       *)
(*   plain     commands of a careful user, no step fails                   *)
(*   faulty    the same, steps fail or are cancelled                       *)
(*   killed    any commands, steps fail and processes are killed; files    *)
(*             may also list the application alone                         *)
(*   care      the static pod and two masters that fail and are deleted    *)
(*   commands  run-once and clean beside the pod of one master             *)
(***************************************************************************)
EXTENDS ClusterApply

CONSTANTS Machines, m0, m1, n1

MCRootfs == [k1 |-> 1, k2 |-> 2]
MCRunImages == {<<>>, <<"k1">>, <<"k2">>, <<"app">>, <<"k1", "app">>}
MCFileImages == {<<"k1">>, <<"k2">>, <<"k1", "app">>, <<"k1", "k2">>, <<"k1", "app", "k2">>}

VARIABLES machine, vs, table, rules, healthy, listed, proc, ended, syncs, commands, faults

lvsVars == <<vs, table, rules, healthy, listed, proc, ended, syncs, commands, faults>>
allVars == <<machine, vars, lvsVars>>

Faulty == INSTANCE ClusterApply WITH Faults <- {"fail", "cancel", "cleanup"}, MaxCommands <- 3
Killed == INSTANCE ClusterApply WITH
    Faults <- {"fail", "kill", "cleanup"}, FileKinds <- {"edited", "plain"}, Careful <- FALSE, MaxCommands <- 2,
    FileImages <- MCFileImages \cup {<<"app">>}

Care == INSTANCE LvsCare WITH
    Servers <- {"m1", "m2"}, Rules <- {"route"}, Chains <- {},
    MaxSyncs <- 2, MaxCommands <- 0, MaxFaults <- 2
Once == INSTANCE LvsCare WITH
    Servers <- {"m1"}, Rules <- {"device", "chain"}, Chains <- {"chain"},
    MaxSyncs <- 2, MaxCommands <- 3, MaxFaults <- 1

ASSUME Care!LvsCareAssumption /\ Once!LvsCareAssumption

-----------------------------------------------------------------------------
MCInit ==
    /\ machine \in Machines
    /\ Init
    /\ IF machine = "commands" THEN Once!Init ELSE Care!Init

MCNext ==
    \/ /\ UNCHANGED <<machine, lvsVars>>
       /\ \/ machine = "plain" /\ Next
          \/ machine = "faulty" /\ Faulty!Next
          \/ machine = "killed" /\ Killed!Next
    \/ /\ UNCHANGED <<machine, vars>>
       /\ \/ machine = "care" /\ Care!Next
          \/ machine = "commands" /\ Once!Next

MCSpec == MCInit /\ [][MCNext]_allVars

-----------------------------------------------------------------------------
(* The properties of each machine are stated and explained in its module.   *)

(* What the Clusterfile says after each command is what runs, and hosts     *)
(* join at the version it says.                                             *)
InstallSound ==
    /\ [](/\ ApplyTypeOK
          /\ machine = "plain" => /\ SuccessHasMembers /\ SuccessHasVersion
                                  /\ ReturnedIsInstalled /\ NoFailedPhase)
    /\ [][machine = "plain" => JoinStepAtVersion]_vars

(* With failures no host is lost but those whose kubeadm reset failed, and  *)
(* no upgrade is recorded that did not happen; killed at any step, no other *)
(* host is joined twice.                                                    *)
FailuresSound ==
    /\ machine = "faulty" => NoOrphans /\ RecordedNotAhead
    /\ machine = "killed" => NoRejoin

(* A server is drained before it is taken out, a clean command leaves       *)
(* nothing, and a run-once sets up everything.                              *)
CareSound ==
    /\ [](/\ machine = "care" => Care!TypeOK
          /\ machine = "commands" => Once!TypeOK)
    /\ Once!CleanedUp /\ Once!OnceSetsUp
    /\ [][machine = "care" => Care!DrainedStep]_lvsVars
=============================================================================
