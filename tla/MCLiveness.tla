----------------------------- MODULE MCLiveness -----------------------------
(***************************************************************************)
(* What must eventually happen, under the fairness the code justifies, in  *)
(* six machines that share no state.  A behaviour runs one of them; the    *)
(* others stay in their initial states, and fairness is about the steps of *)
(* the machine that runs:                                                  *)
(*   controller  one DistributionTarget, users, watches and a restart      *)
(*   agent       the agent's loop, faults, and one operator command        *)
(*   bootstrap   passes over two control planes and a worker               *)
(*   cache       two renders that may need one package at a time           *)
(*   care        lvscare, a device and a chain, two masters                *)
(*   join        the goroutines that join two masters and two workers      *)
(* Variables have the initial of their machine, p for packages; those of   *)
(* the controller keep their names.                                        *)
(***************************************************************************)
EXTENDS Controller

CONSTANTS Machines, Nil, Mixed, Foreign, r1, r2, k, x

VARIABLES machine,
    aDoc, aRevisions, aCurrent, aBackup, aStage, aLive, aConverged, aPatched, aPc, aOp,
    aOnFail, aDig, aStep, aExe, aSnap, aOutcome, aLoop, aTarget, aFaults, aCommands,
    bSize, bDown, bConfig, bKubelet, bImages, bEndpoint, bPc, bTodo, bFresh, bRepair, bFirst,
    bRegen, bResult, bFaults,
    pRegistry, pOnline, pStorage, pCache, pProc, pGc, pLeftovers, pTorn, pRenders, pCollections,
    cVs, cTable, cRules, cHealthy, cListed, cProc, cEnded, cSyncs, cCommands, cFaults,
    jKeyFile, jTokenFile, jLife, jInitKey, jUploaded, jConf, jMembers, jPhase, jCmd, jToken,
    jConfig, jPc, jGot, jLock, jErr, jReported, jCommands

agentVars == <<aDoc, aRevisions, aCurrent, aBackup, aStage, aLive, aConverged, aPatched,
               aPc, aOp, aOnFail, aDig, aStep, aExe, aSnap, aOutcome, aLoop, aTarget, aFaults, aCommands>>
bootstrapVars == <<bSize, bDown, bConfig, bKubelet, bImages, bEndpoint, bPc, bTodo, bFresh,
                   bRepair, bFirst, bRegen, bResult, bFaults>>
cacheVars == <<pRegistry, pOnline, pStorage, pCache, pProc, pGc, pLeftovers, pTorn,
               pRenders, pCollections>>
careVars == <<cVs, cTable, cRules, cHealthy, cListed, cProc, cEnded, cSyncs, cCommands, cFaults>>
joinVars == <<jKeyFile, jTokenFile, jLife, jInitKey, jUploaded, jConf, jMembers, jPhase, jCmd,
              jToken, jConfig, jPc, jGot, jLock, jErr, jReported, jCommands>>
allVars == <<machine, vars, agentVars, bootstrapVars, cacheVars, careVars, joinVars>>

-----------------------------------------------------------------------------
Digests == {r1, r2, k, x}

Agent == INSTANCE Lifecycle WITH
    doc <- aDoc, revisions <- aRevisions, current <- aCurrent, backup <- aBackup,
    stage <- aStage, live <- aLive, converged <- aConverged, patched <- aPatched, pc <- aPc, op <- aOp,
    onFail <- aOnFail, dig <- aDig, step <- aStep, exe <- aExe, snap <- aSnap,
    outcome <- aOutcome, loop <- aLoop, target <- aTarget, faults <- aFaults,
    commands <- aCommands,
    None <- Nil, Digest <- Digests, Rendered <- {r1, r2}, Committed <- {k},
    HookFixed <- [d \in Digests |-> d], Components <- 1, MaxFaults <- 2, MaxCommands <- 1

Bootstrap == INSTANCE KubeadmBootstrap WITH
    size <- bSize, down <- bDown, config <- bConfig, kubelet <- bKubelet, images <- bImages,
    endpoint <- bEndpoint, pc <- bPc, todo <- bTodo, fresh <- bFresh, repair <- bRepair,
    first <- bFirst, regen <- bRegen, result <- bResult, faults <- bFaults,
    Hosts <- <<"h1", "h2", "h3">>, ControlPlane <- {"h1", "h3"}, LocalFirstMaster <- FALSE,
    Unset <- "unset", MasterAddress <- "10.0.0.1:6443", RenderedEndpoint <- "unset",
    InitIsAtomic <- TRUE, MaxFaults <- 2

Cache == INSTANCE PackageCache WITH
    registry <- pRegistry, online <- pOnline, storage <- pStorage, cache <- pCache,
    proc <- pProc, gc <- pGc, leftovers <- pLeftovers, torn <- pTorn, renders <- pRenders,
    collections <- pCollections,
    Digests <- {"d1"}, Unlisted <- {}, Procs <- {"agent", "sync"}, Leaves <- {"x"},
    Shared <- TRUE, IncludeValid <- FALSE, MaxRenders <- 2, MaxCollections <- 1

Care == INSTANCE LvsCare WITH
    vs <- cVs, table <- cTable, rules <- cRules, healthy <- cHealthy, listed <- cListed,
    proc <- cProc, ended <- cEnded, syncs <- cSyncs, commands <- cCommands, faults <- cFaults,
    Servers <- {"m1", "m2"}, Rules <- {"device", "chain"}, Chains <- {"chain"},
    MaxSyncs <- 1, MaxCommands <- 0, MaxFaults <- 2

Join == INSTANCE KubeadmJoin WITH
    keyFile <- jKeyFile, tokenFile <- jTokenFile, life <- jLife, initKey <- jInitKey,
    uploaded <- jUploaded, conf <- jConf, members <- jMembers, phase <- jPhase, cmd <- jCmd,
    token <- jToken, config <- jConfig, pc <- jPc, got <- jGot, lock <- jLock, err <- jErr,
    reported <- jReported, commands <- jCommands,
    None <- Nil, Master0 <- "m0", Masters <- {"m1", "m2"}, Workers <- {"w1", "w2"},
    Rotate <- FALSE, Faults <- {"cmd", "worker"}, MaxCommands <- 1, MaxTokens <- 1

-----------------------------------------------------------------------------
MCInit ==
    /\ machine \in Machines
    /\ Init /\ Agent!Init /\ Bootstrap!Init /\ Cache!Init /\ Care!Init /\ Join!Init
    /\ machine # "controller" => object.ref = "no"
    /\ machine # "agent" => aTarget = r1
    /\ machine # "bootstrap" => bSize = 1

MCNext ==
    /\ UNCHANGED machine
    /\ machine = "controller" \/ UNCHANGED vars
    /\ machine = "agent" \/ UNCHANGED agentVars
    /\ machine = "bootstrap" \/ UNCHANGED bootstrapVars
    /\ machine = "cache" \/ UNCHANGED cacheVars
    /\ machine = "care" \/ UNCHANGED careVars
    /\ machine = "join" \/ UNCHANGED joinVars
    /\ \/ machine = "controller" /\ Next
       \/ machine = "agent" /\ Agent!Next
       \/ machine = "bootstrap" /\ Bootstrap!Next
       \/ machine = "cache" /\ Cache!Next
       \/ machine = "care" /\ Care!Next
       \/ machine = "join" /\ Join!Next

-----------------------------------------------------------------------------
(* Fairness of each machine. *)

(* That of the controller: watches, timers and the worker. *)
ControllerFairness ==
    /\ WF_vars(machine = "controller" /\ DeliverTarget)
    /\ WF_vars(machine = "controller" /\ DeliverPolicy)
    /\ WF_vars(machine = "controller" /\ TimerFires)
    /\ WF_vars(machine = "controller" /\ Reconcile)

(* A started command keeps running, and so does the loop of a running       *)
(* agent; operators and whoever starts the agent owe nothing.               *)
AgentFairness ==
    WF_agentVars(/\ machine = "agent"
                 /\ Agent!RunOnce \/ Agent!Materialize \/ Agent!Apply \/ Agent!DriftCommands)

(* A started pass goes on, and the agent starts the next one.               *)
BootstrapFairness ==
    /\ WF_bootstrapVars(machine = "bootstrap" /\ Bootstrap!Step)
    /\ SF_bootstrapVars(machine = "bootstrap" /\ Bootstrap!Begin)

(* A render goes on; nobody owes a collection or a registry that is up.     *)
CacheFairness ==
    \A p \in {"agent", "sync"} : WF_cacheVars(machine = "cache" /\ Cache!ProcStep(p))

(* Every routine of a process is scheduled, and the kubelet starts and      *)
(* stops the pod.                                                           *)
CareFairness ==
    /\ \A p \in Care!Processes :
          /\ WF_careVars(machine = "care" /\ Care!Step(p))
          /\ WF_careVars(machine = "care" /\ Care!LoopStep(p))
          /\ \A s \in {"m1", "m2"} : WF_careVars(machine = "care" /\ Care!Check(p, s))
    /\ WF_careVars(machine = "care" /\ Care!StartPod)
    /\ WF_careVars(machine = "care" /\ Care!StopPod)

(* The command goes on, and every goroutine that is not blocked runs.       *)
JoinFairness ==
    /\ WF_joinVars(machine = "join" /\ Join!Coordinator)
    /\ \A n \in Join!Nodes : WF_joinVars(machine = "join" /\ Join!Routine(n))

MCSpec ==
    /\ MCInit /\ [][MCNext]_allVars
    /\ ControllerFairness /\ AgentFairness /\ BootstrapFairness
    /\ CacheFairness /\ CareFairness /\ JoinFairness

-----------------------------------------------------------------------------
(* The properties of each machine are stated and explained in its module.   *)

(* The agent converges to its target. *)
AgentConverges == []<>(machine = "agent" /\ aLoop = "running") => <>[]Agent!AtTarget

(* Everybody joins. *)
BootstrapJoins ==
    /\ <>[](machine = "bootstrap" => Bootstrap!AllMembers)
    /\ []<>(machine = "bootstrap" => bDown = {})

(* Renders end. *)
CacheRendersEnd == Cache!RendersEnd

(* The load balancer follows the masters, and its rules heal. *)
CareFollows == Care!HealthyServes /\ Care!DownRemoved /\ Care!RulesHeal

(* The status gets up to date, and a deleted target is forgotten. *)
StatusSettles == <>[](machine = "controller" => LatestSpecReported /\ DeletedTargetForgotten)

(* Sending configurations ends, or is stuck where the code is. *)
JoinSendReturns == Join!SendReturns
=============================================================================
