----------------------------- MODULE KubeadmJoin -----------------------------
(* The kubeadm runtime (pkg/runtime/kubernetes) as far as it adds hosts to a *)
(* cluster: init of the first master, joins of masters and workers, the      *)
(* cached join token and certificate key, removals.                          *)
(*                                                                           *)
(* One sealos process runs at a time (Begin .. Finish).  Inside it, one      *)
(* goroutine per host writes the shared kubeadmConfig under the mutex and    *)
(* sends it; the goroutines of the workers also share the variable err of    *)
(* joinNodes, which no lock protects: reading it may return what another     *)
(* goroutine stored.  kubeadm on the hosts is external: a join needs a token *)
(* that has not expired, and a master's needs the key that opens the         *)
(* certificates uploaded to the cluster.                                     *)
EXTENDS Naturals, FiniteSets

CONSTANTS Master0, Masters, Workers,  \* the first master; hosts to join
          None,
          Rotate,                     \* may the operator rotate the key?
          Faults,                     \* "cmd", "worker", "kill"
          MaxCommands, MaxTokens      \* bounds of the instance

Nodes == Masters \cup Workers
Keys == 1 .. 2
TokenFile == [id : 1 .. MaxTokens, key : Keys]

KubeadmJoinAssumption ==
    /\ Rotate \in BOOLEAN
    /\ Faults \subseteq {"cmd", "worker", "kill"}
    /\ MaxCommands \in Nat /\ MaxTokens \in Nat /\ MaxTokens >= MaxCommands
    /\ None \notin Nat /\ None \notin Nodes /\ None \notin TokenFile

VARIABLES
    keyFile,    \* kubeadm-certificate-key.txt of the operator's machine
    tokenFile,  \* kubeadm-token.json: a token and the key it embeds
    life,       \* the cluster's tokens: "none", "live", "closing", "expired"
    initKey,    \* the certificateKey of kubeadm-init.yaml on master0
    uploaded,   \* the key the uploaded control plane certificates open with
    conf,       \* the join configuration on each host
    members,    \* the hosts that are in the cluster
    phase, cmd, \* the running command: where it is, what it was asked
    token,      \* KubeadmRuntime.token
    config,     \* the shared KubeadmRuntime.kubeadmConfig
    pc, got,    \* the goroutines: where each is, whether it returned an error
    lock,       \* KubeadmRuntime.mu
    err,        \* the variable of joinNodes: is it non-nil?
    reported,   \* what the last command reported
    commands    \* commands begun, for the bound

files == <<keyFile, tokenFile, initKey>>
cluster == <<life, uploaded>>
routines == <<pc, got, lock, err>>
vars == <<files, cluster, conf, members, phase, cmd, token, config, routines,
          reported, commands>>

Blank == [token |-> None, key |-> None, ip |-> None]
NoCommand == [kind |-> "none", masters |-> {}, workers |-> {}]

Fails(kind) == kind \in Faults

Init ==
    /\ keyFile = None /\ tokenFile = None /\ initKey = None
    /\ life = [t \in 1 .. MaxTokens |-> "none"] /\ uploaded = None
    /\ conf = [n \in Nodes |-> None] /\ members = {}
    /\ phase = "idle" /\ cmd = NoCommand
    /\ token = None /\ config = Blank
    /\ pc = [n \in Nodes |-> "off"] /\ got = [n \in Nodes |-> FALSE]
    /\ lock = None /\ err = FALSE
    /\ reported = None /\ commands = 0

-----------------------------------------------------------------------------
(* Commands.  Each is a process of its own: token and kubeadmConfig start    *)
(* empty.  create runs Init and ScaleUp in one process.                      *)

Begin(p, c) ==
    /\ phase = "idle" /\ commands < MaxCommands
    /\ commands' = commands + 1
    /\ phase' = p /\ cmd' = c
    /\ token' = None /\ config' = Blank /\ reported' = None
    /\ pc' = [n \in Nodes |-> "off"] /\ got' = [n \in Nodes |-> FALSE]
    /\ lock' = None /\ err' = FALSE
    /\ UNCHANGED <<files, cluster, conf, members>>

Asked(k, ms, ws) == [kind |-> k, masters |-> ms, workers |-> ws]

Create == \E ms \in SUBSET Masters, ws \in SUBSET Workers :
    members = {} /\ Begin("init", Asked("up", ms, ws))
ScaleUp == \E ms \in SUBSET (Masters \ members), ws \in SUBSET (Workers \ members) :
    members # {} /\ ms \cup ws # {} /\ Begin("masters", Asked("up", ms, ws))
ScaleDown == \E ms \in SUBSET (Masters \cap members), ws \in SUBSET (Workers \cap members) :
    ms \cup ws # {} /\ Begin("delete", Asked("down", ms, ws))
Refresh == \E k \in {FALSE, Rotate} :
    /\ members # {}
    /\ Begin(IF k THEN "rotate" ELSE "drop", Asked("refresh", {}, {}))

Report(ok) ==
    /\ phase' = "idle"
    /\ reported' = [ok |-> ok, asked |-> cmd]

Fail == /\ Report(FALSE)
        /\ UNCHANGED <<cluster, conf, members, cmd, token, config, routines, commands>>

(* A step at which the code returns an error when a command on a host fails. *)
FailStep(p) == /\ phase = p /\ Fails("cmd") /\ Fail /\ UNCHANGED files

Goto(p) == phase' = p /\ UNCHANGED reported

-----------------------------------------------------------------------------
(* Init of master0: the configuration carries the key of the key file, which *)
(* is created when it is missing.                                            *)
SetCertificateKeyAlways(k) == keyFile' = IF keyFile = None THEN k ELSE 3 - keyFile
SetCertificateKey(k) == keyFile' = IF keyFile = None THEN k ELSE keyFile

InitConfig ==
    /\ phase = "init"
    /\ SetCertificateKey(1)
    /\ initKey' = keyFile'
    /\ Goto("init_master0")
    /\ UNCHANGED <<tokenFile, cluster, conf, members, cmd, token, config, routines, commands>>

InitMaster0 ==
    /\ phase = "init_master0"
    /\ members' = {Master0}
    /\ Goto("masters")
    /\ UNCHANGED <<files, cluster, conf, cmd, token, config, routines, commands>>

-----------------------------------------------------------------------------
(* The token.  GenerateToken runs on master0: it uploads the certificates    *)
(* with the configuration there and creates a token of two hours.            *)
Fresh == {t \in 1 .. MaxTokens : life[t] = "none"}
NewToken == CHOOSE t \in Fresh : \A u \in Fresh : t <= u

GenerateToken(t) ==
    /\ Fresh # {}
    /\ t = NewToken
    /\ life' = [life EXCEPT ![t] = "live"]
    /\ uploaded' = initKey

(* writeTokenFile; k is the key a missing key file would be filled with *)
WriteTokenFile(k) ==
    /\ SetCertificateKey(k)
    /\ \E t \in 1 .. MaxTokens :
         /\ GenerateToken(t)
         /\ tokenFile' = [id |-> t, key |-> keyFile']
    /\ token' = tokenFile'
    /\ UNCHANGED initKey

(* The expiry is compared with 180 nanoseconds: only an expired one is old. *)
Usable == tokenFile # None /\ life[tokenFile.id] # "expired"

SetKubernetesToken ==
    /\ \/ /\ token # None
          /\ UNCHANGED <<files, cluster, token>>
       \/ /\ token = None
          /\ ~Usable
          /\ WriteTokenFile(1)
       \/ /\ token = None
          /\ Usable
          /\ token' = tokenFile
          /\ UNCHANGED <<files, cluster>>
    /\ config' = [config EXCEPT !.token = token'.id, !.key = token'.key]

RotateKeyOnly ==
    /\ phase = "rotate"
    /\ keyFile' = 3 - keyFile
    /\ Report(TRUE)
    /\ UNCHANGED <<tokenFile, initKey, cluster, conf, members, cmd, token, config, routines, commands>>
RotateKey ==
    /\ phase = "rotate"
    /\ keyFile' = 3 - keyFile
    /\ Goto("drop")
    /\ UNCHANGED <<tokenFile, initKey, cluster, conf, members, cmd, token, config, routines, commands>>

DropToken ==
    /\ phase = "drop"
    /\ tokenFile' = None
    /\ Goto("rewrite")
    /\ UNCHANGED <<keyFile, initKey, cluster, conf, members, cmd, token, config, routines, commands>>

RewriteToken ==
    /\ phase = "rewrite"
    /\ WriteTokenFile(1)
    /\ Report(TRUE)
    /\ UNCHANGED <<conf, members, cmd, config, routines, commands>>

(* Time passes for a token of the cluster. *)
Age == \E t \in 1 .. MaxTokens :
    /\ life[t] \in {"live", "closing"}
    /\ life' = [life EXCEPT ![t] = IF @ = "live" THEN "closing" ELSE "expired"]
    /\ UNCHANGED <<files, uploaded, conf, members, phase, cmd, token, config, routines, reported, commands>>

-----------------------------------------------------------------------------
(* joinMasters: certificates, kubeconfigs and the token first, then the      *)
(* configurations in parallel, then the joins one by one.                    *)
Spawn(hosts) ==
    /\ pc' = [n \in Nodes |-> IF n \in hosts THEN "lock" ELSE "off"]
    /\ got' = [n \in Nodes |-> FALSE]
    /\ UNCHANGED <<lock, err>>

JoinMasters ==
    /\ phase = "masters"
    /\ \/ /\ cmd.masters = {}
          /\ Goto("workers_token")
          /\ UNCHANGED <<files, cluster, token, config, routines>>
       \/ /\ cmd.masters # {}
          /\ SetKubernetesToken
          /\ Spawn(cmd.masters)
          /\ Goto("send")
    /\ UNCHANGED <<conf, members, cmd, commands>>

(* generateJoinMasterConfigs, generateJoinNodeConfigs: the shared            *)
(* configuration becomes the host's; a worker's has no control plane part.   *)
FillMaster(n) == config' = [config EXCEPT !.ip = n]
FillWorker(n) == config' = [config EXCEPT !.ip = n, !.key = None]

LockAnyway(n) ==
    /\ pc[n] = "lock"
    /\ lock' = n
    /\ pc' = [pc EXCEPT ![n] = "fill"]
    /\ UNCHANGED <<config, conf, members, got, err>>
Lock(n) ==
    /\ pc[n] = "lock" /\ lock = None
    /\ lock' = n
    /\ pc' = [pc EXCEPT ![n] = "fill"]
    /\ UNCHANGED <<config, conf, members, got, err>>

Return(n, e) ==
    /\ pc' = [pc EXCEPT ![n] = "returned"]
    /\ got' = [got EXCEPT ![n] = e]

(* The deferred Unlock runs however the goroutine of a master returns. *)
MasterUnlock(n) == lock' = None

MasterFillRetry(n) ==
    /\ pc[n] = "fill"
    /\ \/ FillMaster(n) /\ pc' = [pc EXCEPT ![n] = "send"] /\ UNCHANGED lock
       \/ Fails("cmd") /\ pc' = [pc EXCEPT ![n] = "lock"] /\ MasterUnlock(n) /\ UNCHANGED config
    /\ UNCHANGED <<got, conf, members, err>>
MasterFill(n) ==
    /\ pc[n] = "fill"
    /\ \/ /\ FillMaster(n)
          /\ pc' = [pc EXCEPT ![n] = "send"]
          /\ UNCHANGED <<got, lock>>
       \/ /\ Fails("cmd")
          /\ Return(n, TRUE) /\ MasterUnlock(n)
          /\ UNCHANGED config
    /\ UNCHANGED <<conf, members, err>>

MasterSend(n) ==
    /\ pc[n] = "send"
    /\ \/ conf' = [conf EXCEPT ![n] = config] /\ Return(n, FALSE)
       \/ Fails("cmd") /\ Return(n, TRUE) /\ UNCHANGED conf
    /\ MasterUnlock(n)
    /\ UNCHANGED <<config, members, err>>

Returned(hosts) == \A n \in hosts : pc[n] = "returned"

SentMasters ==
    /\ phase = "send" /\ Returned(cmd.masters)
    /\ IF \E n \in cmd.masters : got[n] THEN Report(FALSE) ELSE Goto("join_masters")
    /\ UNCHANGED <<files, cluster, conf, members, cmd, token, config, routines, commands>>

(* kubeadm join on a master: external *)
MasterJoins(m) == life[conf[m].token] # "expired" /\ conf[m].key = uploaded

JoinMaster == \E m \in cmd.masters \ members :
    /\ phase = "join_masters"
    /\ \/ /\ MasterJoins(m)
          /\ members' = members \cup {m}
          /\ Goto("join_masters") \/ (Fails("cmd") /\ Report(FALSE))
       \/ /\ ~MasterJoins(m) \/ Fails("cmd")
          /\ Report(FALSE)
          /\ UNCHANGED members
    /\ UNCHANGED <<files, cluster, conf, cmd, token, config, routines, commands>>

JoinedMastersEarly ==
    /\ phase = "join_masters"
    /\ Goto("workers_token")
    /\ UNCHANGED <<files, cluster, conf, members, cmd, token, config, routines, commands>>
JoinedMasters ==
    /\ phase = "join_masters" /\ cmd.masters \subseteq members
    /\ Goto("workers_token")
    /\ UNCHANGED <<files, cluster, conf, members, cmd, token, config, routines, commands>>

-----------------------------------------------------------------------------
(* joinNodes: one goroutine per worker does everything; every call stores    *)
(* its result in the one variable err and then tests the variable.           *)
JoinNodes ==
    /\ phase = "workers_token"
    /\ \/ /\ cmd.workers = {}
          /\ Report(TRUE)
          /\ UNCHANGED <<files, cluster, token, config, routines>>
       \/ /\ cmd.workers # {}
          /\ SetKubernetesToken
          /\ Spawn(cmd.workers)
          /\ Goto("workers")
    /\ UNCHANGED <<conf, members, cmd, commands>>

WorkerFill(n) ==
    /\ pc[n] = "fill"
    /\ \/ /\ FillWorker(n)
          /\ pc' = [pc EXCEPT ![n] = "send"]
          /\ UNCHANGED err
       \/ /\ Fails("worker")
          /\ err' = TRUE /\ pc' = [pc EXCEPT ![n] = "sent"]
          /\ UNCHANGED config
    /\ UNCHANGED <<conf, members, got, lock>>

WorkerSend(n) ==
    /\ pc[n] = "send"
    /\ \/ conf' = [conf EXCEPT ![n] = config] /\ err' = FALSE
       \/ Fails("worker") /\ err' = TRUE /\ UNCHANGED conf
    /\ pc' = [pc EXCEPT ![n] = "sent"]
    /\ UNCHANGED <<config, members, got, lock>>

WorkerSentKeeps(n) ==   \* mutant: the Unlock is missing
    /\ pc[n] = "sent"
    /\ IF err THEN Return(n, TRUE) ELSE pc' = [pc EXCEPT ![n] = "ipvs"] /\ UNCHANGED got
    /\ UNCHANGED <<config, conf, members, lock, err>>

(* The error return comes before the Unlock, which is not deferred. *)
WorkerSent(n) ==
    /\ pc[n] = "sent"
    /\ \/ err /\ Return(n, TRUE) /\ UNCHANGED lock
       \/ ~err /\ lock' = None /\ pc' = [pc EXCEPT ![n] = "ipvs"] /\ UNCHANGED got
    /\ UNCHANGED <<config, conf, members, err>>

WorkerIPVS(n) ==
    /\ pc[n] = "ipvs"
    /\ err' \in {FALSE, Fails("worker")}
    /\ pc' = [pc EXCEPT ![n] = "ready"]
    /\ UNCHANGED <<config, conf, members, got, lock>>

WorkerReady(n) ==
    /\ pc[n] = "ready"
    /\ \/ err /\ Return(n, TRUE)
       \/ ~err /\ pc' = [pc EXCEPT ![n] = "join"] /\ UNCHANGED got
    /\ UNCHANGED <<config, conf, members, lock, err>>

(* kubeadm join on a worker: external *)
WorkerJoins(n) == conf[n] # None /\ life[conf[n].token] # "expired"

WorkerJoin(n) ==
    /\ pc[n] = "join"
    /\ \/ /\ WorkerJoins(n)
          /\ members' = members \cup {n} /\ err' = FALSE
       \/ /\ ~WorkerJoins(n) \/ Fails("worker")
          /\ err' = TRUE /\ UNCHANGED members
    /\ pc' = [pc EXCEPT ![n] = "joined"]
    /\ UNCHANGED <<config, conf, got, lock>>

WorkerJoinedAlways(n) ==
    /\ pc[n] = "joined"
    /\ Return(n, FALSE)
    /\ UNCHANGED <<config, conf, members, lock, err>>
WorkerJoined(n) ==
    /\ pc[n] = "joined"
    /\ Return(n, err)
    /\ UNCHANGED <<config, conf, members, lock, err>>

(* errgroup.Wait, then the kubeconfig is copied to the new workers *)
JoinedNodes ==
    /\ phase = "workers" /\ Returned(cmd.workers)
    /\ IF \E n \in cmd.workers : got[n] THEN Report(FALSE)
       ELSE Report(TRUE) \/ (Fails("cmd") /\ Report(FALSE))
    /\ UNCHANGED <<files, cluster, conf, members, cmd, token, config, routines, commands>>

-----------------------------------------------------------------------------
(* ScaleDown resets the hosts and deletes the nodes; errors are only logged, *)
(* so that any of the hosts may stay a node of the cluster.                  *)
Delete ==
    /\ phase = "delete"
    /\ \E left \in SUBSET (IF Fails("cmd") THEN cmd.masters \cup cmd.workers ELSE {}) :
         members' = (members \ (cmd.masters \cup cmd.workers)) \cup left
    /\ Report(TRUE)
    /\ UNCHANGED <<files, cluster, conf, cmd, token, config, routines, commands>>

(* The process is killed, at any step. *)
Kill ==
    /\ Fails("kill") /\ phase # "idle"
    /\ phase' = "idle" /\ reported' = None /\ cmd' = NoCommand
    /\ token' = None /\ config' = Blank
    /\ pc' = [n \in Nodes |-> "off"] /\ got' = [n \in Nodes |-> FALSE]
    /\ lock' = None /\ err' = FALSE
    /\ UNCHANGED <<files, cluster, conf, members, commands>>

Routine(n) ==
    /\ \/ phase = "send" /\ (Lock(n) \/ MasterFill(n) \/ MasterSend(n))
       \/ /\ phase = "workers"
          /\ \/ Lock(n) \/ WorkerFill(n) \/ WorkerSend(n) \/ WorkerSent(n)
             \/ WorkerIPVS(n) \/ WorkerReady(n) \/ WorkerJoin(n) \/ WorkerJoined(n)
    /\ UNCHANGED <<files, cluster, phase, cmd, token, reported, commands>>

Failure == \E p \in {"init", "init_master0", "masters", "join_masters", "workers_token",
                     "rotate", "drop", "rewrite"} : FailStep(p)

Coordinator ==
    \/ InitConfig \/ InitMaster0 \/ RotateKey \/ DropToken \/ RewriteToken
    \/ JoinMasters \/ SentMasters \/ JoinMaster \/ JoinedMasters
    \/ JoinNodes \/ JoinedNodes \/ Delete

Command == Create \/ ScaleUp \/ ScaleDown \/ Refresh

(* Nothing is left to do: the bound on commands is reached. *)
Done == phase = "idle" /\ commands = MaxCommands /\ UNCHANGED vars

Next ==
    \/ Command \/ Coordinator \/ Failure \/ Kill \/ Age \/ Done
    \/ \E n \in Nodes : Routine(n)

Spec == Init /\ [][Next]_vars

-----------------------------------------------------------------------------
Conf == [token : 1 .. MaxTokens \cup {None}, key : Keys \cup {None}, ip : Nodes \cup {None}]

(* Every variable has its type. *)
TypeOK ==
    /\ keyFile \in Keys \cup {None} /\ tokenFile \in TokenFile \cup {None}
    /\ initKey \in Keys \cup {None} /\ uploaded \in Keys \cup {None}
    /\ life \in [1 .. MaxTokens -> {"none", "live", "closing", "expired"}]
    /\ conf \in [Nodes -> Conf \cup {None}]
    /\ members \subseteq Nodes \cup {Master0}
    /\ token \in TokenFile \cup {None} /\ config \in Conf
    /\ lock \in Nodes \cup {None} /\ err \in BOOLEAN /\ got \in [Nodes -> BOOLEAN]

(* The configuration a host has been sent is its own: the goroutines write   *)
(* one shared kubeadmConfig, and what is sent names the host it is for.      *)
ConfigIsOwn == \A n \in Nodes : conf[n] # None => conf[n].ip = n

(* When the masters are joined, the key in each one's configuration opens    *)
(* the certificates that were uploaded when its token was made.              *)
MasterKeyOpens ==
    phase = "join_masters" => \A m \in cmd.masters : conf[m].key = uploaded

(* The last command reported success, and it was one of this kind. *)
Succeeded(k) == reported # None /\ reported.ok /\ reported.asked.kind = k

(* A scale up that reports success has joined every master it was asked to,  *)
(* whichever of the parallel or sequential steps failed before.              *)
MastersReported == Succeeded("up") => reported.asked.masters \subseteq members

(* After a command that reported success, the cached token embeds the cached *)
(* certificate key.                                                          *)
TokenInSync ==
    (\E k \in {"up", "refresh"} : Succeeded(k)) /\ tokenFile # None =>
        tokenFile.key = keyFile

(* "succeeded in joining": a scale up that reports success has joined every  *)
(* worker it was asked to join.                                              *)
WorkersReported == Succeeded("up") => reported.asked.workers \subseteq members

(* What holds of which instance: keys of the operator's making only where    *)
(* the operator may rotate, a token in step with a rotated key only where    *)
(* nothing stops between the two, workers reported only where one goroutine  *)
(* uses err.                                                                 *)
JoinSound ==
    /\ TypeOK /\ ConfigIsOwn /\ MastersReported
    /\ ~Rotate => MasterKeyOpens
    /\ (~Rotate \/ Faults \cap {"cmd", "kill"} = {}) => TokenInSync
    /\ (\A v, w \in Workers : v = w) => WorkersReported

(* A worker's goroutine that returned its error without Unlock keeps the     *)
(* mutex, and another one waits for it.                                      *)
Stuck ==
    \E n, m \in Workers : lock = n /\ pc[n] = "returned" /\ got[n] /\ pc[m] = "lock"

(* Sending the masters' configurations ends, however it fails, as the Unlock *)
(* is deferred; joining the workers ends too, or waits for a mutex that a    *)
(* goroutine kept when the copy of its configuration failed: nothing else    *)
(* keeps the goroutines from returning.                                      *)
SendReturns ==
    /\ []<>(phase # "send")
    /\ []<>(phase # "workers" \/ Stuck)
=============================================================================
