------------------------------ MODULE LvsCare ------------------------------
(***************************************************************************)
(* The local load balancer of one worker: lvscare, which keeps a virtual   *)
(* server with the masters as its real servers in the kernel's IPVS table. *)
(* "sealctl ipvs --run-once" sets it up before the worker joins, a static  *)
(* pod checks the masters from then on, "sealctl ipvs -C" takes it away    *)
(* (lvscare/care, pkg/ipvs/lvscare.go, ssh/remote.go).                     *)
(*                                                                         *)
(* A process has a main routine, the loop of the proxier, and a routine    *)
(* for each real server that is being checked.                             *)
(***************************************************************************)
EXTENDS Integers, FiniteSets

CONSTANTS
    Servers,        \* addresses of masters
    Rules,          \* what the ruler sets up: a route, or chains and the rest
    Chains,         \* those of them that are iptables chains
    MaxSyncs,       \* bound: rewritings of the static pod
    MaxCommands,    \* bound: run-once and clean commands
    MaxFaults       \* bound: health changes, failing calls, kills, flushes

LvsCareAssumption ==
    /\ Chains \subseteq Rules
    /\ MaxSyncs \in Nat /\ MaxCommands \in Nat /\ MaxFaults \in Nat

VARIABLES
    vs,         \* the virtual server is in the kernel
    table,      \* per real server: its weight there, or Absent
    rules,      \* the rules in place
    healthy,    \* the masters whose API server answers
    listed,     \* the servers in the static pod's arguments; none: no pod
    proc,       \* the processes: the pod's and a command's
    ended,      \* how the last command ended
    syncs, commands, faults

vars == <<vs, table, rules, healthy, listed, proc, ended, syncs, commands, faults>>
kernel == <<vs, table, rules>>
world == <<healthy, listed, syncs, commands>>

None == "none"
Absent == -1
Processes == {"pod", "cmd"}
NoCheck == [st |-> None, up |-> FALSE, weight |-> Absent]
Checked == [s \in Servers |-> NoCheck]
NotEnded == [kind |-> None, how |-> None]

Free == [kind |-> None, main |-> None, loop |-> None, queued |-> FALSE, closed |-> FALSE,
         left |-> {}, args |-> {}, known |-> FALSE, map |-> {}, chk |-> Checked]

Init ==
    /\ vs = FALSE /\ table = [s \in Servers |-> Absent] /\ rules = {}
    /\ healthy = Servers /\ listed = {}
    /\ proc = [p \in Processes |-> Free]
    /\ ended = NotEnded /\ syncs = 0 /\ commands = 0 /\ faults = 0

-----------------------------------------------------------------------------
(* Processes. *)

Main(p, pc) == proc[p].main = pc
Loop(p, pc) == proc[p].loop = pc
Goto(p, pc) == proc' = [proc EXCEPT ![p].main = pc]
LoopTo(p, pc) == proc' = [proc EXCEPT ![p].loop = pc]

(* Run-once asks for a check and stops the loop before it starts it.        *)
Launch(kind, servers) ==
    [Free EXCEPT !.kind = kind, !.args = servers, !.left = servers,
                 !.main = IF kind = "clean" THEN "clean" ELSE "again",
                 !.loop = IF kind = "clean" THEN None ELSE "select",
                 !.queued = kind = "once", !.closed = kind = "once"]

(* sealctl ipvs, on the node. *)
StartCommand(kind, servers) ==
    /\ proc["cmd"] = Free /\ commands < MaxCommands
    /\ (kind = "once") = (servers # {})
    /\ proc' = [proc EXCEPT !["cmd"] = Launch(kind, servers)]
    /\ commands' = commands + 1 /\ ended' = NotEnded
    /\ UNCHANGED <<kernel, healthy, listed, syncs, faults>>

(* The kubelet runs the static pod with the arguments of its file. *)
StartPod ==
    /\ proc["pod"] = Free /\ listed # {}
    /\ proc' = [proc EXCEPT !["pod"] = Launch("care", listed)]
    /\ UNCHANGED <<kernel, world, ended, faults>>

StopPod ==
    /\ proc["pod"] # Free /\ proc["pod"].args # listed
    /\ proc' = [proc EXCEPT !["pod"] = Free]
    /\ UNCHANGED <<kernel, world, ended, faults>>

(* Nothing is cleaned up by a process that was to stay. *)
Exit(p, how) ==
    /\ proc' = [proc EXCEPT ![p] = Free]
    /\ ended' = IF p = "cmd" THEN [kind |-> proc[p].kind, how |-> how] ELSE ended

(* A call into the kernel fails, or the process is killed. *)
Dies(p) ==
    /\ proc[p] # Free /\ faults < MaxFaults
    /\ Exit(p, "failed") /\ faults' = faults + 1
    /\ UNCHANGED <<kernel, world>>

-----------------------------------------------------------------------------
(* runner.Run: the main routine. *)

(* TryRun does nothing when a check is asked for already. *)
TryRun(p) ==
    /\ Main(p, "again")
    /\ proc' = [proc EXCEPT ![p].main = "vs", ![p].queued = TRUE]
    /\ UNCHANGED <<kernel, world, ended, faults>>

EnsureVirtualServer(p) ==
    /\ Main(p, "vs")
    /\ vs' = TRUE
    /\ proc' = [proc EXCEPT ![p].main = "rs", ![p].known = TRUE]
    /\ UNCHANGED <<table, rules, world, ended, faults>>

Added(p, s) == [proc EXCEPT ![p].main = "rs", ![p].left = @ \ {s}, ![p].map = @ \cup {s}]

(* A server that is in the table stays as it is, ... *)
EnsureRealServer(p, s) ==
    /\ Main(p, "rs") /\ s \in proc[p].left
    /\ vs' = TRUE
    /\ proc' = IF table[s] # Absent THEN Added(p, s) ELSE [proc EXCEPT ![p].main = s]
    /\ UNCHANGED <<table, rules, world, ended, faults>>

(* ...any other is added; it is an error if somebody was faster. *)
AddRealServer(p, s) ==
    /\ Main(p, s)
    /\ IF vs /\ table[s] = Absent
       THEN /\ table' = [table EXCEPT ![s] = 1] /\ proc' = Added(p, s) /\ UNCHANGED ended
       ELSE /\ Exit(p, "failed") /\ UNCHANGED table
    /\ UNCHANGED <<vs, rules, world, faults>>

(* Mutant: the rules are left to the static pod. *)
EnsuredBare(p) ==
    /\ Main(p, "rs") /\ proc[p].left = {}
    /\ Goto(p, IF p = "cmd" THEN "wait" ELSE "rules")
    /\ UNCHANGED <<kernel, world, ended, faults>>

Ensured(p) ==
    /\ Main(p, "rs") /\ proc[p].left = {}
    /\ Goto(p, "rules")
    /\ UNCHANGED <<kernel, world, ended, faults>>

(* Ruler.Setup: each of its steps finds out what is there. *)
SetupRule(p, r) ==
    /\ Main(p, "rules") /\ r \in Rules \ rules
    /\ rules' = rules \cup {r}
    /\ UNCHANGED <<vs, table, proc, world, ended, faults>>

Setup(p) ==
    /\ Main(p, "rules") /\ rules = Rules
    /\ Goto(p, "wait")
    /\ UNCHANGED <<kernel, world, ended, faults>>

(* Mutant: the monitor only logs what it sees. *)
MonitorLogs(p) ==
    /\ Main(p, "wait") /\ ~(Chains \subseteq rules)
    /\ UNCHANGED vars

(* A process that has set up the chains watches them. *)
Monitor(p) ==
    /\ Main(p, "wait") /\ ~(Chains \subseteq rules)
    /\ rules' = rules \cup Chains
    /\ UNCHANGED <<vs, table, proc, world, ended, faults>>

Wait(p) ==
    /\ Main(p, "wait") /\ Loop(p, "returned")
    /\ Exit(p, "ok")
    /\ UNCHANGED <<kernel, world, faults>>

(* Mutant: the virtual server is left to the rules. *)
CleanRules(p) ==
    /\ Main(p, "clean")
    /\ Goto(p, "unrule")
    /\ UNCHANGED <<kernel, world, ended, faults>>

(* -C: the virtual server goes with its real servers, then the rules.       *)
Clean(p) ==
    /\ Main(p, "clean")
    /\ vs' = FALSE /\ table' = [s \in Servers |-> Absent]
    /\ Goto(p, "unrule")
    /\ UNCHANGED <<rules, world, ended, faults>>

(* What the call into the kernel answers does not keep the rules.           *)
CleanFails(p) ==
    /\ Main(p, "clean") /\ faults < MaxFaults
    /\ Goto(p, "unrule_failed") /\ faults' = faults + 1
    /\ UNCHANGED <<kernel, world, ended>>

Cleanup(p) ==
    /\ Main(p, "unrule") \/ Main(p, "unrule_failed")
    /\ rules' = {}
    /\ Exit(p, IF Main(p, "unrule") THEN "ok" ELSE "failed")
    /\ UNCHANGED <<vs, table, world, faults>>

-----------------------------------------------------------------------------
(* RunLoop and its checks. *)

Tick(p) ==
    /\ Loop(p, "select") /\ ~proc[p].queued
    /\ proc' = [proc EXCEPT ![p].queued = TRUE]
    /\ UNCHANGED <<kernel, world, ended, faults>>

(* select takes any of the channels that are ready. *)
Take(p) ==
    /\ Loop(p, "select") /\ proc[p].queued
    /\ proc' = [proc EXCEPT ![p].loop = "check", ![p].queued = FALSE]
    /\ UNCHANGED <<kernel, world, ended, faults>>

Closed(p) ==
    /\ Loop(p, "select") /\ proc[p].closed
    /\ LoopTo(p, "returned")
    /\ UNCHANGED <<kernel, world, ended, faults>>

(* runCheck starts a routine for each server it knows and waits for them.   *)
RunCheck(p) ==
    /\ Loop(p, "check")
    /\ vs' = (vs \/ proc[p].known)
    /\ proc' = [proc EXCEPT ![p].loop = "checking",
                   ![p].chk = [s \in Servers |-> IF s \in proc[p].map
                                  THEN [NoCheck EXCEPT !.st = "probe"] ELSE NoCheck]]
    /\ UNCHANGED <<table, rules, world, ended, faults>>

(* The map of servers is read while the main routine writes it: the Go      *)
(* runtime may end the process for it.                                      *)
MapFault(p) ==
    /\ Loop(p, "check") /\ proc[p].main \in {"vs", "rs"} \cup Servers
    /\ faults < MaxFaults /\ faults' = faults + 1
    /\ Exit(p, "failed")
    /\ UNCHANGED <<kernel, world>>

Checking(p, s, st) == proc[p].chk[s].st = st
Unchecked(p, s) == [proc EXCEPT ![p].chk[s] = NoCheck]

Probe(p, s) ==
    /\ Checking(p, s, "probe")
    /\ proc' = [proc EXCEPT ![p].chk[s] = [@ EXCEPT !.st = "get", !.up = s \in healthy]]
    /\ UNCHANGED <<kernel, world, ended, faults>>

Get(p, s) ==
    /\ Checking(p, s, "get")
    /\ proc' = IF vs THEN [proc EXCEPT ![p].chk[s] = [@ EXCEPT !.st = "act", !.weight = table[s]]]
               ELSE Unchecked(p, s)
    /\ UNCHANGED <<kernel, world, ended, faults>>

(* Mutant: a server that does not answer is taken out at once. *)
ActAtOnce(p, s) ==
    /\ Checking(p, s, "act")
    /\ table' = IF vs THEN [table EXCEPT ![s] = IF proc[p].chk[s].up THEN 1 ELSE Absent] ELSE table
    /\ proc' = Unchecked(p, s)
    /\ UNCHANGED <<vs, rules, world, ended, faults>>

(* Mutant: a server is not put back. *)
ActDown(p, s) ==
    /\ Checking(p, s, "act")
    /\ LET c == proc[p].chk[s]
       IN  table' = IF ~vs \/ c.up \/ c.weight = Absent \/ table[s] = Absent THEN table
                    ELSE [table EXCEPT ![s] = IF c.weight = 1 THEN 0 ELSE Absent]
    /\ proc' = Unchecked(p, s)
    /\ UNCHANGED <<vs, rules, world, ended, faults>>

(* Mutant: a server stays with weight 0. *)
ActDrain(p, s) ==
    /\ Checking(p, s, "act")
    /\ LET c == proc[p].chk[s]
       IN  table' = IF ~vs THEN table
                    ELSE [table EXCEPT ![s] = IF c.up THEN 1 ELSE IF c.weight = 1 THEN 0 ELSE @]
    /\ proc' = Unchecked(p, s)
    /\ UNCHANGED <<vs, rules, world, ended, faults>>

(* No answer: weight 0 first, then out.  An answer: back, or weight 1.      *)
(* What was found may be gone since; that error is logged.                  *)
Act(p, s) ==
    /\ Checking(p, s, "act")
    /\ LET c == proc[p].chk[s]
           there == vs /\ table[s] # Absent
       IN  table' = [table EXCEPT ![s] =
               IF c.weight = Absent THEN IF c.up /\ vs /\ ~there THEN 1 ELSE @
               ELSE IF ~there \/ (c.up /\ c.weight = 1) THEN @
               ELSE IF c.up THEN 1
               ELSE IF c.weight = 1 THEN 0 ELSE Absent]
    /\ proc' = Unchecked(p, s)
    /\ UNCHANGED <<vs, rules, world, ended, faults>>

CheckDone(p) ==
    /\ Loop(p, "checking") /\ proc[p].chk = Checked
    /\ LoopTo(p, "select")
    /\ UNCHANGED <<kernel, world, ended, faults>>

-----------------------------------------------------------------------------
(* The masters, and the commands of sealos. *)

Fails(s) ==
    /\ s \in healthy /\ faults < MaxFaults
    /\ healthy' = healthy \ {s} /\ faults' = faults + 1
    /\ UNCHANGED <<kernel, listed, proc, ended, syncs, commands>>

Recovers(s) ==
    /\ s \notin healthy /\ faults < MaxFaults
    /\ healthy' = healthy \cup {s} /\ faults' = faults + 1
    /\ UNCHANGED <<kernel, listed, proc, ended, syncs, commands>>

(* Somebody flushes the iptables chains. *)
Flush ==
    /\ Chains \cap rules # {} /\ faults < MaxFaults
    /\ rules' = rules \ Chains /\ faults' = faults + 1
    /\ UNCHANGED <<vs, table, world, proc, ended>>

(* SyncNodeIPVS writes the static pod with the masters of the cluster; the  *)
(* masters that were deleted have been reset before.  A sealos command does *)
(* one thing after another.                                                 *)
Sync(masters) ==
    /\ syncs < MaxSyncs /\ proc["cmd"] = Free /\ masters # {} /\ masters # listed
    /\ listed' = masters /\ healthy' = healthy \ (listed \ masters)
    /\ syncs' = syncs + 1
    /\ UNCHANGED <<kernel, proc, ended, commands, faults>>

(* kubeadm reset ends the pods of the node and removes its manifests. *)
Reset ==
    /\ listed # {} /\ syncs < MaxSyncs /\ proc["cmd"] = Free
    /\ listed' = {} /\ syncs' = syncs + 1
    /\ proc' = [proc EXCEPT !["pod"] = Free]
    /\ UNCHANGED <<kernel, healthy, ended, commands, faults>>

-----------------------------------------------------------------------------
Step(p) ==
    \/ TryRun(p) \/ EnsureVirtualServer(p) \/ Ensured(p) \/ Setup(p) \/ Monitor(p)
    \/ Wait(p) \/ Clean(p) \/ Cleanup(p)
    \/ \E s \in Servers : EnsureRealServer(p, s) \/ AddRealServer(p, s)
    \/ \E r \in Rules : SetupRule(p, r)

LoopStep(p) == Tick(p) \/ Take(p) \/ Closed(p) \/ RunCheck(p) \/ CheckDone(p)
Check(p, s) == Probe(p, s) \/ Get(p, s) \/ Act(p, s)

Next ==
    \/ \E p \in Processes : Step(p) \/ LoopStep(p) \/ Dies(p) \/ MapFault(p) \/ CleanFails(p)
    \/ \E p \in Processes, s \in Servers : Check(p, s)
    \/ StartPod \/ StopPod \/ Flush \/ Reset
    \/ StartCommand("clean", {})
    \/ \E masters \in SUBSET Servers : StartCommand("once", masters) \/ Sync(masters)
    \/ \E s \in Servers : Fails(s) \/ Recovers(s)

Spec == Init /\ [][Next]_vars

-----------------------------------------------------------------------------
(* Properties. *)

(* The domains of the variables. *)
TypeOK ==
    /\ table \in [Servers -> {Absent, 0, 1}] /\ rules \subseteq Rules
    /\ \A s \in Servers : table[s] # Absent => vs
    /\ \A p \in Processes : proc[p].map \subseteq proc[p].args /\ proc[p].left \subseteq proc[p].args

(* A real server that has connections is drained before it is removed: no   *)
(* check takes it from weight 1 out of the table.                           *)
DrainedStep == \A s \in Servers : (table[s] = 1 /\ vs') => table'[s] # Absent

(* After "ipvs -C" on a node whose pods are gone, nothing is left.          *)
CleanedUp ==
    [][(ended'.kind = "clean" /\ ended'.how = "ok" /\ listed = {} /\ proc["pod"] = Free)
          => ~vs' /\ rules' = {} /\ \A s \in Servers : table'[s] = Absent]_<<ended>>

(* A run-once that succeeded has the virtual server and its rules in place: *)
(* the join that follows goes through it.                                   *)
OnceSetsUp ==
    [][(proc["cmd"].kind = "once" /\ ended'.how = "ok") => vs' /\ Rules \ Chains \subseteq rules']_<<ended>>

(* A master that stays healthy comes to receive traffic and keeps it, ...   *)
HealthyServes ==
    \A s \in Servers :
        <>[](s \in healthy /\ s \in listed) => <>[](table[s] = 1)

(* ...one that stays down comes to receive none, ... *)
DownRemoved ==
    \A s \in Servers :
        <>[](s \notin healthy /\ s \in listed) => <>[](table[s] = Absent)

(* The rules of a process that stays up stay with it. *)
RulesHeal == <>[]Main("pod", "wait") => <>[](rules = Rules)
=============================================================================
