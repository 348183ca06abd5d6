------------------------- MODULE ConcurrentLifecycle -------------------------
(***************************************************************************)
(* Two processes of Lifecycle on the files of one cluster: the agent loop, *)
(* and an operator's "sealos sync" commands.  Nothing in the code excludes *)
(* that: no lock is taken on the document, the bundles or the cluster.     *)
(*                                                                         *)
(* The variables of Lifecycle are the files, the cluster and the sync      *)
(* process; the agent process has its own control state.  Each file        *)
(* operation is still one step, so only interleavings coarser than the     *)
(* real ones are considered.                                               *)
(***************************************************************************)
EXTENDS Lifecycle

VARIABLES
    agentPc, agentOp, agentOnFail, agentDig, agentStep, agentExe, agentSnap,
    agentOutcome

agent == <<agentPc, agentOp, agentOnFail, agentDig, agentStep, agentExe,
           agentSnap, agentOutcome>>

Agent == INSTANCE Lifecycle WITH
    pc <- agentPc, op <- agentOp, onFail <- agentOnFail, dig <- agentDig,
    step <- agentStep, exe <- agentExe, snap <- agentSnap,
    outcome <- agentOutcome

ConcurrentInit == Init /\ Agent!Init

SyncProcess ==
    /\ Commands \/ Materialize \/ Apply \/ DriftCommands \/ Crash
    /\ UNCHANGED agent

AgentProcess ==
    /\ \/ Agent!StartAgent \/ Agent!RunOnce \/ Agent!Materialize
       \/ Agent!Apply \/ Agent!Crash
    /\ UNCHANGED proc

ConcurrentNext == SyncProcess \/ AgentProcess

ConcurrentSpec == ConcurrentInit /\ [][ConcurrentNext]_<<vars, agent>>

(***************************************************************************)
(* docs/architecture/reconcile-and-ownership.md: a new revision is not     *)
(* marked healthy until convergence completes.  But Apply compares the     *)
(* bundle with the document only once: afterwards the executor reads the   *)
(* files of a current bundle that another process may replace, and         *)
(* MarkSuccessfulApply marks whatever revision the document names by then. *)
(***************************************************************************)
MarkedRevisionConverged ==
    doc # None => doc.last \in converged \cup {None}
=============================================================================
