----------------------------- MODULE HostDrift -----------------------------
(***************************************************************************)
(* Drift of host files on a cluster of several nodes: comparison of every  *)
(* tracked path on every host (cmd/sealos/cmd/sync_multinode.go,           *)
(* compare/compare.go), the commit of a local input that some hosts have   *)
(* changed, with or without --host (commit/commit.go), and the revert of   *)
(* all or selected host paths (cmd/sealos/cmd/sync.go).                    *)
(*                                                                         *)
(* There is one tracked path of each class: "input" is a file that a local *)
(* input feeds, with a payload of its own for the hosts in Scoped;         *)
(* "bootstrap" is the kubeadm configuration, also fed by a local input;    *)
(* "package" is a file of the distribution; "pod" is a generated static    *)
(* pod manifest, which only control-plane hosts have.                      *)
(***************************************************************************)
EXTENDS Naturals, Sequences, FiniteSets, SequencesExt

CONSTANTS
  Hosts,       \* the hosts of the topology, in its order
  LocalHosts,  \* the hosts that are the machine the command runs on
  Masters,     \* the control-plane hosts
  Scoped,      \* the hosts with a host-scoped input for "input"
  Paths,       \* the tracked paths
  Contents,    \* file contents
  Modes,       \* file modes
  Repairable,  \* whether the generated path is a kubeadm control-plane manifest
  MaxEdits     \* bound on edits of live files and of the local repo

Nodes == Range(Hosts)
AllPaths == {"input", "bootstrap", "package", "pod"}

TopologyAssumption ==
  /\ LocalHosts \subseteq Nodes /\ Cardinality(LocalHosts) <= 1
  /\ Masters \subseteq Nodes /\ Scoped \subseteq Nodes
  /\ Paths \subseteq AllPaths

VARIABLES
  repo,    \* content of each input in the local repo: of the default and of the scoped ones
  bundle,  \* the rendered files: content and mode
  live,    \* the files of the hosts
  edits,   \* edits made so far
  last     \* the last command: [op, host, done] with the statuses it acted on

vars == <<repo, bundle, live, edits, last>>

LocalInputs == {"input", "bootstrap"} \cap Paths
Owner(p) == IF p \in LocalInputs THEN "local" ELSE "global"
Generated(p) == p = "pod"
Targets(p) == {"default"} \cup (IF p = "input" THEN Scoped ELSE {})

File(c, m) == [kind |-> "file", content |-> c, mode |-> m]
Missing == [kind |-> "missing"]
Directory == [kind |-> "dir"]
\* What a generated manifest looks like when it is as kubeadm wrote it, and how it may differ.
PodForms == {"expected", "otherFlag", "otherImage", "unparsable"}
Forms(p) ==
  {Missing, Directory} \cup
  {File(c, m) : c \in IF Generated(p) THEN PodForms ELSE Contents, m \in Modes}

-----------------------------------------------------------------------------
(***************************************************************************)
(* Comparison.                                                             *)
(***************************************************************************)
\* A single local host is compared without a host identity.
IsSingleNode == Len(Hosts) <= 1
UseLocalSingleNodeCompare == IsSingleNode /\ Nodes \subseteq LocalHosts
HostIdentity(n) == IF UseLocalSingleNodeCompare THEN "" ELSE n

TargetFor(p, host) == IF host \in Targets(p) THEN host ELSE "default"
HostDesiredFileDefault(p, host) == bundle[p]["default"]
HostDesiredFile(p, host) == bundle[p][TargetFor(p, host)]

\* Generated manifests exist on control-plane hosts only.  In a cluster of several nodes the
\* bootstrap hook writes each host's own kubeadm configuration, which is not compared.
AppliesToHost(n, p) == Generated(p) => n \in Masters
Suppressed(p) == p = "bootstrap" /\ ~IsSingleNode
Compared(n, p) == UseLocalSingleNodeCompare \/ (AppliesToHost(n, p) /\ ~Suppressed(p))

GeneratedMismatch(file) ==
  CASE file.kind = "missing" -> "missing"
    [] file.kind = "dir" -> "unsupportedType"
    [] OTHER -> IF file.content = "expected" THEN "none" ELSE file.content
Clean(p, host, file) ==
  IF Generated(p) THEN GeneratedMismatch(file) = "none"
  ELSE file = File(HostDesiredFile(p, host).content, HostDesiredFile(p, host).mode)

Status(n, p) ==
  [host |-> HostIdentity(n), node |-> n, path |-> p, live |-> live[n][p],
   state |-> CASE Clean(p, HostIdentity(n), live[n][p]) -> "Clean"
               [] Owner(p) = "local" -> "Dirty"
               [] OTHER -> "Orphan"]

\* A directory in the place of a direct file stops the comparison of the whole cluster.
CompareFails == \E n \in Nodes, p \in Paths : ~Generated(p) /\ live[n][p] = Directory
SyncCompareBundle == {Status(x[1], x[2]) : x \in {y \in Nodes \X Paths : Compared(y[1], y[2])}}
DriftedStatuses == {s \in SyncCompareBundle : s.state # "Clean"}
ClusterState ==
  LET states == {s.state : s \in SyncCompareBundle} IN
  CASE "Orphan" \in states -> "Orphan" [] "Dirty" \in states -> "Dirty" [] OTHER -> "Clean"

-----------------------------------------------------------------------------
(***************************************************************************)
(* Guidance.                                                               *)
(***************************************************************************)
GeneratedAction(file) ==
  CASE GeneratedMismatch(file) = "unparsable" -> "manualReview"
    [] GeneratedMismatch(file) = "otherFlag" -> "updateLocalInputAndRerender"
    [] OTHER -> "rerenderOrUpdateGlobalBaseline"
OperatorAction(s) ==
  CASE s.state = "Clean" -> "none"
    [] Generated(s.path) -> GeneratedAction(s.live)
    [] s.state = "Orphan" -> "revertOrUpdateGlobalBaseline"
    [] OTHER -> "commitOrReapplyLocalInput"
SafeCommit(s) == OperatorAction(s) = "commitOrReapplyLocalInput" /\ s.live.kind # "missing"

\* Local inputs whose drifted hosts do not agree; only hosts with an identity are counted.
LocalInputHostSplits ==
  {p \in LocalInputs : Cardinality({s.live : s \in {t \in DriftedStatuses : t.path = p /\ t.host # ""}}) > 1}

-----------------------------------------------------------------------------
(***************************************************************************)
(* Apply, edits and rendering.                                             *)
(***************************************************************************)
RenderedDefaultOnly(p) == [t \in Targets(p) |-> [content |-> repo[p]["default"], mode |-> CHOOSE m \in Modes : TRUE]]
Rendered(p) == [t \in Targets(p) |-> [content |-> repo[p][t], mode |-> CHOOSE m \in Modes : TRUE]]
AppliedFile(n, p) ==
  IF Generated(p) THEN (IF n \in Masters THEN File("expected", CHOOSE m \in Modes : TRUE) ELSE Missing)
  ELSE File(bundle[p][TargetFor(p, n)].content, bundle[p][TargetFor(p, n)].mode)
Command(op, host, statuses) == [op |-> op, host |-> host, statuses |-> statuses]

Init ==
  /\ repo \in [Paths -> UNION {[{"default"} \cup S -> Contents] : S \in {{}, Scoped}}]
  /\ \A p \in Paths : DOMAIN repo[p] = Targets(p)
  /\ bundle = [p \in Paths |-> Rendered(p)]
  /\ live = [n \in Nodes |-> [p \in Paths |-> Missing]]
  /\ edits = 0
  /\ last = Command("render", "", {})

Apply ==
  /\ last.op \in {"render", "commit"}
  /\ live' = [n \in Nodes |-> [p \in Paths |-> AppliedFile(n, p)]]
  /\ last' = Command("apply", "", {})
  /\ UNCHANGED <<repo, bundle, edits>>

Edit(n, p) ==
  /\ last.op \notin {"render"}
  /\ edits < MaxEdits
  /\ p = "bootstrap" => IsSingleNode
  /\ Generated(p) => n \in Masters
  /\ live' \in {[live EXCEPT ![n][p] = f] : f \in Forms(p) \ {live[n][p]}}
  /\ edits' = edits + 1
  /\ last' = Command("edit", n, {})
  /\ UNCHANGED <<repo, bundle>>

\* sync render: what the local repo holds becomes the bundle.
Render ==
  /\ last.op = "commit"
  /\ bundle' = [p \in Paths |-> Rendered(p)]
  /\ last' = Command("render", "", {})
  /\ UNCHANGED <<repo, live, edits>>

-----------------------------------------------------------------------------
(***************************************************************************)
(* sync commit [--host h].                                                 *)
(***************************************************************************)
\* The file that the command reads: below the local root without --host or for a local
\* host, else a copy that was fetched from the selected host.
LocalRootFile(p) == IF LocalHosts = {} THEN Missing ELSE live[CHOOSE n \in LocalHosts : TRUE][p]
CommittedFileOfBundle(p, h) == File(bundle[p]["default"].content, bundle[p]["default"].mode)
CommittedFile(p, h) == IF h = "" \/ h \in LocalHosts THEN LocalRootFile(p) ELSE live[h][p]

Candidates(p) == {s \in DriftedStatuses : s.path = p}
HostIndex(n) == CHOOSE i \in DOMAIN Hosts : Hosts[i] = n
FirstCandidate(p) == CHOOSE s \in Candidates(p) : \A t \in Candidates(p) : HostIndex(s.node) <= HostIndex(t.node)
Divergent(p) == Cardinality({s.live : s \in Candidates(p)}) > 1

SelectAny(p, h) ==
  IF h = "" THEN {FirstCandidate(p)} ELSE {s \in Candidates(p) : s.host = h}
SelectHostPathCommitCandidate(p, h) ==
  IF h # "" THEN {s \in Candidates(p) : s.host = h}
  ELSE IF ~Divergent(p) THEN {FirstCandidate(p)} ELSE {}

CommitTargetOfDefault(p, h) == "default"
CommitTarget(p, h) == IF h \in Targets(p) THEN h ELSE "default"
PathCommittable(p, h) ==
  /\ FirstCandidate(p).live.kind # "missing"
  /\ SelectHostPathCommitCandidate(p, h) # {}
  /\ (h # "" /\ h \notin Targets(p)) => ~Divergent(p)
  /\ CommittedFile(p, h).kind = "file"
DirtyInputs == {p \in LocalInputs : Candidates(p) # {}}
CommitAccepted(h) ==
  /\ ~CompareFails
  /\ \A s \in DriftedStatuses : s.state # "Orphan"
  /\ \A p \in DirtyInputs : PathCommittable(p, h)

Commit(h) ==
  LET written(p, t) == p \in DirtyInputs /\ t = CommitTarget(p, h) IN
  /\ last.op \in {"edit", "revert", "failed"}
  /\ CommitAccepted(h)
  /\ repo' = [p \in Paths |-> [t \in Targets(p) |-> IF written(p, t) THEN CommittedFile(p, h).content ELSE repo[p][t]]]
  /\ bundle' = [p \in Paths |-> [t \in Targets(p) |->
                  IF written(p, t) THEN [bundle[p][t] EXCEPT !.content = CommittedFile(p, h).content] ELSE bundle[p][t]]]
  /\ last' = Command("commit", h, DriftedStatuses)
  /\ UNCHANGED <<live, edits>>

CommitRefused(h) ==
  /\ last.op \in {"edit", "revert"}
  /\ ~CommitAccepted(h)
  /\ last' = Command("failed", h, {})
  /\ UNCHANGED <<repo, bundle, live, edits>>

-----------------------------------------------------------------------------
(***************************************************************************)
(* sync revert [--scope local] [--host-path p [--host h]].                 *)
(***************************************************************************)
CanRevertHostPath(s) == Generated(s.path) => Repairable

SelectedHostPaths(p, h) == {s \in DriftedStatuses : s.path = p /\ (h # "" => s.host = h)}
PlanRevertUnscoped(scope, p, h) == {s \in DriftedStatuses : CanRevertHostPath(s)}
PlanRevert(scope, p, h) ==
  IF p # "" THEN SelectedHostPaths(p, h)
  ELSE {s \in DriftedStatuses : CanRevertHostPath(s) /\ (scope = "local" => s.state = "Dirty")}
RevertPlanned(scope, p, h) ==
  /\ ~CompareFails
  /\ PlanRevert(scope, p, h) # {}
  /\ p # "" => /\ \A s \in PlanRevert(scope, p, h) : CanRevertHostPath(s)
               /\ Cardinality(PlanRevert(scope, p, h)) = 1
               /\ scope = "local" => \A s \in PlanRevert(scope, p, h) : s.state = "Dirty"

RevertedFileOfDefault(s) ==
  File(IF Generated(s.path) THEN "expected" ELSE bundle[s.path]["default"].content, CHOOSE m \in Modes : TRUE)
RevertedFileKeepsMode(s) ==
  File(IF Generated(s.path) THEN "expected" ELSE HostDesiredFile(s.path, s.host).content,
       IF s.live.kind = "file" THEN s.live.mode ELSE CHOOSE m \in Modes : TRUE)
RevertedFile(s) ==
  IF Generated(s.path) THEN File("expected", CHOOSE m \in Modes : TRUE)
  ELSE File(HostDesiredFile(s.path, s.host).content, HostDesiredFile(s.path, s.host).mode)
Restored(statuses) ==
  [n \in Nodes |-> [p \in Paths |->
     IF \E s \in statuses : s.node = n /\ s.path = p
     THEN RevertedFile(CHOOSE s \in statuses : s.node = n /\ s.path = p) ELSE live[n][p]]]

Revert(scope, p, h) ==
  /\ last.op \in {"edit", "commit", "failed"}
  /\ RevertPlanned(scope, p, h)
  /\ live' = Restored(PlanRevert(scope, p, h))
  /\ last' = Command(IF scope = "local" \/ p # "" THEN "revertSome" ELSE "revert", h, PlanRevert(scope, p, h))
  /\ UNCHANGED <<repo, bundle, edits>>

\* One host cannot be reached: the ones before it have been reverted.
RevertInterrupted(scope, p, h) ==
  /\ last.op = "edit"
  /\ RevertPlanned(scope, p, h)
  /\ \E done \in SUBSET PlanRevert(scope, p, h) :
       /\ done # PlanRevert(scope, p, h)
       /\ live' = Restored(done)
  /\ last' = Command("failed", h, {})
  /\ UNCHANGED <<repo, bundle, edits>>

Selections == {<<"all", "", "">>, <<"local", "", "">>}
              \cup ({"all", "local"} \X Paths \X ({""} \cup Nodes))

Next ==
  \/ Apply \/ Render
  \/ \E n \in Nodes, p \in Paths : Edit(n, p)
  \/ \E h \in {""} \cup Nodes : Commit(h) \/ CommitRefused(h)
  \/ \E x \in Selections : Revert(x[1], x[2], x[3]) \/ RevertInterrupted(x[1], x[2], x[3])

Spec == Init /\ [][Next]_vars

-----------------------------------------------------------------------------
(***************************************************************************)
(* Properties.                                                             *)
(***************************************************************************)
\* Every host compares clean after an apply: the target that apply writes to a host is the
\* one that the comparison expects there.
AppliedHostsClean == last.op = "apply" => ClusterState = "Clean"

\* After a commit, the content that the committed hosts had is what they are now expected to
\* have; with --host the selected host, else every host that had drifted.
CommitAbsorbsContent ==
  last.op = "commit" =>
    \A s \in last.statuses :
      (s.path \in LocalInputs /\ (last.host # "" => s.host = last.host) /\ s.live.kind = "file")
      => HostDesiredFile(s.path, s.host).content = s.live.content

\* A commit for a host with a payload of its own gives that host the content it has and
\* leaves what is expected of every other host alone.
ScopedCommitStep ==
  (last'.op = "commit" /\ last'.host \in Scoped) =>
    \A s \in SyncCompareBundle :
      IF s.host = last'.host /\ s.state = "Dirty" /\ s.path = "input"
      THEN HostDesiredFile(s.path, s.host)'.content = s.live.content
      ELSE HostDesiredFile(s.path, s.host)' = HostDesiredFile(s.path, s.host)

\* The local repo and the bundle never diverge on an input, so the next render keeps what
\* was committed.
RepoIsBundle == \A p \in Paths : \A t \in Targets(p) : repo[p][t] = bundle[p][t].content

\* A full revert leaves nothing drifted but generated files that cannot be repaired, also
\* when it is the retry of a revert that was interrupted.
RevertRestores ==
  last.op = "revert" => \A s \in DriftedStatuses : Generated(s.path) /\ ~Repairable

\* A revert with --scope local never writes a file that the distribution owns, and one
\* with --host-path writes a single file.
ContainedStep ==
  last'.op = "revertSome" =>
    \/ \A n \in Nodes, p \in Paths : live'[n][p] # live[n][p] => Owner(p) = "local"
    \/ Cardinality({x \in Nodes \X Paths : live'[x[1]][x[2]] # live[x[1]][x[2]]}) <= 1

\* A drift that status reports as a split of a local input is never committed without --host.
SplitStep == (last'.op = "commit" /\ last'.host = "") => LocalInputHostSplits = {}
=============================================================================
