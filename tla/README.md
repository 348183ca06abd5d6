# A TLA+ model of Sealos distributions and clusters

Sealos renders a *distribution* (a bill of materials of packaged components plus
cluster-local inputs) into a bundle of files, applies that bundle to the hosts
and the API of a cluster, records what it did, and rolls back, commits or
reverts drift (`pkg/distribution/*`, `cmd/sealos-agent`, the `sealos sync`
commands).  Beside that it creates, scales, upgrades and resets clusters with
kubeadm (`pkg/apply`, `pkg/runtime`), and keeps a virtual server load balancer on
every worker (`lvscare`).  This directory models both.

TLC checks small instances (`tlc -config <run>.cfg <module>`); TLAPS proves the
central properties for every instance (`tlapm <module>_proofs.tla`, for the eight
modules of that name).  `PROJECT.json` lists components, runs, the
source lines behind each definition, hazards and theorems.

## The system

| Component | State | Operations | Interacts with |
| --- | --- | --- | --- |
| applied-revision document (`state/`) | `applied-revision.yaml`: desired digest, Clean/Dirty/Orphan/Degraded, last successful revision, success history, conditions | persist rendered state, mark success, mark degraded, persist observed state | written by every other component, by load, change and atomic save, without a lock |
| revision store and current bundle (`reconcile/materialize.go`) | `bundles/revisions/<digest>`, `bundles/current`, `.bak`, `.stage` | render, store, mirror, promote by two renames | records the digest *after* the bundle is in place |
| apply and rollback (`reconcile/apply.go`) | hosts and cluster API | check digest, run components in order, mark, or roll back to the last successful revision | reads `current`, or `revisions/<digest>` during a rollback |
| kubeadm bootstrap (`reconcile/kubeadm_bootstrap.go`) | cluster membership | init, move the endpoint, preload images, join, repair | a phase of apply |
| agent loop (`agent/runner.go`) | none of its own | resolve target, materialize, apply; record failures; stop on pause or rollback | calls the ones above |
| controller (`controller/`) | status of a DistributionTarget | reconcile: run the agent once, write the status, requeue | API server, watches, cache, work queue |
| sync commands (`cmd/sealos/cmd/sync*.go`) | none | render, apply, diff, status, commit, revert, preflights | same files as the agent |
| drift (`compare/`, `commit/`, `ownership/`) | local repo, bundle | compare the bundle with the cluster, take edits over, put them back | rewrites `current` in place |
| local repo (`localrepo/`, `sync_localrepo.go`) | inputs, resources, patches, policy, metadata | init, doctor, load, digest | a source of a render |
| hydrate (`hydrate/`) | none | order of components, render, inventory of tracked paths and objects, digest | packages and local repo in, bundle out |
| release channels, promotion (`bom/`, `promotion/`) | channel documents, BOMs, candidates, history, health proofs | look up, derive, promote, evaluate proofs | yield the agent's target |
| OCI package cache (`ocipackage/`) | cache directory | pull, mount, reuse, collect | a source of a render |
| cluster commands (`pkg/apply`) | Clusterfile, mounted images | run, apply, add, delete, reset | the runtime |
| Kubernetes runtime (`pkg/runtime`, `pkg/cert`) | kubeadm configuration, tokens, keys, certificates | init, join, remove, upgrade, renew | SSH, kubeadm, API server |
| virtual server (`lvscare`, `pkg/ipvs`) | IPVS table, iptables chains, dummy device | run once, run, check, clean | joins of workers, static pods |
| images, registries, SSH, cluster-file checks | | | steps of the others |

What is hard: documents and directories that belong together are changed one
after the other, and a process may die between any two; an apply takes minutes
and fails half-way on some hosts, and so may its rollback; agent, controller,
operator commands and the service's handlers share everything without a lock;
sources change between the check, the digest and the copy; what one command
leaves behind is all the next one knows; goroutines share a configuration or an
error variable.  `hazards` in `PROJECT.json` lists these places by line.

What makes each part correct:

- the record calls a revision successful only if the whole cluster was given it,
  and never forgets the last one; only the recorded revision is ever executed,
  and what the record refers to can be found again;
- whatever was left behind, the agent gets to its target;
- a rollout touches hosts in batches, canary first, each phase once; a bootstrap
  neither disturbs members nor forgets a host;
- a component is applied after everything it needs;
- a bundle is made of whole packages, what is tracked is what was applied, and
  each tracked path has the owner whose drift may be committed;
- a commit or revert ends clean and leaves other hosts and fields alone;
- what passes a preflight works, and a bundle called fresh is fresh;
- a client resolves only what was approved, on evidence that was earned;
- the Clusterfile says what runs; a reported success has joined or upgraded
  everybody, at versions that fit together;
- the load balancer follows the masters, draining before removing;
- the status of a target is true of the generation it names, and catches up.

## Modules

| Module | Models | Kind |
| --- | --- | --- |
| `AppliedRevision` | the document and the operators of `state/store.go` | operators |
| `Lifecycle` | one process at a time on the files of a cluster | state machine |
| `RevisionLedger` | what the record promises, without files and processes | abstract specification |
| `LifecycleRefinement` | refinement mapping and inductive invariant | |
| `Lifecycle_proofs` | lemmas and theorems | TLAPS |
| `ConcurrentLifecycle` | the agent and sync commands at once: two instances of `Lifecycle` on the same files | composition |
| `RevisionHistory` | the success history against the log of all successes | algorithm |
| `Rollout` | one execution of a bundle on the hosts | state machine |
| `KubeadmBootstrap` | the bootstrap phase, host by host, repeated after failures | state machine |
| `Controller` | the reconciler of one target with API server, cache and queue; runs in `MCLiveness` | state machine |
| `Controller_proofs` | what the status says is true | TLAPS |
| `ReleaseChannel` | the release store, concurrent promotions and lookups | state machine |
| `ReleaseChannel_proofs` | what is resolved was approved; evidence and history of promotions | TLAPS |
| `HealthProof` | evidence: from an acceptance report to the two evaluations | algorithm, grown step by step |
| `Manifest` | manifests as trees: patch policy, merges, comparison | operators |
| `DriftLoop`, `DriftCases` | one object: render, apply, drift, compare, commit, revert; its cases | state machine |
| `HostDrift` | files on several hosts: compare, commit, revert | state machine |
| `DependencyOrder` | merging and sorting of dependencies | algorithm, one worklist step per action |
| `Execution_proofs` | a plan's order respects every dependency, cycles are real, no map order shows; its execution is sound on any hosts | TLAPS |
| `LocalRepo` | the local repository, init and doctor | state machine |
| `SourceGate` | extends `LocalRepo`: render behind its preflight, freshness, preflight of an apply | state machine |
| `BundleContent` | the content of a package: inventory, staging, copies to hosts | state machine |
| `BundleMirror` | promotion and mirroring file by file, several processes | state machine |
| `BundleMirror_proofs` | revisions stay whole for any processes, everything for one; entries of the cache are whole unless torn | TLAPS |
| `PackageCache` | pulls, copies and collections in one cache, several processes | state machine |
| `ClusterApply` | the commands on a Clusterfile | state machine |
| `KubeadmJoin` | tokens, keys and join configurations, one goroutine per host | state machine |
| `KubeadmUpgrade` | the upgrade, command by command | state machine |
| `ClusterCerts` | CA, certificates, kubeconfigs and their distribution | state machine |
| `KubeadmJoin_proofs`, `KubeadmUpgrade_proofs`, `ClusterCerts_proofs` | what holds of each for any hosts, and of the machines of `MCKubeadm` | TLAPS |
| `LvsCare` | lvscare's processes and the kernel's table | state machine |
| `MCLifecycle`, `MCConcurrentLifecycle` | instances for TLC | |
| `MCLiveness`, `MCRelease`, `MCSources`, `MCBundles`, `MCRollout`, `MCKubeadm`, `MCClusters` | suites of machines for TLC | |

A **suite** declares the variables of several state machines that share no state
and a variable `machine`.  A behaviour runs the machine it starts with; the others
keep an initial state.  Its instances of the modules are the machines, with their
bounds.  So one run checks several modules without multiplying their states, and
`machine = "m" => P` says which instance `P` is about.  The properties a suite
checks are conjunctions of the named properties of its modules, where each is
explained.

### Lifecycle

A bundle's content is its digest.  `revisions`, `current`, `backup` and `stage`
are the directories below `bundles/`, `doc` is the document.  Each action is one
step that is atomic in the file system: a rename, a completed copy, a save
(`WriteFile` renames a temporary file into place), or one component of an apply.
`Crash` may happen before any of them and forgets everything in memory.

`live[c]` is what component `c` of the cluster was last given: a digest, `Mixed`
after a failure part-way or a pause, `Foreign` after an edit by hand.
`converged` and `patched` are history variables: the digests that were executed
completely, and those that a commit made by rewriting the current bundle.

`HookFixed` stands for a fact of the code that matters: `runLocalHookForHost`
makes a hook executable *in the bundle directory*, and `DigestBundle` covers
permission bits.  `HookFixed[d]` is the content `d` gets by that; with
`AllExecutable` nothing changes, with `R1NeedsChmod` revision `r1` becomes `x`.

The steps of one agent pass are `RunOnce`, `RenderBundle`, `PromoteRevision`,
`MirrorBundle`, `CopyBundle`, `PromoteBundleBackup`, `PromoteBundleInstall`,
`PromoteBundleCleanup`, `PersistRendered`, `ApplyStart`, `ApplyComponent` once per
component, `ApplyDone`, `MarkSuccess`.  Each has its failure; a failed apply goes
through `RollbackStart`, the execution of the stored revision, the same mirror
steps, `RollbackRestore` and `MarkSuccess` if the failure action is Rollback, and a
failed pass ends with `RecordDegraded`.

Abstractions: rendering yields a digest and may fail; the BOM reference, targets
and provenance travel with the digest, because the bundle manifest that is
digested contains them; a commit takes over an edit that the live cluster has;
an observation of a bundle the cluster has is Clean and any other one is not;
commands other than status and diff use the default bundle directory.

### Rollout

`HostPhases` and `ClusterSteps` are the calls of `applyRuntimeRootfsHostBatch`,
`applyBootstrapRootfsComponent` and `applyClusterApplicationComponent` in their
order; a host goes through a phase in one step, which may fail with or without
its effect.  `reached[c][h]` counts the phases host `h` has done for component `c`.
Hooks for the cluster or the first master only run beside these phases and show
by their failure (`HookFails`).  Kubeadm bootstrap is one phase here.

### Controller

`object` and `policy` are in the API server; every write of the target is an event
in the FIFO `watch`, and the reconciler reads `cache`.  A status update succeeds
only if the copy it started from is still current (the resourceVersion check).
`streak` and `succeeded` are history variables.  API server, cache and queue are
external and modelled from their use.

### KubeadmBootstrap

A pass works through `todo` lists of hosts in the order of the code: provision
the hosts without kubelet identity (`down`), initialise the first master, keep
the `endpoint` in the kubeadm-config map, preload `images`, join, repair the control
planes that were members before.  Any step may fail before its effect, and
`kubeadm init` after it has written `admin.conf`; the agent repeats the pass, hosts
are added between passes, and `sync revert` runs the repair steps alone
(`BeginRepair`).

### ReleaseChannel and HealthProof

Files are variables.  A promotion reads the channel document, decides, and writes
candidate, channel and record one after the other; a `PromoterFails` between two of
them leaves what is written, and the request may be repeated.  `approved` is the
history of what was ever written to a channel: a client, which reads the channel
document and the BOM it names at different times, resolves nothing else.  A
`Request` may claim any source channel: the code judges the claim, or the target
channel where none is made (`DefaultSource`), and never what the BOM was built for.
`HealthProof` grows an acceptance report stage by stage, builds a proof of it at
any time, and compares the verdict of `EvaluateDistributionHealthProof` and of the
promotion policy with what the stages really did.

### Manifest, DriftLoop, HostDrift

A manifest is a tree, a path a sequence of tokens.  `Manifest` has the two ways in
which the code merges a list (the renderer keys any list whose items have names,
the comparison only lists it knows), so that a patch rendered by one and compared
by the other shows whether they agree.  `DriftLoop` runs an object through render,
apply, edits of the live object, commit and revert; `DriftCases` lists the objects:
placement fields, labels and a container.  `HostDrift` has one tracked path of each
class on each host and compares, commits and reverts them with and without
`--host`; a revert may be interrupted between two hosts.

### DependencyOrder

`BuildDependencySet` merges what BOM and packages declare or fails for a missing
requirement; each `Emit` places the least ready component.  The walk over Go maps is
a choice, so `OrderDetermined` says that no choice shows in the result.

### Rollout

`Next` takes the components in the plan's order; a component goes batch by batch,
phase by phase and host by host, then to the cluster (manifests and shared
resources).  `BatchesOf` is `rolloutHostBatches`: the canary's batch, then
`splitRolloutHosts` of the rest.  For the bootstrap of Kubernetes only the hosts that have
not joined are provisioned; `NthFresh` numbers them by counting.  A failure or the pause after
the canary ends the execution.

### LocalRepo and SourceGate

`files` maps each path of the repository to a class of texts (placeholder,
filled, wrong kind) and a mode.  `init` writes file by file and may be interrupted;
the operator edits between any two steps; the doctor's verdict and its suggestion
are kept, and `FollowSuggestion` does what it says.  A render is three steps, because
the code reads its sources three times: the gate, the options with their
digests, the copy.  `EditRepository` and `EditEnvironment` fall between them.  An apply
checks the bundle it loads for the preflight and loads it again.

### BundleContent, BundleMirror, PackageCache

`BundleContent` follows every path of a package: staged with its inputs, recorded as
tracked with an owner, copied to each host by an apply that may fail at any
entry; a content is the source it came from and the edition of that source.
`BundleMirror` refines the copies that `Lifecycle` takes as one step into the copies of
files, with several processes in the shared directories.  `PackageCache` pulls,
validates and copies out entries while a collection removes others, the registry
goes away and processes are killed; nothing is locked in the code, nor here.  Two
pulls of one package, or a collection of valid entries, take an entry apart file by
file while another process copies it; the history variable `torn` has the entries
that lost a file while they loaded, and what is claimed of a copy is claimed of the
others.

### ClusterApply

The stored Clusterfile is the only memory between commands.  `Command` reads it and
the request, `Create`, `Install`, `ScaleCluster` and `Delete` run the pipeline the
driver chooses, step by step, each of which may fail, be cancelled or killed.
`members` are the hosts' real versions; the properties compare them with what the
file says after a reported success and after a failure.  A `kubeadm reset` or a node
removal that fails is dropped by the code and the host leaves the file all the
same: `stray` is the history of the hosts left in the cluster that way, and the
properties say that no other way leads there.  An install upgrades the cluster to
each new rootfs image in turn (`todo`), and one that fails while it prepares keeps
the mounts made so far.

### KubeadmJoin, KubeadmUpgrade, ClusterCerts

`KubeadmJoin` has the goroutines of a join, which fill the shared `config` under
`lock` and send it; `err` is the variable that the goroutines of the workers share
without the lock.  A worker whose configuration cannot be sent returns with the lock
still held, and the goroutines behind it wait for ever (`Stuck`).  Tokens age, keys
rotate, and `uploaded` is the key the cluster's certificates open with.  `KubeadmUpgrade` runs the commands of
`upgradeMaster0` and `upgradeOtherNodes` one by one; a fault of a list of commands is
noticed or, on a remote host, may not be: `lost` is the history of the hosts an
upgrade left behind that way.  `ClusterCerts` has each file of the PKI
as a write of its own, the copies to masters, and API servers that serve the
certificate they loaded when they last started.

### LvsCare

The pod's process and a command's process each have a main routine, the proxier's
loop and one routine per checked server; a check reads the weight, probes, and
acts later.  The kernel's table, rules and chains outlive processes; others flush
or reset them, and a cleaning may fail at the virtual server and still go on to the
rules; masters fail and come back; the static pod is rewritten when masters
are added or deleted (`Sync`).

## Runs

| Run | Machines and what is checked | Result |
| --- | --- | --- |
| `lifecycle_safety` | `TypeOK`, `LastSuccessfulConverged`, `ExecutesRecordedRevision`, `FinishedApplyAgrees`, `RenderedRevisionsRetained`, `RecordKept`, `IInv`, `ImplementsLedger` | pass, 2.1 million states |
| `liveness` | controller, agent, bootstrap, cache, care, join: `StatusIsTrue`, `StatusSettles`, `AgentConverges`, `BootstrapJoins`, `CacheRendersEnd`, `CareFollows`, `JoinSendReturns` | pass, 350 thousand states |
| `release` | store, race, order, report, hand, repeats: `StoreResolvedIsApproved`, `PromotionSound`, `HistorySound`, `ProofSound` | pass, 2.2 million states |
| `sources` | plan, repo, render, apply: `DependenciesFirst`, `WorklistExact`, `PlanSound`, `RepoSound`, `GateSound`, `PreflightSound` | pass, 820 thousand states |
| `bundles` | mirror, alone, cache, shared, content, faults: `RevisionsWhole`, `AloneSound`, `CacheSound`, `ContentSound` | pass, 1.1 million states |
| `rollout` | rollout, bootstrap, history, object, hosts, host: `RolloutSound`, `BootstrapSound`, `HistoryIsRecentSuccesses`, `ObjectDriftSound`, `HostDriftSound` | pass, 570 thousand states |
| `kubeadm` | join, single, rotate, upgrade, first, certs: `JoinSound`, `UpgradeSound`, `CertsSound` | pass, 170 thousand states |
| `clusters` | plain, faulty, killed, care, commands: `InstallSound`, `FailuresSound`, `CareSound` | pass, 490 thousand states |
| `channel_skip` | order: `ChannelOrder` | violated |
| `hook_chmod` | `Converges` | violated |
| `concurrent_mark` | `MarkedRevisionConverged` | violated |
| `kubeadm_worker_race` | `WorkersReported` | violated |

Every conjunction has the parts that its comment names; `mutants` in `PROJECT.json`
break them with changes of the code they are about, several for a conjunction.

### Where the code and its documentation disagree

- **hook_chmod.** A rollback runs hooks inside `revisions/<digest>` and may chmod
  them.  From then on a render of that revision installs a bundle whose digest is
  not the recorded one, and every apply of it is rejected.
  `docs/architecture/reconcile-and-ownership.md:242` requires that re-running
  converges.
- **concurrent_mark.** A `sync render` during an apply of the agent: the agent
  finishes and marks the rendered revision, which was never applied
  (`docs/architecture/reconcile-and-ownership.md:300`).
- **channel_skip.** A revision built for `alpha` enters `stable` without ever having
  been the target of `beta`: a promotion is judged by the source channel that its
  request claims, or by the target channel if it claims none, which every policy
  allows (`bom/channel.go:848`, `cmd/sync.go:501`, `promotion/policy.go:102`).
  `docs/guides/bom-and-channel.md:549` tabulates the "Allowed candidate
  `BOM.spec.channel`", which "blocks an unvalidated `alpha` candidate from skipping
  directly to `stable`" (`:555`).
- **kubeadm_worker_race.** The goroutines of `joinNodes` assign and test one `err`;
  a failed join is not returned when another goroutine assigns nil in between, and
  the host is logged as joined (`pkg/runtime/kubernetes/node.go:65`).

Modelling showed more places where the code does something other than a
comment or document says.  Each was found with a variant of the module named.
Where it says *modelled*, the runs contain the case and the properties say how far
its effect goes; the machines leave the others out by their constants and bounds,
or have a property that is stated for the other cases.

- *Lifecycle.* A committed bundle is applied but not retained, so a rollback to it
  fails (`commit/commit.go:116`).  A document stays Clean for a revision rendered
  again after a failed apply of another (`state/store.go:150`).
- *RevisionHistory.* The fallback for a document without history adds the new
  snapshot, not the previous one (`state/store.go:255`).
- *Controller.* Its own status update re-enqueues a paused or rolled-back target
  (`controller/reconciler.go:193`).
- *KubeadmBootstrap.* A `kubeadm init` that failed after writing `admin.conf` counts as
  done (`reconcile/apply.go:1000`); an unreadable kubeadm-config map lets a pass
  upload another endpoint (`kubeadm_bootstrap.go:281`).
- *ReleaseChannel.* Concurrent promotions lose entries of the append-only history
  (`bom/channel.go:951`); a rejected request replaces a published proof (`bom/release_metadata_service.go:405`).
- *HealthProof.* Of repeated signals the last one counts, so a failed required signal
  can be accepted (`bom/channel.go:594`).
- *DriftLoop.* Renderer and comparison merge `imagePullSecrets` by different keys
  (`compare/compare.go:1998`); a committed patch of `env` loses the container's image
  (`hydrate/localpatch.go:508`); a committed removal stays Dirty
  (`hydrate/localpatch.go:479`); drift in a package's volume is Dirty, not Orphan
  (`compare/compare.go:2187`).
- *HostDrift.* Without `--host` a commit reads the local host's file even if only
  remote ones drifted (`cmd/sync.go:1930`); with it, the default input is overwritten
  while another host still relies on it (`commit/commit.go:606`); a single local
  host with an input of its own never compares clean (`cmd/sync_multinode.go:635`).
- *LocalRepo.* Placeholders of another release pass for filled values
  (`cmd/sync_localrepo.go:820`); the suggested `init --overwrite` and `init` can break a
  repository (`sync_localrepo.go:510`, `:1124`).
- *SourceGate.* The gate reads one document of a patch, render all of them
  (`cmd/sync.go:1195`); digests are taken at another time than the content
  (`cmd/sync.go:3640`), and cover neither the BOM's policy (`sync_multinode.go:223`)
  nor the directory of a file (`localrepo/localrepo.go:508`); an apply loads the
  bundle again after its checks (`cmd/sync.go:1335`).
- *ClusterApply.* An apply that failed, or that both adds and deletes hosts, saves
  the desired hosts as the cluster's (`apply_drivers_default.go:191`, `:112`, `:187`,
  `processor/scale.go:67`); a Clusterfile without status skips an upgrade
  (`runtime/kubernetes/runtime.go:183`); running the old image after a failed
  upgrade records the new one (`processor/install.go:191`); scaling a cluster whose
  mounts are lost fails (`processor/scale.go:278`); deletes and resets drop errors
  (`processor/delete.go:49`, `runtime/kubernetes/reset.go:77`, `master.go:208`;
  *modelled*, `stray`).
- *KubeadmJoin.* A failed send of a worker's configuration keeps the mutex
  (`node.go:48`; *modelled*, `Stuck`); after a rotation the uploaded certificates keep the old key
  (`runtime/utils/token.go:50`); the key file is replaced before the token file is
  removed (`cache.go:43`); the token's expiry is compared in nanoseconds
  (`kubeadm.go:302`).
- *KubeadmUpgrade.* Only the last command of a remote list can fail it
  (`ssh/sshcmd.go:41`; *modelled*, `lost`); the kubelet configuration is stored under a key that nobody
  reads (`client-go/kubernetes/expansion.go:101`).
- *ClusterCerts.* `sa.pub` is never written after a stop between the two writes
  (`cert/kube_certs.go:262`); `sealos cert` restarts API servers that its help says
  it leaves (`certs.go:66`).
- *BundleContent.* A rootfs content below `rootfs/` is tracked and written at
  different paths (`apply.go:1211`); inputs inside a directory content are tracked as
  global (`inventory.go:244`); payloads of one host without a common one are not
  expected there (`inventory.go:792`); the remote copy script ignores errors
  (`apply.go:1768`); nested manifests are tracked and not applied (`apply.go:1272`).
  A new edition of a package here changes, never drops or renames, a path; what an
  older one left on a host is not considered.
- *PackageCache.* Entries are removed while others copy them, and a half-removed
  entry is accepted (`ocipackage/pull.go:172`, `:168`; *modelled*, `torn`); entries under other digest
  algorithms are not listed (`pull.go:205`).
- *BundleMirror.* Two processes fill one `current.stage`
  (`reconcile/materialize.go:427`).
- *LvsCare.* With `--run-once` a check may still run (`care/proxier.go:203`); a master
  deleted before two failed checks keeps its weight (`care/proxier.go:285`).

### Bounds

*lifecycle_safety, agent.* Two rendered revisions are enough for every relation
between a desired, a last successful and a previous one; a committed and a
hook-fixed digest are added where they matter.  Two components distinguish a
complete execution from a partial one; liveness uses one, since a partial
execution is then `Mixed`.  `MaxFaults` bounds crashes, failures, pauses, edits by
hand and new targets together: two allow a failed apply whose rollback fails, or a
crash and a new target in its recovery.  `MaxCommands` bounds operator commands, two
here; agent passes are unbounded.  What the run checks is proved for all bounds.

*rollout.* Three hosts, of which some may have joined, with sizes 0 to 2 contain
every relation of batch, canary and list of hosts left to provision: zero, dividing,
not dividing, equal.  What no step of an execution reads (`UnreadFixed`) is not
varied.  *bootstrap*: two control
planes and a worker, two faults.  *history*: a history of two with three revisions
and five applies fills, repeats and overflows.  *object*: the cases of
`DriftCases`, any sequence of commands.  *hosts*, *host*: two contents, two modes, two
edits; live paths are files, missing or directories, symbolic links are left out.

*liveness.* *controller*: two edits and one fault contain an edit during a run, a policy
change and a failed update or restart in any order; `MaxRetry` caps RetryCount and
its history alike.  *agent* as above.  *bootstrap*: two control planes and a worker.
*cache*: one package that two renders may need at a time.  *care*: two masters, a
device and a chain.  *join*: two masters and two workers beside the first master, so
that a mutex which a worker keeps stops another worker; a master's goroutine gives it
back in any case.

*release.* Two revisions and contents (interchangeable, with the promoters, by
symmetry), two channels, two promotions, one rewrite of a BOM, one fault; promotions
overlap in *race* and follow each other beside a client in *store*.  *order* has
three channels, three promotions and every source a request can claim.  Proofs have two stages or three signals,
thresholds from zero to more than there are.

*sources.* All dependency graphs over three components and one absent name; three
inputs, two releases and two edits for the repository; two edits between the
steps of a render or an apply, which has one input, three kinds of machine and two
topologies.

*bundles.* Two revisions and three starts of two processes, or four of one; two
packages, two processes, three renders and one collection of invalid entries in
*cache*, two renders that may need one package and a collection of valid entries in
*shared* (references by tag and `--max-age 0` are not modelled); one component on a local and a remote host, one
file per kind of content, two edits, or one with unnoticed failures.

*kubeadm.* One more master and two workers, two keys, three commands and tokens;
two masters, one worker and three minor versions with three upgrades in
*upgrade*, one in *first*, with failures noticed or not in both; two masters, two names, two kubeconfigs, four
commands; the three CAs and the leaf certificates of a master are one each.

*clusters.* Three hosts, two rootfs versions and one application, five commands
without faults, three with failures and two with kills, resets that fail unnoticed in
both; two masters and two
rewrites of the pod, or one master and three commands, with up to two faults; a
race on the proxier's map is a possible death of the process.

The lifecycle system never deadlocks, as an agent can always be started; most
machines stop once their bound is reached, so their configurations turn the
deadlock check off.

### Fairness

`MCLiveness` states fairness of each machine for the steps of that machine only.

- *controller*: watch events and timers arrive (controller-runtime), and the single
  worker proceeds, that is, an agent run ends, as it does with `Once: true`.
- *agent*: a started command goes on to its next step, and the loop of a running
  agent starts its next pass (`Run` sleeps and repeats).  Nothing is assumed of
  operators, or of who starts the agent: `Converges` is conditional on the agent
  running again and again, since a pause or a rollback ends its loop.
- *bootstrap*: a started pass goes on, and the agent starts the next one (strongly
  fair, since a pass can begin only after the one before).
- *cache*: a render goes on; nobody owes a collection or a registry that is up, and
  a render without one fails, which ends it.
- *care*: every routine is scheduled (goroutines and tickers), and the kubelet starts
  and stops the static pod.
- *join*: the command goes on and each goroutine that is not blocked runs; one that
  waits for a mutex nobody will release is not, and `JoinSendReturns` names exactly
  that case.

Failures are not excluded by fairness but by the bound on faults: the properties
are about what happens once they end.

## Proofs

Each `X_proofs` proves an inductive invariant (`IInv`, or a name of its own) of the
specification of `X`: it holds initially, every action keeps it (a lemma per action
or group of actions), and it implies the property.  The proofs assume nothing but
the named assumptions on constants, which TLC evaluates for the instances of the
runs, and what is said below.

| Theorem | Property of a run | Beyond the named assumption |
| --- | --- | --- |
| `Invariance`, `TypeCorrect` | `IInv`, `TypeOK` | |
| `LastSuccessfulIsConverged` | `LastSuccessfulConverged` | |
| `ExecutionFollowsRecord` | `ExecutesRecordedRevision` | |
| `FinishedAgrees` | `FinishedApplyAgrees` | |
| `RevisionsRetained` | `RenderedRevisionsRetained` | |
| `RecordIsKept` | `RecordKept` | |
| `Refinement` | `ImplementsLedger` | |
| `OrderInvariant` | `WorklistExact` | |
| `DependenciesFirstHolds` | `DependenciesFirst` | |
| `PlansAreSound` | `PlanSound` | |
| `RolloutsAreSound` | `RolloutSound` | |
| `StatusAlwaysTrue` | `StatusIsTrue` | |
| `RevisionsAlwaysWhole` | `RevisionsWhole` | |
| `OneProcessIsSafe` | the parts of `AloneSound` | one process |
| `AloneIsSound` | `AloneSound` | one process |
| `WholeUnlessTorn` | the parts of `CacheSound` about what an entry and a copy hold | |
| `ResolutionsAreApproved` | `StoreResolvedIsApproved` | |
| `PromotionsAreSound` | `PromotionSound` | |
| `HistoriesAreChains` | a part of `HistorySound` | |
| `OneWriterKeepsHistory` | a part of `HistorySound` | one promoter, no derivation |
| `UpgradesAreSound` | `UpgradeSound` of *upgrade* | |
| `FirstUpgradeFits` | `UpgradeSound` of *first* | at most one upgrade |
| `SuiteUpgradesAreSound` | `UpgradeSound` | |
| `CertificatesAreSound` | `CertsSound` | |
| `JoinsAreSound` | the parts of `JoinSound` | |
| `SuiteJoinsAreSound` | `JoinSound` | |

### Lifecycle

For any sets of digests, any number of components and any bounds, from
`NoneAssumption` and `LifecycleAssumption`: the absent value is no digest, making
hooks executable is idempotent, there is at least one component.

`LastSuccessfulConverged` is not inductive: marking success is sound only because
of what happened between `ApplyStart` and `MarkSuccess`.  `IInv` adds what the code
relies on along the way:

- `StoreInv`: the store holds under each digest that content or its hooks fixed;
- `ApplyInv`: during an apply the document records the digest being executed, the
  current bundle matches it, and all components before `step` were given it;
- `RollbackInv`: until a rollback saves the document, that is still the one it
  loaded, its last successful revision is stored and converged, and after the
  execution the whole cluster has it;
- `MarkInv`: what is about to be marked has converged and is in the cluster;
- `BundleInv`: what is mirrored is stored, what is installed was staged whole, and
  what is recorded or marked is current;
- `RetainedInv`: a revision the document names is stored, unless a commit made it
  (`patched`; the store never sees a committed bundle until it is rendered);
- `FinishedInv`: nothing is reported while a command runs, and what an apply
  reported stays true until the next command or drift;
- `ControlInv`: where a process can be rolling back or has a digest at hand.

Frame lemmas (`RevisionsFrame`, `DocumentFrame`, `ExecEntry`, `MarkEntry`,
`RollbackEntry`) say once which steps can write a file or enter a control state,
so that the preservation of each part needs only the few actions that concern
it.  `RecordIsKept` is an action property and follows from the same invariant.
`Refinement` maps `PersistRendered` and `RollbackRestore` to `Want`, executions,
reverts and drift to `Change`, `MarkSuccess` to `Bless`, where `MarkInv` gives the
guard, and every other step to a stutter.

### DependencyOrder and Rollout

`Execution_proofs` extends both modules, which is why the plan's definitions are named
`PlanInit`, `PlanNext` and so on.

*The plan*, for any finite set of components and any declarations over them and the
absent names, from `NamesAssumption`.  `DependenciesFirst` is not inductive: a component is
placed when its degree is zero, and only `WorklistExact`, which says that a degree
counts the dependencies not yet placed, makes that mean that all of them are.
`OrderInv` joins both with `PlacedOnce`, which the count needs, and `NothingPlaced`,
before the worklist starts.  `PlanInv` adds what `PlanSound` needs: the
dependencies sorted are the merged ones (`MergedInv`); the number of places is the
number of components placed, since the code compares the two to find a cycle
(`VerdictInv`); a set of components that wait for each other never has a member
placed (`KnotInv`); and each place has the least component that could be there,
which no order of a map walk can change (`OrderDetermined`).

*The execution*, for any list of distinct hosts, any number of components of any kind,
any strategy and any set of hosts that have joined, from `RolloutAssumption`.  First,
what the batches are: `Multiples` and `Quotient` give the arithmetic of
`splitRolloutHosts`, and `BatchesCut` says that the batches have every host to be
provisioned at exactly one place, with the canary first.  The hosts still to be
provisioned are numbered by counting (`FreshNumbered`, from the library's theorem on
injections of finite sets), so no induction over a sequence is needed.  Then the
invariant `IInv`:

- `InSequence`: the components before the present one are over, those after it
  untouched;
- `InPosition`: each host of each batch has had exactly the phases that `index`,
  `phase` and `pos` say.  It is what makes `FailureContained` and `CanaryFirst` true at
  the moment of a failure (`BatchSafe`: at most the hosts of one batch are part-way),
  and the state does not change afterwards;
- `PauseKept`: with a pause, nothing is past the first canary;
- `OnCluster`: shared resources are applied once and before any manifest.

Each step has a lemma (`Applying`, `HostStepping`, `HostsFinished`, `ClusterStepping`,
`Completing`, `FailingSteps`); `HostStepInOrder` has the action property `PhasesInOrder`.

### Controller

For any number of edits, faults and retries, from `ControllerAssumption`.  The
controller works on a copy from a cache that trails the API server.  `CacheInv`:
once the watch is empty the cache is the object, and before that its last event
is.  `CopyInv`: while the copy still has the object's resourceVersion it is the
object; so the only status update that succeeds adds to the retry count that is
there, and names the generation that was run.

### BundleMirror

`RevisionsAlwaysWhole` is for any number of processes without a lock, stopped
anywhere.  It needs no fact about the stage or the current bundle, which several
processes do spoil: only `BackUp` and `Move` touch the directory of a revision,
and `Move` puts there what `materializeBundle` rendered in a directory of its own.
With one process at a time `AloneAt` says what the shared directories hold at each
of its steps: that the stage fills up to the bundle it will be, that a backup that
may be put back is whole, and that the revision is there while the current
bundle is replaced.  `Procs = {agent}` is what an operator provides who runs only
the agent; nothing in the code does.  The module extends the suite `MCBundles`, so
`AloneIsSound` is of the run's own property.

`WholeUnlessTorn`, in the same module, is about the suite's cache, for any processes
that render any packages at a time, with collections of valid entries, outages,
failures and kills.  An entry can be taken apart while another process copies it
(*PackageCache* above), so no more can be true than this: an entry appears as a
whole, and what loads or was copied is whole unless the entry is in `torn`, that is,
unless another process removed a file of it while it loaded.  `CacheInv`: an entry
that is not torn is absent or whole; what a process installs was pulled whole; and
what it has copied and what it still has to copy are the package, or its entry is
torn.

### ReleaseChannel

`ReleaseChannel_proofs` extends the suite `MCRelease`, whose store is the component
with the constants as they are declared, so its theorems are of the suite's own
properties, for any channels, promoters, clients and bounds.  `ChannelInv` says
that the entries of a history are evidenced and that a pinned digest was approved;
`PromoterInv`, `DeriveInv` and `ClientInv` say the same of the copies that each holds
between its read and its write, which stay true because candidates and approvals
are never taken back.  Whether `stable` follows `beta` is not a theorem, as it does not
hold (`channel_skip`); what a history tells does: `HistoriesAreChains`, for any claimed
sources and any interleaving.  `ChainInv` says it of the copies that promoters hold as
well, because a promoter adds the entry to its copy and then replaces the document:
entries of others are lost, but what remains is the chain that the copy was.
`WriterInv` says that a lone promoter's copy is the channel's history and one entry
more; with two, entries are lost, as listed above.

### KubeadmUpgrade

For any list of distinct hosts, versions and number of upgrades.  `ProgressInv`
says where the running upgrade is: the hosts before the current one are complete,
and the first master's API server has the version before any kubelet.
`VersionInv`: the first master's API server has the recorded version or the next and no
kubelet a newer one, over all failures and retries, because `image` is recorded last
and an upgrade is accepted only to the version after it.  A failure inside a list
of remote commands that nobody notices lets the record get ahead of a host, and a
second upgrade can leave that host two versions behind.  The code does not prevent
that, so the properties name these hosts: `lost` has the hosts where a command was
lost, and the lower bound on a kubelet, the order of the hosts and what a reported
success promises are about the others.  What is claimed of all hosts is that none is newer
than the first master's API server and that a success leaves none cordoned or
stopped.  `FirstUpgradeFits` says that one upgrade stays within the skew on every host
all the same.  `FirstInv`: there are only the versions 1 and 2, no kubelet is upgraded
before the first master's API server, and that one is upgraded by a command whose
failure is noticed.

### ClusterCerts

For any masters, names, kubeconfig files and number of commands.  `CAInv`: the CA is
made at home by the first init, is whole before anything is signed, and a master
trusts it from when it has been sent.  `NamesInv`: the ConfigMap has every granted
name, and a certificate is written only with the names of the ConfigMap or more.
`UpdateInv`: an update renews the certificates of the masters one after the other,
then each API server loads what is on its disk.

### KubeadmJoin

For any hosts, number of commands and tokens, and any interleaving of the
goroutines.  `MutexInv`: whoever works on the shared configuration holds the mutex,
and what it sends names its host.  `KeyInv`: the token in use is the cached one and
the configurations carry the key it embeds.  `MastersInv` and `WorkersInv` carry the
members from the joins to the report.  `JoinSound` claims each part where it can
hold: keys agree if the operator keeps the key (`OneKeyInv`); with a rotated one the
cached token agrees if no command fails and nothing is killed between the steps of
the refresh (`RefreshInv`); and a reported scale up has joined its worker if there is
one, since `err` is shared (`kubeadm_worker_race` is what happens with two).

`MCKubeadm` has several instances of `KubeadmUpgrade` and `KubeadmJoin` with
constants of their own.  It makes them as instances of the proof modules, so
`SuiteUpgradesAreSound` and `SuiteJoinsAreSound` (in `ClusterCerts_proofs`, which extends
the suite) follow for the properties the run checks: they cite the lemmas of each
instance, under the constants that the suite gives it and `MCKubeadmAssumption`.

### Only model-checked

- Liveness (`liveness`), which is out of the prover's reach, as is
  ENABLED.
- What is computed by recursion or folds over data, where a proof would be an
  induction the installed provers cannot do: the merges and comparisons of
  manifests (`ObjectDriftSound`, `HostDriftSound`), the history of successes
  (`HistoryIsRecentSuccesses`), the counts of signals (`ProofSound`), the pipeline of a
  cluster command (`InstallSound`, `FailuresSound`).
- Within reach, but not proved: `GateSound`, `PreflightSound` and `RepoSound` of the
  sources, `ContentSound`, `BootstrapSound`, `CareSound`; the machine *order* of `HistorySound`, an
  instance of the store with other constants than the suite's (its parts are theorems of
  the module), and that a listed promotion lacks its record only if its promoter died or is about to
  write it (`HistoryRecorded`); that
  renders of different packages tear nothing (`NothingTorn`).

## Plan

Next: `BootstrapSound` for any hosts; `HistorySound` of the suite, with instances of the
proof module as in `MCKubeadm`; `RecommendationHolds` of `SourceGate`; that a render
under one process of `BundleMirror` implements the mirror steps of `Lifecycle`.  Then
policy reports and their approvals.

## Not modelled

- Images, builds and registries (`pkg/buildah`, `pkg/registry`, image commands), SSH
  and containerd: network and process I/O, steps that succeed or fail here; the
  cluster-file checks (`pkg/checker`, `pkg/check`) are reads that pass or fail
  before any effect.
- Parsing of packages, BOMs and cluster files: a failure before any effect.
- Policy reports of a scan and their approvals: one gate that reads one document,
  left for later.
- Output, logging, metrics, events and the text of conditions.  Timeouts appear as
  failures of the step they end; no property depends on durations except through
  tokens that age.
- Controllers, front ends and vendored modules outside `pkg/`, `cmd/` and `lvscare`.
