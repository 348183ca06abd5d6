--------------------------- MODULE BundleContent ---------------------------
(***************************************************************************)
(* What becomes of the content of one component package: rendered with the *)
(* local inputs into a bundle, recorded in the bundle's inventory of       *)
(* tracked host paths and Kubernetes objects, and written to every host    *)
(* and to the cluster by an apply (hydrate/render.go, inventory.go,        *)
(* plan.go and reconcile/apply.go).                                        *)
(*                                                                         *)
(* A path is a sequence of names; "rootfs/etc/x" is <<"rootfs","etc","x">>.*)
(* The content of a file is where it came from (the package, the input of  *)
(* every host, the input of one host) and the edition of that source.      *)
(***************************************************************************)
EXTENDS Integers, FiniteSets, SequencesExt

CONSTANTS
    Hosts,            \* the execution hosts
    Local,            \* the host that runs the apply
    Packages,         \* the packages a behaviour may be about
    Bindings,         \* what the local repo may bind: [common, scoped]
    NoBundle,         \* no bundle has been rendered
    MaxEdits,         \* bound: releases and local edits after the first
    RemoteCopyFails   \* bound: a file copy may fail inside a remote rootfs step

BundleContentAssumption ==
    /\ Local \in Hosts /\ IsFiniteSet(Hosts)
    /\ MaxEdits \in Nat /\ RemoteCopyFails \in BOOLEAN



VARIABLES
    pkg,       \* the component's package
    binding,   \* the local repo: inputs with a common payload, and with scoped ones
    edition,   \* the edition of the package and of the local repo
    mounted,   \* the component's artifact is mounted
    stage,     \* phase, remaining work and files of the render in progress
    bundle,    \* the current bundle: files, host inputs, tracked paths and objects
    work,      \* the apply in progress: queue of operations, pending entries, staged
    outcome,   \* of the last apply of the current bundle
    live,      \* per host: the content of every path written
    cluster    \* the objects applied to the cluster, with their content

vars == <<pkg, binding, edition, mounted, stage, bundle, work, outcome, live, cluster>>

Content == [origin : {"package", "common"} \cup Hosts, edition : 0..MaxEdits]
Idle == [phase |-> "idle", todo |-> <<>>, files |-> <<>>]
NoWork == [queue |-> <<>>, pending |-> {}, staged |-> {}]

(* A function extended or overwritten by another. *)
Overlay(f, g) == [x \in DOMAIN f \cup DOMAIN g |-> IF x \in DOMAIN g THEN g[x] ELSE f[x]]

-----------------------------------------------------------------------------
(* The package and the steps planned from it. *)

Rel(p, base) == SubSeq(p, Len(base) + 1, Len(p))
Under(base, files) == {p \in files : IsPrefix(base, p)}

Contents(p) == p.rootfs \o p.files \o p.manifests
Hook == <<"hooks", "bootstrap.sh">>

(* validateRelativePath: no path leaves the package. *)
RelativePath(path) == path # <<>> /\ ".." \notin ToSet(path)

(* Contents and inputs have distinct paths inside the package. *)
ValidPackage(p) ==
    /\ Contents(p) # <<>>
    /\ IsInjective(Contents(p)) /\ IsInjective(p.inputs)
    /\ \A path \in ToSet(Contents(p) \o p.inputs) : RelativePath(path)

(* Every content is in the image, and the hook is a file of it. *)
PayloadPresent(p) ==
    /\ \A path \in ToSet(Contents(p)) : Under(path, p.payload) # {}
    /\ p.hook => Hook \in p.payload

(* Contents by rank of their type, then the hook. *)
BuildSteps(p) ==
    LET Of(type, paths) == [i \in 1..Len(paths) |-> [type |-> type, path |-> paths[i]]]
    IN  Of("rootfs", p.rootfs) \o Of("file", p.files) \o Of("manifest", p.manifests)
        \o (IF p.hook THEN <<[type |-> "hook", path |-> Hook]>> ELSE <<>>)

StepsOf(type) == SelectSeq(BuildSteps(pkg), LAMBDA s : s.type = type)

-----------------------------------------------------------------------------
(* Rendering. *)

Init ==
    /\ pkg \in {p \in Packages : ValidPackage(p) /\ PayloadPresent(p)}
    /\ binding \in Bindings
    /\ edition = 0 /\ mounted = FALSE
    /\ stage = Idle /\ bundle = NoBundle /\ work = NoWork /\ outcome = "none"
    /\ live = [h \in Hosts |-> <<>>]
    /\ cluster = <<>>

(* A new release of the package, or an edit of the local repo. *)
Edit(b) ==
    /\ stage = Idle /\ work = NoWork /\ edition < MaxEdits
    /\ edition' = edition + 1
    /\ binding' = b
    /\ UNCHANGED <<pkg, mounted, stage, bundle, work, outcome, live, cluster>>

StartRender ==
    /\ stage = Idle /\ work = NoWork
    /\ mounted' = TRUE
    /\ stage' = [phase |-> "steps", todo |-> BuildSteps(pkg), files |-> <<>>]
    /\ UNCHANGED <<pkg, binding, edition, bundle, work, outcome, live, cluster>>

(* renderComponent copies the payload a step names; a payload that two      *)
(* steps name is copied once.                                               *)
CopyStep ==
    /\ stage.phase = "steps" /\ stage.todo # <<>>
    /\ LET payload == Under(Head(stage.todo).path, pkg.payload)
       IN  /\ payload # {}
           /\ stage' = [stage EXCEPT
                  !.todo = Tail(@),
                  !.files = Overlay(@, [p \in payload |->
                                [origin |-> "package", edition |-> edition]])]
    /\ UNCHANGED <<pkg, binding, edition, mounted, bundle, work, outcome, live, cluster>>

StepsCopied ==
    /\ stage.phase = "steps" /\ stage.todo = <<>>
    /\ stage' = [stage EXCEPT !.phase = "inputs",
                              !.todo = SelectSeq(pkg.inputs, LAMBDA i : i \in binding.common)]
    /\ UNCHANGED <<pkg, binding, edition, mounted, bundle, work, outcome, live, cluster>>

(* The common payload of an input overlays the package's file. *)
OverlayInput ==
    /\ stage.phase = "inputs" /\ stage.todo # <<>>
    /\ stage' = [stage EXCEPT
           !.todo = Tail(@),
           !.files = Overlay(@, [p \in {Head(stage.todo)} |->
                         [origin |-> "common", edition |-> edition]])]
    /\ UNCHANGED <<pkg, binding, edition, mounted, bundle, work, outcome, live, cluster>>

(* renderHostInputBindings: one copy per input and host beside the files. *)
HostInputs ==
    [b \in {b \in binding.scoped : b.input \in ToSet(pkg.inputs)} |->
        [origin |-> b.host, edition |-> edition]]

-----------------------------------------------------------------------------
(* The inventory of the rendered bundle. *)

(* Mutant: inputs are taken for package content. *)
LocalInputOwnersNone == {}

(* localInputOwners: the inputs with a common payload, by exact path. *)
LocalInputOwners == {i \in ToSet(pkg.inputs) : i \in binding.common}

(* Where the inventory says a file of a rootfs or a file step belongs. *)
TrackedHostPath(p) == Tail(p)

(* Mutant: a directory is not walked. *)
TrackedOfFirst(step, files) ==
    {[path |-> TrackedHostPath(p), bundlePath |-> p, class |-> "hostPath",
      owner |-> "global", hosts |-> {}] : p \in Under(step.path, DOMAIN files) \cap {step.path}}

(* collectTrackedHostPaths: an entry per file of a rootfs or file step. *)
TrackedOf(step, files) ==
    LET localInput == step.type = "file" /\ step.path \in LocalInputOwners
    IN  {[path |-> TrackedHostPath(p), bundlePath |-> p, class |-> "hostPath",
          owner |-> IF localInput THEN "local" ELSE "global",
          hosts |-> IF localInput
                    THEN {b.host : b \in {b \in DOMAIN HostInputs : b.input = step.path}}
                    ELSE {}] :
            p \in Under(step.path, DOMAIN files)}
(* The manifests kubeadm writes are predicted for a component with the      *)
(* bootstrap hook whose rendered configuration can be read.                 *)
DiscoveredOutputs(files) ==
    IF pkg.hook /\ pkg.config \in DOMAIN files THEN pkg.discovered ELSE {}

(* Declared outputs, and the discovered ones they do not name already. *)
GeneratedHostPaths(files) ==
    {[path |-> g, bundlePath |-> pkg.config, class |-> "generated",
      owner |-> "global", hosts |-> {}] : g \in pkg.declared \cup DiscoveredOutputs(files)}

(* What a generated file should say follows from the rendered configuration. *)
GeneratedIntent(files) == files[pkg.config]

TrackedHostPaths(files) ==
    UNION {TrackedOf(s, files) : s \in ToSet(StepsOf("rootfs") \o StepsOf("file"))}
        \cup GeneratedHostPaths(files)

(* discoverTrackedObjects walks a manifest directory to its leaves. *)
DiscoveredObjects(path, files) == Under(path, DOMAIN files)

TrackedK8sObjects(files) ==
    UNION {DiscoveredObjects(s.path, files) : s \in ToSet(StepsOf("manifest"))}

(* RenderPlanWithOptions ends with the inventory; the provider is closed    *)
(* and the revision promoted, as a whole.                                   *)
Collect ==
    /\ stage.phase = "inputs" /\ stage.todo = <<>>
    /\ bundle' = [files |-> stage.files, hostInputs |-> HostInputs,
                  tracked |-> TrackedHostPaths(stage.files),
                  objects |-> TrackedK8sObjects(stage.files)]
    /\ stage' = Idle /\ mounted' = FALSE /\ outcome' = "none"
    /\ UNCHANGED <<pkg, binding, edition, work, live, cluster>>

(* Mutant: an early return leaves the artifact mounted. *)
RenderFailsMounted ==
    /\ stage # Idle
    /\ stage' = Idle /\ UNCHANGED mounted
    /\ UNCHANGED <<pkg, binding, edition, bundle, work, outcome, live, cluster>>

(* Any copy may fail, and a step may name a payload the image lacks: the    *)
(* staged directory is removed and the provider closed.                     *)
RenderFails ==
    /\ stage # Idle
    /\ stage' = Idle /\ mounted' = FALSE
    /\ UNCHANGED <<pkg, binding, edition, bundle, work, outcome, live, cluster>>
-----------------------------------------------------------------------------
(* Applying. *)

(* Where an apply writes a file: a rootfs step relative to the step's own   *)
(* directory, a file step relative to files/.                               *)
AppliedPath(step, p) == IF step.type = "rootfs" THEN Rel(p, step.path) ELSE Tail(p)

(* Mutant: the payloads of the hosts are ignored. *)
HostScopedNever(host, step) == FALSE

(* resolveHostScopedInputStepPath: only the file step that is the input,    *)
(* and only on the host that has a payload of its own.                      *)
HostScoped(host, step) ==
    /\ step.type = "file" /\ step.path \in ToSet(pkg.inputs)
    /\ [input |-> step.path, host |-> host] \in DOMAIN bundle.hostInputs

(* Mutant: the payload of any host will do. *)
StepEntriesOfAnyHost(host, step) ==
    LET own == {b \in DOMAIN bundle.hostInputs : b.input = step.path}
    IN  IF step.type = "file" /\ own # {}
        THEN {[path |-> Tail(step.path), content |-> bundle.hostInputs[b]] : b \in own}
        ELSE {[path |-> AppliedPath(step, p), content |-> bundle.files[p]] :
                 p \in Under(step.path, DOMAIN bundle.files)}

(* What a step writes on a host. *)
StepEntries(host, step) ==
    IF HostScoped(host, step)
    THEN {[path |-> Tail(step.path),
           content |-> bundle.hostInputs[[input |-> step.path, host |-> host]]]}
    ELSE {[path |-> AppliedPath(step, p), content |-> bundle.files[p]] :
             p \in Under(step.path, DOMAIN bundle.files)}
(* Content on one host after the other, then the hook on each of them, then *)
(* the manifests, which the local host applies to the cluster.              *)
Operations ==
    LET hostOrder == <<Local>> \o SetToSeq(Hosts \ {Local})
        On(h, type) == [i \in 1..Len(StepsOf(type)) |-> [host |-> h, step |-> StepsOf(type)[i]]]
    IN  FlattenSeq([k \in 1..Len(hostOrder) |->
                        On(hostOrder[k], "rootfs") \o On(hostOrder[k], "file")])
        \o FlattenSeq([k \in 1..Len(hostOrder) |-> On(hostOrder[k], "hook")])
        \o On(Local, "manifest")

StartApply ==
    /\ bundle # NoBundle /\ stage = Idle /\ work = NoWork /\ outcome # "applied"
    /\ outcome' = "applying"
    /\ work' = [queue |-> Operations, pending |-> {}, staged |-> {Local}]
    /\ UNCHANGED <<pkg, binding, edition, mounted, stage, bundle, live, cluster>>

Applying == outcome = "applying" /\ work.queue # <<>>
Op == Head(work.queue)

(* bundleRootForHost copies the bundle to a remote host once per apply. *)
StageBundle ==
    /\ Applying /\ Op.host \notin work.staged
    /\ work' = [work EXCEPT !.staged = @ \cup {Op.host}]
    /\ UNCHANGED <<pkg, binding, edition, mounted, stage, bundle, outcome, live, cluster>>

Ready(types) ==
    /\ Applying /\ Op.host \in work.staged /\ work.pending = {} /\ Op.step.type \in types

After == IF Len(work.queue) = 1 THEN "applied" ELSE "applying"
Finish == IF Len(work.queue) = 1 THEN NoWork ELSE [work EXCEPT !.queue = Tail(@), !.pending = {}]

(* A rootfs step must name a directory. *)
StepIsFile == Op.step.path \in DOMAIN bundle.files

BeginContent ==
    /\ Ready({"rootfs", "file"})
    /\ ~(Op.step.type = "rootfs" /\ StepIsFile)
    /\ work' = [work EXCEPT !.pending = StepEntries(Op.host, Op.step)]
    /\ UNCHANGED <<pkg, binding, edition, mounted, stage, bundle, outcome, live, cluster>>

(* The entry is written; with the last of them the step ends. *)
EntryDone(e) ==
    IF work.pending = {e}
    THEN work' = Finish /\ outcome' = After
    ELSE work' = [work EXCEPT !.pending = @ \ {e}] /\ UNCHANGED outcome

WriteEntry(e) ==
    /\ e \in work.pending
    /\ live' = [live EXCEPT ![Op.host] = Overlay(@, [p \in {e.path} |-> e.content])]
    /\ EntryDone(e)
    /\ UNCHANGED <<pkg, binding, edition, mounted, stage, bundle, cluster>>

(* Locally a file is written beside its destination and renamed over it. *)
WriteLocal(e) == Applying /\ Op.host = Local /\ WriteEntry(e)

(* On another host a shell script copies the files of the step. *)
WriteRemote(e) == Applying /\ Op.host # Local /\ WriteEntry(e)

(* The remote rootfs script goes on after a command of its loop that fails; *)
(* only the last iteration decides how the script ends.                     *)
SkipEntry(e) ==
    /\ RemoteCopyFails
    /\ Applying /\ e \in work.pending /\ work.pending # {e}
    /\ Op.step.type = "rootfs" /\ Op.host # Local
    /\ EntryDone(e)
    /\ UNCHANGED <<pkg, binding, edition, mounted, stage, bundle, live, cluster>>

(* A hook runs from the bundle's copy on its host; it derives the generated *)
(* files from the configuration it finds there.                             *)
RunHook ==
    /\ Ready({"hook"})
    /\ LET written == IF Tail(pkg.config) \in DOMAIN live[Op.host]
                      THEN pkg.declared \cup pkg.discovered ELSE {}
       IN  live' = [live EXCEPT ![Op.host] =
                        Overlay(@, [p \in written |-> live[Op.host][Tail(pkg.config)]])]
    /\ work' = Finish /\ outcome' = After
    /\ UNCHANGED <<pkg, binding, edition, mounted, stage, bundle, cluster>>

(* Mutant: an object that exists is left alone. *)
ApplyManifestOnce ==
    /\ Ready({"manifest"})
    /\ cluster' = Overlay([p \in Under(Op.step.path, DOMAIN bundle.files) |-> bundle.files[p]],
                          cluster)
    /\ work' = Finish /\ outcome' = After
    /\ UNCHANGED <<pkg, binding, edition, mounted, stage, bundle, live>>

(* kubectl apply -f: the file itself, or the files directly in a directory. *)
ApplyManifest ==
    /\ Ready({"manifest"})
    /\ LET files == Under(Op.step.path, DOMAIN bundle.files)
           applied == {p \in files : Len(p) <= Len(Op.step.path) + 1}
       IN  cluster' = Overlay(cluster, [p \in applied |-> bundle.files[p]])
    /\ work' = Finish /\ outcome' = After
    /\ UNCHANGED <<pkg, binding, edition, mounted, stage, bundle, live>>
(* Any operation may fail, a timeout among the reasons; what was written    *)
(* stays and the apply can be run again.                                    *)
ApplyFails ==
    /\ Applying
    /\ work' = NoWork /\ outcome' = "failed"
    /\ UNCHANGED <<pkg, binding, edition, mounted, stage, bundle, live, cluster>>

Next ==
    \/ \E b \in Bindings : Edit(b)
    \/ StartRender \/ CopyStep \/ StepsCopied \/ OverlayInput \/ Collect \/ RenderFails
    \/ StartApply \/ StageBundle \/ BeginContent \/ RunHook \/ ApplyManifest \/ ApplyFails
    \/ \E e \in work.pending : WriteLocal(e)
    \/ \E e \in work.pending : WriteRemote(e)
    \/ \E e \in work.pending : SkipEntry(e)

Spec == Init /\ [][Next]_vars

-----------------------------------------------------------------------------
(* Properties. *)

(* What the inventory expects of a tracked path on a host: the payload of   *)
(* the host where the entry names it, the bundle's file elsewhere.          *)
Desired(t, h) ==
    IF t.class = "generated" THEN GeneratedIntent(bundle.files)
    ELSE IF h \in t.hosts
    THEN bundle.hostInputs[[input |-> t.bundlePath, host |-> h]]
    ELSE bundle.files[t.bundlePath]

(* The domains of the variables. *)
TypeOK ==
    /\ edition \in 0..MaxEdits /\ binding \in Bindings /\ mounted \in BOOLEAN
    /\ stage.phase \in {"idle", "steps", "inputs"}
    /\ outcome \in {"none", "applying", "applied", "failed"}
    /\ work.staged \subseteq Hosts
    /\ \A h \in Hosts : \A p \in DOMAIN live[h] : live[h][p] \in Content

(* After an apply that succeeded, every tracked path holds on every host    *)
(* what the comparison will expect of it, whatever failed before.           *)
TrackedIsApplied ==
    outcome = "applied" =>
        \A t \in bundle.tracked, h \in Hosts :
            t.path \in DOMAIN live[h] /\ live[h][t.path] = Desired(t, h)

(* Every path an apply has written is tracked: no write escapes drift       *)
(* detection.                                                               *)
AppliedIsTracked ==
    outcome = "applied" =>
        \A h \in Hosts : DOMAIN live[h] \subseteq {t.path : t \in bundle.tracked}

(* A path whose content comes from the local repo, and no other, is tracked *)
(* as locally owned.                                                        *)
OwnersKnown ==
    bundle # NoBundle =>
        \A t \in bundle.tracked : t.class = "hostPath" =>
            ((t.owner = "local") <=> (\E h \in Hosts : Desired(t, h).origin # "package"))

(* The payload scoped to one host is never written to another. *)
ScopedStaysOnHost ==
    \A h \in Hosts : \A p \in DOMAIN live[h] : live[h][p].origin \notin Hosts \ {h}

(* After an apply every tracked object is in the cluster as rendered. *)
ObjectsApplied ==
    outcome = "applied" =>
        \A p \in bundle.objects : p \in DOMAIN cluster /\ cluster[p] = bundle.files[p]

(* An artifact stays mounted only while a render uses it. *)
MountsReleased == mounted <=> stage # Idle
=============================================================================
