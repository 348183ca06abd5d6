---------------------------- MODULE SourceGate ----------------------------
(***************************************************************************)
(* From sources to an applied bundle: the source preflight that gates      *)
(* `sealos sync render` (cmd/sealos/cmd/sync.go, sync_validate.go), the    *)
(* steps of a render with what each reads (newSyncMaterializeOptions,      *)
(* reconcile.Materialize, hydrate/policy.go, hydrate/localpatch.go), the   *)
(* freshness of a rendered bundle (sync_multinode.go), the runtime checks  *)
(* (sync_runtime_preflight.go) and the preflight that gates an apply.  The *)
(* operator, or a pull of the sources, may change any of them between two  *)
(* steps.                                                                  *)
(***************************************************************************)
EXTENDS LocalRepo

CONSTANTS
  DeclaresPolicy,   \* the releases whose BOM names a local patch policy file
  Remote,           \* whether the BOM is fetched from a release service
  Bootstraps,       \* the releases that bootstrap Kubernetes
  Packages,         \* contents of the package directories
  PackagePolicies,  \* the policies that the component packages declare
  InvalidPackages,  \* the packages with a hook that is not executable
  Topologies,       \* cluster inventories; "broken" cannot be read
  LocalTopologies,  \* those with this machine among the nodes
  Hosts,            \* states of this machine: [swap, kube, ports, kubeconfig]
  Editable          \* bound: the paths of the repository that are edited

VARIABLES
  bomPolicy,  \* the policy file next to the BOM
  packages,   \* the package directories
  topology,   \* the Clusterfile
  host,       \* this machine
  render,     \* the render that is running
  bundle,     \* the current bundle
  applying    \* the apply that passed its preflight

gateVars == <<bomPolicy, packages, topology, host, render, bundle, applying>>
vars == <<repoVars, gateVars>>

NoRender == [pc |-> "idle"]
NoBundle == [rendered |-> FALSE]
NotApplying == [checked |-> FALSE]
\* A bundle from before freshness was recorded.
LegacyBundle == [rendered |-> TRUE, recorded |-> FALSE, content |-> [topology |-> "none", doc |-> "legacy"],
                 quiet |-> FALSE, gated |-> FALSE]

-----------------------------------------------------------------------------
(***************************************************************************)
(* What a render produces from given sources.                              *)
(***************************************************************************)
PolicyFailed == [source |-> "error", text |-> Text("none")]
SelectPolicyWithoutRepo(policyFile, doc, bp, pkgs) ==
  IF doc \in DeclaresPolicy
  THEN IF bp = "invalid" THEN PolicyFailed ELSE [source |-> "bom", text |-> Text(bp)]
  ELSE CASE Len(PackagePolicies[pkgs]) = 0 -> [source |-> "builtin", text |-> Text("default")]
         [] Len(PackagePolicies[pkgs]) = 1 -> [source |-> "package", text |-> Text(PackagePolicies[pkgs][1])]
         [] OTHER -> PolicyFailed
SelectLocalPatchPolicy(policyFile, doc, bp, pkgs) ==
  IF policyFile # Absent THEN [source |-> "localRepo", text |-> policyFile.text]
  ELSE SelectPolicyWithoutRepo(policyFile, doc, bp, pkgs)

\* Every document of a patch is validated and must name one object of the component.
ManifestPatchesApply(policy, patch) ==
  patch = Absent \/
  \A d \in Range(PatchDocuments[patch.text.is]) : OverlayAllowed(policy, d) /\ d # "no such object"

BoundInputs(fs, doc) == {p \in InputPaths : p[2] \in DOMAIN Contract[doc] /\ Exists(fs, p)}
Content(doc, bound, fs, policy, manifest, pkgs, topo) ==
  [doc |-> doc, inputs |-> [p \in bound |-> fs[p].text], resource |-> fs[Resource].text,
   patch |-> fs[Patch].text, policy |-> policy, manifest |-> manifest, payload |-> pkgs,
   topology |-> topo]
\* The bundle that a render of the sources as they are now would produce.
Desired ==
  Content(release, BoundInputs(files, release), files,
          SelectLocalPatchPolicy(files[PolicyFile], release, bomPolicy, packages), packages, packages, topology)

-----------------------------------------------------------------------------
(***************************************************************************)
(* Source preflight: the doctor and validate, each of which reads          *)
(* everything again.                                                       *)
(***************************************************************************)
PolicySelected(fs, r, bp, pkgs) == SelectLocalPatchPolicy(fs[PolicyFile], r, bp, pkgs) # PolicyFailed
ValidatePolicy(fs, r, bp, pkgs) ==
  LET selection == SelectLocalPatchPolicy(fs[PolicyFile], r, bp, pkgs)
  IN selection # PolicyFailed /\ ~InvalidPatches(fs, selection.text)
ValidateInputs(fs, r) == \A i \in DOMAIN Contract[r] : Contract[r][i].required => BoundExts(fs, i) # {}
ValidatePasses(fs, r, bp, pkgs, topo) ==
  /\ topo # "broken"
  /\ pkgs \notin InvalidPackages
  /\ Loads(fs)
  /\ ValidateInputs(fs, r)
  /\ ValidatePolicy(fs, r, bp, pkgs)
  /\ fs[Resource].text = Text("Secret") /\ LooksSecret(ResourceName) => fs[Resource].mode = "private"
ValidateOnly == ValidatePasses(files, release, bomPolicy, packages, topology)
SourcePreflightPasses ==
  /\ DoctorPasses(files, release)
  /\ ValidatePasses(files, release, bomPolicy, packages, topology)

-----------------------------------------------------------------------------
(***************************************************************************)
(* render.                                                                 *)
(***************************************************************************)
Done(ok) == [cmd |-> "render", ok |-> ok, gated |-> render.gated, quiet |-> render.quiet]
FinishRender(ok) == render' = NoRender /\ last' = Done(ok)

\* The target is parsed before the preflight.
BeginRender(gated) ==
  /\ render = NoRender
  /\ render' = [pc |-> "gate", gated |-> gated, quiet |-> TRUE, doc |-> release]
  /\ last' = NoResult
  /\ UNCHANGED <<release, files, init, edits, bomPolicy, packages, topology, host, bundle, applying>>
RenderGate ==
  /\ render.pc = "gate"
  /\ IF render.gated /\ ~SourcePreflightPasses
     THEN render' = NoRender /\ last' = [cmd |-> "render blocked"]
     ELSE render' = [render EXCEPT !.pc = "options"] /\ UNCHANGED last
  /\ UNCHANGED <<release, files, init, edits, bomPolicy, packages, topology, host, bundle, applying>>

\* The package manifests and the repository are loaded, and the digests of what was read are
\* recorded; that of a local BOM is taken from the file as it is now.
SomeDocument == "unknown"
ProvenanceBOM == IF Remote THEN render.doc ELSE release
RenderOptions ==
  /\ render.pc = "options"
  /\ IF ~Loads(files) \/ topology = "broken"
     THEN FinishRender(FALSE)
     ELSE /\ render' = [pc |-> "materialize", gated |-> render.gated, quiet |-> render.quiet,
                        doc |-> render.doc, manifest |-> packages, topology |-> topology,
                        bound |-> BoundInputs(files, render.doc), policy |-> files[PolicyFile],
                        loaded |-> {p \in {Resource, Patch} : Exists(files, p)},
                        provenance |-> [bom |-> ProvenanceBOM, repo |-> Revision(files), package |-> packages]]
          /\ UNCHANGED last
  /\ UNCHANGED <<release, files, init, edits, bomPolicy, packages, topology, host, bundle, applying>>

\* The files are read again, by the paths found when the repository was loaded.
SourceFiles == [p \in Paths |-> IF p \in {Resource, Patch} \ render.loaded THEN Absent ELSE files[p]]
Materialize ==
  /\ render.pc = "materialize"
  /\ LET policy == SelectLocalPatchPolicy(render.policy, render.doc, bomPolicy, render.manifest)
         failed == \/ policy = PolicyFailed
                   \/ \E p \in render.bound \cup render.loaded : ~Exists(files, p)
                   \/ ~ManifestPatchesApply(policy.text, SourceFiles[Patch])
     IN IF failed
        THEN FinishRender(FALSE) /\ UNCHANGED bundle
        ELSE /\ bundle' = [rendered |-> TRUE, recorded |-> TRUE, provenance |-> render.provenance,
                           quiet |-> render.quiet, gated |-> render.gated,
                           content |-> Content(render.doc, render.bound, SourceFiles, policy,
                                               render.manifest, packages, render.topology)]
             /\ FinishRender(TRUE)
  /\ UNCHANGED <<release, files, init, edits, bomPolicy, packages, topology, host, applying>>

-----------------------------------------------------------------------------
(***************************************************************************)
(* Freshness of a bundle and the preflight of an apply.                    *)
(***************************************************************************)
TopologyStatus(b) ==
  CASE b.content.topology = "none" -> "missing"
    [] topology = "broken" -> "unknown"
    [] OTHER -> IF b.content.topology = topology THEN "matched" ELSE "stale"
ChangedDocuments(b) == IF release # b.provenance.bom THEN {"bom"} ELSE {}
ChangedInputs(b) ==
  (IF release # b.provenance.bom THEN {"bom"} ELSE {})
  \cup (IF ~Loads(files) \/ Revision(files) # b.provenance.repo THEN {"localRepo"} ELSE {})
  \cup (IF packages # b.provenance.package THEN {"packageSource"} ELSE {})
RenderInputStatus(b) ==
  IF ~b.recorded THEN "missing" ELSE IF ChangedInputs(b) = {} THEN "matched" ELSE "stale"

SwapBlocks(b, h) == h.swap
PortsBlock(b, h) == h.ports /\ ~h.kube
RuntimeBlocked(b, h) ==
  /\ b.content.topology \in LocalTopologies \cup {"none"}
  /\ IF b.content.doc \in Bootstraps THEN SwapBlocks(b, h) \/ PortsBlock(b, h) ELSE ~h.kubeconfig
RuntimeWarns(b, h) == b.content.topology \in LocalTopologies \cup {"none"} /\ h.kube

Flags == SUBSET {"topology", "inputs"}
StaleParts(b) ==
  (IF TopologyStatus(b) = "stale" THEN {"topology"} ELSE {})
  \cup (IF RenderInputStatus(b) = "stale" THEN {"inputs"} ELSE {})
BlockedByRuntime(b, flags) == RuntimeBlocked(b, host)
ApplyBlocked(b, flags) == ~(StaleParts(b) \subseteq flags) \/ RuntimeBlocked(b, host)

DecisionWithoutStatus(b, flags) ==
  IF RuntimeBlocked(b, host) THEN <<"Blocked", "inspect">> ELSE <<"Ready", "apply">>
Decision(b, flags) ==
  LET statuses == {TopologyStatus(b), RenderInputStatus(b)} IN
  CASE ApplyBlocked(b, flags) -> IF "stale" \in statuses THEN <<"Blocked", "rerender">> ELSE <<"Blocked", "inspect">>
    [] OTHER -> CASE "stale" \in statuses -> <<"Warning", "applyWithOverride">>
                  [] RuntimeWarns(b, host) -> <<"Warning", "inspect">>
                  [] {"unknown", "missing"} \cap statuses # {} -> <<"Warning", "inspect">>
                  [] OTHER -> <<"Ready", "apply">>

BeginApply ==
  /\ bundle.rendered /\ applying = NotApplying
  /\ \E flags \in Flags :
       IF ApplyBlocked(bundle, flags)
       THEN last' = [cmd |-> "apply blocked"] /\ UNCHANGED applying
       ELSE /\ applying' = [checked |-> TRUE, bundle |-> bundle, forced |-> flags # {}, host |-> host,
                            wanted |-> topology = "broken" \/ bundle.content = Desired]
            /\ last' = NoResult
  /\ UNCHANGED <<release, files, init, edits, bomPolicy, packages, topology, host, render, bundle>>
\* The bundle is loaded again from its path.
RunApply ==
  /\ applying.checked
  /\ last' = [cmd |-> "apply", checked |-> applying, applied |-> bundle]
  /\ applying' = NotApplying
  /\ UNCHANGED <<release, files, init, edits, bomPolicy, packages, topology, host, render, bundle>>

-----------------------------------------------------------------------------
(***************************************************************************)
(* Changes of the sources and of the environment.                          *)
(***************************************************************************)
Disturbed == IF render = NoRender THEN render ELSE [render EXCEPT !.quiet = FALSE]
\* The mode of an input matters only when its name is a secret's.
EditRepository ==
  /\ OperatorEdit
  /\ \A p \in Paths : files'[p] # files[p] =>
       p \in Editable /\ (files'[p].mode = "private" => p = Resource \/ p[2] \in SecretLike)
  /\ render' = Disturbed
  /\ UNCHANGED <<bomPolicy, packages, topology, host, bundle, applying>>
EditEnvironment ==
  /\ edits < MaxEdits /\ edits' = edits + 1
  /\ last' = NoResult
  /\ render' = Disturbed
  /\ \/ bomPolicy' \in PolicyTexts \ {bomPolicy} /\ UNCHANGED <<packages, topology, host>>
     \/ packages' \in Packages \ {packages} /\ UNCHANGED <<bomPolicy, topology, host>>
     \/ topology' \in Topologies \ {topology} /\ UNCHANGED <<bomPolicy, packages, host>>
     \/ host' \in Hosts \ {host} /\ UNCHANGED <<bomPolicy, packages, topology>>
  /\ UNCHANGED <<release, files, init, bundle, applying>>

\* A repository that an init has just written, with its inputs filled in or not.
Fresh(r, texts) ==
  [p \in Paths |->
     IF p \in Range(CollectInputs(r)) THEN [text |-> texts[p[2]], mode |-> FileMode(p)]
     ELSE IF p = PolicyFile THEN [text |-> Text("default"), mode |-> "open"] ELSE Absent]
GateInit ==
  /\ release \in Releases
  /\ LET needed == DOMAIN Contract[release]
     IN  files \in {Fresh(release, [i \in needed |-> Filled]),
                   Fresh(release, [i \in needed |-> Template(i, Contract[release])])}
  /\ init = Idle /\ last = NoResult /\ edits = 0
  /\ bomPolicy = "default" /\ packages \in Packages \ InvalidPackages
  /\ topology \in Topologies \ {"broken"} /\ host \in Hosts
  /\ render = NoRender /\ applying = NotApplying
  /\ bundle \in {NoBundle, LegacyBundle}
RenderNext ==
  \/ \E gated \in BOOLEAN : BeginRender(gated)
  \/ RenderGate \/ RenderOptions \/ Materialize
  \/ EditRepository \/ EditEnvironment
GateNext == RenderNext \/ BeginApply \/ RunApply

-----------------------------------------------------------------------------
(* The current bundle and the running commands hold what they can hold. *)
GateTypeOK ==
  /\ bundle.rendered => bundle.quiet \in BOOLEAN /\ bundle.gated \in BOOLEAN
  /\ bundle.rendered /\ bundle.recorded => bundle.provenance.bom \in Releases
  /\ render.pc \in {"idle", "gate", "options", "materialize"}
  /\ packages \in Packages /\ topology \in Topologies /\ host \in Hosts

(* Render checks no required input itself.  A bundle rendered through the source preflight,  *)
(* with sources that did not change meanwhile, has every required input, none of them the    *)
(* placeholder of init.                                                                       *)
RenderedIsUsable ==
  bundle.rendered /\ bundle.gated /\ bundle.quiet =>
    LET doc == bundle.content.doc IN
    \A i \in DOMAIN Contract[doc] : Contract[doc][i].required =>
      \E p \in DOMAIN bundle.content.inputs :
        p[2] = i /\ bundle.content.inputs[p] # Template(i, Contract[doc])

(* Sources that pass the preflight and do not change render: validate selects the policy the *)
(* render will select and checks the patches against it ("source inputs are ready to render").*)
GatedRenderSucceeds == last.cmd = "render" /\ last.gated /\ last.quiet => last.ok

\* A bundle whose policy is the file next to the BOM, which no digest covers.
UsesBOMPolicy(b) == b.content.policy.source = "bom"
MatchesSources(b) == RenderInputStatus(b) = "matched" /\ TopologyStatus(b) = "matched"

(* A bundle whose render inputs and topology are reported as matched is the one that a render *)
(* would produce now, if the sources stood still while it was rendered and its policy is not  *)
(* the BOM's: every other source is covered by a recorded digest.                             *)
MatchedIsFresh ==
  bundle.rendered /\ bundle.quiet /\ ~UsesBOMPolicy(bundle) /\ MatchesSources(bundle) =>
    bundle.content = Desired

(* A render clears every reason to render again: while nothing changes after it, the bundle  *)
(* is neither stale nor unknown nor missing its tracking.                                     *)
RenderClearsStaleness == last.cmd = "render" /\ last.ok /\ last.quiet => MatchesSources(bundle)

(* What preflight recommends is what apply would do: Ready only for a fresh bundle on a       *)
(* machine without objections, an override only where apply without one is blocked, and a     *)
(* re-render only where something is stale.                                                   *)
RecommendationHolds ==
  bundle.rendered => \A flags \in Flags :
    LET decision == Decision(bundle, flags) IN
    /\ decision[2] = "apply" => /\ MatchesSources(bundle) /\ ~ApplyBlocked(bundle, {})
                                /\ ~RuntimeWarns(bundle, host)
    /\ decision[2] = "applyWithOverride" => ApplyBlocked(bundle, {}) /\ ~ApplyBlocked(bundle, flags)
    /\ decision[2] = "rerender" => StaleParts(bundle) # {}
    /\ decision[1] = "Blocked" <=> ApplyBlocked(bundle, flags)

(* An apply without overrides of a bundle that was rendered undisturbed applies what the     *)
(* sources said when it was checked, on a machine that met the bundle's requirements then.   *)
ApplyIsFresh ==
  last.cmd = "apply" /\ ~last.checked.forced /\ last.checked.bundle = last.applied =>
    /\ ~RuntimeBlocked(last.applied, last.checked.host)
    /\ last.applied.recorded /\ last.applied.quiet /\ ~UsesBOMPolicy(last.applied) => last.checked.wanted
=============================================================================
