----------------------------- MODULE DriftLoop -----------------------------
(***************************************************************************)
(* The drift loop of one Kubernetes object: render the package manifest    *)
(* with the cluster's local patch, apply it, let the live object drift,    *)
(* compare, and commit the drift into the local repo or revert it.         *)
(*                                                                         *)
(* The object is a package manifest with a local patch, a package manifest *)
(* without one, or a standalone resource of the local repo.  Sources:      *)
(* compare/compare.go and compare/status.go, commit/commit.go,             *)
(* hydrate/localpatch.go, ownership/, and the commit and revert commands.  *)
(***************************************************************************)
EXTENDS Manifest

CONSTANTS
  Baselines,  \* documents a package or the local repo may declare for the object
  Overlays,   \* documents the local repo may hold as the object's patch
  LiveForms,  \* documents the live object may be edited into
  Policy      \* the local patch policy of the bundle

VARIABLES
  kind,    \* "patched", "plain" or "resource": which fragments the bundle tracks
  base,    \* the package's or the repo's manifest
  repo,    \* the local repo's patch of the object
  bundle,  \* [manifest, patch]: the rendered manifest and the bundle's copy of the patch
  live,    \* the live object, Null when it is missing
  phase    \* what the last command did

vars == <<kind, base, repo, bundle, live, phase>>

Nothing == [manifest |-> Null, patch |-> Null]

-----------------------------------------------------------------------------
(***************************************************************************)
(* Comparison.                                                             *)
(***************************************************************************)
\* The fragments of the object, global before local: value and owner.
Fragments ==
  CASE kind = "plain" -> <<[value |-> bundle.manifest, owner |-> "global"]>>
    [] kind = "resource" -> <<[value |-> bundle.manifest, owner |-> "local"]>>
    [] kind = "patched" -> <<[value |-> bundle.manifest, owner |-> "global"], [value |-> bundle.patch, owner |-> "local"]>>

CompileDesiredProjection ==
  FoldLeft(LAMBDA p, fragment :
             LET value == Normalize(fragment.value)
                 touched == Touched(<<>>, p.merged, value)
             IN [merged |-> Merge("compare", <<>>, p.merged, value),
                 owner |-> [path \in DOMAIN p.owner \cup touched |->
                              IF path \in touched THEN fragment.owner ELSE p.owner[path]]],
           [merged |-> Null, owner |-> <<>>], Fragments)

\* The owner of a path is the owner of its longest recorded prefix; the root does not count.
ResolveShortest(owner, path) ==
  LET candidates == {c \in DOMAIN owner : c # <<>> /\ IsPrefix(c, path)} IN
  IF candidates = {} THEN "none"
  ELSE owner[CHOOSE c \in candidates : \A d \in candidates : Len(c) <= Len(d)]
Resolve(owner, path) ==
  LET candidates == {c \in DOMAIN owner : IsPrefix(c, path) /\ (c = <<>> => path = <<>>)} IN
  IF candidates = {} THEN "none"
  ELSE owner[CHOOSE c \in candidates : \A d \in candidates : Len(d) <= Len(c)]

DriftStateForOwnership(owner) ==
  CASE owner = "global" -> "Orphan" [] owner = "local" -> "Dirty" [] OTHER -> "Degraded"
Highest(states) ==
  CASE "Orphan" \in states -> "Orphan" [] "Dirty" \in states -> "Dirty"
    [] "Degraded" \in states -> "Degraded" [] OTHER -> "Clean"

StateOf(projection) ==
  IF live = Null THEN Highest({DriftStateForOwnership(projection.owner[p]) : p \in DOMAIN projection.owner})
  ELSE Highest({DriftStateForOwnership(Resolve(projection.owner, mm.path)) :
                  mm \in Diff(<<>>, projection.merged, Normalize(live))})
CompareObject == StateOf(CompileDesiredProjection)

\* The guidance the operator is given, and whether it says that a commit is safe.
PolicyEligible ==
  \E mm \in Diff(<<>>, CompileDesiredProjection.merged, Normalize(live)) :
     LET p == PolicyPath(mm.path) IN p # <<>> /\ IsAllowed(Policy, KindOf(base), p)
OperatorAction(state) ==
  CASE state = "Orphan" /\ live # Null /\ PolicyEligible -> "promoteToLocalPatch"
    [] state = "Orphan" -> "revertOrUpdateGlobalBaseline"
    [] state = "Dirty" -> "commitOrReapplyLocalOverlay"
    [] OTHER -> "none"
SafeCommitAbsent(state) == state = "Dirty"
SafeCommit(state) == state = "Dirty" /\ live # Null

-----------------------------------------------------------------------------
(***************************************************************************)
(* Commands.                                                               *)
(***************************************************************************)
RenderedManifestUnflushed(manifest, patch) == manifest
RenderedManifest(manifest, patch) ==
  IF kind = "patched" THEN Merge("render", <<>>, manifest, patch) ELSE manifest

Init ==
  /\ kind \in {"patched", "plain", "resource"}
  /\ base \in Baselines
  /\ repo \in IF kind = "patched" THEN Overlays ELSE {Null}
  /\ bundle = Nothing
  /\ live = Null
  /\ phase = "new"

\* sync render: an overlay the policy does not admit stops the render.
Render ==
  /\ phase \in {"new", "committed"}
  /\ kind = "patched" => ValidOverlay(Policy, repo)
  /\ bundle' = [manifest |-> RenderedManifest(base, repo), patch |-> repo]
  /\ phase' = "rendered"
  /\ UNCHANGED <<kind, base, repo, live>>

RenderRefused ==
  /\ phase \in {"new", "committed"}
  /\ kind = "patched" /\ ~ValidOverlay(Policy, repo)
  /\ phase' = "refused"
  /\ UNCHANGED <<kind, base, repo, bundle, live>>

\* kubectl apply: fields of the manifest win, fields it does not mention stay.
KubectlApplyCreates(object, manifest) == IF object = Null THEN manifest ELSE object
KubectlApply(object, manifest) == Merge("compare", <<>>, object, manifest)

Apply ==
  /\ phase = "rendered"
  /\ live' = KubectlApply(live, bundle.manifest)
  /\ phase' = "applied"
  /\ UNCHANGED <<kind, base, repo, bundle>>

\* Somebody edits or removes the live object.
Drift ==
  /\ phase \in {"applied", "reverted"}
  /\ live' \in LiveForms \cup {Null}
  /\ phase' = "drifted"
  /\ UNCHANGED <<kind, base, repo, bundle>>

\* The document a commit writes: the filtered live object, or the whole one for a resource.
EnsureIdentity(document) ==
  Map([document.map EXCEPT !.kind = base.map.kind, !.metadata.map.name = base.map.metadata.map.name])
Sanitize(document) ==
  LET o == Without(document.map, {"status"}) IN Map([o EXCEPT !.metadata = Map(Without(@.map, ServerMetadata))])
CommittedDocumentOfPatch ==
  IF kind = "resource" THEN EnsureIdentity(Sanitize(live)) ELSE bundle.patch
CommittedDocument ==
  IF kind = "resource" THEN EnsureIdentity(Sanitize(live))
  ELSE EnsureIdentity(FilterAllowed(Policy, KindOf(live), <<>>, live))

\* sync commit on a drifted object.  Orphans and missing objects are refused; the
\* patch is merged into the manifest that the bundle already holds.
CommitAccepted ==
  /\ CompareObject = "Dirty" /\ live # Null
  /\ kind = "patched" => ValidOverlay(Policy, FilterAllowed(Policy, KindOf(live), <<>>, live))
Commit ==
  /\ phase = "drifted"
  /\ CommitAccepted
  /\ LET document == CommittedDocument IN
     IF kind = "resource"
     THEN /\ base' = document
          /\ bundle' = [bundle EXCEPT !.manifest = document]
          /\ UNCHANGED repo
     ELSE /\ repo' = document
          /\ bundle' = [manifest |-> RenderedManifest(bundle.manifest, document), patch |-> document]
          /\ UNCHANGED base
  /\ phase' = "committed"
  /\ UNCHANGED <<kind, live>>

CommitRefused ==
  /\ phase = "drifted"
  /\ ~CommitAccepted
  /\ phase' = "refused"
  /\ UNCHANGED <<kind, base, repo, bundle, live>>

\* sync revert applies the projection that the comparison used.
Revert ==
  /\ phase \in {"drifted", "refused"}
  /\ bundle # Nothing
  /\ live' = IF CompareObject = "Clean" THEN live ELSE KubectlApply(live, CompileDesiredProjection.merged)
  /\ phase' = "reverted"
  /\ UNCHANGED <<kind, base, repo, bundle>>

Next == Render \/ RenderRefused \/ Apply \/ Drift \/ Commit \/ CommitRefused \/ Revert

Spec == Init /\ [][Next]_vars

-----------------------------------------------------------------------------
(***************************************************************************)
(* Properties.                                                             *)
(***************************************************************************)
\* The renderer's merge and the comparison's merge agree: a bundle that was just applied
\* compares clean, although its manifest already contains the patch and the comparison
\* merges the patch into it once more by its own list keys.
AppliedIsClean == phase = "applied" => CompareObject = "Clean"

\* What a commit writes into the repo and the bundle absorbs the drift: the live object
\* that was committed compares clean right after, and renders again.
CommitAbsorbsDrift ==
  phase = "committed" => CompareObject = "Clean" /\ (kind = "patched" => ValidOverlay(Policy, repo))

\* Reverting restores every field the desired state mentions.
RevertRestores == phase = "reverted" => CompareObject = "Clean"

\* Drift in a field that the local patch does not set is reported as Orphan, so neither
\* commit nor the operator guidance treats it as local: were all fields of the patch reset,
\* the object would still differ from the desired state.
GlobalDriftIsOrphan ==
  (kind = "patched" /\ phase = "drifted" /\ live # Null
     /\ Diff(<<>>, CompileDesiredProjection.merged, Merge("compare", <<>>, Normalize(live), bundle.patch)) # {})
  => CompareObject = "Orphan" /\ OperatorAction(CompareObject) # "commitOrReapplyLocalOverlay"

\* The guidance of sync status is honest: where it calls a commit safe, sync commit accepts
\* the drift; where it does not, sync commit refuses.
GuidanceIsHonest ==
  phase = "drifted" => (SafeCommit(CompareObject) <=> CommitAccepted)

\* Leaves of a document with the paths they are at.
RECURSIVE Leaves(_, _)
Leaves(path, v) ==
  IF IsMap(v) THEN UNION {Leaves(At(path, k), v.map[k]) : k \in DOMAIN v.map}
  ELSE IF IsList(v) THEN UNION {Leaves(Item(path, i), v.list[i]) : i \in DOMAIN v.list}
  ELSE {<<path, v>>}
ForbiddenLeaves(document) == {leaf \in Leaves(<<>>, document) : IsForbidden(Policy, PolicyPath(leaf[1]))}

\* No patch that was admitted or committed changes a forbidden field of the package's
\* manifest: image, selector, status and server metadata stay what the package says.
ForbiddenFieldsKept ==
  (kind = "patched" /\ bundle # Nothing) => ForbiddenLeaves(bundle.manifest) = ForbiddenLeaves(base)
=============================================================================
