------------------------------ MODULE Manifest ------------------------------
(***************************************************************************)
(* Kubernetes manifests as trees, and what the distribution does to them:  *)
(* the local patch policy that admits or filters an overlay                *)
(* (pkg/distribution/ownership), the merge that renders an overlay into a  *)
(* package manifest (hydrate/localpatch.go), and the merge and comparison  *)
(* that classify drift (compare/compare.go).  The renderer and the         *)
(* comparison choose the merge key of a list differently, so both choices  *)
(* are kept apart here.                                                    *)
(*                                                                         *)
(* A value is [map |-> f], [list |-> s] or [val |-> x]; a path is a        *)
(* sequence of tokens, <<field>> for a field and <<key, value>> for the    *)
(* selector or the position of a list item.                                *)
(***************************************************************************)
EXTENDS Naturals, Sequences, FiniteSets, SequencesExt, TLC

Map(f) == [map |-> f]
List(s) == [list |-> s]
Val(x) == [val |-> x]
IsMap(v) == "map" \in DOMAIN v
IsList(v) == "list" \in DOMAIN v

\* Go's nil: a key without a value, or no base to merge into.
Null == Val("null")
Field(f, k) == IF k \in DOMAIN f THEN f[k] ELSE Null
Fields(v) == IF IsMap(v) THEN v.map ELSE <<>>
At(path, k) == Append(path, <<k>>)
Item(path, i) == Append(path, <<"#", ToString(i)>>)

-----------------------------------------------------------------------------
(***************************************************************************)
(* The local patch policy.                                                 *)
(***************************************************************************)
PolicyPath(path) == SelectSeq(path, LAMBDA t : Len(t) = 1)

ContainerLists == {<<"containers">>, <<"initContainers">>, <<"ephemeralContainers">>}
IdentityStrings == {<<<<"apiVersion">>>>, <<<<"kind">>>>, <<<<"metadata">>, <<"name">>>>, <<<<"metadata">>, <<"namespace">>>>}
IsIdentity(path) == path \in IdentityStrings \cup {<<<<"metadata">>>>}

IsForbidden(policy, path) ==
  \/ path \in policy.exact
  \/ Len(path) >= 2 /\ path[1] = <<"metadata">> /\ path[2] \in policy.metadata
  \/ \E i \in DOMAIN path : path[i] \in ContainerLists /\ path[Len(path)] \in policy.container

\* Every entry below the first rule's prefix is allowed, and so is every ancestor of a prefix.
RulesOf(policy, kind) == SelectSeq(policy.rules, LAMBDA r : r.kind = kind)
IsAllowed(policy, kind, path) ==
  LET rules == RulesOf(policy, kind) IN
  /\ rules # <<>>
  /\ \E p \in rules[1].prefixes : IsPrefix(p, path) \/ IsPrefix(path, p)

RECURSIVE ValidMap(_, _, _, _)
ValidEntryShallow(policy, kind, path, v) ==
  ~IsForbidden(policy, path) /\ (IsIdentity(path) \/ IsAllowed(policy, kind, path))
ValidEntry(policy, kind, path, v) ==
  /\ ~IsForbidden(policy, path)
  /\ IsIdentity(path) \/ IsAllowed(policy, kind, path)
  /\ IsMap(v) => ValidMap(policy, kind, path, v)
  /\ IsList(v) => \A i \in DOMAIN v.list : IsMap(v.list[i]) => ValidMap(policy, kind, path, v.list[i])
  /\ (~IsMap(v) /\ ~IsList(v) /\ path \in IdentityStrings) => v # Null
ValidMap(policy, kind, path, v) ==
  \A k \in DOMAIN v.map : ValidEntry(policy, kind, At(path, k), v.map[k])

KindOf(document) == Field(document.map, "kind").val
HasNonIdentityMutation(document) ==
  \E k \in DOMAIN document.map \ {"apiVersion", "kind"} :
     k = "metadata" /\ IsMap(document.map[k]) => DOMAIN document.map[k].map \ {"name", "namespace"} # {}

ValidOverlay(policy, document) ==
  /\ ValidMap(policy, KindOf(document), <<>>, document)
  /\ HasNonIdentityMutation(document)

\* What is left of a live object when the policy has filtered it; Null when nothing is.
RECURSIVE FilterAllowed(_, _, _, _)
FilterAllowed(policy, kind, path, v) ==
  LET permitted(p) == IsIdentity(p) \/ IsAllowed(policy, kind, p)
      kept == [k \in {k \in DOMAIN Fields(v) : permitted(At(path, k)) /\ (IsIdentity(At(path, k)) \/ ~IsForbidden(policy, At(path, k)))}
                 |-> FilterAllowed(policy, kind, At(path, k), v.map[k])]
      present == {k \in DOMAIN kept : kept[k] # Null}
      items == SelectSeq([i \in DOMAIN v.list |-> IF IsMap(v.list[i]) THEN FilterAllowed(policy, kind, path, v.list[i]) ELSE v.list[i]],
                         LAMBDA item : item # Null)
  IN IF IsMap(v) THEN IF present = {} THEN Null ELSE Map([k \in present |-> kept[k]])
     ELSE IF ~permitted(path) THEN Null
     ELSE IF ~IsList(v) THEN v
     ELSE IF items = <<>> THEN Null ELSE List(items)

-----------------------------------------------------------------------------
(***************************************************************************)
(* Merging.  A list is merged by key when a matcher finds a key in every   *)
(* item; otherwise the overlay's list replaces the base's.                 *)
(***************************************************************************)
HasKey(m, item) ==
  /\ IsMap(item)
  /\ m = "port" => DOMAIN item.map \cap {"containerPort", "port", "name"} # {}
  /\ m # "port" => m \in DOMAIN item.map
KeyOf(m, item) ==
  LET field == IF m # "port" THEN m
               ELSE CHOOSE f \in {"containerPort", "port", "name"} :
                       /\ f \in DOMAIN item.map
                       /\ f = "port" => "containerPort" \notin DOMAIN item.map
                       /\ f = "name" => {"containerPort", "port"} \cap DOMAIN item.map = {}
      protocol == IF field \in {"containerPort", "port"} THEN Field(item.map, "protocol").val ELSE "null"
  IN <<field, item.map[field].val, protocol>>
Keyed(m, items) == \A i \in DOMAIN items : HasKey(m, items[i])

\* The renderer looks at the items, the comparison at the name of the list.
RenderMatcher(base, overlay) ==
  LET usable == SelectSeq(<<"name", "mountPath", "port">>, LAMBDA m : Keyed(m, base) /\ Keyed(m, overlay))
  IN IF usable = <<>> THEN "none" ELSE usable[1]
CompareMatcher(path) ==
  LET last == path[Len(path)] IN
  CASE path = <<>> -> "none"
    [] last \in ContainerLists \cup {<<"env">>, <<"volumes">>} -> "name"
    [] last = <<"volumeMounts">> -> "mountPath"
    [] last = <<"ports">> -> "port"
    [] OTHER -> "none"
Matcher(style, path, base, overlay) ==
  LET m == IF style = "render" THEN RenderMatcher(base, overlay) ELSE CompareMatcher(path)
  IN IF m # "none" /\ Keyed(m, base) /\ Keyed(m, overlay) THEN m ELSE "none"

Positions(m, items, item) == {i \in DOMAIN items : KeyOf(m, items[i]) = KeyOf(m, item)}
LastOf(S) == CHOOSE i \in S : \A j \in S : j <= i

RECURSIVE Merge(_, _, _, _)
MergeList(style, path, m, base, overlay) ==
  FoldLeft(LAMBDA result, item :
             LET at == Positions(m, result, item)
                 itemPath == Append(path, KeyOf(m, item))
             IN IF at = {} THEN Append(result, Merge(style, itemPath, Null, item))
                ELSE [result EXCEPT ![LastOf(at)] = Merge(style, itemPath, @, item)],
           base, overlay)
Merge(style, path, base, overlay) ==
  IF IsMap(overlay) THEN
    Map([k \in DOMAIN Fields(base) \cup DOMAIN overlay.map |->
           IF k \in DOMAIN overlay.map
           THEN Merge(style, At(path, k), Field(Fields(base), k), overlay.map[k])
           ELSE Fields(base)[k]])
  ELSE IF ~IsList(overlay) THEN overlay
  ELSE IF IsList(base) /\ Matcher(style, path, base.list, overlay.list) # "none"
  THEN List(MergeList(style, path, Matcher(style, path, base.list, overlay.list), base.list, overlay.list))
  ELSE List([i \in DOMAIN overlay.list |-> Merge(style, Item(path, i), Null, overlay.list[i])])

\* The paths whose owner mergeDesiredValue records while it merges an overlay.
RECURSIVE Touched(_, _, _)
TouchedItems(path, base, overlay) ==
  LET m == IF IsList(base) THEN Matcher("compare", path, base.list, overlay.list) ELSE "none" IN
  UNION {IF m = "none" THEN Touched(Item(path, i), Null, overlay.list[i])
         ELSE LET at == Positions(m, base.list, overlay.list[i]) IN
              Touched(Append(path, KeyOf(m, overlay.list[i])),
                      IF at = {} THEN Null ELSE base.list[LastOf(at)], overlay.list[i]) : i \in DOMAIN overlay.list}
Touched(path, base, overlay) ==
  {path} \cup
    IF IsMap(overlay) THEN UNION {Touched(At(path, k), Field(Fields(base), k), overlay.map[k]) : k \in DOMAIN overlay.map}
    ELSE IF IsList(overlay) THEN TouchedItems(path, base, overlay)
    ELSE {}

-----------------------------------------------------------------------------
(***************************************************************************)
(* Comparing a desired projection with a live object: only fields that the *)
(* desired side has are compared.                                          *)
(***************************************************************************)
ServerMetadata == {"managedFields", "resourceVersion", "uid", "creationTimestamp", "generation", "selfLink"}
Without(f, keys) == [k \in DOMAIN f \ keys |-> f[k]]
Normalize(object) ==
  LET o == Without(object.map, {"status"}) IN
  Map(IF "metadata" \in DOMAIN o /\ IsMap(o.metadata)
      THEN [o EXCEPT !.metadata = Map(Without(@.map, ServerMetadata))] ELSE o)

Mismatch(path, reason) == {[path |-> path, reason |-> reason]}

RECURSIVE Diff(_, _, _)
DiffKeyed(path, m, desired, live) ==
  IF \E i, j \in DOMAIN live : i < j /\ KeyOf(m, live[i]) = KeyOf(m, live[j])
  THEN Mismatch(path, "duplicateMergeKey")
  ELSE UNION {LET at == Positions(m, live, desired[i])
                  itemPath == Append(path, KeyOf(m, desired[i]))
              IN IF at = {} THEN Mismatch(itemPath, "missingListItem")
                 ELSE Diff(itemPath, desired[i], live[LastOf(at)]) : i \in DOMAIN desired}
DiffPositions(path, desired, live) ==
  (IF Len(desired) # Len(live) THEN Mismatch(path, "listLengthMismatch") ELSE {})
  \cup UNION {Diff(Item(path, i), desired[i], live[i]) : i \in DOMAIN desired \cap DOMAIN live}
Diff(path, desired, live) ==
  IF IsMap(desired) THEN
    IF ~IsMap(live) THEN Mismatch(path, "typeMismatch")
    ELSE UNION {IF k \in DOMAIN live.map THEN Diff(At(path, k), desired.map[k], live.map[k])
                ELSE Mismatch(At(path, k), "missingField") : k \in DOMAIN desired.map}
  ELSE IF IsList(desired) THEN
    IF ~IsList(live) THEN Mismatch(path, "typeMismatch")
    ELSE LET m == Matcher("compare", path, live.list, desired.list) IN
         IF m # "none" THEN DiffKeyed(path, m, desired.list, live.list)
         ELSE DiffPositions(path, desired.list, live.list)
  ELSE IF desired = live THEN {} ELSE Mismatch(path, "valueMismatch")
=============================================================================
