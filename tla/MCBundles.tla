----------------------------- MODULE MCBundles -----------------------------
(***************************************************************************)
(* Three machines around a bundle, which share no state: the cache its     *)
(* packages come from, the directories it is mirrored into, and its        *)
(* content from the package to the hosts.  A behaviour runs one of them;   *)
(* the others stay in an initial state.  The bounds are per machine:       *)
(*   mirror   two processes, three renders or rollbacks                    *)
(*   alone    the process of the configuration, four of them               *)
(*   cache    two processes that render different packages                 *)
(*   shared   the same, of one package too, and collections of valid       *)
(*            entries                                                      *)
(*   content  copies on the remote host fail noticed                       *)
(*   faults   copies on the remote host fail unnoticed                     *)
(***************************************************************************)
EXTENDS BundleMirror, TLC

CONSTANTS
    Machines,    \* the machines of this run
    r1, r2, bundle1, x, y, NoBundle,
    Digests, Unlisted, CacheProcs, Leaves, Shared, IncludeValid, MaxRenders,
    MaxCollections  \* of PackageCache

(* Both bundles have a manifest; each has a file that the other has not. *)
MCFilesOf(r) == IF r = r1 THEN {bundle1, x} ELSE {bundle1, y}

VARIABLES machine,
    registry, online, storage, cache, renderer, gc, leftovers, torn, renders, collections,
    pkg, binding, edition, mounted, stage, bundle, work, outcome, live, cluster

cacheVars == <<registry, online, storage, cache, renderer, gc, leftovers, torn, renders, collections>>
contentVars == <<pkg, binding, edition, mounted, stage, bundle, work, outcome, live, cluster>>
allVars == <<machine, vars, cacheVars, contentVars>>

Mirror == INSTANCE BundleMirror WITH Procs <- {"agent", "sync"}, MaxStarts <- 3

Cache == INSTANCE PackageCache WITH proc <- renderer, Procs <- CacheProcs
SharedCache == INSTANCE PackageCache WITH proc <- renderer, Procs <- CacheProcs,
    Shared <- TRUE, IncludeValid <- TRUE, MaxRenders <- 2

-----------------------------------------------------------------------------
(* Packages and local repositories for the content. *)

A == <<"files", "a">>
Config == <<"files", "config">>

(* A rootfs directory, an input, a plain file, the configuration of the     *)
(* bootstrap hook, and a manifest.                                          *)
Plain == [rootfs |-> <<<<"rootfs">>>>, files |-> <<A, <<"files", "b">>, Config>>,
          manifests |-> <<<<"manifests">>>>, hook |-> TRUE,
          payload |-> {<<"rootfs", "bin", "k">>, <<"rootfs", "etc">>, A, <<"files", "b">>, Config,
                       <<"manifests", "m">>, <<"hooks", "bootstrap.sh">>},
          inputs |-> <<A, Config>>, config |-> Config,
          declared |-> {<<"gen", "a">>}, discovered |-> {<<"gen", "b">>}]
(* An application: one manifest file, whose input is not among its contents. *)
Application == [Plain EXCEPT !.rootfs = <<>>, !.files = <<>>, !.hook = FALSE,
                !.manifests = <<<<"manifests", "m">>>>, !.inputs = <<>>,
                !.declared = {}, !.discovered = {}]
(* Refused when the package is loaded: two contents with one path, a path   *)
(* that leaves the package, a content and a hook that the image lacks.      *)
Duplicate == [Plain EXCEPT !.files = <<A, A>>]
Escaping == [Plain EXCEPT !.inputs = <<<<"..", "a">>>>]
Absent1 == [Plain EXCEPT !.files = <<A, <<"files", "absent">>>>]
Hookless == [Plain EXCEPT !.payload = @ \ {<<"hooks", "bootstrap.sh">>}]

MCBindings == {[common |-> {}, scoped |-> {}],
               [common |-> {A, Config}, scoped |-> {}],
               [common |-> {A, Config}, scoped |-> {[input |-> A, host |-> "h2"]}]}

Content == INSTANCE BundleContent WITH
    Hosts <- {"h1", "h2"}, Local <- "h1", RemoteCopyFails <- FALSE, MaxEdits <- 2,
    Packages <- {Plain, Application, Duplicate, Escaping, Absent1, Hookless}, Bindings <- MCBindings

Faulty == INSTANCE BundleContent WITH
    Hosts <- {"h1", "h2"}, Local <- "h1", RemoteCopyFails <- TRUE, MaxEdits <- 1,
    Packages <- {Plain, Application}, Bindings <- MCBindings

ASSUME Cache!PackageCacheAssumption /\ Content!BundleContentAssumption

-----------------------------------------------------------------------------
MCInit ==
    /\ machine \in Machines
    /\ IF machine = "mirror" THEN Mirror!Init ELSE Init
    /\ Cache!Init /\ Content!Init
    /\ machine \notin {"content", "faults"} =>
          pkg = Application /\ binding.common = {}

MCNext ==
    \/ /\ UNCHANGED <<machine, cacheVars, contentVars>>
       /\ \/ machine = "mirror" /\ Mirror!Next
          \/ machine = "alone" /\ Next
    \/ /\ UNCHANGED <<machine, vars, contentVars>>
       /\ \/ machine = "cache" /\ Cache!Next
          \/ machine = "shared" /\ SharedCache!Next
    \/ /\ UNCHANGED <<machine, vars, cacheVars>>
       /\ \/ machine = "content" /\ Content!Next
          \/ machine = "faults" /\ Faulty!Next

MCSpec == MCInit /\ [][MCNext]_allVars

-----------------------------------------------------------------------------
(* The properties of each machine are stated and explained in its module.   *)

(* Renders and rollbacks of one process, stopped at any file: the current   *)
(* bundle is whole when it counts, and what the document records is kept.   *)
AloneSound ==
    machine = "alone" => TypeOK /\ CurrentWhole /\ DoneIsCurrent /\ RecordedKept

(* Renders with a collection, outages, failures and kills: what is rendered *)
(* or valid is whole unless a valid entry was taken apart, which takes two  *)
(* processes on one package or a collection of valid ones, and a filled     *)
(* cache needs no registry.                                                 *)
CacheSound ==
    /\ [](Cache!TypeOK /\ Cache!RenderedIsWhole /\ Cache!ValidIsWhole)
    /\ [](machine = "cache" => Cache!NothingTorn)
    /\ Cache!EntriesAppearWhole /\ Cache!WarmNeedsNoRegistry

(* Renders, edits, applies that fail and are repeated: tracked is what was  *)
(* applied, each file has its owner, and no mount is left behind; also when *)
(* copies to a host fail unnoticed, what is applied is tracked, and nothing *)
(* of one host reaches the other.                                           *)
ContentSound ==
    /\ machine = "content" =>
          Content!TypeOK /\ Content!TrackedIsApplied /\ Content!OwnersKnown /\ Content!MountsReleased
    /\ machine = "faults" =>
          Content!AppliedIsTracked /\ Content!ScopedStaysOnHost /\ Content!ObjectsApplied
=============================================================================
