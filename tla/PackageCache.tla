---------------------------- MODULE PackageCache ----------------------------
(***************************************************************************)
(* The cluster's cache of OCI component packages: renders that ensure the  *)
(* package they need is cached and then copy it out of the cache, garbage  *)
(* collection, publishing, a registry that goes away, and processes that   *)
(* are killed (ocipackage/pull.go, ocipackage.go, sync_package.go, the     *)
(* resolvers of sync.go and agent/runner.go).  No lock is taken anywhere.  *)
(*                                                                         *)
(* A package image is known by its digest.  Its files are a manifest, a    *)
(* content directory and the files in it.                                  *)
(***************************************************************************)
EXTENDS Integers, FiniteSets

CONSTANTS
    Digests,        \* digests of package images
    Unlisted,       \* those whose algorithm is not sha256
    Procs,          \* processes that render: a sync command, the agent
    Leaves,         \* the files of the content directory
    Shared,         \* bound: two renders may need one package at a time
    IncludeValid,   \* whether garbage collection removes valid entries
    MaxRenders,     \* bound: renders
    MaxCollections  \* bound: garbage collections

PackageCacheAssumption ==
    /\ Unlisted \subseteq Digests
    /\ MaxRenders \in Nat /\ MaxCollections \in Nat
    /\ {"manifest", "dir"} \cap Leaves = {} /\ Leaves # {}

VARIABLES
    registry,   \* the digests pushed
    online,     \* the registry can be reached
    storage,    \* the images in the local container storage
    cache,      \* per digest: what its entry's directory holds
    proc,       \* per process: what it does
    gc,         \* the garbage collection
    leftovers,  \* temporary directories that pulls left behind
    torn,       \* history: digests whose entry lost a file while it loaded
    renders, collections

vars == <<registry, online, storage, cache, proc, gc, leftovers, torn, renders, collections>>

None == "none"
Files == {"manifest", "dir"} \cup Leaves
Listing(dir) == dir \cap Leaves

(* packageformat.LoadDir: the manifest parses and every content exists; a   *)
(* content directory is not looked into.                                    *)
Loads(dir) == {"manifest", "dir"} \subseteq dir

(* os.RemoveAll takes the files of a directory before the directory. *)
Removable(dir) == IF Listing(dir) # {} THEN dir \ {"dir"} ELSE dir

(* A file goes from an entry, which may be one that loads.                  *)
Remove(d, f) ==
    /\ cache' = [cache EXCEPT ![d] = @ \ {f}]
    /\ torn' = IF Loads(cache[d]) THEN torn \cup {d} ELSE torn

(* CopyDirV3 makes a directory before the files in it. *)
Copyable(dir) == IF "dir" \in dir THEN Files \ dir ELSE {"manifest", "dir"} \ dir

Free == [pc |-> "idle", digest |-> None, tmp |-> {}, todo |-> {}, copied |-> {}]
NoGC == [pc |-> "idle", todo |-> {}, dirs |-> {}]

Init ==
    /\ registry = {} /\ online = TRUE /\ storage = {}
    /\ cache = [d \in Digests |-> {}]
    /\ proc = [p \in Procs |-> Free]
    /\ gc = NoGC /\ leftovers = {} /\ torn = {}
    /\ renders = 0 /\ collections = 0

-----------------------------------------------------------------------------
(* Publishing. *)

(* compactPaths: the paths the manifest names, without those inside others. *)
StagedPaths == {"manifest", "dir"}
StagedFiles == StagedPaths \cup (IF "dir" \in StagedPaths THEN Leaves ELSE {})

(* sync package build stages what the manifest names; push reports the      *)
(* digest that a BOM then pins.                                             *)
Publish(d) ==
    /\ online /\ d \notin registry
    /\ Loads(StagedFiles)
    /\ registry' = registry \cup {d}
    /\ UNCHANGED <<online, storage, cache, proc, gc, leftovers, torn, renders, collections>>

(* The network is not the program's. *)
Outage ==
    /\ online' = ~online
    /\ UNCHANGED <<registry, storage, cache, proc, gc, leftovers, torn, renders, collections>>

-----------------------------------------------------------------------------
(* Cache.Ensure and the copy that a render makes of the entry. *)

Is(p, pc) == proc[p].pc = pc
Entry(p) == cache[proc[p].digest]

Goto(p, pc) == proc' = [proc EXCEPT ![p].pc = pc]
Others == <<registry, online, storage, cache, gc, leftovers, torn, renders, collections>>

StartRender(p, d) ==
    /\ Is(p, "idle") /\ renders < MaxRenders
    /\ ~Shared => \A q \in Procs : proc[q].digest # d
    /\ renders' = renders + 1
    /\ proc' = [proc EXCEPT ![p] = [Free EXCEPT !.pc = "load", !.digest = d]]
    /\ UNCHANGED <<registry, online, storage, cache, gc, leftovers, torn, collections>>

(* Mutant: every render pulls its package anew. *)
LoadNever(p) ==
    /\ Is(p, "load")
    /\ Goto(p, "clear")
    /\ UNCHANGED Others

(* An entry that loads is used as it is; any other is removed and pulled.   *)
Load(p) ==
    /\ Is(p, "load")
    /\ Goto(p, IF Loads(Entry(p)) THEN "render" ELSE "clear")
    /\ UNCHANGED Others

(* Ensure removes the entry before the pull, and the pull once more before  *)
(* it installs: file by file.                                               *)
RemoveFile(p, f) ==
    /\ proc[p].pc \in {"clear", "replace"} /\ f \in Removable(Entry(p))
    /\ Remove(proc[p].digest, f)
    /\ UNCHANGED <<registry, online, storage, proc, gc, leftovers, renders, collections>>

Cleared(p) ==
    /\ proc[p].pc \in {"clear", "replace"} /\ Entry(p) = {}
    /\ Goto(p, IF Is(p, "clear") THEN "mount" ELSE "install")
    /\ UNCHANGED Others

(* The image is pulled unless the local storage has it, and mounted. *)
Mount(p) ==
    /\ Is(p, "mount")
    /\ proc[p].digest \in storage \/ (online /\ proc[p].digest \in registry)
    /\ storage' = storage \cup {proc[p].digest}
    /\ Goto(p, "copy")
    /\ UNCHANGED <<registry, online, cache, gc, leftovers, torn, renders, collections>>

(* Mutant: the copy goes straight into the entry. *)
CopyInPlace(p, f) ==
    /\ Is(p, "copy") /\ f \in Copyable(proc[p].tmp)
    /\ proc' = [proc EXCEPT ![p].tmp = @ \cup {f}]
    /\ cache' = [cache EXCEPT ![proc[p].digest] = @ \cup {f}]
    /\ UNCHANGED <<registry, online, storage, gc, leftovers, torn, renders, collections>>

(* The mounted package is copied into a temporary directory beside the entry. *)
CopyFile(p, f) ==
    /\ Is(p, "copy") /\ f \in Copyable(proc[p].tmp)
    /\ proc' = [proc EXCEPT ![p].tmp = @ \cup {f}]
    /\ UNCHANGED Others

(* Unmounted and loaded; then what is at the destination is removed. *)
Check(p) ==
    /\ Is(p, "copy") /\ proc[p].tmp = Files /\ Loads(proc[p].tmp)
    /\ Goto(p, "replace")
    /\ UNCHANGED Others

(* The rename takes effect at once, where nothing is in its way. *)
Install(p) ==
    /\ Is(p, "install") /\ Entry(p) = {}
    /\ cache' = [cache EXCEPT ![proc[p].digest] = proc[p].tmp]
    /\ proc' = [proc EXCEPT ![p].pc = "render", ![p].tmp = {}]
    /\ UNCHANGED <<registry, online, storage, gc, leftovers, torn, renders, collections>>

(* The render copies the manifest, then lists the content directory... *)
Enter(p) ==
    /\ Is(p, "render") /\ {"manifest", "dir"} \subseteq Entry(p)
    /\ proc' = [proc EXCEPT ![p].pc = "files", ![p].todo = Listing(Entry(p)),
                            ![p].copied = {"manifest", "dir"}]
    /\ UNCHANGED Others

(* ...and copies the files listed. *)
Render(p, f) ==
    /\ Is(p, "files") /\ f \in proc[p].todo /\ f \in Entry(p)
    /\ proc' = [proc EXCEPT ![p].todo = @ \ {f}, ![p].copied = @ \cup {f}]
    /\ UNCHANGED Others

Rendered(p) ==
    /\ Is(p, "files") /\ proc[p].todo = {}
    /\ Goto(p, "done")
    /\ UNCHANGED Others

Finish(p) ==
    /\ Is(p, "done")
    /\ proc' = [proc EXCEPT ![p] = Free]
    /\ UNCHANGED Others

Busy(p) == ~Is(p, "idle") /\ ~Is(p, "done")

(* What the process asks for next cannot be had: no image to mount, a       *)
(* rename onto an entry that is there again, a file that is gone.           *)
Blocked(p) ==
    \/ Is(p, "mount") /\ proc[p].digest \notin storage
       /\ ~(online /\ proc[p].digest \in registry)
    \/ Is(p, "install") /\ Entry(p) # {}
    \/ Is(p, "render") /\ ~({"manifest", "dir"} \subseteq Entry(p))
    \/ Is(p, "files") /\ ~(proc[p].todo \subseteq Entry(p))

(* Mutant: the package is asked for again, for ever. *)
GiveUpNever(p) ==
    /\ Blocked(p)
    /\ proc' = [proc EXCEPT ![p] = [Free EXCEPT !.pc = "load", !.digest = proc[p].digest]]
    /\ UNCHANGED Others

(* The error ends the render; nothing is tried a second time. *)
GiveUp(p) ==
    /\ Blocked(p)
    /\ proc' = [proc EXCEPT ![p] = Free]
    /\ UNCHANGED Others

(* Any other call may fail too; the temporary directory is removed. *)
Fail(p) ==
    /\ Busy(p)
    /\ proc' = [proc EXCEPT ![p] = Free]
    /\ UNCHANGED Others

(* A process that is killed leaves its temporary directory. *)
Kill(p) ==
    /\ Busy(p)
    /\ leftovers' = leftovers \cup ({proc[p].tmp} \ {{}})
    /\ proc' = [proc EXCEPT ![p] = Free]
    /\ UNCHANGED <<registry, online, storage, cache, gc, torn, renders, collections>>

-----------------------------------------------------------------------------
(* Cache.GC. *)

(* Mutant: validity is not looked at. *)
EligibleOld(d, old) == d \in old

(* cacheEntryEligibleForRemoval: old enough, and invalid unless valid       *)
(* entries were asked for too.                                              *)
Eligible(d, old) == d \in old /\ (IncludeValid \/ ~Loads(cache[d]))

(* List reads the namespaces sha256 and ref, temporary directories too.  How *)
(* old an entry is, is left open.                                           *)
GCList ==
    /\ gc = NoGC /\ collections < MaxCollections
    /\ collections' = collections + 1
    /\ LET present == {d \in Digests \ Unlisted : cache[d] # {}}
       IN  \E old \in SUBSET present, dirs \in SUBSET leftovers :
               gc' = [pc |-> "remove", todo |-> {d \in present : Eligible(d, old)},
                      dirs |-> {t \in dirs : IncludeValid \/ ~Loads(t)}]
    /\ UNCHANGED <<registry, online, storage, cache, proc, leftovers, torn, renders>>

GCRemoveFile(d, f) ==
    /\ gc.pc = "remove" /\ d \in gc.todo /\ f \in Removable(cache[d])
    /\ Remove(d, f)
    /\ UNCHANGED <<registry, online, storage, proc, gc, leftovers, renders, collections>>

GCRemoved(d) ==
    /\ gc.pc = "remove" /\ d \in gc.todo /\ cache[d] = {}
    /\ gc' = [gc EXCEPT !.todo = @ \ {d}]
    /\ UNCHANGED <<registry, online, storage, cache, proc, leftovers, torn, renders, collections>>

GCRemoveLeftover(t) ==
    /\ gc.pc = "remove" /\ t \in gc.dirs
    /\ gc' = [gc EXCEPT !.dirs = @ \ {t}]
    /\ leftovers' = leftovers \ {t}
    /\ UNCHANGED <<registry, online, storage, cache, proc, torn, renders, collections>>

(* The collection ends, stops at an error, or is killed. *)
GCEnd ==
    /\ gc # NoGC
    /\ gc' = NoGC
    /\ UNCHANGED <<registry, online, storage, cache, proc, leftovers, torn, renders, collections>>

-----------------------------------------------------------------------------
ProcStep(p) ==
    \/ Load(p) \/ Cleared(p) \/ Mount(p) \/ Check(p) \/ Install(p)
    \/ Enter(p) \/ Rendered(p) \/ Finish(p) \/ GiveUp(p)
    \/ \E f \in Files : RemoveFile(p, f)
    \/ \E f \in Files : CopyFile(p, f)
    \/ \E f \in Files : Render(p, f)

Next ==
    \/ \E d \in Digests : Publish(d)
    \/ Outage
    \/ \E p \in Procs, d \in Digests : StartRender(p, d)
    \/ \E p \in Procs : ProcStep(p) \/ Fail(p) \/ Kill(p)
    \/ GCList \/ GCEnd
    \/ \E d \in Digests, f \in Files : GCRemoveFile(d, f)
    \/ \E d \in Digests : GCRemoved(d)
    \/ \E t \in leftovers : GCRemoveLeftover(t)

Spec == Init /\ [][Next]_vars

-----------------------------------------------------------------------------
(* Properties. *)

(* The domains of the variables. *)
TypeOK ==
    /\ registry \subseteq Digests /\ storage \subseteq registry /\ online \in BOOLEAN
    /\ cache \in [Digests -> SUBSET Files]
    /\ \A p \in Procs : /\ proc[p].digest \in Digests \cup {None}
                        /\ proc[p].tmp \subseteq Files /\ proc[p].copied \subseteq Files
    /\ gc.todo \subseteq Digests

(* A render that is done has copied the whole of its package, and an entry  *)
(* that loads holds the whole package, of which a process that is killed    *)
(* never leaves a part: unless an entry that loaded was taken apart, by a   *)
(* second pull of the package or by a collection (Pull, Cache.GC).          *)
RenderedIsWhole ==
    \A p \in Procs : Is(p, "done") /\ proc[p].digest \notin torn => proc[p].copied = Files
ValidIsWhole == \A d \in Digests \ torn : Loads(cache[d]) => cache[d] = Files

(* Renders that need different packages and collections of invalid entries  *)
(* take nothing from an entry that loads (Ensure, cacheEntryEligibleFor-    *)
(* Removal).                                                                *)
NothingTorn == torn = {}

(* Whoever shares a package: its entry appears as a whole where there was   *)
(* none, and from then on only loses files (os.Rename, pull.go).            *)
EntriesAppearWhole ==
    [][\A d \in Digests : \/ cache'[d] \subseteq cache[d]
                          \/ cache[d] = {} /\ cache'[d] = Files]_vars

(* While the package of a render is cached and whole, the render does not   *)
(* need the registry: from then on it never waits for a mount.              *)
WarmNeedsNoRegistry ==
    [][\A p \in Procs : (Is(p, "load") /\ cache[proc[p].digest] = Files)
          => proc'[p].pc \in {"load", "render", "idle"}]_vars

(* A render that started ends, whatever the others do: no process renders   *)
(* for ever.                                                                *)
RendersEnd == \A p \in Procs : []<>~Busy(p)
=============================================================================
