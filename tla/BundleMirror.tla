---------------------------- MODULE BundleMirror ----------------------------
(***************************************************************************)
(* The directories below bundles/ while renders and rollbacks promote and  *)
(* mirror bundles into them, file by file and without a lock: each revision *)
(* has a directory of its own, but the staging directory, the backup and    *)
(* the current bundle are shared by every process of the cluster            *)
(* (reconcile/materialize.go; Lifecycle takes a whole copy as one step).    *)
(*                                                                         *)
(* A directory is the set of its entries, each with the revision whose      *)
(* content it has; the directory that is absent has none.                   *)
(***************************************************************************)
EXTENDS Integers, FiniteSets

CONSTANTS
    Revisions,
    Procs,          \* processes: the agent, sync commands
    FilesOf(_),     \* the files of a revision's bundle
    MaxStarts       \* bound: renders and rollbacks

ASSUME BundleMirrorAssumption == MaxStarts \in Nat

VARIABLES
    dirs,       \* per directory: its entries
    proc,       \* per process: what it does
    promoted,   \* the revisions some render has recorded
    starts

vars == <<dirs, proc, promoted, starts>>

None == "none"
Root == <<".", None>>
Absent == {}
Empty == {Root}
Whole(r) == Empty \cup (FilesOf(r) \X {r})

(* RevisionBundlePath, CurrentBundlePath, the mirror's stage, the backups.  *)
Current == <<"current">>
Stage == <<"current", "stage">>
Revision(r) == <<"revision", r>>
Backup(place) == <<"backup", place>>
Promotable == {Current} \cup {Revision(r) : r \in Revisions}
Places == Promotable \cup {Stage} \cup {Backup(place) : place \in Promotable}

Nowhere == <<>>
Free == [pc |-> "idle", rev |-> None, dst |-> Nowhere, had |-> FALSE, todo |-> {}]

Init ==
    /\ dirs = [place \in Places |-> Absent]
    /\ proc = [p \in Procs |-> Free]
    /\ promoted = {} /\ starts = 0

-----------------------------------------------------------------------------
Is(p, pc) == proc[p].pc = pc
Goto(p, pc) == proc' = [proc EXCEPT ![p].pc = pc]

(* os.RemoveAll takes the entries of a directory before the directory. *)
Removable(dir) == IF dir = Empty THEN dir ELSE dir \ Empty

Start(p, r, pc) ==
    /\ Is(p, "idle") /\ starts < MaxStarts
    /\ starts' = starts + 1
    /\ proc' = [proc EXCEPT ![p] = [Free EXCEPT !.pc = pc, !.rev = r, !.dst = Revision(r)]]
    /\ UNCHANGED <<dirs, promoted>>

(* A render has its bundle in a temporary directory of its own. *)
StartRender(p, r) == Start(p, r, "check")

(* Mutant: a rollback leaves the current bundle alone. *)
StartRollbackOnly(p, r) == r \in promoted /\ Start(p, r, "done")

(* A rollback mirrors the bundle of a revision that was applied. *)
StartRollback(p, r) == r \in promoted /\ Start(p, r, "clean")

(* Mutant: a revision is promoted again each time it is rendered. *)
CheckNothing(p) ==
    /\ Is(p, "check")
    /\ Goto(p, "drop")
    /\ UNCHANGED <<dirs, promoted, starts>>

(* A revision that is there is kept; the rendered bundle is dropped.        *)
CheckRevision(p) ==
    /\ Is(p, "check")
    /\ Goto(p, IF dirs[Revision(proc[p].rev)] # Absent THEN "clean" ELSE "drop")
    /\ UNCHANGED <<dirs, promoted, starts>>

(* Mutant: what is left in the staging directory stays there. *)
CleanStageNever(p) ==
    /\ Is(p, "clean")
    /\ proc' = [proc EXCEPT ![p].pc = "list", ![p].dst = Current]
    /\ UNCHANGED <<dirs, promoted, starts>>

(* mirrorBundle removes the staging directory, whoever fills it, ... *)
CleanStage(p) ==
    /\ Is(p, "clean")
    /\ IF dirs[Stage] = Absent
       THEN /\ proc' = [proc EXCEPT ![p].pc = "list", ![p].dst = Current]
            /\ UNCHANGED dirs
       ELSE /\ \E e \in Removable(dirs[Stage]) : dirs' = [dirs EXCEPT ![Stage] = @ \ {e}]
            /\ UNCHANGED proc
    /\ UNCHANGED <<promoted, starts>>

(* ...walks the revision's directory... *)
ListRevision(p) ==
    /\ Is(p, "list") /\ dirs[Revision(proc[p].rev)] # Absent
    /\ dirs' = [dirs EXCEPT ![Stage] = @ \cup Empty]
    /\ proc' = [proc EXCEPT ![p].pc = "copy", ![p].todo = dirs[Revision(proc[p].rev)] \ Empty]
    /\ UNCHANGED <<promoted, starts>>

(* ...and puts each file into the staging directory, made anew if gone.     *)
CopyFile(p, e) ==
    /\ Is(p, "copy") /\ e \in proc[p].todo /\ e \in dirs[Revision(proc[p].rev)]
    /\ dirs' = [dirs EXCEPT ![Stage] = {o \in @ : o[1] # e[1]} \cup {e} \cup Empty]
    /\ proc' = [proc EXCEPT ![p].todo = @ \ {e}]
    /\ UNCHANGED <<promoted, starts>>

Copied(p) ==
    /\ Is(p, "copy") /\ proc[p].todo = {}
    /\ Goto(p, "drop")
    /\ UNCHANGED <<dirs, promoted, starts>>

(* Mutant: what is at the destination is removed instead of its backup. *)
RemoveDestination(p) ==
    /\ proc[p].pc \in {"drop", "cleanup"}
    /\ LET dst == proc[p].dst
       IN  IF Is(p, "drop") /\ dirs[dst] # Absent
           THEN /\ \E e \in Removable(dirs[dst]) : dirs' = [dirs EXCEPT ![dst] = @ \ {e}]
                /\ UNCHANGED proc
           ELSE /\ Goto(p, IF Is(p, "drop") THEN "backup" ELSE "promoted")
                /\ UNCHANGED dirs
    /\ UNCHANGED <<promoted, starts>>

(* promoteBundle removes the backup of the destination, ... *)
RemoveBackup(p) ==
    /\ proc[p].pc \in {"drop", "cleanup"}
    /\ LET bak == Backup(proc[p].dst)
       IN  \/ /\ dirs[bak] # Absent
              /\ \E e \in Removable(dirs[bak]) : dirs' = [dirs EXCEPT ![bak] = @ \ {e}]
              /\ UNCHANGED proc
           \/ /\ dirs[bak] = Absent
              /\ Goto(p, IF Is(p, "drop") THEN "backup" ELSE "promoted")
              /\ UNCHANGED dirs
    /\ UNCHANGED <<promoted, starts>>

(* rename(2) onto a directory succeeds where there is none or an empty one. *)
Renames(from, to) == from # Absent /\ to \in {Absent, Empty}

(* ...moves what is at the destination to the backup, ... *)
BackUp(p) ==
    /\ Is(p, "backup")
    /\ LET dst == proc[p].dst
           bak == Backup(dst)
       IN  IF dirs[dst] = Absent
           THEN /\ proc' = [proc EXCEPT ![p].pc = "move", ![p].had = FALSE]
                /\ UNCHANGED dirs
           ELSE /\ Renames(dirs[dst], dirs[bak])
                /\ dirs' = [dirs EXCEPT ![bak] = dirs[dst], ![dst] = Absent]
                /\ proc' = [proc EXCEPT ![p].pc = "move", ![p].had = TRUE]
    /\ UNCHANGED <<promoted, starts>>

(* A revision's bundle comes from the render's own directory, the current   *)
(* one from the shared staging directory.                                   *)
From(p) == IF proc[p].dst = Current THEN dirs[Stage] ELSE Whole(proc[p].rev)

(* ...and moves the staged bundle to the destination... *)
Move(p) ==
    /\ Is(p, "move") /\ Renames(From(p), dirs[proc[p].dst])
    /\ dirs' = [place \in Places |->
                   IF place = proc[p].dst THEN From(p)
                   ELSE IF place = Stage /\ proc[p].dst = Current THEN Absent
                   ELSE dirs[place]]
    /\ Goto(p, IF proc[p].had THEN "cleanup" ELSE "promoted")
    /\ UNCHANGED <<promoted, starts>>

(* ...or puts the backup back, if that is possible, and fails. *)
MoveFails(p) ==
    /\ Is(p, "move") /\ ~Renames(From(p), dirs[proc[p].dst])
    /\ LET dst == proc[p].dst
           bak == Backup(dst)
       IN  IF proc[p].had /\ Renames(dirs[bak], dirs[dst])
           THEN dirs' = [dirs EXCEPT ![dst] = dirs[bak], ![bak] = Absent]
           ELSE UNCHANGED dirs
    /\ proc' = [proc EXCEPT ![p] = Free]
    /\ UNCHANGED <<promoted, starts>>

(* After the revision comes the mirror; after the mirror, the document.     *)
Promoted(p) ==
    /\ Is(p, "promoted")
    /\ Goto(p, IF proc[p].dst = Current THEN "done" ELSE "clean")
    /\ promoted' = IF proc[p].dst = Current THEN promoted \cup {proc[p].rev} ELSE promoted
    /\ UNCHANGED <<dirs, starts>>

Finish(p) ==
    /\ Is(p, "done")
    /\ proc' = [proc EXCEPT ![p] = Free]
    /\ UNCHANGED <<dirs, promoted, starts>>

Working(p) == ~Is(p, "idle") /\ ~Is(p, "done")

(* A call fails - another process was there - or the process is killed.     *)
Stop(p) ==
    /\ Working(p)
    /\ proc' = [proc EXCEPT ![p] = Free]
    /\ UNCHANGED <<dirs, promoted, starts>>

Next == \E p \in Procs :
    \/ \E r \in Revisions : StartRender(p, r) \/ StartRollback(p, r)
    \/ CheckRevision(p) \/ CleanStage(p) \/ ListRevision(p) \/ Copied(p)
    \/ \E e \in proc[p].todo : CopyFile(p, e)
    \/ RemoveBackup(p) \/ BackUp(p) \/ Move(p) \/ MoveFails(p)
    \/ Promoted(p) \/ Finish(p) \/ Stop(p)

Spec == Init /\ [][Next]_vars

-----------------------------------------------------------------------------
(* Properties. *)

(* The domains of the variables. *)
TypeOK ==
    /\ dirs \in [Places -> SUBSET UNION {Whole(r) : r \in Revisions}]
    /\ \A p \in Procs : proc[p].rev \in Revisions \cup {None} /\ proc[p].had \in BOOLEAN
    /\ promoted \subseteq Revisions

(* The directory of a revision is never seen with a part of its bundle or   *)
(* with files of another, whatever processes render it and wherever they    *)
(* are stopped: rollbacks read it long after.                               *)
RevisionsWhole == \A r \in Revisions : dirs[Revision(r)] \in {Absent, Whole(r)}

(* The current bundle is never seen with a part of a bundle or a mixture.   *)
CurrentWhole == dirs[Current] \in {Absent} \cup {Whole(r) : r \in Revisions}

(* A render or rollback that reports success leaves its bundle current.     *)
DoneIsCurrent == \A p \in Procs : Is(p, "done") => dirs[Current] = Whole(proc[p].rev)

(* What one process has recorded as rendered stays in its directory, where  *)
(* a rollback looks for it.                                                 *)
RecordedKept == \A r \in promoted : dirs[Revision(r)] = Whole(r)
=============================================================================
