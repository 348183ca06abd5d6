------------------------- MODULE BundleMirror_proofs -------------------------
(***************************************************************************)
(* Proofs about BundleMirror for every set of revisions and files: what    *)
(* holds of the shared directories for every number of processes, and what *)
(* holds of them for one process at a time.                                *)
(***************************************************************************)
EXTENDS MCBundles, TLAPS

Entries == UNION {Whole(r) : r \in Revisions}

PC == {"idle", "check", "clean", "list", "copy", "drop", "backup", "move",
       "cleanup", "promoted", "done"}

ProcState ==
    [pc : PC, rev : Revisions \cup {None}, dst : Promotable \cup {Nowhere},
     had : BOOLEAN, todo : SUBSET Entries]

\* A process works on the directory of its revision or on the current bundle.
OwnInv == \A p \in Procs :
    ~Is(p, "idle") =>
        /\ proc[p].rev \in Revisions
        /\ proc[p].dst \in {Current, Revision(proc[p].rev)}

MirrorInv ==
    /\ TypeOK
    /\ proc \in [Procs -> ProcState]
    /\ OwnInv
    /\ RevisionsWhole

(***************************************************************************)
(* One process alone: what the directories hold at each of its steps.  The *)
(* directory of its revision is absent while it is promoted and whole      *)
(* afterwards; the staging directory fills up and is whole when it is      *)
(* renamed; a backup that may be put back is whole.                        *)
(***************************************************************************)
Wholes == {Whole(r) : r \in Revisions}

AloneAt(p) ==
    LET r == proc[p].rev
        promotes == proc[p].pc \in {"drop", "backup", "move", "cleanup", "promoted"}
    IN  /\ promotes /\ proc[p].dst = Revision(r) =>
               IF Is(p, "promoted") THEN dirs[Revision(r)] = Whole(r)
               ELSE ~Is(p, "cleanup") /\ dirs[Revision(r)] = Absent
        /\ Is(p, "move") /\ proc[p].had =>
               proc[p].dst = Current /\ dirs[Backup(Current)] \in Wholes
        /\ Is(p, "check") => proc[p].dst = Revision(r)
        /\ proc[p].pc \in {"list", "copy"} => proc[p].dst = Current
        /\ \/ proc[p].pc \in {"clean", "list", "copy"}
           \/ promotes /\ proc[p].dst = Current
           => dirs[Revision(r)] = Whole(r)
        /\ Is(p, "list") => dirs[Stage] = Absent
        /\ Is(p, "copy") => /\ dirs[Stage] \cup proc[p].todo = Whole(r)
                            /\ Root \in dirs[Stage] /\ Root \notin proc[p].todo
        /\ proc[p].pc \in {"drop", "backup", "move"} /\ proc[p].dst = Current =>
               dirs[Stage] = Whole(r)
        /\ \/ proc[p].pc \in {"cleanup", "promoted"} /\ proc[p].dst = Current
           \/ Is(p, "done")
           => dirs[Current] = Whole(r)

AloneInv ==
    /\ MirrorInv
    /\ \A p \in Procs : AloneAt(p)
    /\ CurrentWhole
    /\ RecordedKept

-----------------------------------------------------------------------------
(* What the operators return. *)

\* The places differ: RevisionBundlePath has a directory of its own for each
\* revision, apart from the current bundle, the stage and the backups.
LEMMA PlacesDiffer ==
    /\ Current # Stage
    /\ \A r : Revision(r) # Current /\ Revision(r) # Stage /\ Revision(r) # Nowhere
    /\ \A r, q : Revision(r) # Backup(q)
    /\ \A r, s : Revision(r) = Revision(s) => r = s
    /\ \A q : Backup(q) # Current /\ Backup(q) # Stage
    /\ \A q, s : Backup(q) = Backup(s) => q = s
    /\ Current # Nowhere
BY DEF Current, Stage, Revision, Backup, Nowhere

\* The places a process uses are directories of the model.
LEMMA PlacesKnown ==
    /\ Current \in Places /\ Stage \in Places
    /\ \A r \in Revisions : Revision(r) \in Places
    /\ \A q \in Promotable : q \in Places /\ Backup(q) \in Places
    /\ Current \in Promotable
    /\ \A r \in Revisions : Revision(r) \in Promotable
BY DEF Places, Promotable

\* A bundle is never the absent directory, and its entries are known.
LEMMA WholeBundle ==
    ASSUME NEW r \in Revisions
    PROVE  /\ Whole(r) # Absent
           /\ Whole(r) \subseteq Entries
           /\ Root \in Whole(r)
           /\ Empty \subseteq Whole(r)
BY DEF Whole, Empty, Absent, Entries

\* RevisionsWhole does not depend on the shared places: the stage, the current
\* bundle and the backups may hold anything.
LEMMA SharedPlacesFree ==
    ASSUME RevisionsWhole,
           \A r \in Revisions : dirs'[Revision(r)] = dirs[Revision(r)]
    PROVE  RevisionsWhole'
BY DEF RevisionsWhole

\* A bundle has one entry of each name, its root apart.
LEMMA SameName ==
    ASSUME NEW r, NEW o \in Whole(r), NEW e \in Whole(r), o[1] = e[1], o # Root, e # Root
    PROVE  o = e
<1>1. o \in FilesOf(r) \X {r} /\ e \in FilesOf(r) \X {r}
    BY DEF Whole, Empty
<1> QED
    BY <1>1

-----------------------------------------------------------------------------
(* Any number of processes. *)

\* The start: no directory, every process idle.
LEMMA MirrorStart == Init => MirrorInv
<1> SUFFICES ASSUME Init PROVE MirrorInv
    OBVIOUS
<1>1. proc \in [Procs -> ProcState] /\ OwnInv
    BY DEF Init, Free, ProcState, PC, OwnInv, Is
<1>2. RevisionsWhole
    BY PlacesKnown DEF Init, RevisionsWhole
<1>3. dirs \in [Places -> SUBSET Entries]
    BY DEF Init, Absent
<1>4. TypeOK
    BY <1>1, <1>3 DEF TypeOK, Entries, Init, ProcState
<1> QED
    BY <1>1, <1>2, <1>4 DEF MirrorInv

\* A step of a process leaves the others where they are; its own state stays
\* well formed if its new record is.
LEMMA OwnStep ==
    ASSUME MirrorInv, NEW p \in Procs, NEW s \in ProcState,
           proc' = [proc EXCEPT ![p] = s],
           s.pc # "idle" => s.rev \in Revisions /\ s.dst \in {Current, Revision(s.rev)}
    PROVE  proc' \in [Procs -> ProcState] /\ OwnInv'
BY DEF MirrorInv, OwnInv, Is

\* The typed record of a working process.
LEMMA Worker ==
    ASSUME MirrorInv, NEW p \in Procs, ~Is(p, "idle")
    PROVE  /\ proc[p].rev \in Revisions
           /\ proc[p].dst \in {Current, Revision(proc[p].rev)}
           /\ proc[p].dst \in Promotable
           /\ proc[p].pc \in PC /\ proc[p].had \in BOOLEAN /\ proc[p].todo \in SUBSET Entries
<1>1. proc[p].rev \in Revisions /\ proc[p].dst \in {Current, Revision(proc[p].rev)}
    BY DEF MirrorInv, OwnInv
<1> QED
    BY <1>1, PlacesKnown DEF MirrorInv, ProcState

\* The type invariant is that of its parts.
LEMMA MirrorParts ==
    ASSUME dirs' \in [Places -> SUBSET Entries], promoted' \subseteq Revisions,
           proc' \in [Procs -> ProcState], OwnInv', RevisionsWhole'
    PROVE  MirrorInv'
BY DEF MirrorInv, TypeOK, Entries, ProcState

\* Starting a render or a rollback touches no directory.
LEMMA StartStep ==
    ASSUME MirrorInv, NEW p \in Procs, NEW r \in Revisions, NEW pc \in PC, Start(p, r, pc)
    PROVE  MirrorInv'
<1> DEFINE s == [Free EXCEPT !.pc = pc, !.rev = r, !.dst = Revision(r)]
<1>1. s \in ProcState /\ s.rev = r /\ s.dst = Revision(r)
    BY PlacesKnown DEF Free, ProcState
<1>2. proc' \in [Procs -> ProcState] /\ OwnInv'
    <2>1. proc' = [proc EXCEPT ![p] = s]
        BY DEF Start
    <2> HIDE DEF s
    <2> QED
        BY <2>1, <1>1, OwnStep
<1>3. UNCHANGED <<dirs, promoted>>
    BY DEF Start
<1> QED
    BY <1>2, <1>3, MirrorParts DEF MirrorInv, TypeOK, Entries, RevisionsWhole

\* A process goes on with another step.
LEMMA PcStep ==
    ASSUME MirrorInv, NEW p \in Procs, ~Is(p, "idle"),
           NEW pc \in PC, proc' = [proc EXCEPT ![p].pc = pc]
    PROVE  proc' \in [Procs -> ProcState] /\ OwnInv'
<1> DEFINE s == [proc[p] EXCEPT !.pc = pc]
<1>1. proc[p] \in ProcState
    BY DEF MirrorInv
<1>2. s \in ProcState /\ s.rev = proc[p].rev /\ s.dst = proc[p].dst
    BY <1>1 DEF ProcState
<1>3. proc' = [proc EXCEPT ![p] = s]
    BY DEF MirrorInv
<1> HIDE DEF s
<1> QED
    BY <1>2, <1>3, OwnStep, Worker

\* ...with the current bundle as its destination, ...
LEMMA DstStep ==
    ASSUME MirrorInv, NEW p \in Procs, ~Is(p, "idle"), NEW pc \in PC,
           proc' = [proc EXCEPT ![p].pc = pc, ![p].dst = Current]
    PROVE  proc' \in [Procs -> ProcState] /\ OwnInv'
<1> DEFINE s == [proc[p] EXCEPT !.pc = pc, !.dst = Current]
<1>1. proc[p] \in ProcState
    BY DEF MirrorInv
<1>2. s \in ProcState /\ s.rev = proc[p].rev /\ s.dst = Current
    BY <1>1, PlacesKnown DEF ProcState
<1>3. proc' = [proc EXCEPT ![p] = s]
    BY DEF MirrorInv
<1> HIDE DEF s
<1> QED
    BY <1>2, <1>3, OwnStep, Worker

\* ...with other files to copy, ...
LEMMA TodoStep ==
    ASSUME MirrorInv, NEW p \in Procs, ~Is(p, "idle"), NEW pc \in PC, NEW todo \in SUBSET Entries,
           proc' = [proc EXCEPT ![p].pc = pc, ![p].todo = todo]
    PROVE  proc' \in [Procs -> ProcState] /\ OwnInv'
<1> DEFINE s == [proc[p] EXCEPT !.pc = pc, !.todo = todo]
<1>1. proc[p] \in ProcState
    BY DEF MirrorInv
<1>2. s \in ProcState /\ s.rev = proc[p].rev /\ s.dst = proc[p].dst
    BY <1>1 DEF ProcState
<1>3. proc' = [proc EXCEPT ![p] = s]
    BY DEF MirrorInv
<1> HIDE DEF s
<1> QED
    BY <1>2, <1>3, OwnStep, Worker

\* ...or with a backup to put back.
LEMMA HadStep ==
    ASSUME MirrorInv, NEW p \in Procs, ~Is(p, "idle"), NEW pc \in PC, NEW had \in BOOLEAN,
           proc' = [proc EXCEPT ![p].pc = pc, ![p].had = had]
    PROVE  proc' \in [Procs -> ProcState] /\ OwnInv'
<1> DEFINE s == [proc[p] EXCEPT !.pc = pc, !.had = had]
<1>1. proc[p] \in ProcState
    BY DEF MirrorInv
<1>2. s \in ProcState /\ s.rev = proc[p].rev /\ s.dst = proc[p].dst
    BY <1>1 DEF ProcState
<1>3. proc' = [proc EXCEPT ![p] = s]
    BY DEF MirrorInv
<1> HIDE DEF s
<1> QED
    BY <1>2, <1>3, OwnStep, Worker

\* Every step of every process keeps the invariant.  Only BackUp and Move
\* change the directory of a revision: BackUp takes all of it away, and Move
\* puts the whole bundle there, or nothing if something is there already.
LEMMA MirrorStep ==
    ASSUME MirrorInv, [Next]_vars
    PROVE  MirrorInv'
<1>1. ASSUME UNCHANGED vars PROVE MirrorInv'
    BY <1>1 DEF vars, MirrorInv, TypeOK, OwnInv, RevisionsWhole, Is
<1> SUFFICES ASSUME NEW p \in Procs,
                    \/ \E r \in Revisions : StartRender(p, r) \/ StartRollback(p, r)
                    \/ CheckRevision(p) \/ CleanStage(p) \/ ListRevision(p) \/ Copied(p)
                    \/ \E e \in proc[p].todo : CopyFile(p, e)
                    \/ RemoveBackup(p) \/ BackUp(p) \/ Move(p) \/ MoveFails(p)
                    \/ Promoted(p) \/ Finish(p) \/ Stop(p)
             PROVE  MirrorInv'
    BY <1>1 DEF Next
<1> DEFINE at == proc[p]
<1>t. /\ dirs \in [Places -> SUBSET Entries] /\ promoted \subseteq Revisions
      /\ proc \in [Procs -> ProcState] /\ OwnInv /\ RevisionsWhole
    BY DEF MirrorInv, TypeOK, Entries
\* The process becomes idle.
<1>f. ASSUME proc' = [proc EXCEPT ![p] = Free]
      PROVE  proc' \in [Procs -> ProcState] /\ OwnInv'
    <2>1. Free \in ProcState /\ Free.pc = "idle"
        BY DEF Free, ProcState, PC
    <2> QED
        BY <1>f, <2>1, OwnStep
\* No directory changes.
<1>d. ASSUME UNCHANGED dirs, promoted' \subseteq Revisions,
             proc' \in [Procs -> ProcState], OwnInv'
      PROVE  MirrorInv'
    BY <1>d, <1>t, MirrorParts DEF RevisionsWhole
\* A shared directory changes.
<1>s. ASSUME NEW place \in {Stage, Current} \cup {Backup(q) : q \in Promotable},
             NEW new \in SUBSET Entries, dirs' = [dirs EXCEPT ![place] = new],
             UNCHANGED promoted, proc' \in [Procs -> ProcState], OwnInv'
      PROVE  MirrorInv'
    <2>1. \A r \in Revisions : Revision(r) # place /\ Revision(r) \in Places
        BY PlacesDiffer, PlacesKnown
    <2>2. dirs' \in [Places -> SUBSET Entries]
        BY <1>s, <1>t
    <2>3. RevisionsWhole'
        BY <1>s, <1>t, <2>1, SharedPlacesFree
    <2> QED
        BY <1>s, <1>t, <2>2, <2>3, MirrorParts
<1>2. ASSUME NEW r \in Revisions, StartRender(p, r) \/ StartRollback(p, r) PROVE MirrorInv'
    BY <1>2, StartStep DEF StartRender, StartRollback, PC
<1>3. CASE CheckRevision(p)
    <2>1. ~Is(p, "idle")
        BY <1>3 DEF CheckRevision, Is
    <2>2. PICK pc \in PC : proc' = [proc EXCEPT ![p].pc = pc]
        BY <1>3 DEF CheckRevision, Goto, PC
    <2>3. proc' \in [Procs -> ProcState] /\ OwnInv'
        BY <2>1, <2>2, <1>t, Worker, PcStep
    <2> QED
        BY <1>3, <2>3, <1>d, <1>t DEF CheckRevision
<1>4. CASE CleanStage(p)
    <2>1. ~Is(p, "idle")
        BY <1>4 DEF CleanStage, Is
    <2>2. CASE dirs[Stage] = Absent
        <3>1. proc' = [proc EXCEPT ![p].pc = "list", ![p].dst = Current] /\ UNCHANGED <<dirs, promoted>>
            BY <1>4, <2>2 DEF CleanStage
        <3>2. proc' \in [Procs -> ProcState] /\ OwnInv'
            BY <2>1, <3>1, DstStep DEF PC
        <3> QED
            BY <3>1, <3>2, <1>d, <1>t
    <2>3. CASE dirs[Stage] # Absent
        <3>1. /\ \E e \in Removable(dirs[Stage]) : dirs' = [dirs EXCEPT ![Stage] = @ \ {e}]
              /\ UNCHANGED <<proc, promoted>>
            BY <1>4, <2>3 DEF CleanStage
        <3>2. PICK e : dirs' = [dirs EXCEPT ![Stage] = dirs[Stage] \ {e}]
            BY <3>1, <1>t, PlacesKnown
        <3>3. dirs[Stage] \ {e} \in SUBSET Entries
            BY <1>t, PlacesKnown
        <3> QED
            BY <3>1, <3>2, <3>3, <1>s, <1>t DEF OwnInv, Is
    <2> QED
        BY <2>2, <2>3
<1>5. CASE ListRevision(p)
    <2>1. ~Is(p, "idle")
        BY <1>5 DEF ListRevision, Is
    <2>2. proc[p].rev \in Revisions
        BY <2>1, Worker
    <2> DEFINE todo == dirs[Revision(proc[p].rev)] \ Empty
    <2>3. todo \in SUBSET Entries
        BY <2>2, <1>t, PlacesKnown
    <2>4. /\ proc' = [proc EXCEPT ![p].pc = "copy", ![p].todo = todo]
          /\ dirs' = [dirs EXCEPT ![Stage] = dirs[Stage] \cup Empty]
          /\ UNCHANGED promoted
        BY <1>5, <1>t, PlacesKnown DEF ListRevision
    <2>5. dirs[Stage] \cup Empty \in SUBSET Entries
        BY <2>2, <1>t, PlacesKnown, WholeBundle
    <2>6. proc' \in [Procs -> ProcState] /\ OwnInv'
        <3> HIDE DEF todo
        <3> QED
            BY <2>1, <2>3, <2>4, TodoStep DEF PC
    <2> QED
        BY <2>4, <2>5, <2>6, <1>s
<1>6. CASE Copied(p)
    <2>1. ~Is(p, "idle") /\ proc' = [proc EXCEPT ![p].pc = "drop"] /\ UNCHANGED <<dirs, promoted>>
        BY <1>6 DEF Copied, Is, Goto
    <2>2. proc' \in [Procs -> ProcState] /\ OwnInv'
        BY <2>1, PcStep DEF PC
    <2> QED
        BY <2>1, <2>2, <1>d, <1>t
<1>7. ASSUME NEW e \in proc[p].todo, CopyFile(p, e) PROVE MirrorInv'
    <2>1. Is(p, "copy") /\ ~Is(p, "idle") /\ UNCHANGED promoted
        BY <1>7 DEF CopyFile, Is
    <2> DEFINE todo == proc[p].todo \ {e}
               new == {o \in dirs[Stage] : o[1] # e[1]} \cup {e} \cup Empty
    <2>2. todo \in SUBSET Entries /\ e \in Entries
        BY <2>1, Worker
    <2>3. new \in SUBSET Entries
        BY <2>1, <2>2, <1>t, PlacesKnown, Worker, WholeBundle
    <2>4. proc' = [proc EXCEPT ![p].pc = "copy", ![p].todo = todo]
        BY <2>1, <1>7, <1>t DEF CopyFile, Is, ProcState
    <2>5. dirs' = [dirs EXCEPT ![Stage] = new]
        BY <1>7, <1>t, PlacesKnown DEF CopyFile
    <2> HIDE DEF todo, new
    <2>6. proc' \in [Procs -> ProcState] /\ OwnInv'
        BY <2>1, <2>2, <2>4, TodoStep DEF PC
    <2> QED
        BY <2>1, <2>3, <2>5, <2>6, <1>s
<1>8. CASE RemoveBackup(p)
    <2>1. ~Is(p, "idle")
        BY <1>8 DEF RemoveBackup, Is
    <2> DEFINE bak == Backup(proc[p].dst)
    <2>2. bak \in Places /\ proc[p].dst \in Promotable
        BY <2>1, Worker, PlacesKnown
    <2>3. ASSUME NEW e, dirs' = [dirs EXCEPT ![bak] = @ \ {e}], UNCHANGED <<proc, promoted>>
          PROVE  MirrorInv'
        <3>1. dirs' = [dirs EXCEPT ![bak] = dirs[bak] \ {e}]
            BY <2>2, <2>3, <1>t
        <3>2. dirs[bak] \ {e} \in SUBSET Entries
            BY <2>2, <1>t
        <3> QED
            BY <2>2, <2>3, <3>1, <3>2, <1>s, <1>t DEF OwnInv, Is
    <2>4. ASSUME Goto(p, IF Is(p, "drop") THEN "backup" ELSE "promoted"), UNCHANGED <<dirs, promoted>>
          PROVE  MirrorInv'
        <3>1. PICK pc \in PC : proc' = [proc EXCEPT ![p].pc = pc]
            BY <2>4 DEF Goto, PC
        <3>2. proc' \in [Procs -> ProcState] /\ OwnInv'
            BY <2>1, <3>1, PcStep
        <3> QED
            BY <2>4, <3>2, <1>d, <1>t
    <2> QED
        BY <1>8, <2>3, <2>4 DEF RemoveBackup
<1>9. CASE BackUp(p)
    <2>1. ~Is(p, "idle") /\ UNCHANGED promoted
        BY <1>9 DEF BackUp, Is
    <2> DEFINE dst == proc[p].dst
               bak == Backup(dst)
    <2>2. bak \in Places /\ dst \in Promotable /\ dst \in Places /\ bak # dst
        BY <2>1, Worker, PlacesKnown, PlacesDiffer
    <2>3. CASE dirs[dst] = Absent
        <3>1. UNCHANGED dirs /\ proc' = [proc EXCEPT ![p].pc = "move", ![p].had = FALSE]
            BY <1>9, <2>3 DEF BackUp
        <3>2. proc' \in [Procs -> ProcState] /\ OwnInv'
            BY <2>1, <3>1, HadStep DEF PC
        <3> QED
            BY <2>1, <3>1, <3>2, <1>d, <1>t
    <2>4. CASE dirs[dst] # Absent
        <3>1. /\ dirs' = [dirs EXCEPT ![bak] = dirs[dst], ![dst] = Absent]
              /\ proc' = [proc EXCEPT ![p].pc = "move", ![p].had = TRUE]
            BY <1>9, <2>4 DEF BackUp
        <3>2. proc' \in [Procs -> ProcState] /\ OwnInv'
            BY <2>1, <3>1, HadStep DEF PC
        <3>3. dirs' \in [Places -> SUBSET Entries]
            BY <3>1, <2>2, <1>t DEF Absent
        <3>4. RevisionsWhole'
            <4> SUFFICES ASSUME NEW r \in Revisions
                         PROVE  dirs'[Revision(r)] \in {Absent, Whole(r)}
                BY DEF RevisionsWhole
            <4>1. Revision(r) # bak /\ Revision(r) \in Places
                BY PlacesDiffer, PlacesKnown
            <4>2. dirs'[Revision(r)] \in {dirs[Revision(r)], Absent}
                BY <3>1, <4>1, <2>2, <1>t
            <4> QED
                BY <4>2, <1>t DEF RevisionsWhole
        <3> QED
            BY <2>1, <3>2, <3>3, <3>4, <1>t, MirrorParts
    <2> QED
        BY <2>3, <2>4
<1>10. CASE Move(p)
    <2>1. ~Is(p, "idle") /\ UNCHANGED promoted
        BY <1>10 DEF Move, Is
    <2> DEFINE dst == proc[p].dst
    <2>2. /\ proc[p].rev \in Revisions /\ dst \in {Current, Revision(proc[p].rev)}
          /\ dst \in Places
        BY <2>1, Worker, PlacesKnown
    <2>3. From(p) \in SUBSET Entries
        BY <2>2, <1>t, PlacesKnown, WholeBundle DEF From
    <2>4. dirs' = [place \in Places |->
                      IF place = dst THEN From(p)
                      ELSE IF place = Stage /\ dst = Current THEN Absent
                      ELSE dirs[place]]
        BY <1>10 DEF Move
    <2>5. dirs' \in [Places -> SUBSET Entries]
        BY <2>3, <2>4, <1>t DEF Absent
    <2>6. RevisionsWhole'
        <3> SUFFICES ASSUME NEW r \in Revisions
                     PROVE  dirs'[Revision(r)] \in {Absent, Whole(r)}
            BY DEF RevisionsWhole
        <3>1. Revision(r) # Stage /\ Revision(r) # Current /\ Revision(r) \in Places
            BY PlacesDiffer, PlacesKnown
        <3>2. CASE Revision(r) = dst
            <4>1. r = proc[p].rev
                BY <3>1, <3>2, <2>2, PlacesDiffer
            <4>2. dirs'[Revision(r)] = Whole(r)
                BY <3>1, <3>2, <4>1, <2>4 DEF From
            <4> QED
                BY <4>2
        <3>3. CASE Revision(r) # dst
            BY <3>1, <3>3, <2>4, <1>t DEF RevisionsWhole
        <3> QED
            BY <3>2, <3>3
    <2>7. proc' \in [Procs -> ProcState] /\ OwnInv'
        <3>1. PICK pc \in PC : proc' = [proc EXCEPT ![p].pc = pc]
            BY <1>10 DEF Move, Goto, PC
        <3> QED
            BY <2>1, <3>1, PcStep
    <2> QED
        BY <2>1, <2>5, <2>6, <2>7, <1>t, MirrorParts
<1>11. CASE MoveFails(p)
    <2>1. ~Is(p, "idle") /\ UNCHANGED promoted /\ proc' = [proc EXCEPT ![p] = Free]
        BY <1>11 DEF MoveFails, Is
    <2> DEFINE dst == proc[p].dst
               bak == Backup(dst)
    <2>2. /\ proc[p].rev \in Revisions /\ dst \in {Current, Revision(proc[p].rev)}
          /\ bak \in Places /\ dst \in Places /\ bak # dst
        BY <2>1, Worker, PlacesKnown, PlacesDiffer
    <2>3. proc' \in [Procs -> ProcState] /\ OwnInv'
        BY <2>1, <1>f
    <2>4. CASE proc[p].had /\ Renames(dirs[bak], dirs[dst])
        <3>1. dirs' = [dirs EXCEPT ![dst] = dirs[bak], ![bak] = Absent]
            BY <1>11, <2>4 DEF MoveFails
        <3>2. dst = Current
            <4> SUFFICES ASSUME dst # Current PROVE FALSE
                OBVIOUS
            <4>1. From(p) = Whole(proc[p].rev) /\ ~Renames(From(p), dirs[dst])
                BY <1>11 DEF From, MoveFails
            <4> QED
                BY <4>1, <2>2, <2>4, WholeBundle DEF Renames
        <3>3. dirs' \in [Places -> SUBSET Entries]
            BY <3>1, <2>2, <1>t DEF Absent
        <3>4. \A r \in Revisions : dirs'[Revision(r)] = dirs[Revision(r)]
            BY <3>1, <3>2, <2>2, <1>t, PlacesDiffer, PlacesKnown
        <3> QED
            BY <2>1, <2>3, <3>3, <3>4, <1>t, SharedPlacesFree, MirrorParts
    <2>5. CASE ~(proc[p].had /\ Renames(dirs[bak], dirs[dst]))
        <3>1. UNCHANGED dirs
            BY <1>11, <2>5 DEF MoveFails
        <3> QED
            BY <2>1, <2>3, <3>1, <1>d, <1>t
    <2> QED
        BY <2>4, <2>5
<1>12. CASE Promoted(p)
    <2>1. ~Is(p, "idle") /\ UNCHANGED dirs
        BY <1>12 DEF Promoted, Is
    <2>2. promoted' \subseteq Revisions
        BY <1>12, <2>1, <1>t, Worker DEF Promoted
    <2>3. PICK pc \in PC : proc' = [proc EXCEPT ![p].pc = pc]
        BY <1>12 DEF Promoted, Goto, PC
    <2>4. proc' \in [Procs -> ProcState] /\ OwnInv'
        BY <2>1, <2>3, PcStep
    <2> QED
        BY <2>1, <2>2, <2>4, <1>d
<1>13. CASE Finish(p) \/ Stop(p)
    BY <1>13, <1>f, <1>d, <1>t DEF Finish, Stop
<1> QED
    BY <1>2, <1>3, <1>4, <1>5, <1>6, <1>7, <1>8, <1>9, <1>10, <1>11, <1>12, <1>13

(* The directory of a revision is absent or has the whole bundle of that    *)
(* revision, for any number of processes that render, mirror and roll back   *)
(* without a lock, and wherever they are stopped: what materializeBundle     *)
(* promises to a rollback that reads the revision much later.                *)
THEOREM RevisionsAlwaysWhole == Spec => []RevisionsWhole
<1>1. MirrorInv => RevisionsWhole
    BY DEF MirrorInv
<1> QED
    BY <1>1, MirrorStart, MirrorStep, PTL DEF Spec

-----------------------------------------------------------------------------
(* One process. *)

\* Only the part of the invariant that its directories and its step are about
\* has to be shown again for what the other parts leave alone.
LEMMA AloneParts ==
    ASSUME NEW agent, Procs = {agent}, MirrorInv', AloneAt(agent)', CurrentWhole', RecordedKept'
    PROVE  AloneInv'
BY DEF AloneInv

\* What is recorded and current does not depend on the stage and the backups.
LEMMA PrivatePlacesFree ==
    ASSUME AloneInv, UNCHANGED promoted,
           NEW q \in {Stage} \cup {Backup(place) : place \in Promotable}, NEW new,
           dirs' = [dirs EXCEPT ![q] = new]
    PROVE  /\ CurrentWhole' /\ RecordedKept'
           /\ dirs'[Current] = dirs[Current]
           /\ \A r \in Revisions : dirs'[Revision(r)] = dirs[Revision(r)]
           /\ q # Stage => dirs'[Stage] = dirs[Stage]
           /\ q # Backup(Current) => dirs'[Backup(Current)] = dirs[Backup(Current)]
<1>1. dirs \in [Places -> SUBSET Entries] /\ promoted \subseteq Revisions
    BY DEF AloneInv, MirrorInv, TypeOK, Entries
<1>2. Current # q /\ \A r : Revision(r) # q
    BY PlacesDiffer
<1>3. /\ dirs'[Current] = dirs[Current]
      /\ \A r \in Revisions : dirs'[Revision(r)] = dirs[Revision(r)]
      /\ q # Stage => dirs'[Stage] = dirs[Stage]
      /\ q # Backup(Current) => dirs'[Backup(Current)] = dirs[Backup(Current)]
    BY <1>1, <1>2, PlacesKnown
<1>4. CurrentWhole' /\ RecordedKept'
    BY <1>1, <1>3 DEF AloneInv, CurrentWhole, RecordedKept
<1> QED
    BY <1>3, <1>4

\* The start: nothing is recorded and the one process is idle.
LEMMA AloneStart ==
    ASSUME NEW agent, Procs = {agent}
    PROVE  Init => AloneInv
<1> SUFFICES ASSUME Init PROVE AloneInv
    OBVIOUS
<1>1. proc[agent] = Free /\ promoted = {} /\ dirs[Current] = Absent
    BY PlacesKnown DEF Init
<1>2. AloneAt(agent)
    BY <1>1 DEF AloneAt, Free, Is
<1> QED
    BY <1>1, <1>2, MirrorStart DEF AloneInv, CurrentWhole, RecordedKept

\* Every step of the one process keeps what its directories hold.
LEMMA AloneStep ==
    ASSUME NEW agent, Procs = {agent}, AloneInv, [Next]_vars
    PROVE  AloneInv'
<1>m. MirrorInv /\ MirrorInv'
    BY MirrorStep DEF AloneInv
<1>1. ASSUME UNCHANGED vars PROVE AloneInv'
    BY <1>1, <1>m DEF vars, AloneInv, AloneAt, CurrentWhole, RecordedKept, Is
<1> DEFINE p == agent
           r == proc[agent].rev
           dst == proc[agent].dst
<1> SUFFICES ASSUME \/ \E rev \in Revisions : StartRender(p, rev) \/ StartRollback(p, rev)
                    \/ CheckRevision(p) \/ CleanStage(p) \/ ListRevision(p) \/ Copied(p)
                    \/ \E e \in proc[p].todo : CopyFile(p, e)
                    \/ RemoveBackup(p) \/ BackUp(p) \/ Move(p) \/ MoveFails(p)
                    \/ Promoted(p) \/ Finish(p) \/ Stop(p)
             PROVE  AloneInv'
    BY <1>1 DEF Next
<1>t. /\ dirs \in [Places -> SUBSET Entries] /\ promoted \subseteq Revisions
      /\ proc \in [Procs -> ProcState] /\ RevisionsWhole
      /\ p \in Procs /\ proc[p] \in ProcState
      /\ AloneAt(p) /\ CurrentWhole /\ RecordedKept
    BY <1>m DEF AloneInv, MirrorInv, TypeOK, Entries
<1>w. ~Is(p, "idle") => r \in Revisions /\ dst \in {Current, Revision(r)} /\ dst \in Promotable
    BY <1>m, <1>t, Worker
<1>r. r \in Revisions => Revision(r) # Current /\ Revision(r) # Stage
    BY PlacesDiffer
\* An idle process leaves the directories to nobody.
<1>i. ASSUME proc' = [proc EXCEPT ![p] = Free], CurrentWhole', RecordedKept' PROVE AloneInv'
    <2>1. proc'[p] = Free
        BY <1>i, <1>t
    <2>2. AloneAt(p)'
        BY <2>1 DEF AloneAt, Free, Is
    <2> QED
        BY <1>i, <1>m, <2>2, AloneParts
\* Directories and document stay as they are.
<1>d. ASSUME UNCHANGED <<dirs, promoted>>, AloneAt(p)' PROVE AloneInv'
    BY <1>d, <1>t, <1>m, AloneParts DEF CurrentWhole, RecordedKept
<1>2. ASSUME NEW rev \in Revisions, StartRender(p, rev) \/ StartRollback(p, rev) PROVE AloneInv'
    <2>1. UNCHANGED <<dirs, promoted>>
        BY <1>2 DEF StartRender, StartRollback, Start
    <2>2. CASE StartRender(p, rev)
        <3>1. proc'[p].pc = "check" /\ proc'[p].rev = rev /\ proc'[p].dst = Revision(rev)
            BY <2>2, <1>t DEF StartRender, Start, Free
        <3>2. AloneAt(p)'
            BY <3>1 DEF AloneAt, Is
        <3> QED
            BY <2>1, <3>2, <1>d
    <2>3. CASE StartRollback(p, rev)
        <3>1. proc'[p].pc = "clean" /\ proc'[p].rev = rev
            BY <2>3, <1>t DEF StartRollback, Start, Free
        <3>2. dirs'[Revision(rev)] = Whole(rev)
            BY <2>1, <2>3, <1>t DEF StartRollback, RecordedKept
        <3>3. AloneAt(p)'
            BY <3>1, <3>2 DEF AloneAt, Is
        <3> QED
            BY <2>1, <3>3, <1>d
    <2> QED
        BY <1>2, <2>2, <2>3
<1>3. CASE CheckRevision(p)
    <2>1. Is(p, "check") /\ UNCHANGED <<dirs, promoted>> /\ r \in Revisions
        BY <1>3, <1>w DEF CheckRevision, Is
    <2>2. dirs[Revision(r)] \in {Absent, Whole(r)}
        BY <2>1, <1>t DEF RevisionsWhole
    <2>3. /\ proc'[p].pc = IF dirs[Revision(r)] # Absent THEN "clean" ELSE "drop"
          /\ proc'[p].rev = r /\ proc'[p].dst = dst
        BY <1>3, <1>t DEF CheckRevision, Goto, ProcState
    <2>4. dst = Revision(r)
        BY <2>1, <1>t DEF AloneAt, Is
    <2>5. AloneAt(p)'
        BY <2>1, <2>2, <2>3, <2>4, <1>r DEF AloneAt, Is
    <2> QED
        BY <2>1, <2>5, <1>d
<1>4. CASE CleanStage(p)
    <2>1. Is(p, "clean") /\ UNCHANGED promoted /\ r \in Revisions
        BY <1>4, <1>w DEF CleanStage, Is
    <2>2. dirs[Revision(r)] = Whole(r)
        BY <2>1, <1>t DEF AloneAt, Is
    <2>3. CASE dirs[Stage] = Absent
        <3>1. UNCHANGED dirs /\ proc' = [proc EXCEPT ![p].pc = "list", ![p].dst = Current]
            BY <1>4, <2>3 DEF CleanStage
        <3>2. proc'[p].pc = "list" /\ proc'[p].dst = Current /\ proc'[p].rev = r
            BY <3>1, <1>t DEF ProcState
        <3>3. AloneAt(p)'
            BY <2>2, <2>3, <3>1, <3>2, <1>r DEF AloneAt, Is
        <3> QED
            BY <2>1, <3>1, <3>3, <1>d
    <2>4. CASE dirs[Stage] # Absent
        <3>1. UNCHANGED proc /\ \E e : dirs' = [dirs EXCEPT ![Stage] = @ \ {e}]
            BY <1>4, <2>4 DEF CleanStage
        <3>2. PICK new : dirs' = [dirs EXCEPT ![Stage] = new]
            BY <3>1, <1>t
        <3>3. CurrentWhole' /\ RecordedKept' /\ dirs'[Revision(r)] = dirs[Revision(r)]
            BY <2>1, <3>2, PrivatePlacesFree
        <3>4. AloneAt(p)'
            BY <2>1, <2>2, <3>1, <3>3, <1>t DEF AloneAt, Is
        <3> QED
            BY <1>m, <3>3, <3>4, AloneParts
    <2> QED
        BY <2>3, <2>4
<1>5. CASE ListRevision(p)
    <2>1. Is(p, "list") /\ UNCHANGED promoted /\ r \in Revisions
        BY <1>5, <1>w DEF ListRevision, Is
    <2>2. dirs[Revision(r)] = Whole(r) /\ dirs[Stage] = Absent /\ dst = Current
        BY <2>1, <1>t DEF AloneAt, Is
    <2>3. dirs' = [dirs EXCEPT ![Stage] = dirs[Stage] \cup Empty]
        BY <1>5, <1>t DEF ListRevision
    <2>4. CurrentWhole' /\ RecordedKept' /\ dirs'[Revision(r)] = dirs[Revision(r)]
        BY <2>1, <2>3, PrivatePlacesFree
    <2>5. dirs'[Stage] = Empty
        BY <2>2, <2>3, <1>t, PlacesKnown DEF Absent
    <2>6. /\ proc'[p].pc = "copy" /\ proc'[p].todo = Whole(r) \ Empty
          /\ proc'[p].dst = Current /\ proc'[p].rev = r
        BY <1>5, <1>t, <2>2 DEF ListRevision, ProcState
    <2>7. AloneAt(p)'
        <3>1. /\ dirs'[Stage] \cup proc'[p].todo = Whole(r)
              /\ Root \in dirs'[Stage] /\ Root \notin proc'[p].todo
            BY <2>1, <2>5, <2>6, WholeBundle DEF Empty
        <3> QED
            BY <2>2, <2>4, <2>6, <3>1, <1>r, <2>1 DEF AloneAt, Is
    <2> QED
        BY <1>m, <2>4, <2>7, AloneParts
<1>6. CASE Copied(p)
    <2>1. Is(p, "copy") /\ UNCHANGED <<dirs, promoted>> /\ r \in Revisions /\ proc[p].todo = {}
        BY <1>6, <1>w DEF Copied, Is
    <2>2. dirs[Revision(r)] = Whole(r) /\ dirs[Stage] = Whole(r) /\ dst = Current
        BY <2>1, <1>t DEF AloneAt, Is
    <2>3. proc'[p].pc = "drop" /\ proc'[p].rev = r /\ proc'[p].dst = Current
        BY <1>6, <1>t, <2>2 DEF Copied, Goto, ProcState
    <2>4. AloneAt(p)'
        BY <2>1, <2>2, <2>3, <1>r DEF AloneAt, Is
    <2> QED
        BY <2>1, <2>4, <1>d
<1>7. ASSUME NEW e \in proc[p].todo, CopyFile(p, e) PROVE AloneInv'
    <2>1. Is(p, "copy") /\ UNCHANGED promoted /\ r \in Revisions
        BY <1>7, <1>w DEF CopyFile, Is
    <2>2. /\ dirs[Revision(r)] = Whole(r) /\ dst = Current
          /\ dirs[Stage] \cup proc[p].todo = Whole(r) /\ Root \notin proc[p].todo
        BY <2>1, <1>t DEF AloneAt, Is
    <2> DEFINE new == {o \in dirs[Stage] : o[1] # e[1]} \cup {e} \cup Empty
               todo == proc[p].todo \ {e}
    <2>3. new \cup todo = Whole(r) /\ Root \in new /\ Root \notin todo
        <3>1. e \in Whole(r) /\ Empty \subseteq Whole(r) /\ Root \in new
            BY <2>1, <2>2, WholeBundle DEF Empty
        <3>2. ASSUME NEW o \in dirs[Stage], o[1] = e[1] PROVE o \in new
            <4>1. o \in Whole(r) /\ e # Root
                BY <2>2
            <4> QED
                BY <3>1, <3>2, <4>1, SameName
        <3> QED
            BY <2>2, <3>1, <3>2
    <2>4. dirs' = [dirs EXCEPT ![Stage] = new]
        BY <1>7, <1>t, PlacesKnown DEF CopyFile
    <2>5. /\ proc'[p].pc = "copy" /\ proc'[p].rev = r /\ proc'[p].dst = Current
          /\ proc'[p].todo = todo
        BY <1>7, <1>t, <2>1, <2>2 DEF CopyFile, ProcState, Is
    <2> HIDE DEF new, todo
    <2>6. CurrentWhole' /\ RecordedKept' /\ dirs'[Revision(r)] = dirs[Revision(r)]
        BY <2>1, <2>4, PrivatePlacesFree
    <2>7. dirs'[Stage] = new
        BY <2>4, <1>t, PlacesKnown
    <2>8. AloneAt(p)'
        BY <2>1, <2>2, <2>3, <2>5, <2>6, <2>7, <1>r DEF AloneAt, Is
    <2> QED
        BY <1>m, <2>6, <2>8, AloneParts
<1>8. CASE RemoveBackup(p)
    <2>1. proc[p].pc \in {"drop", "cleanup"} /\ ~Is(p, "idle") /\ r \in Revisions
        BY <1>8, <1>w DEF RemoveBackup, Is
    <2> DEFINE bak == Backup(dst)
    <2>2. dst \in {Current, Revision(r)} /\ dst \in Promotable /\ UNCHANGED promoted
        BY <2>1, <1>8, <1>w DEF RemoveBackup
    <2>3. ASSUME NEW e, dirs' = [dirs EXCEPT ![bak] = @ \ {e}], UNCHANGED proc PROVE AloneInv'
        <3>1. PICK new : dirs' = [dirs EXCEPT ![bak] = new]
            BY <2>3, <1>t
        <3>2. bak \in {Stage} \cup {Backup(place) : place \in Promotable} /\ bak # Stage
            BY <2>2, PlacesDiffer
        <3>3. /\ CurrentWhole' /\ RecordedKept' /\ dirs'[Revision(r)] = dirs[Revision(r)]
              /\ dirs'[Current] = dirs[Current] /\ dirs'[Stage] = dirs[Stage]
            BY <2>1, <2>2, <3>1, <3>2, PrivatePlacesFree
        <3>4. AloneAt(p)'
            BY <2>1, <2>3, <3>3, <1>t DEF AloneAt, Is
        <3> QED
            BY <1>m, <3>3, <3>4, AloneParts
    <2>4. ASSUME Goto(p, IF Is(p, "drop") THEN "backup" ELSE "promoted"), UNCHANGED dirs
          PROVE  AloneInv'
        <3>1. /\ proc'[p].pc = IF Is(p, "drop") THEN "backup" ELSE "promoted"
              /\ proc'[p].rev = r /\ proc'[p].dst = dst
            BY <2>4, <1>t DEF Goto, ProcState
        <3>2. AloneAt(p)'
            BY <2>1, <2>2, <2>4, <3>1, <1>r, <1>t DEF AloneAt, Is
        <3> QED
            BY <2>2, <2>4, <3>2, <1>d
    <2> QED
        BY <1>8, <2>3, <2>4 DEF RemoveBackup
<1>9. CASE BackUp(p)
    <2>1. Is(p, "backup") /\ UNCHANGED promoted /\ r \in Revisions
        BY <1>9, <1>w DEF BackUp, Is
    <2> DEFINE bak == Backup(dst)
    <2>2. CASE dirs[dst] = Absent
        <3>1. UNCHANGED dirs /\ proc' = [proc EXCEPT ![p].pc = "move", ![p].had = FALSE]
            BY <1>9, <2>2 DEF BackUp
        <3>2. /\ proc'[p].pc = "move" /\ proc'[p].had = FALSE
              /\ proc'[p].rev = r /\ proc'[p].dst = dst
            BY <3>1, <1>t DEF ProcState
        <3>3. AloneAt(p)'
            BY <2>1, <3>1, <3>2, <1>t DEF AloneAt, Is
        <3> QED
            BY <2>1, <3>1, <3>3, <1>d
    <2>3. CASE dirs[dst] # Absent
        <3>1. /\ dirs' = [dirs EXCEPT ![bak] = dirs[dst], ![dst] = Absent]
              /\ proc' = [proc EXCEPT ![p].pc = "move", ![p].had = TRUE]
            BY <1>9, <2>3 DEF BackUp
        <3>2. dst = Current
            BY <2>1, <2>3, <1>t, <1>w DEF AloneAt, Is
        <3>3. dirs[Current] \in Wholes
            BY <2>3, <3>2, <1>t DEF CurrentWhole, Wholes
        <3>4. /\ dirs'[Backup(Current)] = dirs[Current] /\ dirs'[Current] = Absent
              /\ dirs'[Stage] = dirs[Stage]
              /\ \A s \in Revisions : dirs'[Revision(s)] = dirs[Revision(s)]
            BY <3>1, <3>2, <1>t, PlacesKnown, PlacesDiffer
        <3>5. /\ proc'[p].pc = "move" /\ proc'[p].rev = r /\ proc'[p].dst = Current
            BY <3>1, <3>2, <1>t DEF ProcState
        <3>6. AloneAt(p)'
            BY <2>1, <3>2, <3>3, <3>4, <3>5, <1>t, <1>r DEF AloneAt, Is, Wholes
        <3>7. CurrentWhole' /\ RecordedKept'
            BY <2>1, <3>4, <1>t DEF CurrentWhole, RecordedKept
        <3> QED
            BY <1>m, <3>6, <3>7, AloneParts
    <2> QED
        BY <2>2, <2>3
<1>10. CASE Move(p)
    <2>1. Is(p, "move") /\ UNCHANGED promoted /\ r \in Revisions /\ dst \in {Current, Revision(r)}
        BY <1>10, <1>w DEF Move, Is
    <2>2. dirs' = [place \in Places |->
                      IF place = dst THEN From(p)
                      ELSE IF place = Stage /\ dst = Current THEN Absent
                      ELSE dirs[place]]
        BY <1>10 DEF Move
    <2>3. /\ proc'[p].pc = IF proc[p].had THEN "cleanup" ELSE "promoted"
          /\ proc'[p].rev = r /\ proc'[p].dst = dst
        BY <1>10, <1>t DEF Move, Goto, ProcState
    <2>4. CASE dst = Current
        <3>1. From(p) = Whole(r) /\ dirs[Revision(r)] = Whole(r)
            BY <2>1, <2>4, <1>t DEF From, AloneAt, Is
        <3>2. /\ dirs'[Current] = Whole(r)
              /\ \A s \in Revisions : dirs'[Revision(s)] = dirs[Revision(s)]
            BY <2>2, <2>4, <3>1, PlacesKnown, PlacesDiffer
        <3>3. CurrentWhole' /\ RecordedKept'
            BY <2>1, <3>2, <1>t DEF CurrentWhole, RecordedKept
        <3>4. AloneAt(p)'
            BY <2>1, <2>3, <2>4, <3>1, <3>2, <1>r DEF AloneAt, Is
        <3> QED
            BY <1>m, <3>3, <3>4, AloneParts
    <2>5. CASE dst = Revision(r)
        <3>1. ~proc[p].had /\ From(p) = Whole(r) /\ dst # Current
            BY <2>1, <2>5, <1>t, <1>r DEF From, AloneAt, Is
        <3>2. /\ dirs'[Revision(r)] = Whole(r) /\ dirs'[Current] = dirs[Current]
              /\ \A s \in Revisions : s # r => dirs'[Revision(s)] = dirs[Revision(s)]
            BY <2>1, <2>2, <2>5, <3>1, PlacesKnown, PlacesDiffer
        <3>3. CurrentWhole' /\ RecordedKept'
            BY <2>1, <3>2, <1>t DEF CurrentWhole, RecordedKept
        <3>4. AloneAt(p)'
            BY <2>1, <2>3, <2>5, <3>1, <3>2, <1>r DEF AloneAt, Is
        <3> QED
            BY <1>m, <3>3, <3>4, AloneParts
    <2> QED
        BY <2>1, <2>4, <2>5
<1>11. CASE MoveFails(p)
    <2>1. /\ Is(p, "move") /\ UNCHANGED promoted /\ proc' = [proc EXCEPT ![p] = Free]
          /\ dst \in Promotable
        BY <1>11, <1>w DEF MoveFails, Is
    <2> DEFINE bak == Backup(dst)
    <2>2. CASE proc[p].had /\ Renames(dirs[bak], dirs[dst])
        <3>1. dirs' = [dirs EXCEPT ![dst] = dirs[bak], ![bak] = Absent]
            BY <1>11, <2>2 DEF MoveFails
        <3>2. dst = Current /\ dirs[Backup(Current)] \in Wholes
            BY <2>1, <2>2, <1>t DEF AloneAt, Is
        <3>3. /\ dirs'[Current] = dirs[Backup(Current)]
              /\ \A s \in Revisions : dirs'[Revision(s)] = dirs[Revision(s)]
            BY <3>1, <3>2, <1>t, PlacesKnown, PlacesDiffer
        <3>4. CurrentWhole' /\ RecordedKept'
            BY <2>1, <3>2, <3>3, <1>t DEF CurrentWhole, RecordedKept, Wholes
        <3> QED
            BY <2>1, <3>4, <1>i
    <2>3. CASE ~(proc[p].had /\ Renames(dirs[bak], dirs[dst]))
        <3>1. UNCHANGED dirs
            BY <1>11, <2>3 DEF MoveFails
        <3> QED
            BY <2>1, <3>1, <1>i, <1>t DEF CurrentWhole, RecordedKept
    <2> QED
        BY <2>2, <2>3
<1>12. CASE Promoted(p)
    <2>1. Is(p, "promoted") /\ UNCHANGED dirs /\ r \in Revisions /\ dst \in {Current, Revision(r)}
        BY <1>12, <1>w DEF Promoted, Is
    <2>2. dirs[Revision(r)] = Whole(r) /\ (dst = Current => dirs[Current] = Whole(r))
        BY <2>1, <1>t DEF AloneAt, Is
    <2>3. promoted' = IF dst = Current THEN promoted \cup {r} ELSE promoted
        BY <1>12 DEF Promoted
    <2>4. proc'[p].pc = (IF dst = Current THEN "done" ELSE "clean") /\ proc'[p].rev = r
        BY <1>12, <1>t DEF Promoted, Goto, ProcState
    <2>5. CurrentWhole' /\ RecordedKept'
        BY <2>1, <2>2, <2>3, <1>t DEF CurrentWhole, RecordedKept
    <2>6. AloneAt(p)'
        BY <2>1, <2>2, <2>4 DEF AloneAt, Is
    <2> QED
        BY <1>m, <2>5, <2>6, AloneParts
<1>13. CASE Finish(p) \/ Stop(p)
    <2>1. proc' = [proc EXCEPT ![p] = Free] /\ UNCHANGED <<dirs, promoted>>
        BY <1>13 DEF Finish, Stop
    <2> QED
        BY <2>1, <1>i, <1>t DEF CurrentWhole, RecordedKept
<1> QED
    BY <1>2, <1>3, <1>4, <1>5, <1>6, <1>7, <1>8, <1>9, <1>10, <1>11, <1>12, <1>13

(* One process, killed or failing at any file of any promotion: the current  *)
(* bundle is absent or whole, a render or rollback that reports success      *)
(* leaves its own bundle current, and what the document records stays where  *)
(* a rollback looks for it - promoteBundle's backup and renames.             *)
THEOREM OneProcessIsSafe ==
    ASSUME NEW agent, Procs = {agent}
    PROVE  Spec => [](CurrentWhole /\ DoneIsCurrent /\ RecordedKept)
<1>1. AloneInv => CurrentWhole /\ DoneIsCurrent /\ RecordedKept
    BY DEF AloneInv, AloneAt, DoneIsCurrent, Is
<1>2. Init => AloneInv
    BY AloneStart
<1>3. AloneInv /\ [Next]_vars => AloneInv'
    BY AloneStep
<1> QED
    BY <1>1, <1>2, <1>3, PTL DEF Spec

(* The same for the machine of the suite, beside those that share nothing    *)
(* with it: what RevisionBundlePath, CurrentBundlePath and their backups hold *)
(* while one process runs promoteBundle and mirrorBundle.                    *)
THEOREM AloneIsSound ==
    ASSUME NEW agent, Procs = {agent}
    PROVE  MCSpec => []AloneSound
<1> DEFINE Inv == machine = "alone" => AloneInv
<1>1. MCInit => Inv
    BY AloneStart DEF MCInit
<1>2. Inv /\ [MCNext]_allVars => Inv'
    <2> SUFFICES ASSUME Inv, [MCNext]_allVars, machine' = "alone" PROVE AloneInv'
        OBVIOUS
    <2>1. machine = "alone" /\ [Next]_vars
        BY DEF MCNext, allVars
    <2> QED
        BY <2>1, AloneStep
<1>3. Inv => AloneSound
    BY DEF AloneInv, MirrorInv, AloneAt, DoneIsCurrent, Is, AloneSound
<1> QED
    BY <1>1, <1>2, <1>3, PTL DEF MCSpec

-----------------------------------------------------------------------------
(* The package cache. *)

CachePC == {"idle", "load", "clear", "mount", "copy", "replace", "install",
            "render", "files", "done"}

CacheState == [pc : CachePC, digest : Digests \cup {Cache!None}, tmp : SUBSET Cache!Files,
               todo : SUBSET Cache!Files, copied : SUBSET Cache!Files]

\* What a process has so far: a pull that is about to install, the whole of the
\* package; a render, all that it has not still to copy, unless the entry was
\* taken apart.
WorkOK(st) ==
    /\ st.pc # "idle" => st.digest \in Digests
    /\ st.pc \in {"replace", "install"} => st.tmp = Cache!Files
    /\ st.digest \notin torn =>
          /\ st.pc = "files" => st.todo \cup st.copied = Cache!Files
          /\ st.pc = "done" => st.copied = Cache!Files

(***************************************************************************)
(* Renders that share packages, and collections of valid entries too: an   *)
(* entry appears as a whole, and before a file is taken from it it loads,  *)
(* so that one that was never torn is absent or whole.                     *)
(***************************************************************************)
CacheInv ==
    /\ cache \in [Digests -> SUBSET Cache!Files]
    /\ \A d \in Digests \ torn : cache[d] \in {{}, Cache!Files}
    /\ renderer \in [CacheProcs -> CacheState]
    /\ \A p \in CacheProcs : WorkOK(renderer[p])

\* A whole entry loads, an absent one does not and has nothing to remove.
LEMMA EntryLoads ==
    /\ Cache!Loads(Cache!Files) /\ ~Cache!Loads({})
    /\ Cache!Removable({}) = {}
BY DEF Cache!Loads, Cache!Files, Cache!Removable, Cache!Listing

\* The start: nothing is cached, nobody works.
LEMMA CacheStart == Cache!Init => CacheInv
BY DEF Cache!Init, Cache!Free, CacheInv, CacheState, CachePC, WorkOK

\* A step of one process that leaves the entries alone.
LEMMA CacheWork ==
    ASSUME CacheInv, NEW p \in CacheProcs, NEW s \in CacheState,
           renderer' = [renderer EXCEPT ![p] = s], UNCHANGED <<cache, torn>>, WorkOK(s)
    PROVE  CacheInv'
BY DEF CacheInv, WorkOK

\* A file is removed from an entry: it is torn if it loaded, and it did, or was
\* torn before.
LEMMA CacheRemove ==
    ASSUME CacheInv, NEW d \in Digests, NEW f \in Cache!Removable(cache[d]), Cache!Remove(d, f),
           renderer' = renderer
    PROVE  CacheInv'
<1>1. torn \subseteq torn' /\ d \in torn'
    BY EntryLoads DEF Cache!Remove, CacheInv
<1>2. cache' \in [Digests -> SUBSET Cache!Files] /\ \A o \in Digests : o # d => cache'[o] = cache[o]
    BY DEF Cache!Remove, CacheInv
<1>3. \A o \in Digests \ torn' : cache'[o] \in {{}, Cache!Files}
    BY <1>1, <1>2 DEF CacheInv
<1>4. \A q \in CacheProcs : WorkOK(renderer[q])'
    BY <1>1 DEF CacheInv, WorkOK
<1> QED
    BY <1>2, <1>3, <1>4 DEF CacheInv

\* A render: its steps, its end and its failures.
LEMMA CacheRenderStep ==
    ASSUME CacheInv, NEW p \in CacheProcs,
           Cache!ProcStep(p) \/ Cache!Fail(p) \/ Cache!Kill(p)
    PROVE  CacheInv'
<1> DEFINE st == renderer[p]
           e  == cache[renderer[p].digest]
<1>r. st \in CacheState /\ WorkOK(st) /\ e = Cache!Entry(p)
    BY DEF CacheInv, Cache!Entry
<1>f. Cache!Free \in CacheState /\ WorkOK(Cache!Free)
    BY DEF Cache!Free, CacheState, CachePC, WorkOK
<1>g. ASSUME NEW to \in CachePC, st.pc # "idle", Cache!Goto(p, to), UNCHANGED <<cache, torn>>,
             to \in {"replace", "install"} => st.tmp = Cache!Files,
             to = "done" => st.pc = "files" /\ st.todo = {}, to # "files"
      PROVE  CacheInv'
    <2> DEFINE s == [st EXCEPT !.pc = to]
    <2>1. renderer' = [renderer EXCEPT ![p] = s]
        BY <1>g DEF Cache!Goto
    <2>2. s \in CacheState /\ s.pc = to /\ s.digest = st.digest /\ s.tmp = st.tmp
          /\ s.copied = st.copied
        BY <1>r DEF CacheState
    <2>3. WorkOK(s)
        BY <1>g, <1>r, <2>2 DEF WorkOK
    <2> HIDE DEF s
    <2> QED
        BY <1>g, <2>1, <2>2, <2>3, CacheWork
<1>1. CASE Cache!Load(p) \/ Cache!Mount(p)
    <2>1. PICK to \in {"render", "clear", "copy"} : Cache!Goto(p, to)
        BY <1>1 DEF Cache!Load, Cache!Mount
    <2> QED
        BY <1>1, <2>1, <1>g DEF Cache!Load, Cache!Mount, Cache!Is, Cache!Others, CachePC
<1>2. CASE Cache!Cleared(p)
    <2>1. PICK to \in {"mount", "install"} :
              Cache!Goto(p, to) /\ (to = "install" => st.pc = "replace")
        BY <1>2 DEF Cache!Cleared, Cache!Is
    <2>2. to = "install" => st.tmp = Cache!Files
        BY <2>1, <1>r DEF WorkOK
    <2> QED
        BY <1>2, <2>1, <2>2, <1>g DEF Cache!Cleared, Cache!Is, Cache!Others, CachePC
<1>3. CASE Cache!Check(p)
    BY <1>3, <1>g DEF Cache!Check, Cache!Is, Cache!Others, CachePC
<1>4. CASE Cache!Rendered(p)
    BY <1>4, <1>g DEF Cache!Rendered, Cache!Is, Cache!Others, CachePC
<1>5. CASE Cache!Install(p)
    <2> DEFINE s == [st EXCEPT !.pc = "render", !.tmp = {}]
    <2>1. st.pc = "install" /\ renderer' = [renderer EXCEPT ![p] = s] /\ torn' = torn
        BY <1>5 DEF Cache!Install, Cache!Is
    <2>2. cache' = [cache EXCEPT ![st.digest] = Cache!Files] /\ st.digest \in Digests
        BY <1>5, <1>r, <2>1 DEF Cache!Install, WorkOK
    <2>3. s \in CacheState /\ WorkOK(s)
        BY <1>r, <2>1, <2>2 DEF CacheState, CachePC, WorkOK
    <2> HIDE DEF s
    <2> QED
        BY <2>1, <2>2, <2>3 DEF CacheInv, WorkOK
<1>6. CASE Cache!Enter(p)
    <2> DEFINE s == [st EXCEPT !.pc = "files", !.todo = Cache!Listing(e), !.copied = {"manifest", "dir"}]
    <2>1. st.pc = "render" /\ renderer' = [renderer EXCEPT ![p] = s] /\ {"manifest", "dir"} \subseteq e
        BY <1>6 DEF Cache!Enter, Cache!Is, Cache!Entry
    <2>2. st.digest \in Digests /\ (st.digest \notin torn => e = Cache!Files)
        BY <2>1, <1>r DEF WorkOK, CacheInv
    <2>3. s \in CacheState /\ s.digest = st.digest /\ s.pc = "files"
          /\ s.todo = e \cap Leaves /\ s.copied = {"manifest", "dir"}
        BY <1>r, <2>2 DEF CacheState, CachePC, CacheInv, Cache!Files, Cache!Listing
    <2>4. WorkOK(s)
        BY <2>2, <2>3 DEF WorkOK, Cache!Files
    <2>5. UNCHANGED <<cache, torn>>
        BY <1>6 DEF Cache!Enter, Cache!Others
    <2> HIDE DEF s
    <2> QED
        BY <2>1, <2>3, <2>4, <2>5, CacheWork
<1>7. CASE Cache!Finish(p) \/ Cache!GiveUp(p) \/ Cache!Fail(p) \/ Cache!Kill(p)
    <2>1. renderer' = [renderer EXCEPT ![p] = Cache!Free] /\ UNCHANGED <<cache, torn>>
        BY <1>7 DEF Cache!Finish, Cache!GiveUp, Cache!Fail, Cache!Kill, Cache!Others
    <2> QED
        BY <2>1, <1>f, CacheWork
<1>8. ASSUME NEW f \in Cache!Files, Cache!RemoveFile(p, f) PROVE CacheInv'
    <2>1. st.digest \in Digests
        BY <1>8, <1>r DEF Cache!RemoveFile, WorkOK
    <2> QED
        BY <1>8, <2>1, CacheRemove DEF Cache!RemoveFile, Cache!Entry
<1>9. ASSUME NEW f \in Cache!Files, Cache!CopyFile(p, f) PROVE CacheInv'
    <2> DEFINE s == [st EXCEPT !.tmp = st.tmp \cup {f}]
    <2>1. st.pc = "copy" /\ renderer' = [renderer EXCEPT ![p] = s] /\ UNCHANGED <<cache, torn>>
        BY <1>9 DEF Cache!CopyFile, Cache!Is, Cache!Others
    <2>2. s \in CacheState /\ s.digest = st.digest /\ s.pc = "copy"
        BY <1>r, <2>1, <1>9 DEF CacheState
    <2>3. WorkOK(s)
        BY <2>1, <2>2, <1>r DEF WorkOK
    <2> HIDE DEF s
    <2> QED
        BY <2>1, <2>2, <2>3, CacheWork
<1>10. ASSUME NEW f \in Cache!Files, Cache!Render(p, f) PROVE CacheInv'
    <2> DEFINE s == [st EXCEPT !.todo = st.todo \ {f}, !.copied = st.copied \cup {f}]
    <2>1. st.pc = "files" /\ renderer' = [renderer EXCEPT ![p] = s] /\ UNCHANGED <<cache, torn>>
        BY <1>10 DEF Cache!Render, Cache!Is, Cache!Others
    <2>2. s \in CacheState /\ s.digest = st.digest /\ s.pc = "files"
          /\ s.todo = st.todo \ {f} /\ s.copied = st.copied \cup {f}
        BY <1>r, <2>1, <1>10 DEF CacheState
    <2>3. WorkOK(s)
        BY <2>1, <2>2, <1>r, <1>10 DEF WorkOK
    <2> HIDE DEF s
    <2> QED
        BY <2>1, <2>2, <2>3, CacheWork
<1> QED
    BY <1>1, <1>2, <1>3, <1>4, <1>5, <1>6, <1>7, <1>8, <1>9, <1>10 DEF Cache!ProcStep

\* Every step of the cache keeps its invariant.
LEMMA CacheStep ==
    ASSUME CacheInv, [Cache!Next]_(Cache!vars)
    PROVE  CacheInv'
<1>1. CASE UNCHANGED Cache!vars
    BY <1>1 DEF Cache!vars, CacheInv, WorkOK
<1>2. ASSUME NEW p \in CacheProcs, NEW d \in Digests, Cache!StartRender(p, d) PROVE CacheInv'
    <2> DEFINE s == [Cache!Free EXCEPT !.pc = "load", !.digest = d]
    <2>1. renderer' = [renderer EXCEPT ![p] = s] /\ UNCHANGED <<cache, torn>>
        BY <1>2 DEF Cache!StartRender
    <2>2. s \in CacheState /\ WorkOK(s)
        BY DEF CacheState, CachePC, Cache!Free, WorkOK
    <2> HIDE DEF s
    <2> QED
        BY <2>1, <2>2, CacheWork
<1>3. ASSUME NEW d \in Digests, NEW f \in Cache!Files, Cache!GCRemoveFile(d, f) PROVE CacheInv'
    BY <1>3, CacheRemove DEF Cache!GCRemoveFile
<1>4. ASSUME UNCHANGED <<cache, renderer, torn>> PROVE CacheInv'
    BY <1>4 DEF CacheInv, WorkOK
<1>5. CASE \/ Cache!Outage \/ Cache!GCList \/ Cache!GCEnd
           \/ \E d \in Digests : Cache!Publish(d) \/ Cache!GCRemoved(d)
           \/ \E t \in leftovers : Cache!GCRemoveLeftover(t)
    BY <1>4, <1>5 DEF Cache!Outage, Cache!GCList, Cache!GCEnd, Cache!Publish, Cache!GCRemoved,
        Cache!GCRemoveLeftover
<1>6. ASSUME NEW p \in CacheProcs, Cache!ProcStep(p) \/ Cache!Fail(p) \/ Cache!Kill(p)
      PROVE  CacheInv'
    BY <1>6, CacheRenderStep
<1>7. CASE Cache!Next
    BY <1>2, <1>3, <1>5, <1>6, <1>7 DEF Cache!Next
<1> QED
    BY <1>1, <1>7

\* An entry appears as a whole or loses files.
LEMMA CacheEntryStep ==
    ASSUME CacheInv, Cache!Next, NEW d \in Digests
    PROVE  cache'[d] \subseteq cache[d] \/ (cache[d] = {} /\ cache'[d] = Cache!Files)
<1>1. ASSUME NEW o, NEW f, Cache!Remove(o, f) PROVE cache'[d] \subseteq cache[d]
    BY <1>1 DEF Cache!Remove, CacheInv
<1>2. ASSUME NEW p \in CacheProcs, Cache!Install(p)
      PROVE  cache'[d] \subseteq cache[d] \/ (cache[d] = {} /\ cache'[d] = Cache!Files)
    BY <1>2 DEF Cache!Install, Cache!Is, Cache!Entry, CacheInv, WorkOK
<1>3. ASSUME NEW p \in CacheProcs, Cache!ProcStep(p) \/ Cache!Fail(p) \/ Cache!Kill(p)
      PROVE  cache'[d] \subseteq cache[d] \/ (cache[d] = {} /\ cache'[d] = Cache!Files)
    BY <1>1, <1>2, <1>3 DEF Cache!ProcStep, Cache!Fail, Cache!Kill, Cache!Others, Cache!Load,
        Cache!Cleared, Cache!Mount, Cache!Check, Cache!Enter, Cache!Rendered,
        Cache!Finish, Cache!GiveUp, Cache!RemoveFile, Cache!CopyFile, Cache!Render
<1> QED
    BY <1>1, <1>3 DEF Cache!Next, Cache!Publish, Cache!Outage, Cache!GCList, Cache!GCEnd,
        Cache!GCRemoveFile, Cache!GCRemoved, Cache!GCRemoveLeftover, Cache!StartRender

(* Any number of processes that may render one package at a time, with       *)
(* outages, failures, kills and collections of valid entries too: an entry   *)
(* appears as a whole, and what a render has copied and what loads is a      *)
(* whole package, unless a file was taken from an entry that loaded, by a    *)
(* second pull of the package or a collection (Cache.Ensure, Pull and GC).   *)
THEOREM WholeUnlessTorn ==
    Cache!Spec => [](Cache!RenderedIsWhole /\ Cache!ValidIsWhole) /\ Cache!EntriesAppearWhole
<1>1. CacheInv => Cache!RenderedIsWhole /\ Cache!ValidIsWhole
    <2> SUFFICES ASSUME CacheInv PROVE Cache!RenderedIsWhole /\ Cache!ValidIsWhole
        OBVIOUS
    <2>1. Cache!RenderedIsWhole
        BY DEF CacheInv, WorkOK, Cache!RenderedIsWhole, Cache!Is
    <2>2. Cache!ValidIsWhole
        BY EntryLoads DEF CacheInv, Cache!ValidIsWhole
    <2> QED
        BY <2>1, <2>2
<1>2. CacheInv /\ [Cache!Next]_(Cache!vars) =>
          [\A d \in Digests : \/ cache'[d] \subseteq cache[d]
                              \/ cache[d] = {} /\ cache'[d] = Cache!Files]_(Cache!vars)
    BY CacheEntryStep DEF Cache!vars
<1> QED
    BY CacheStart, CacheStep, <1>1, <1>2, PTL DEF Cache!Spec, Cache!EntriesAppearWhole
=============================================================================
