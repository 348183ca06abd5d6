---------------------------- MODULE ClusterApply ----------------------------
(***************************************************************************)
(* The commands that create, change and reset a cluster: "run", "apply",   *)
(* "add", "delete" and "reset" (pkg/apply), one after another, each a      *)
(* pipeline whose steps can fail or be cut short.  The stored Clusterfile  *)
(* is all that one command tells the next; the hosts, the containers of    *)
(* the image store and what runs in the cluster are what it stands for.    *)
(***************************************************************************)
EXTENDS Naturals, FiniteSetsExt, SequencesExt

CONSTANTS
    Masters, Nodes,     \* the hosts, and the role each of them has
    Master0,            \* the first master
    Rootfs,             \* the rootfs images, a function to Kubernetes versions
    Apps,               \* the application images
    RunImages,          \* the image lists of a "run"
    FileImages,         \* the image lists a user writes into a Clusterfile
    FileKinds,          \* the Clusterfiles a user applies: "edited", "plain"
    Commands,           \* the commands a user gives
    Careful,            \* one command changes images or hosts, adds or removes
                        \* hosts, and asks for no rootfs older than one mounted
    Faults,             \* what goes wrong: "fail", "kill", "cancel", "cleanup"
    MaxCommands         \* bound: commands given

Hosts == Masters \cup Nodes
Images == DOMAIN Rootfs \cup Apps

ASSUME ClusterAssumption ==
    /\ Master0 \in Masters /\ Masters \cap Nodes = {}
    /\ \A i \in DOMAIN Rootfs : Rootfs[i] \in Nat \ {0}
    /\ Apps \cap DOMAIN Rootfs = {}

VARIABLES
    file,       \* the stored Clusterfile
    members,    \* the hosts' Kubernetes version, 0 where none runs
    prepared,   \* the hosts with a container runtime and the rootfs
    containers, \* the images with a container in the image store, oldest first
    installed,  \* the applications whose commands ran to their end
    pc,         \* the next step of the running command's pipeline
    desired,    \* the cluster the running command works on
    current,    \* the hosts of the stored cluster it started from
    newImages,  \* the images it has to install
    newMounts,  \* the containers it created for them
    force,      \* images to override are confirmed
    fresh,      \* the stored cluster and the desired one are one object
    todo,       \* the rootfs images it has yet to upgrade the cluster to
    result,     \* what the last command returned
    given,      \* the commands given so far
    stray       \* history: the hosts that a failed reset left in the cluster

store == <<file, members, prepared, containers, installed, stray>>
command == <<desired, current, newImages, newMounts, force, fresh, todo>>
vars == <<store, pc, command, result, given>>

-----------------------------------------------------------------------------
(* Clusters, their images and their mounts. *)

NoMounts == <<"nil">>   \* status.mounts absent from the file
NoFile == [created |-> FALSE, phase |-> "", hosts |-> {}, images |-> <<>>, mounts |-> NoMounts]

Version(image) == IF image \in DOMAIN Rootfs THEN Rootfs[image] ELSE 0
Mounted(mounts) == IF mounts = NoMounts THEN <<>> ELSE mounts
MountRootfsOnly(mounts, images) ==                              \* mutant
    Mounted(mounts) \o SelectSeq(images, LAMBDA i : i \in DOMAIN Rootfs /\ i \notin ToSet(Mounted(mounts)))
Mount(mounts, images) == Mounted(mounts) \o SelectSeq(images, LAMBDA i : i \notin ToSet(Mounted(mounts)))
IsRootfs(image) == image \in DOMAIN Rootfs
KubeVersion(mounts) ==
    LET roots == SelectSeq(Mounted(mounts), IsRootfs)
    IN  IF roots = <<>> THEN 0 ELSE Version(Head(roots))
RootfsOnly(images) == SelectSeq(images, IsRootfs)
AppsOf(images) == ToSet(images) \cap Apps

KeepRootfsImages(mounts) == mounts                              \* mutant
\* Two rootfs mounts become the newer one, wherever it stands.
ReplaceRootfsImage(mounts) ==
    LET newest == Max({0} \cup {Version(mounts[i]) : i \in DOMAIN mounts})
    IN  SelectSeq(mounts, LAMBDA i : Version(i) \in {0, newest})

Init ==
    /\ file = NoFile /\ desired = NoFile
    /\ members = [h \in Hosts |-> 0]
    /\ prepared = {} /\ containers = <<>> /\ installed = {}
    /\ pc = "idle" /\ current = {} /\ newImages = <<>> /\ newMounts = <<>>
    /\ force = FALSE /\ fresh = FALSE /\ todo = <<>> /\ stray = {}
    /\ result = "none" /\ given = 0

Running == {h \in Hosts : members[h] # 0}
Joined(hosts, version) == [h \in Hosts |-> IF h \in hosts THEN version ELSE members[h]]
Recreated(images) == SelectSeq(containers, LAMBDA i : i \notin ToSet(images)) \o images
Fails == "fail" \in Faults
GoTo(step) == pc' = step

-----------------------------------------------------------------------------
(* Applier.Apply: what is desired and what is stored choose the pipeline.  *)
(* Every way out but a check or preprocess error saves the desired cluster *)
(* with a creation time, Failed after an error of the cluster and Success  *)
(* after one of an application.                                            *)

Rest == UNCHANGED <<members, prepared, installed, stray>>

Apply(cluster, images, same) ==
    /\ desired' = [cluster EXCEPT !.phase = "InProcess"]
    /\ current' = file.hosts
    /\ newImages' = images /\ newMounts' = <<>> /\ force' = FALSE /\ fresh' = same /\ todo' = <<>>
    /\ given' = given + 1 /\ result' = "none"
    /\ GoTo(IF ~file.created THEN "check" ELSE IF images # <<>> THEN "sync" ELSE "scale")
    /\ UNCHANGED store

Leave(returned) ==
    /\ GoTo("idle") /\ result' = returned
    /\ desired' = NoFile /\ current' = {}
    /\ newImages' = <<>> /\ newMounts' = <<>> /\ force' = FALSE /\ fresh' = FALSE /\ todo' = <<>>
    /\ UNCHANGED given

Save(phase, returned) ==
    /\ file' = [desired EXCEPT !.phase = phase, !.created = TRUE]
    /\ Leave(returned)

ClusterErrorUnsaved == Leave("error") /\ UNCHANGED file          \* mutant
AppErrorReplaced ==                                             \* mutant
    /\ file' = [desired EXCEPT !.phase = "Success", !.created = TRUE, !.mounts = ReplaceRootfsImage(@)]
    /\ Leave("error")
ClusterError == Save("Failed", "error")
AppError == Save("Success", "error")
Refused == Leave("error") /\ UNCHANGED store     \* CheckError, PreProcessError
Step(step) == GoTo(step) /\ UNCHANGED <<result, given>>

-----------------------------------------------------------------------------
(* The commands.  "run" refuses a cluster whose phase is not Success, "add" *)
(* and "delete" do not look at it.  A Clusterfile applied is an edited copy *)
(* of the stored one or one without status and creation time.               *)

NoNewImages(images) == IF file = NoFile THEN images ELSE <<>>    \* mutant

GetNewImages(images) ==
    IF file = NoFile THEN images ELSE SelectSeq(images, LAMBDA i : i \notin ToSet(file.images))

Careless(hosts, new) ==
    \/ Len(RootfsOnly(new)) > 1
    \/ /\ file.created
       /\ \/ ~(hosts \subseteq file.hosts \/ file.hosts \subseteq hosts)
          \/ hosts # file.hosts /\ new # <<>>
          \/ \E i \in ToSet(file.mounts) : KubeVersion(new) \in 1 .. Version(i) - 1

Asked(hosts, new) == Careful => ~Careless(hosts, new)

Run ==
    \E images \in RunImages, hosts \in SUBSET Hosts :
        LET cluster == [file EXCEPT !.images = @ \o SelectSeq(images, LAMBDA i : i \notin ToSet(file.images)),
                                    !.hosts = @ \cup hosts]
        IN  /\ "run" \in Commands
            /\ Asked(cluster.hosts, images)
            /\ IF file.created THEN file.phase = "Success"
                               ELSE images # <<>> /\ Master0 \in hosts
            /\ Apply(cluster, images, FALSE)

ApplyFile ==
    \E kind \in IF file = NoFile THEN {"plain"} ELSE FileKinds, images \in FileImages, hosts \in SUBSET Hosts :
        LET plain == [NoFile EXCEPT !.hosts = hosts, !.images = images]
            edited == [file EXCEPT !.hosts = hosts, !.images = images]
        IN  /\ "apply" \in Commands
            /\ Master0 \in hosts /\ Asked(hosts, GetNewImages(images))
            /\ Apply(IF kind = "plain" THEN plain ELSE edited, GetNewImages(images), TRUE)

AddNodes ==
    \E hosts \in SUBSET Hosts \ {{}} :
        /\ "add" \in Commands
        /\ file.hosts \cap Masters # {} /\ hosts \cap file.hosts = {}
        /\ Apply([file EXCEPT !.hosts = @ \cup hosts], <<>>, FALSE)

DeleteNodes ==
    \E hosts \in SUBSET Hosts \ {{}} :
        /\ "delete" \in Commands
        /\ hosts \subseteq file.hosts /\ Master0 \notin hosts
        /\ Apply([file EXCEPT !.hosts = @ \ hosts], <<>>, FALSE)

BeginReset ==
    /\ "reset" \in Commands
    /\ file.created /\ file.hosts # {}
    /\ desired' = file /\ current' = file.hosts
    /\ newImages' = <<>> /\ newMounts' = <<>> /\ force' = FALSE /\ fresh' = FALSE /\ todo' = <<>>
    /\ given' = given + 1 /\ result' = "none" /\ GoTo("reset")
    /\ UNCHANGED store

Command ==
    /\ pc = "idle" /\ given < MaxCommands
    /\ Run \/ ApplyFile \/ AddNodes \/ DeleteNodes \/ BeginReset

-----------------------------------------------------------------------------
(* CreateProcessor. *)

CreateUnchecked ==                                              \* mutant
    pc = "check" /\ Step("mount") /\ UNCHANGED <<store, command>>

CreateCheck ==
    /\ pc = "check"
    /\ IF desired.hosts \cap prepared # {}
         THEN Refused
         ELSE Step("mount") /\ UNCHANGED <<store, command>>

\* MountClusterImages and the runtime; nothing is saved when they fail.
CreatePreProcess ==
    /\ pc = "mount"
    /\ \/ /\ RootfsOnly(desired.images) # <<>>
          /\ desired' = [desired EXCEPT !.mounts = Mount(@, desired.images)]
          /\ containers' = Recreated(desired.images)
          /\ Step("prepare")
          /\ UNCHANGED <<file, current, newImages, newMounts, force, fresh, todo>> /\ Rest
       \/ (RootfsOnly(desired.images) = <<>> \/ Fails) /\ Refused

\* Rootfs, registry and bootstrap on every host; some are done when one fails.
Prepare(hosts, next) ==
    \/ /\ prepared' = prepared \cup hosts
       /\ Step(next) /\ UNCHANGED <<file, members, containers, installed, stray, command>>
    \/ /\ Fails
       /\ \E done \in SUBSET hosts : prepared' = prepared \cup done
       /\ ClusterError /\ UNCHANGED <<members, containers, installed, stray>>

CreatePrepare == pc = "prepare" /\ Prepare(desired.hosts, "init")

\* A host that joins is none that a failed reset left behind.
Join(hosts) ==
    /\ members' = Joined(hosts, KubeVersion(desired.mounts))
    /\ stray' = stray \ hosts

CreateInit ==
    /\ pc = "init"
    /\ \/ /\ Join({Master0})
          /\ Step("join") /\ UNCHANGED <<file, prepared, containers, installed, command>>
       \/ Fails /\ ClusterError /\ UNCHANGED <<members, prepared, containers, installed, stray>>


\* The masters join one after another, the nodes together once all masters did.
Partial(hosts) == {done \in SUBSET hosts : hosts \cap Masters \subseteq done \/ done \cap Nodes = {}}

\* The Clusterfile is written before its creation time is set.
CreateJoin ==
    /\ pc = "join"
    /\ LET others == desired.hosts \ {Master0} IN
       \/ /\ Join(others)
          /\ file' = desired
          /\ Step("guests") /\ UNCHANGED <<prepared, containers, installed, command>>
       \/ /\ Fails
          /\ \E done \in Partial(others) : Join(done)
          /\ ClusterError /\ UNCHANGED <<prepared, containers, installed>>

CreateGuests ==
    /\ pc = "guests"
    /\ \/ /\ installed' = installed \cup AppsOf(desired.mounts)
          /\ Save("Success", "ok") /\ UNCHANGED <<members, prepared, containers, stray>>
       \/ Fails /\ AppError /\ UNCHANGED <<members, prepared, containers, installed, stray>>

Create == CreateCheck \/ CreatePreProcess \/ CreatePrepare \/ CreateInit \/ CreateJoin \/ CreateGuests

-----------------------------------------------------------------------------
(* InstallProcessor.  For "apply" the stored cluster it reads is the        *)
(* desired one, so that every new image is one to override and its status   *)
(* is the status the processor completes.                                   *)

SyncStatus(cluster) ==
    IF cluster.mounts # NoMounts THEN cluster
    ELSE [cluster EXCEPT !.mounts = SelectSeq(containers, LAMBDA i : i \in ToSet(cluster.images))]

InstallSync ==
    /\ pc = "sync"
    /\ LET overrides == ToSet(newImages) \cap ToSet(IF fresh THEN desired.images ELSE file.images) IN
       \/ /\ desired' = IF fresh THEN SyncStatus(desired) ELSE desired
          /\ force' = (overrides # {})
          /\ Step("install") /\ UNCHANGED <<store, current, newImages, newMounts, fresh, todo>>
       \/ /\ overrides # {} /\ "cancel" \in Faults
          /\ Save("Success", "ok") /\ UNCHANGED <<members, prepared, containers, installed, stray>>

\* A new image is listed and its container made before it is mounted; what is
\* done when one fails is kept.
InstallPreProcess ==
    /\ pc = "install"
    /\ LET had == ToSet(Mounted(desired.mounts))
           made == SelectSeq(newImages, LAMBDA i : i \notin had \/ force)
           Without(images, n) == SelectSeq(images, LAMBDA i : i \notin ToSet(SubSeq(made, 1, n)))
           Moved(images, n) == Without(images, n) \o SubSeq(made, 1, n)
           Reached(images, mounts) == [desired EXCEPT !.images = Moved(@, images),
                                                      !.mounts = Moved(Mounted(@), mounts)]
           cluster == Reached(Len(made), Len(made))
       IN  \/ /\ KubeVersion(cluster.mounts) # 0
              /\ desired' = cluster /\ newMounts' = made /\ todo' = RootfsOnly(made)
              /\ containers' = Recreated(made)
              /\ Step(IF made = <<>> THEN "scale" ELSE "upgrade")
              /\ UNCHANGED <<file, current, newImages, force, fresh>> /\ Rest
           \/ /\ KubeVersion(cluster.mounts) = 0 \/ Fails
              /\ \E images, mounts, kept \in 0 .. Len(made) :
                    /\ mounts <= kept /\ kept <= images /\ images <= mounts + 1
                    /\ ~Fails => mounts = Len(made)
                    /\ file' = [Reached(images, mounts) EXCEPT !.phase = "Success", !.created = TRUE]
                    /\ containers' = Without(containers, images) \o SubSeq(made, 1, kept)
              /\ Leave("error") /\ Rest

\* MountRootfs, MirrorRegistry and UpgradeIfNeed, one new rootfs image after
\* another: the version upgraded from is the first rootfs mounted.
InstallUpgrade ==
    /\ pc = "upgrade"
    /\ LET from == KubeVersion(desired.mounts)
           to == KubeVersion(todo)
           upgraded == /\ desired' = [desired EXCEPT !.mounts = ReplaceRootfsImage(@)]
                       /\ todo' = Tail(todo)
                       /\ Step("upgrade")
                       /\ UNCHANGED <<current, newImages, newMounts, force, fresh>>
           others == <<prepared, containers, installed, stray>>
       IN  \/ todo = <<>> /\ Step("appguests") /\ UNCHANGED <<store, command>>
           \/ todo # <<>> /\ to = from /\ upgraded /\ UNCHANGED store
           \/ /\ to = from + 1 /\ desired.hosts \subseteq Running
              /\ members' = Joined(desired.hosts, to)
              /\ upgraded /\ UNCHANGED <<file, others>>
           \/ /\ \/ todo # <<>> /\ to \notin {from, from + 1}
                 \/ Fails /\ todo = RootfsOnly(newMounts)
              /\ AppError /\ UNCHANGED <<members, others>>
           \/ /\ to = from + 1 /\ (Fails \/ ~(desired.hosts \subseteq Running))
              /\ \E done \in SUBSET (desired.hosts \cap Running) :
                    /\ done # {} => Master0 \in done
                    /\ members' = Joined(done, to)
              /\ AppError /\ UNCHANGED others

InstallGuests ==
    /\ pc = "appguests"
    /\ \/ /\ members[Master0] # 0
          /\ installed' = installed \cup AppsOf(newMounts)
          /\ Step("scale") /\ UNCHANGED <<file, members, prepared, containers, stray, command>>
       \/ (Fails \/ members[Master0] = 0) /\ AppError
          /\ UNCHANGED <<members, prepared, containers, installed, stray>>

Install == InstallSync \/ InstallPreProcess \/ InstallUpgrade \/ InstallGuests

-----------------------------------------------------------------------------
(* ScaleProcessor: up when any host joins, and only then; down otherwise.   *)
(* A host joins, as it is upgraded, only where there is a control plane.    *)

Joining == desired.hosts \ current
NodesLeaving == (current \ desired.hosts) \cap Nodes            \* mutant
Leaving == current \ desired.hosts

Scale ==
    /\ pc = "scale"
    /\ \/ /\ Joining = {} /\ Leaving = {}
          /\ Save("Success", "ok") /\ UNCHANGED <<members, prepared, containers, installed, stray>>
       \/ /\ Joining # {} /\ Joining \cap prepared # {} /\ Refused
       \/ /\ Joining # {} /\ Joining \cap prepared = {}
          /\ Step("uppre") /\ UNCHANGED <<store, command>>
       \/ /\ Joining = {} /\ Leaving # {}
          /\ Step("down") /\ UNCHANGED <<store, command>>

\* Only images that are no applications are mounted again; the desired cluster
\* is written before anything is done with the hosts.
ScaleUpPreProcess ==
    /\ pc = "uppre"
    /\ LET roots == RootfsOnly(desired.images)
           cluster == [desired EXCEPT !.mounts = Mount(@, roots)]
       IN  \/ /\ roots # <<>>
              /\ desired' = cluster /\ file' = cluster
              /\ containers' = Recreated(roots)
              /\ Step("upprepare") /\ UNCHANGED <<current, newImages, newMounts, force, fresh, todo>> /\ Rest
           \/ (roots = <<>> \/ Fails) /\ Refused

\* Every image of the cluster has to be mounted, the applications too.
ScaleUpPrepare ==
    /\ pc = "upprepare"
    /\ IF ToSet(desired.images) \subseteq ToSet(desired.mounts)
         THEN Prepare(Joining, "upjoin")
         ELSE ClusterError /\ UNCHANGED <<members, prepared, containers, installed, stray>>

ScaleUpJoin ==
    /\ pc = "upjoin"
    /\ \/ /\ members[Master0] # 0
          /\ Join(Joining)
          /\ Save("Success", "ok") /\ UNCHANGED <<prepared, containers, installed>>
       \/ /\ Fails \/ members[Master0] = 0
          /\ \E done \in IF members[Master0] = 0 THEN {{}} ELSE Partial(Joining) : Join(done)
          /\ ClusterError /\ UNCHANGED <<prepared, containers, installed>>

ResetSkipped(hosts) == UNCHANGED <<members, stray>>              \* mutant

\* Errors of kubeadm reset and of removing the node are logged, not returned: the
\* host leaves the Clusterfile and may be left running.
Reset(hosts) ==
    \E done \in IF "cleanup" \in Faults THEN SUBSET hosts ELSE {hosts} :
        /\ members' = Joined(done, 0)
        /\ stray' = (stray \ done) \cup ((hosts \ done) \cap Running)

ScaleDown ==
    /\ pc = "down"
    /\ \/ /\ KubeVersion(SyncStatus(file).mounts) = 0 /\ Refused
       \/ /\ KubeVersion(SyncStatus(file).mounts) # 0
          /\ Reset(Leaving)
          /\ desired' = SyncStatus(desired)
          /\ Step("undo")
          /\ UNCHANGED <<file, prepared, containers, installed, current, newImages, newMounts, force, fresh, todo>>

ScaleUndo ==
    /\ pc = "undo"
    /\ \/ /\ prepared' = prepared \ Leaving
          /\ Save("Success", "ok") /\ UNCHANGED <<members, containers, installed, stray>>
       \/ /\ Fails
          /\ \E done \in SUBSET Leaving : prepared' = prepared \ done
          /\ ClusterError /\ UNCHANGED <<members, containers, installed, stray>>

ScaleCluster == Scale \/ ScaleUpPreProcess \/ ScaleUpPrepare \/ ScaleUpJoin \/ ScaleDown \/ ScaleUndo

-----------------------------------------------------------------------------
(* DeleteProcessor: the errors of every step are logged and the file goes. *)

ResetNodes ==
    /\ pc = "reset"
    /\ Reset(desired.hosts)
    /\ installed' = IF members'[Master0] = 0 THEN {} ELSE installed
    /\ Step("undoall") /\ UNCHANGED <<file, prepared, containers, command>>

ResetRest ==
    /\ pc = "undoall"
    /\ \E done \in IF "cleanup" \in Faults THEN SUBSET desired.hosts ELSE {desired.hosts} :
          prepared' = prepared \ done
    /\ containers' = SelectSeq(containers, LAMBDA i : i \notin ToSet(Mounted(SyncStatus(desired).mounts)))
    /\ file' = NoFile
    /\ Leave("reset") /\ UNCHANGED <<members, installed, stray>>

Delete == ResetNodes \/ ResetRest

Kill ==
    /\ "kill" \in Faults /\ pc # "idle"
    /\ Leave("error") /\ UNCHANGED store

Next == Command \/ Create \/ Install \/ ScaleCluster \/ Delete \/ Kill
Spec == Init /\ [][Next]_vars

-----------------------------------------------------------------------------
Clusters == [created : BOOLEAN, phase : {"", "InProcess", "Success", "Failed"}, hosts : SUBSET Hosts,
             images : Seq(Images), mounts : Seq(Images) \cup {NoMounts}]

\* Every variable keeps its type, no image is listed or mounted twice, and a
\* stored cluster with a creation time carries the outcome of a command.
ApplyTypeOK ==
    /\ file \in Clusters /\ desired \in Clusters
    /\ \A c \in {file, desired} :
          /\ IsInjective(c.images) /\ IsInjective(c.mounts)
          /\ Len(RootfsOnly(Mounted(c.mounts))) <= Cardinality(DOMAIN Rootfs)
    /\ members \in [Hosts -> 0 .. 2] /\ prepared \subseteq Hosts /\ installed \subseteq Apps
    /\ stray \subseteq Running
    /\ pc = "idle" => (file.created => file.phase # "")

Idle(outcomes) == pc = "idle" /\ result \in outcomes

\* A stored cluster whose phase is Success runs on the hosts it lists and on no
\* other (updateStatus).
SuccessHasMembers ==
    pc = "idle" /\ file.created /\ file.phase = "Success" => Running = file.hosts

\* All hosts of a cluster whose phase is Success run the version of the rootfs
\* image its mounts begin with (UpgradeIfNeed, ReplaceRootfsImage).
SuccessHasVersion ==
    pc = "idle" /\ file.created /\ file.phase = "Success" =>
        \A h \in Running : members[h] = KubeVersion(file.mounts)

\* A command that returned no error has installed every application the stored
\* cluster lists (reconcileCluster).
ReturnedIsInstalled ==
    Idle({"ok"}) => AppsOf(file.images) \subseteq installed

\* A command that ends, in success or failure, leaves a host in the cluster that
\* the Clusterfile does not list only where kubeadm reset failed on that host:
\* deleteMaster and resetNode log the error, and no later command finds the host.
NoOrphans == pc = "idle" => Running \subseteq file.hosts \cup stray

\* Nothing fails by itself: without a failure of a step no cluster is Failed.
NoFailedPhase == pc = "idle" => file.phase # "Failed"

\* No host that runs Kubernetes is initialised or joined once more, whatever
\* earlier commands left behind (ContainerdChecker), but for the hosts where
\* kubeadm reset failed: their container runtime is removed all the same.
NoRejoin ==
    /\ pc \in {"prepare", "init"} => desired.hosts \cap Running \subseteq stray
    /\ pc \in {"upprepare", "upjoin"} => Joining \cap Running \subseteq stray

\* The version the Clusterfile records is not ahead of any host of the cluster:
\* an upgrade that stopped half way is not skipped when it is tried again.
RecordedNotAhead ==
    pc = "idle" => \A h \in Running \ stray : members[h] >= KubeVersion(file.mounts)

\* A host joins at the version the control plane runs.
JoinStepAtVersion ==
    pc = "upjoin" => \A h \in Hosts : members[h] # members'[h] => members'[h] = members'[Master0]
=============================================================================
