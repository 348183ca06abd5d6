-------------------------- MODULE KubeadmJoin_proofs --------------------------
(* Adding hosts to a cluster, for any hosts, any number of commands and      *)
(* tokens, and any interleaving of the goroutines with failures and kills.   *)
EXTENDS KubeadmJoin, TLAPS

(* The invariant.                                                            *)

Working == phase # "idle"
Adding == {"init", "init_master0", "masters", "send", "join_masters", "workers_token", "workers"}
Refreshing == {"rotate", "drop", "rewrite"}
Points == {"off", "lock", "fill", "send", "sent", "ipvs", "ready", "join", "joined", "returned"}

(* What a phase says of the command, and where a report can be read.         *)
CommandInv ==
    /\ cmd.masters \subseteq Masters /\ cmd.workers \subseteq Workers
    /\ phase \in {"idle", "delete"} \cup Adding \cup Refreshing
    /\ phase \in Adding => cmd.kind = "up"
    /\ phase = "delete" => cmd.kind = "down"
    /\ phase \in Refreshing => cmd.kind = "refresh"
    /\ phase = "rotate" => Rotate
    /\ Working => reported = None

(* Whoever works on the shared configuration holds the mutex, and what it    *)
(* sends names its host.                                                     *)
MutexInv ==
    /\ pc \in [Nodes -> Points]
    /\ \A n \in Nodes : pc[n] \in {"fill", "send", "sent"} => lock = n
    /\ \A n \in Nodes : pc[n] = "send" => config.ip = n

(* The keys: a cluster that has a member has a certificate key; the token    *)
(* in use is the cached one, and it embeds the key the configurations carry. *)
Keyed(n) == conf[n].key = tokenFile.key

KeyInv ==
    /\ members # {} \/ phase \notin {"idle", "init"} => initKey # None /\ keyFile # None
    /\ token # None => token = tokenFile
    /\ phase \in Refreshing \cup {"init", "init_master0", "masters"} => token = None
    /\ phase \in {"send", "join_masters"} => tokenFile # None
    /\ phase = "send" => config.key = tokenFile.key
    /\ phase = "send" =>
         \A n \in cmd.masters : pc[n] = "returned" /\ ~got[n] => Keyed(n)
    /\ phase = "join_masters" => \A n \in cmd.masters : Keyed(n)

(* Without rotation there is one key: the one of the file.                   *)
OneKeyInv ==
    ~Rotate =>
        /\ initKey \in {None, keyFile}
        /\ tokenFile # None => tokenFile.key = keyFile /\ uploaded = keyFile

(* With it a refresh, once begun, ends, where nothing fails.                 *)
RefreshInv ==
    Faults \cap {"cmd", "kill"} = {} =>
        (tokenFile # None /\ phase # "drop" => tokenFile.key = keyFile)

(* The masters are joined before the workers are, and a report is made last. *)
MastersInv ==
    /\ phase \in {"workers_token", "workers"} => cmd.masters \subseteq members
    /\ MastersReported

(* With one worker err tells of the last step of its goroutine.              *)
WorkersInv ==
    (\A v, w \in Workers : v = w) =>
        /\ phase = "workers" =>
             /\ \A n \in Nodes \ cmd.workers : pc[n] = "off"
             /\ \A n \in cmd.workers :
                  /\ pc[n] = "joined" /\ ~err => n \in members
                  /\ pc[n] = "returned" /\ ~got[n] => n \in members
        /\ WorkersReported

IInv == /\ TypeOK /\ CommandInv /\ MutexInv /\ ConfigIsOwn /\ KeyInv
        /\ OneKeyInv /\ RefreshInv /\ MastersInv /\ WorkersInv

OneWorker == \A v, w \in Workers : v = w

(* What the provers need of the parameters. *)
LEMMA Facts ==
    ASSUME KubeadmJoinAssumption
    PROVE  /\ None \notin Keys /\ None \notin Nodes /\ None \notin TokenFile
           /\ 1 \in Keys /\ \A k \in Keys : 3 - k \in Keys
           /\ MaxTokens \in Nat
           /\ Masters \subseteq Nodes /\ Workers \subseteq Nodes
BY DEF KubeadmJoinAssumption, Keys, Nodes

-----------------------------------------------------------------------------
(* Nothing is there at the start. *)
LEMMA NothingYet == ASSUME KubeadmJoinAssumption PROVE Init => IInv
<1> SUFFICES ASSUME Init PROVE IInv
    OBVIOUS
<1>1. TypeOK
    BY Facts DEF Init, TypeOK, Blank, Conf
<1>2. CommandInv /\ MutexInv /\ ConfigIsOwn
    BY DEF Init, CommandInv, MutexInv, ConfigIsOwn, NoCommand, Adding, Refreshing, Working, Points
<1>3. KeyInv /\ OneKeyInv /\ RefreshInv /\ MastersInv /\ WorkersInv
    BY DEF Init, KeyInv, OneKeyInv, RefreshInv, MastersInv, WorkersInv, MastersReported,
       WorkersReported, Succeeded, Refreshing
<1> QED
    BY <1>1, <1>2, <1>3 DEF IInv

(* A command begins as a process of its own. *)
LEMMA BeginStep ==
    ASSUME KubeadmJoinAssumption, IInv, Command
    PROVE  IInv'
<1>1. /\ phase = "idle"
      /\ token' = None /\ config' = Blank /\ reported' = None
      /\ pc' = [n \in Nodes |-> "off"] /\ got' = [n \in Nodes |-> FALSE]
      /\ lock' = None /\ err' = FALSE
      /\ UNCHANGED <<keyFile, tokenFile, initKey, life, uploaded, conf, members>>
    BY DEF Command, Create, ScaleUp, ScaleDown, Refresh, Begin, files, cluster
<1>2. /\ cmd'.masters \subseteq Masters /\ cmd'.workers \subseteq Workers
      /\ \/ cmd'.kind = "up" /\ phase' = "init"
         \/ cmd'.kind = "up" /\ phase' = "masters" /\ members # {}
         \/ cmd'.kind = "down" /\ phase' = "delete" /\ members # {}
         \/ cmd'.kind = "refresh" /\ phase' = "drop" /\ members # {}
         \/ cmd'.kind = "refresh" /\ phase' = "rotate" /\ members # {} /\ Rotate
    <2>1. CASE Create
        BY <2>1 DEF Create, Begin, Asked
    <2>2. CASE ScaleUp
        BY <2>2 DEF ScaleUp, Begin, Asked
    <2>3. CASE ScaleDown
        BY <2>3 DEF ScaleDown, Begin, Asked
    <2>4. CASE Refresh
        <3>1. Rotate \in BOOLEAN
            BY DEF KubeadmJoinAssumption
        <3>2. PICK k \in {FALSE, Rotate} :
                members # {} /\ Begin(IF k THEN "rotate" ELSE "drop", Asked("refresh", {}, {}))
            BY <2>4 DEF Refresh
        <3>3. members # {}
            BY <3>2
        <3>4. \/ Begin("drop", Asked("refresh", {}, {}))
              \/ Rotate /\ Begin("rotate", Asked("refresh", {}, {}))
            <4>1. CASE k
                <5>1. Rotate
                    BY <3>1, <3>2, <4>1, Zenon
                <5>2. (IF k THEN "rotate" ELSE "drop") = "rotate"
                    BY <4>1, Zenon
                <5> QED
                    BY <3>2, <5>1, <5>2, Zenon
            <4>2. CASE ~k
                <5>1. (IF k THEN "rotate" ELSE "drop") = "drop"
                    BY <4>2, Zenon
                <5> QED
                    BY <3>2, <5>1, Zenon
            <4> QED
                BY <4>1, <4>2
        <3> QED
            BY <3>3, <3>4 DEF Begin, Asked
    <2> QED
        BY <2>1, <2>2, <2>3, <2>4 DEF Command
<1>3. TypeOK'
    BY <1>1, Facts DEF IInv, TypeOK, Blank, Conf
<1>4. CommandInv'
    BY <1>1, <1>2 DEF CommandInv, Adding, Refreshing
<1>5. MutexInv' /\ ConfigIsOwn'
    BY <1>1 DEF IInv, MutexInv, ConfigIsOwn, Points
<1>6. KeyInv' /\ OneKeyInv'
    BY <1>1, <1>2 DEF IInv, KeyInv, OneKeyInv
<1>7. RefreshInv'
    BY <1>1 DEF IInv, RefreshInv
<1>8. MastersInv' /\ WorkersInv'
    BY <1>1, <1>2 DEF MastersInv, WorkersInv, MastersReported, WorkersReported, Succeeded
<1> QED
    BY <1>3, <1>4, <1>5, <1>6, <1>7, <1>8 DEF IInv

(* A command ends.  It reports success only when the hosts it was asked to   *)
(* add are members, and a refresh between its two steps only fails.          *)
LEMMA EndStep ==
    ASSUME KubeadmJoinAssumption, IInv, Working, NEW r \in BOOLEAN,
           phase' = "idle", reported' = [ok |-> r, asked |-> cmd],
           UNCHANGED <<keyFile, tokenFile, initKey, life, uploaded, conf, cmd, token, config,
                       pc, got, lock, err>>,
           members' \subseteq Nodes \cup {Master0}, members' = members \/ phase # "init",
           r /\ cmd.kind = "up" =>
               cmd.masters \subseteq members' /\ (OneWorker => cmd.workers \subseteq members'),
           phase = "drop" => "cmd" \in Faults
    PROVE  IInv'
<1>1. TypeOK'
    BY DEF IInv, TypeOK
<1>2. CommandInv'
    BY DEF IInv, CommandInv, Working, Adding, Refreshing
<1>3. MutexInv' /\ ConfigIsOwn'
    BY DEF IInv, MutexInv, ConfigIsOwn
<1>4. KeyInv'
    BY DEF IInv, KeyInv, Working, Refreshing
<1>5. OneKeyInv'
    BY DEF IInv, OneKeyInv
<1>6. RefreshInv'
    BY DEF IInv, RefreshInv
<1>7. reported'.ok = r /\ reported'.asked = cmd
    OBVIOUS
<1>8. MastersInv'
    BY <1>7 DEF MastersInv, MastersReported, Succeeded
<1>9. WorkersInv'
    BY <1>7 DEF WorkersInv, WorkersReported, Succeeded, OneWorker
<1> QED
    BY <1>1, <1>2, <1>3, <1>4, <1>5, <1>6, <1>8, <1>9 DEF IInv

(* A command fails or is killed. *)
LEMMA FailureStep ==
    ASSUME KubeadmJoinAssumption, IInv, Failure
    PROVE  IInv'
<1>1. PICK p \in {"init", "init_master0", "masters", "join_masters", "workers_token",
                  "rotate", "drop", "rewrite"} : FailStep(p)
    BY DEF Failure
<1>2. /\ Working /\ "cmd" \in Faults
      /\ phase' = "idle" /\ reported' = [ok |-> FALSE, asked |-> cmd]
      /\ UNCHANGED <<keyFile, tokenFile, initKey, life, uploaded, conf, members, cmd, token,
                     config, pc, got, lock, err>>
    BY <1>1 DEF FailStep, Fail, Fails, Report, Working, files, cluster, routines
<1>3. members' \subseteq Nodes \cup {Master0}
    BY <1>2 DEF IInv, TypeOK
<1> QED
    BY <1>2, <1>3, EndStep

(* A killed process forgets what it had in memory; no report is made. *)
LEMMA KillStep ==
    ASSUME KubeadmJoinAssumption, IInv, Kill
    PROVE  IInv'
<1>1. /\ Working /\ "kill" \in Faults
      /\ phase' = "idle" /\ reported' = None /\ cmd' = NoCommand
      /\ token' = None /\ config' = Blank
      /\ pc' = [n \in Nodes |-> "off"] /\ got' = [n \in Nodes |-> FALSE]
      /\ lock' = None /\ err' = FALSE
      /\ UNCHANGED <<keyFile, tokenFile, initKey, life, uploaded, conf, members>>
    BY DEF Kill, Fails, Working, files, cluster
<1>2. TypeOK'
    BY <1>1, Facts DEF IInv, TypeOK, Blank, Conf
<1>3. CommandInv'
    BY <1>1 DEF CommandInv, NoCommand, Adding, Refreshing, Working
<1>4. MutexInv' /\ ConfigIsOwn'
    BY <1>1 DEF IInv, MutexInv, ConfigIsOwn, Points
<1>5. KeyInv' /\ OneKeyInv' /\ RefreshInv'
    BY <1>1 DEF IInv, KeyInv, OneKeyInv, RefreshInv, Refreshing
<1>6. MastersInv' /\ WorkersInv'
    BY <1>1 DEF MastersInv, WorkersInv, MastersReported, WorkersReported, Succeeded
<1> QED
    BY <1>2, <1>3, <1>4, <1>5, <1>6 DEF IInv

(* Tokens age; the bound is reached. *)
LEMMA AgeStep ==
    ASSUME KubeadmJoinAssumption, IInv, Age \/ UNCHANGED vars \/ Done
    PROVE  IInv'
<1>1. /\ UNCHANGED <<keyFile, tokenFile, initKey, uploaded, conf, members, phase, cmd, token,
                     config, pc, got, lock, err, reported, commands>>
      /\ life' \in [1 .. MaxTokens -> {"none", "live", "closing", "expired"}]
    <2>1. life \in [1 .. MaxTokens -> {"none", "live", "closing", "expired"}]
        BY DEF IInv, TypeOK
    <2>2. CASE Age
        BY <2>1, <2>2 DEF Age, files, routines
    <2>3. CASE UNCHANGED vars \/ Done
        BY <2>1, <2>3 DEF Done, vars, files, cluster, routines
    <2> QED
        BY <2>2, <2>3
<1>2. TypeOK'
    BY <1>1 DEF IInv, TypeOK
<1>3. CommandInv' /\ MutexInv' /\ ConfigIsOwn'
    BY <1>1 DEF IInv, CommandInv, MutexInv, ConfigIsOwn, Working
<1>4. KeyInv' /\ OneKeyInv' /\ RefreshInv'
    BY <1>1 DEF IInv, KeyInv, OneKeyInv, RefreshInv, Keyed
<1>5. MastersInv' /\ WorkersInv'
    BY <1>1 DEF IInv, MastersInv, WorkersInv, MastersReported, WorkersReported, Succeeded
<1> QED
    BY <1>2, <1>3, <1>4, <1>5 DEF IInv

-----------------------------------------------------------------------------
(* What a step that only writes the key and token files disturbs. *)
LEMMA FileStep ==
    ASSUME KubeadmJoinAssumption, IInv, Working, Working',
           phase \notin {"send", "workers", "workers_token", "join_masters"},
           phase' \notin {"send", "workers", "workers_token", "join_masters"},
           UNCHANGED <<life, uploaded, conf, cmd, config, pc, got, lock, err, reported>>,
           TypeOK', KeyInv', OneKeyInv', RefreshInv',
           phase' \in Adding <=> phase \in Adding,
           phase' \in Refreshing <=> phase \in Refreshing,
           phase' \in {"delete"} \cup Adding \cup Refreshing, phase' = "rotate" => Rotate
    PROVE  IInv'
<1>1. reported = None /\ reported' = None
    BY DEF IInv, CommandInv
<1>2. CommandInv'
    BY <1>1 DEF IInv, CommandInv, Working, Adding, Refreshing
<1>3. MutexInv' /\ ConfigIsOwn'
    BY DEF IInv, MutexInv, ConfigIsOwn
<1>4. MastersInv' /\ WorkersInv'
    BY <1>1 DEF MastersInv, WorkersInv, MastersReported, WorkersReported, Succeeded
<1> QED
    BY <1>2, <1>3, <1>4 DEF IInv

(* The first master is initialised with the key of the file. *)
LEMMA InitStep ==
    ASSUME KubeadmJoinAssumption, IInv, InitConfig \/ InitMaster0
    PROVE  IInv'
<1>1. /\ UNCHANGED <<tokenFile, life, uploaded, conf, cmd, token, config, pc, got, lock, err, reported>>
      /\ \/ /\ phase = "init" /\ phase' = "init_master0" /\ members' = members
            /\ keyFile' = IF keyFile = None THEN 1 ELSE keyFile
            /\ initKey' = keyFile'
         \/ /\ phase = "init_master0" /\ phase' = "masters" /\ members' = {Master0}
            /\ UNCHANGED <<keyFile, initKey>>
    BY DEF InitConfig, InitMaster0, SetCertificateKey, Goto, files, cluster, routines
<1>2. TypeOK /\ KeyInv /\ OneKeyInv /\ RefreshInv
    BY DEF IInv
<1>3. keyFile' \in Keys /\ initKey' \in Keys
    BY <1>1, <1>2, Facts DEF TypeOK, KeyInv
<1>4. TypeOK'
    BY <1>1, <1>2, <1>3 DEF TypeOK
<1>5. KeyInv'
    BY <1>1, <1>2, <1>3, Facts DEF KeyInv, Refreshing
<1>6. tokenFile # None => tokenFile.key \in Keys
    BY <1>2 DEF TypeOK, TokenFile
<1>7. OneKeyInv'
    BY <1>1, <1>2, <1>6, Facts DEF OneKeyInv
<1>8. RefreshInv'
    BY <1>1, <1>2, <1>6, Facts DEF RefreshInv
<1> QED
    BY <1>1, <1>4, <1>5, <1>7, <1>8, FileStep DEF Working, Adding, Refreshing

(* Rotating the key and dropping the token that embeds the old one. *)
LEMMA RotateStep ==
    ASSUME KubeadmJoinAssumption, IInv, RotateKey \/ DropToken
    PROVE  IInv'
<1>1. /\ UNCHANGED <<initKey, life, uploaded, conf, members, cmd, token, config, pc, got, lock, err, reported>>
      /\ \/ phase = "rotate" /\ phase' = "drop" /\ keyFile' = 3 - keyFile /\ tokenFile' = tokenFile
         \/ phase = "drop" /\ phase' = "rewrite" /\ keyFile' = keyFile /\ tokenFile' = None
    BY DEF RotateKey, DropToken, Goto, files, cluster, routines
<1>2. TypeOK /\ KeyInv /\ OneKeyInv /\ CommandInv
    BY DEF IInv
<1>3. keyFile \in Keys /\ keyFile' \in Keys
    BY <1>1, <1>2, Facts DEF TypeOK, KeyInv
<1>4. TypeOK'
    BY <1>1, <1>2, <1>3 DEF TypeOK
<1>5. KeyInv'
    BY <1>1, <1>2, <1>3, Facts DEF KeyInv, Refreshing
<1>6. phase = "rotate" => Rotate
    BY <1>2 DEF CommandInv
<1>7. OneKeyInv'
    BY <1>1, <1>2, <1>6 DEF OneKeyInv
<1>8. RefreshInv'
    BY <1>1 DEF RefreshInv
<1> QED
    BY <1>1, <1>4, <1>5, <1>7, <1>8, FileStep DEF Working, Adding, Refreshing

(* A new token embeds the cached key, and the certificates are uploaded with *)
(* the key of master0: the same, unless the operator rotates.                *)
LEMMA NewTokenIs ==
    ASSUME KubeadmJoinAssumption, IInv, phase \notin {"idle", "init"}, WriteTokenFile(1)
    PROVE  /\ keyFile' = keyFile /\ initKey' = initKey
           /\ keyFile \in Keys /\ initKey \in Keys
           /\ tokenFile' \in TokenFile /\ tokenFile'.key = keyFile /\ token' = tokenFile'
           /\ uploaded' = initKey
           /\ life' \in [1 .. MaxTokens -> {"none", "live", "closing", "expired"}]
<1>1. /\ keyFile \in Keys \cup {None} /\ initKey \in Keys \cup {None}
      /\ life \in [1 .. MaxTokens -> {"none", "live", "closing", "expired"}]
      /\ keyFile # None /\ initKey # None
    BY DEF IInv, TypeOK, KeyInv
<1>2. keyFile' = keyFile /\ initKey' = initKey /\ token' = tokenFile'
    BY <1>1 DEF WriteTokenFile, SetCertificateKey
<1>3. PICK t \in 1 .. MaxTokens :
        /\ life' = [life EXCEPT ![t] = "live"] /\ uploaded' = initKey
        /\ tokenFile' = [id |-> t, key |-> keyFile']
    BY DEF WriteTokenFile, GenerateToken
<1> QED
    BY <1>1, <1>2, <1>3 DEF TokenFile

LEMMA RewriteStep ==
    ASSUME KubeadmJoinAssumption, IInv, RewriteToken
    PROVE  IInv'
<1>1. /\ phase = "rewrite" /\ WriteTokenFile(1)
      /\ phase' = "idle" /\ reported' = [ok |-> TRUE, asked |-> cmd]
      /\ UNCHANGED <<conf, members, cmd, config, pc, got, lock, err>>
    BY DEF RewriteToken, Report, routines
<1>2. /\ keyFile' = keyFile /\ initKey' = initKey
      /\ keyFile \in Keys /\ initKey \in Keys
      /\ tokenFile' \in TokenFile /\ tokenFile'.key = keyFile /\ token' = tokenFile'
      /\ uploaded' = initKey
      /\ life' \in [1 .. MaxTokens -> {"none", "live", "closing", "expired"}]
    BY <1>1, NewTokenIs
<1>3. reported'.asked = cmd /\ cmd.kind = "refresh"
    BY <1>1 DEF IInv, CommandInv, Refreshing
<1>4. TypeOK'
    BY <1>1, <1>2 DEF IInv, TypeOK
<1>5. CommandInv'
    BY <1>1 DEF IInv, CommandInv, Working, Adding, Refreshing
<1>6. MutexInv' /\ ConfigIsOwn'
    BY <1>1 DEF IInv, MutexInv, ConfigIsOwn
<1>7. KeyInv'
    BY <1>1, <1>2, Facts DEF KeyInv, Refreshing
<1>8. OneKeyInv'
    BY <1>2, Facts DEF IInv, OneKeyInv
<1>9. RefreshInv'
    BY <1>2 DEF RefreshInv
<1>10. MastersInv' /\ WorkersInv'
    BY <1>1, <1>3 DEF MastersInv, WorkersInv, MastersReported, WorkersReported, Succeeded
<1> QED
    BY <1>4, <1>5, <1>6, <1>7, <1>8, <1>9, <1>10 DEF IInv

(* The goroutines of the masters, or of the workers, start with the cached   *)
(* token: its key and its name are in the shared configuration.              *)
LEMMA SpawnStep ==
    ASSUME KubeadmJoinAssumption, IInv,
           \/ phase = "masters" /\ phase' = "send" /\ Spawn(cmd.masters)
           \/ phase = "workers_token" /\ phase' = "workers" /\ Spawn(cmd.workers),
           SetKubernetesToken, UNCHANGED <<conf, members, cmd, reported>>
    PROVE  IInv'
<1>1. /\ TypeOK /\ CommandInv /\ KeyInv /\ OneKeyInv /\ RefreshInv
      /\ config \in Conf
    BY DEF IInv, TypeOK
<1>2. /\ UNCHANGED <<lock, err>> /\ got' = [n \in Nodes |-> FALSE]
      /\ pc' \in [Nodes -> {"lock", "off"}]
      /\ phase' = "workers" => \A n \in Nodes \ cmd.workers : pc'[n] = "off"
    BY DEF Spawn
<1>3. /\ keyFile' = keyFile /\ initKey' = initKey
      /\ keyFile \in Keys /\ initKey \in Keys
      /\ tokenFile' \in TokenFile /\ token' = tokenFile'
      /\ life' \in [1 .. MaxTokens -> {"none", "live", "closing", "expired"}]
      /\ \/ tokenFile' = tokenFile /\ uploaded' = uploaded
         \/ tokenFile'.key = keyFile /\ uploaded' = initKey
    <2>1. /\ keyFile \in Keys /\ initKey \in Keys
          /\ life \in [1 .. MaxTokens -> {"none", "live", "closing", "expired"}]
          /\ tokenFile \in TokenFile \cup {None} /\ token \in TokenFile \cup {None}
        BY <1>1 DEF TypeOK, KeyInv
    <2>2. CASE token # None /\ UNCHANGED <<files, cluster, token>>
        BY <1>1, <2>1, <2>2 DEF files, cluster, KeyInv
    <2>3. CASE WriteTokenFile(1)
        BY <2>3, NewTokenIs
    <2>4. CASE Usable /\ token' = tokenFile /\ UNCHANGED <<files, cluster>>
        BY <2>1, <2>4 DEF Usable, files, cluster
    <2> QED
        BY <2>2, <2>3, <2>4 DEF SetKubernetesToken
<1>4. config' = [config EXCEPT !.token = tokenFile'.id, !.key = tokenFile'.key]
    BY <1>3 DEF SetKubernetesToken
<1>5. config' \in Conf /\ config'.key = tokenFile'.key
    BY <1>1, <1>3, <1>4, Facts DEF Conf, TokenFile
<1>6. uploaded' \in Keys \cup {None}
    BY <1>1, <1>3 DEF TypeOK
<1>7. TypeOK'
    BY <1>1, <1>2, <1>3, <1>5, <1>6 DEF TypeOK
<1>8. CommandInv'
    BY <1>1 DEF CommandInv, Working, Adding, Refreshing
<1>9. MutexInv' /\ ConfigIsOwn'
    BY <1>2 DEF IInv, MutexInv, ConfigIsOwn, Points
<1>10. KeyInv'
    <2>1. \A n \in cmd.masters : n \in Nodes
        BY <1>1, Facts DEF CommandInv
    <2> QED
        BY <1>2, <1>3, <1>5, <2>1, Facts DEF KeyInv, Refreshing
<1>11. OneKeyInv'
    BY <1>1, <1>3, Facts DEF OneKeyInv
<1>12. RefreshInv'
    BY <1>1, <1>3, Facts DEF RefreshInv
<1>13. reported = None /\ reported' = None
    BY <1>1 DEF CommandInv, Working
<1>14. MastersInv'
    BY <1>13 DEF IInv, MastersInv, MastersReported, Succeeded
<1>15. WorkersInv'
    <2>1. \A n \in cmd.workers : n \in Nodes
        BY <1>1, Facts DEF CommandInv
    <2> QED
        BY <1>2, <1>13, <2>1 DEF WorkersInv, WorkersReported, Succeeded
<1> QED
    BY <1>7, <1>8, <1>9, <1>10, <1>11, <1>12, <1>14, <1>15 DEF IInv

-----------------------------------------------------------------------------
(* The coordinator goes on. *)
LEMMA AdvanceStep ==
    ASSUME KubeadmJoinAssumption, IInv,
           UNCHANGED <<keyFile, tokenFile, initKey, life, uploaded, conf, cmd, token, config,
                       pc, got, lock, err, reported>>,
           members \subseteq members', members' \subseteq Nodes \cup {Master0},
           \/ phase \in {"send", "join_masters"} /\ phase' = "join_masters"
              /\ \A n \in cmd.masters : Keyed(n)
           \/ phase \in {"masters", "join_masters"} /\ phase' = "workers_token"
              /\ cmd.masters \subseteq members'
    PROVE  IInv'
<1>1. TypeOK'
    BY DEF IInv, TypeOK
<1>2. CommandInv'
    BY DEF IInv, CommandInv, Working, Adding, Refreshing
<1>3. MutexInv' /\ ConfigIsOwn'
    BY DEF IInv, MutexInv, ConfigIsOwn
<1>4. KeyInv'
    BY DEF IInv, KeyInv, Refreshing, Keyed
<1>5. OneKeyInv' /\ RefreshInv'
    BY DEF IInv, OneKeyInv, RefreshInv
<1>6. reported = None /\ reported' = None
    BY DEF IInv, CommandInv, Working
<1>7. MastersInv' /\ WorkersInv'
    BY <1>6 DEF MastersInv, WorkersInv, MastersReported, WorkersReported, Succeeded
<1> QED
    BY <1>1, <1>2, <1>3, <1>4, <1>5, <1>7 DEF IInv

(* Every step of the coordinator, by what it asks of the hosts. *)
LEMMA CoordinatorStep ==
    ASSUME KubeadmJoinAssumption, IInv, Coordinator
    PROVE  IInv'
<1>1. members \subseteq Nodes \cup {Master0} /\ cmd.masters \subseteq Nodes /\ cmd.workers \subseteq Nodes
    BY Facts DEF IInv, TypeOK, CommandInv
<1>2. CASE InitConfig \/ InitMaster0
    BY <1>2, InitStep
<1>3. CASE RotateKey \/ DropToken
    BY <1>3, RotateStep
<1>4. CASE RewriteToken
    BY <1>4, RewriteStep
<1>5. CASE JoinMasters
    <2>1. CASE cmd.masters = {}
        <3>1. CASE Goto("workers_token") /\ UNCHANGED <<files, cluster, token, config, routines>>
            BY <1>1, <1>5, <2>1, <3>1, AdvanceStep DEF JoinMasters, Goto, files, cluster, routines
        <3> QED
            BY <1>5, <2>1, <3>1 DEF JoinMasters
    <2>2. CASE cmd.masters # {}
        BY <1>5, <2>2, SpawnStep DEF JoinMasters, Goto
    <2> QED
        BY <2>1, <2>2
<1>6. CASE SentMasters
    <2>1. /\ phase = "send" /\ Returned(cmd.masters)
          /\ UNCHANGED <<keyFile, tokenFile, initKey, life, uploaded, conf, members, cmd, token, config,
                         pc, got, lock, err>>
        BY <1>6 DEF SentMasters, files, cluster, routines
    <2>2. CASE Report(FALSE)
        BY <1>1, <2>1, <2>2, EndStep DEF Report, Working
    <2>3. CASE Goto("join_masters") /\ \A n \in cmd.masters : ~got[n]
        <3>1. \A n \in cmd.masters : Keyed(n)
            BY <2>1, <2>3 DEF Returned, IInv, KeyInv
        <3> QED
            BY <1>1, <2>1, <2>3, <3>1, AdvanceStep DEF Goto
    <2> QED
        BY <1>6, <2>2, <2>3 DEF SentMasters
<1>7. CASE JoinMaster
    <2>1. PICK m \in cmd.masters \ members :
            /\ phase = "join_masters"
            /\ \/ members' = members \cup {m} /\ (Goto("join_masters") \/ Report(FALSE))
               \/ Report(FALSE) /\ UNCHANGED members
            /\ UNCHANGED <<files, cluster, conf, cmd, token, config, routines, commands>>
        BY <1>7 DEF JoinMaster
    <2>2. /\ UNCHANGED <<keyFile, tokenFile, initKey, life, uploaded, conf, cmd, token, config,
                         pc, got, lock, err>>
          /\ members \subseteq members' /\ members' \subseteq Nodes \cup {Master0}
        BY <1>1, <2>1 DEF files, cluster, routines
    <2>3. CASE Report(FALSE)
        BY <2>1, <2>2, <2>3, EndStep DEF Report, Working
    <2>4. CASE Goto("join_masters")
        <3>1. \A n \in cmd.masters : Keyed(n)
            BY <2>1 DEF IInv, KeyInv
        <3> QED
            BY <2>1, <2>2, <2>4, <3>1, AdvanceStep DEF Goto
    <2> QED
        BY <2>1, <2>3, <2>4
<1>8. CASE JoinedMasters
    BY <1>1, <1>8, AdvanceStep DEF JoinedMasters, Goto, files, cluster, routines
<1>9. CASE JoinNodes
    <2>1. CASE cmd.workers = {}
        <3>1. /\ phase = "workers_token" /\ Report(TRUE)
              /\ UNCHANGED <<keyFile, tokenFile, initKey, life, uploaded, conf, members, cmd, token,
                             config, pc, got, lock, err>>
            BY <1>9, <2>1 DEF JoinNodes, files, cluster, routines
        <3>2. cmd.masters \subseteq members
            BY <3>1 DEF IInv, MastersInv
        <3> QED
            BY <1>1, <2>1, <3>1, <3>2, EndStep DEF Report, Working
    <2>2. CASE cmd.workers # {}
        BY <1>9, <2>2, SpawnStep DEF JoinNodes, Goto
    <2> QED
        BY <2>1, <2>2
<1>10. CASE JoinedNodes
    <2>1. /\ phase = "workers" /\ Returned(cmd.workers)
          /\ UNCHANGED <<keyFile, tokenFile, initKey, life, uploaded, conf, members, cmd, token, config,
                         pc, got, lock, err>>
        BY <1>10 DEF JoinedNodes, files, cluster, routines
    <2>2. cmd.masters \subseteq members
        BY <2>1 DEF IInv, MastersInv
    <2>3. CASE Report(FALSE)
        BY <1>1, <2>1, <2>3, EndStep DEF Report, Working
    <2>4. CASE Report(TRUE) /\ \A n \in cmd.workers : ~got[n]
        <3>1. OneWorker => cmd.workers \subseteq members
            BY <2>1, <2>4 DEF Returned, IInv, WorkersInv, OneWorker
        <3> QED
            BY <1>1, <2>1, <2>2, <2>4, <3>1, EndStep DEF Report, Working
    <2> QED
        BY <1>10, <2>3, <2>4 DEF JoinedNodes
<1>11. CASE Delete
    <2>1. /\ phase = "delete" /\ Report(TRUE)
          /\ UNCHANGED <<keyFile, tokenFile, initKey, life, uploaded, conf, cmd, token, config,
                         pc, got, lock, err>>
        BY <1>11 DEF Delete, files, cluster, routines
    <2>2. PICK left \in SUBSET (IF Fails("cmd") THEN cmd.masters \cup cmd.workers ELSE {}) :
            members' = (members \ (cmd.masters \cup cmd.workers)) \cup left
        BY <1>11 DEF Delete
    <2>3. left \subseteq Nodes
        BY <1>1, <2>2
    <2>4. members' \subseteq Nodes \cup {Master0}
        BY <1>1, <2>2, <2>3
    <2>5. cmd.kind = "down"
        BY <2>1 DEF IInv, CommandInv
    <2> QED
        BY <2>1, <2>4, <2>5, EndStep DEF Report, Working
<1> QED
    BY <1>2, <1>3, <1>4, <1>5, <1>6, <1>7, <1>8, <1>9, <1>10, <1>11 DEF Coordinator

-----------------------------------------------------------------------------
(* What the step of a goroutine leaves alone. *)
LEMMA RoutineFrame ==
    ASSUME KubeadmJoinAssumption, IInv, phase \in {"send", "workers"},
           UNCHANGED <<keyFile, tokenFile, initKey, life, uploaded, phase, cmd, token, reported>>,
           members \subseteq members', members' \subseteq Nodes \cup {Master0},
           config' \in Conf, conf' \in [Nodes -> Conf \cup {None}],
           lock' \in Nodes \cup {None}, err' \in BOOLEAN, got' \in [Nodes -> BOOLEAN],
           MutexInv', ConfigIsOwn',
           phase = "send" => /\ config'.key = config.key
                             /\ \A n \in cmd.masters : pc'[n] = "returned" /\ ~got'[n] => Keyed(n)',
           phase = "workers" /\ OneWorker =>
             /\ \A n \in Nodes \ cmd.workers : pc'[n] = "off"
             /\ \A n \in cmd.workers : /\ pc'[n] = "joined" /\ ~err' => n \in members'
                                       /\ pc'[n] = "returned" /\ ~got'[n] => n \in members'
    PROVE  IInv'
<1>1. TypeOK'
    BY DEF IInv, TypeOK
<1>2. CommandInv'
    BY DEF IInv, CommandInv, Working
<1>3. KeyInv'
    BY DEF IInv, KeyInv, Refreshing
<1>4. OneKeyInv' /\ RefreshInv'
    BY DEF IInv, OneKeyInv, RefreshInv
<1>5. reported = None /\ reported' = None
    BY DEF IInv, CommandInv, Working
<1>6. MastersInv'
    BY <1>5 DEF IInv, MastersInv, MastersReported, Succeeded
<1>7. WorkersInv'
    BY <1>5 DEF WorkersInv, WorkersReported, Succeeded, OneWorker
<1> QED
    BY <1>1, <1>2, <1>3, <1>4, <1>6, <1>7 DEF IInv

(* A goroutine moves on: it holds or takes the mutex, or it leaves what the  *)
(* mutex protects alone.                                                     *)
LEMMA MutexStep ==
    ASSUME KubeadmJoinAssumption, IInv, NEW n \in Nodes, NEW p \in Points,
           pc' = [pc EXCEPT ![n] = p],
           \/ /\ lock \in {None, n}
              /\ p \in {"fill", "send", "sent"} => lock' = n
              /\ p = "send" => config'.ip = n
           \/ UNCHANGED <<lock, config>> /\ p \notin {"fill", "send", "sent"},
           \/ conf' = conf
           \/ pc[n] = "send" /\ conf' = [conf EXCEPT ![n] = config]
    PROVE  MutexInv' /\ ConfigIsOwn' /\ conf' \in [Nodes -> Conf \cup {None}]
<1>1. /\ pc \in [Nodes -> Points]
      /\ \A m \in Nodes : pc[m] \in {"fill", "send", "sent"} => lock = m
      /\ \A m \in Nodes : pc[m] = "send" => config.ip = m
      /\ conf \in [Nodes -> Conf \cup {None}] /\ config \in Conf
      /\ \A m \in Nodes : conf[m] # None => conf[m].ip = m
      /\ None \notin Nodes
    BY Facts DEF IInv, MutexInv, TypeOK, ConfigIsOwn
<1>2. pc' \in [Nodes -> Points]
    BY <1>1
<1>3. \A m \in Nodes : pc'[m] \in {"fill", "send", "sent"} =>
                         lock' = m /\ (pc'[m] = "send" => config'.ip = m)
    <2> SUFFICES ASSUME NEW m \in Nodes, pc'[m] \in {"fill", "send", "sent"}
                 PROVE  lock' = m /\ (pc'[m] = "send" => config'.ip = m)
        OBVIOUS
    <2>1. CASE m = n
        BY <1>1, <2>1
    <2>2. CASE m # n
        <3>1. pc[m] = pc'[m] /\ lock = m
            BY <1>1, <2>2
        <3>2. lock' = lock /\ config' = config
            BY <1>1, <2>2, <3>1
        <3> QED
            BY <1>1, <3>1, <3>2
    <2> QED
        BY <2>1, <2>2
<1>4. conf' \in [Nodes -> Conf \cup {None}]
    BY <1>1
<1>5. \A m \in Nodes : conf'[m] # None => conf'[m].ip = m
    BY <1>1
<1> QED
    BY <1>2, <1>3, <1>4, <1>5 DEF MutexInv, ConfigIsOwn

(* A goroutine of joinMasters. *)
LEMMA MasterStep ==
    ASSUME KubeadmJoinAssumption, IInv, phase = "send", NEW n \in Nodes,
           Lock(n) \/ MasterFill(n) \/ MasterSend(n),
           UNCHANGED <<files, cluster, phase, cmd, token, reported, commands>>
    PROVE  IInv'
<1>1. /\ UNCHANGED <<keyFile, tokenFile, initKey, life, uploaded, phase, cmd, token, reported>>
      /\ UNCHANGED <<members, err>>
    BY DEF files, cluster, Lock, MasterFill, MasterSend
<1>2. /\ None \notin TokenFile
      /\ pc \in [Nodes -> Points] /\ got \in [Nodes -> BOOLEAN]
      /\ conf \in [Nodes -> Conf \cup {None}] /\ config \in Conf
      /\ lock \in Nodes \cup {None} /\ err \in BOOLEAN
      /\ members \subseteq Nodes \cup {Master0} /\ cmd.masters \subseteq Nodes
      /\ \A m \in Nodes : pc[m] \in {"fill", "send", "sent"} => lock = m
      /\ config.key = tokenFile.key
      /\ \A m \in cmd.masters : pc[m] = "returned" /\ ~got[m] => Keyed(m)
    BY Facts DEF IInv, TypeOK, MutexInv, CommandInv, KeyInv
<1>3. PICK p \in Points : pc' = [pc EXCEPT ![n] = p]
    BY DEF Lock, MasterFill, MasterSend, Return, Points
<1>4. /\ pc' = [pc EXCEPT ![n] = p] /\ lock' \in Nodes \cup {None}
      /\ lock \in {None, n} /\ (p \in {"fill", "send", "sent"} => lock' = n)
      /\ p = "send" => config'.ip = n
      /\ \/ conf' = conf
         \/ pc[n] = "send" /\ conf' = [conf EXCEPT ![n] = config]
    BY <1>2, <1>3 DEF Lock, MasterFill, MasterSend, Return, MasterUnlock, FillMaster, Conf
<1>5. MutexInv' /\ ConfigIsOwn' /\ conf' \in [Nodes -> Conf \cup {None}]
    BY <1>4, MutexStep
<1>6. config' \in Conf /\ config'.key = config.key
    BY <1>2 DEF Lock, MasterFill, MasterSend, FillMaster, Conf
<1>7. got' \in [Nodes -> BOOLEAN]
    BY <1>2 DEF Lock, MasterFill, MasterSend, Return
<1>8. ASSUME NEW m \in cmd.masters, pc'[m] = "returned", ~got'[m]
      PROVE  conf'[m].key = tokenFile.key
    <2>1. CASE m # n
        <3>1. pc[m] = "returned" /\ ~got[m] /\ conf'[m] = conf[m]
            BY <1>2, <1>3, <1>4, <1>8, <2>1 DEF Lock, MasterFill, MasterSend, Return
        <3> QED
            BY <1>2, <3>1 DEF Keyed
    <2>2. CASE m = n
        <3>1. pc[n] = "send" /\ conf' = [conf EXCEPT ![n] = config]
            BY <1>2, <1>8, <2>2 DEF Lock, MasterFill, MasterSend, Return
        <3>2. conf'[m] = config
            BY <1>2, <2>2, <3>1
        <3> QED
            BY <1>2, <3>2
    <2> QED
        BY <2>1, <2>2
<1>9. \A m \in cmd.masters : pc'[m] = "returned" /\ ~got'[m] => Keyed(m)'
    BY <1>1, <1>8 DEF Keyed
<1> QED
    BY <1>1, <1>2, <1>4, <1>5, <1>6, <1>7, <1>9, RoutineFrame

(* A goroutine of joinNodes.  Alone, it reads in err what it stored there.   *)
LEMMA WorkerStep ==
    ASSUME KubeadmJoinAssumption, IInv, phase = "workers", NEW n \in Nodes,
           \/ Lock(n) \/ WorkerFill(n) \/ WorkerSend(n) \/ WorkerSent(n)
           \/ WorkerIPVS(n) \/ WorkerReady(n) \/ WorkerJoin(n) \/ WorkerJoined(n),
           UNCHANGED <<files, cluster, phase, cmd, token, reported, commands>>
    PROVE  IInv'
<1>1. UNCHANGED <<keyFile, tokenFile, initKey, life, uploaded, phase, cmd, token, reported>>
    BY DEF files, cluster
<1>2. /\ None \notin Nodes
      /\ pc \in [Nodes -> Points] /\ got \in [Nodes -> BOOLEAN]
      /\ conf \in [Nodes -> Conf \cup {None}] /\ config \in Conf
      /\ lock \in Nodes \cup {None} /\ err \in BOOLEAN
      /\ members \subseteq Nodes \cup {Master0}
      /\ cmd.workers \subseteq Workers /\ Workers \subseteq Nodes
      /\ \A m \in Nodes : pc[m] \in {"fill", "send", "sent"} => lock = m
    BY Facts DEF IInv, TypeOK, MutexInv, CommandInv
<1>3. PICK p \in Points : pc' = [pc EXCEPT ![n] = p]
    BY DEF Lock, WorkerFill, WorkerSend, WorkerSent, WorkerIPVS, WorkerReady, WorkerJoin,
           WorkerJoined, Return, Points
<1>4. /\ lock' \in Nodes \cup {None}
      /\ \/ /\ lock \in {None, n}
            /\ p \in {"fill", "send", "sent"} => lock' = n
            /\ p = "send" => config'.ip = n
         \/ UNCHANGED <<lock, config>> /\ p \notin {"fill", "send", "sent"}
      /\ \/ conf' = conf
         \/ pc[n] = "send" /\ conf' = [conf EXCEPT ![n] = config]
    <2>1. CASE Lock(n) \/ WorkerFill(n)
        BY <1>2, <1>3, <2>1 DEF Lock, WorkerFill, FillWorker, Conf
    <2>2. CASE WorkerSend(n) \/ WorkerSent(n)
        BY <1>2, <1>3, <2>2 DEF WorkerSend, WorkerSent, Return
    <2>3. CASE WorkerIPVS(n) \/ WorkerReady(n) \/ WorkerJoin(n) \/ WorkerJoined(n)
        BY <1>2, <1>3, <2>3 DEF WorkerIPVS, WorkerReady, WorkerJoin, WorkerJoined, Return
    <2> QED
        BY <2>1, <2>2, <2>3
<1>5. MutexInv' /\ ConfigIsOwn' /\ conf' \in [Nodes -> Conf \cup {None}]
    BY <1>3, <1>4, MutexStep
<1>6. members \subseteq members' /\ members' \subseteq Nodes \cup {Master0}
    BY <1>2 DEF Lock, WorkerFill, WorkerSend, WorkerSent, WorkerIPVS, WorkerReady, WorkerJoin,
                WorkerJoined
<1>7. config' \in Conf
    <2>1. [config EXCEPT !.ip = n, !.key = None] \in Conf
        BY <1>2 DEF Conf
    <2> QED
        BY <1>2, <2>1 DEF Lock, WorkerFill, WorkerSend, WorkerSent, WorkerIPVS, WorkerReady,
                          WorkerJoin, WorkerJoined, FillWorker
<1>8. err' \in BOOLEAN
    <2>1. CASE WorkerIPVS(n)
        <3>1. err' = FALSE \/ err' = Fails("worker")
            BY <2>1 DEF WorkerIPVS
        <3>2. Fails("worker") = TRUE \/ Fails("worker") = FALSE
            BY DEF Fails
        <3> QED
            BY Zenon, <3>1, <3>2
    <2>2. CASE ~WorkerIPVS(n)
        BY <1>2, <2>2 DEF Lock, WorkerFill, WorkerSend, WorkerSent, WorkerReady, WorkerJoin,
                          WorkerJoined
    <2> QED
        BY <2>1, <2>2
<1>9. got' \in [Nodes -> BOOLEAN]
    <2>1. \A e \in BOOLEAN : [got EXCEPT ![n] = e] \in [Nodes -> BOOLEAN]
        BY <1>2
    <2>2. got' = got \/ \E e \in BOOLEAN : got' = [got EXCEPT ![n] = e]
        BY <1>2 DEF Lock, WorkerFill, WorkerSend, WorkerSent, WorkerIPVS, WorkerReady, WorkerJoin,
                    WorkerJoined, Return
    <2> QED
        BY <1>2, <2>1, <2>2
<1>10. ASSUME OneWorker
       PROVE  /\ \A m \in Nodes \ cmd.workers : pc'[m] = "off"
              /\ \A m \in cmd.workers : /\ pc'[m] = "joined" /\ ~err' => m \in members'
                                        /\ pc'[m] = "returned" /\ ~got'[m] => m \in members'
    <2>1. /\ \A m \in Nodes \ cmd.workers : pc[m] = "off"
          /\ \A m \in cmd.workers : /\ pc[m] = "joined" /\ ~err => m \in members
                                    /\ pc[m] = "returned" /\ ~got[m] => m \in members
        BY <1>10 DEF IInv, WorkersInv, OneWorker
    <2>2. pc[n] # "off"
        BY DEF Lock, WorkerFill, WorkerSend, WorkerSent, WorkerIPVS, WorkerReady, WorkerJoin,
               WorkerJoined
    <2>3. n \in cmd.workers /\ \A m \in cmd.workers : m = n
        BY <1>2, <1>10, <2>1, <2>2 DEF OneWorker
    <2>4. \A m \in Nodes \ cmd.workers : pc'[m] = "off"
        BY <1>2, <1>3, <2>1, <2>3
    <2>5. /\ pc'[n] = "joined" /\ ~err' => n \in members'
          /\ pc'[n] = "returned" /\ ~got'[n] => n \in members'
        <3>1. CASE WorkerJoin(n)
            BY <1>2, <3>1 DEF WorkerJoin
        <3>2. CASE WorkerJoined(n)
            BY <1>2, <2>1, <2>3, <3>2 DEF WorkerJoined, Return
        <3>3. CASE Lock(n) \/ WorkerFill(n) \/ WorkerSend(n)
            BY <1>2, <3>3 DEF Lock, WorkerFill, WorkerSend
        <3>4. CASE WorkerSent(n) \/ WorkerReady(n)
            BY <1>2, <3>4 DEF WorkerSent, WorkerReady, Return
        <3>5. CASE WorkerIPVS(n)
            BY <1>2, <3>5 DEF WorkerIPVS
        <3> QED
            BY <3>1, <3>2, <3>3, <3>4, <3>5
    <2> QED
        BY <2>3, <2>4, <2>5
<1> QED
    BY <1>1, <1>4, <1>5, <1>6, <1>7, <1>8, <1>9, <1>10, RoutineFrame

(* Every step, of the process, of its goroutines, of the operator or of time. *)
LEMMA NextStep ==
    ASSUME KubeadmJoinAssumption, IInv, [Next]_vars
    PROVE  IInv'
<1>1. CASE Command
    BY <1>1, BeginStep
<1>2. CASE Coordinator
    BY <1>2, CoordinatorStep
<1>3. CASE Failure
    BY <1>3, FailureStep
<1>4. CASE Kill
    BY <1>4, KillStep
<1>5. CASE Age \/ Done \/ UNCHANGED vars
    BY <1>5, AgeStep
<1>6. CASE \E n \in Nodes : Routine(n)
    <2>1. PICK n \in Nodes : Routine(n)
        BY <1>6
    <2>2. CASE phase = "send" /\ (Lock(n) \/ MasterFill(n) \/ MasterSend(n))
        BY <2>1, <2>2, MasterStep DEF Routine
    <2>3. CASE /\ phase = "workers"
               /\ \/ Lock(n) \/ WorkerFill(n) \/ WorkerSend(n) \/ WorkerSent(n)
                  \/ WorkerIPVS(n) \/ WorkerReady(n) \/ WorkerJoin(n) \/ WorkerJoined(n)
        BY <2>1, <2>3, WorkerStep DEF Routine
    <2> QED
        BY <2>1, <2>2, <2>3 DEF Routine
<1> QED
    BY <1>1, <1>2, <1>3, <1>4, <1>5, <1>6 DEF Next

(* What the invariant says of the operator's cluster. *)
LEMMA JoinFollows ==
    ASSUME KubeadmJoinAssumption, IInv
    PROVE  JoinSound
<1>1. TypeOK /\ ConfigIsOwn /\ MastersReported
    BY DEF IInv, MastersInv
<1>2. ~Rotate => MasterKeyOpens
    BY DEF IInv, KeyInv, OneKeyInv, MasterKeyOpens, Keyed
<1>3. (~Rotate \/ Faults \cap {"cmd", "kill"} = {}) => TokenInSync
    <2> SUFFICES ASSUME ~Rotate \/ Faults \cap {"cmd", "kill"} = {},
                        NEW k \in {"up", "refresh"}, Succeeded(k), tokenFile # None
                 PROVE  tokenFile.key = keyFile
        BY DEF TokenInSync
    <2>1. phase = "idle"
        BY DEF IInv, CommandInv, Working, Succeeded
    <2> QED
        BY <2>1 DEF IInv, OneKeyInv, RefreshInv
<1>4. (\A v, w \in Workers : v = w) => WorkersReported
    BY DEF IInv, WorkersInv
<1> QED
    BY <1>1, <1>2, <1>3, <1>4 DEF JoinSound

(* Whatever the goroutines of a scale up interleave to, and wherever a       *)
(* command fails or the process is killed: a host's join configuration is    *)
(* its own, a scale up reported as done has joined every master, and, while  *)
(* the operator keeps the key, a master's configuration opens the uploaded   *)
(* certificates and the cached token embeds the cached key (with a rotated   *)
(* key, too, where no command fails between the steps of the refresh); a     *)
(* reported scale up has joined its worker, where it was one.                *)
THEOREM JoinsAreSound ==
    ASSUME KubeadmJoinAssumption
    PROVE  Spec => []JoinSound
<1>1. Init => IInv
    BY NothingYet
<1>2. IInv /\ [Next]_vars => IInv'
    BY NextStep
<1>3. IInv => JoinSound
    BY JoinFollows
<1> QED
    BY <1>1, <1>2, <1>3, PTL DEF Spec
=============================================================================
