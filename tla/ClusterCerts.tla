---------------------------- MODULE ClusterCerts ----------------------------
(* The certificates of a cluster (pkg/cert and certs.go, init.go and         *)
(* kubeconfig.go of pkg/runtime/kubernetes): sealos generates CA, leaf       *)
(* certificates and kubeconfigs in the cluster's local directory and sends   *)
(* them to master0; every other master gets the CA and generates its own     *)
(* leaf certificates.  "sealos cert" adds names to the API servers'          *)
(* certificates, "sealos kubeconfig" regenerates kubeconfigs.                *)
(* The three CAs and seven leaf certificates are one each: the API server's. *)
(* A write of one file is atomic; a process may die between two.             *)
(* kubeadm, the kubelet and the API servers are external.                    *)
EXTENDS Naturals, FiniteSets

CONSTANTS Masters, Master0, Names, Files,  \* Files: kubeconfig files
          None,
          Faults,        \* "fail", "kill", "crash"
          MaxCommands    \* bound of the instance

Certs == [sans : SUBSET (Masters \cup Names), ca : 1 .. MaxCommands]

ClusterCertsAssumption ==
    /\ Master0 \in Masters /\ IsFiniteSet(Masters) /\ Masters \cap Names = {}
    /\ "local" \notin Masters /\ MaxCommands \in Nat
    /\ Faults \subseteq {"fail", "kill", "crash"}
    /\ None \notin Nat /\ None \notin Certs
    /\ \A names \in SUBSET (Masters \cup Names) : names # None

Places == Masters \cup {"local"}

VARIABLES
    pki,      \* per place: caKey, caCert, saKey, saPub, cert, paired
    cas,      \* CAs created
    conf,     \* local kubeconfig files: None or the CA they trust
    cm,       \* certSANs of the kubeadm-config ConfigMap, None before init
    served,   \* per master: the certificate its API server loaded
    joined,
    cmd, step, place, todo, sans,  \* the running command
    granted,  \* names a successful "sealos cert" has added
    result, commands

disk == <<pki, cas>>
cluster == <<cm, served, joined>>
control == <<cmd, place, todo, sans, commands>>
vars == <<disk, conf, cluster, control, step, granted, result>>

Base == Masters      \* the names every cluster starts with: initCertSANS
NoPKI == [caKey |-> None, caCert |-> None, saKey |-> FALSE, saPub |-> FALSE,
          cert |-> None, paired |-> FALSE]

Init ==
    /\ pki = [p \in Places |-> NoPKI] /\ cas = 0
    /\ conf = [f \in Files |-> None]
    /\ cm = None /\ served = [m \in Masters |-> None] /\ joined = {}
    /\ cmd = "none" /\ step = "idle" /\ place = "local" /\ todo = {} /\ sans = {}
    /\ granted = {} /\ result = "none" /\ commands = 0

Goto(s) == step' = s /\ UNCHANGED result
Stop(r) == step' = "idle" /\ result' = r
Keep == UNCHANGED <<cmd, place, todo, sans, commands, granted>>

-----------------------------------------------------------------------------
Start(c) == /\ step = "idle" /\ commands < MaxCommands
            /\ cmd' = c /\ commands' = commands + 1 /\ result' = "none"
            /\ UNCHANGED <<disk, conf, cluster, granted>>

(* InitCertsAndKubeConfigs, run again after a failure *)
BeginInit ==
    /\ cm = None /\ Start("init")
    /\ sans' = Base \ (Masters \ {Master0}) /\ place' = "local" /\ todo' = {}
    /\ step' = "sakey"

(* joinMasters: the CA, and with it master0's certificate, is sent first *)
BeginJoin(m) ==
    /\ cm # None /\ m \notin joined /\ Start("join")
    /\ place' = m /\ todo' = {} /\ sans' = {}
    /\ step' = "send"

\* mutant: the names of the configuration file are used
ConfiguredSANs == {Master0}

(* mergeWithBuiltinKubeadmConfig: the names in the ConfigMap are the current *)
(* ones, not those of the configuration file.                                *)
CurrentSANs == cm

BeginUpdate(names) ==
    /\ cm # None /\ names # {} /\ Start("update")
    /\ sans' = CurrentSANs \cup names
    /\ place' = "local" /\ todo' = {}
    /\ step' = "sakey"

BeginRefresh(fs) ==
    /\ cm # None /\ fs # {} /\ Start("refresh")
    /\ todo' = fs /\ place' = "local" /\ sans' = {}
    /\ step' = "remove"

-----------------------------------------------------------------------------
(* GenerateAll at place.  The service account's key pair is made unless the  *)
(* private key exists, and no error of it stops the command.                 *)
SaKey ==
    /\ step = "sakey"
    /\ IF pki[place].saKey
       THEN Goto("cakey") /\ UNCHANGED pki
       ELSE pki' = [pki EXCEPT ![place].saKey = TRUE] /\ Goto("sapub")
    /\ Keep /\ UNCHANGED <<cas, conf, cluster>>

SaPub ==
    /\ step = "sapub"
    /\ \/ pki' = [pki EXCEPT ![place].saPub = TRUE]
       \/ "fail" \in Faults /\ UNCHANGED pki
    /\ Goto("cakey")
    /\ Keep /\ UNCHANGED <<cas, conf, cluster>>

(* NewCaCertAndKey: a CA whose key exists is loaded, another one is created  *)
(* and its key written first.                                                *)
CaKey ==
    /\ step = "cakey"
    /\ IF pki[place].caKey # None
       THEN /\ IF pki[place].caCert = None THEN Stop("failed") ELSE Goto("key")
            /\ UNCHANGED disk
       ELSE /\ cas' = cas + 1
            /\ pki' = [pki EXCEPT ![place].caKey = cas + 1]
            /\ Goto("cacert")
    /\ Keep /\ UNCHANGED <<conf, cluster>>

CaCert ==
    /\ step = "cacert"
    /\ pki' = [pki EXCEPT ![place].caCert = pki[place].caKey]
    /\ Goto("key")
    /\ Keep /\ UNCHANGED <<cas, conf, cluster>>

LeafKey ==
    /\ step = "key"
    /\ pki' = [pki EXCEPT ![place].paired = FALSE]
    /\ Goto("cert")
    /\ Keep /\ UNCHANGED <<cas, conf, cluster>>

(* The names, and the name and address of the node the certificate is for *)
NodeOf(p) == IF p = "local" THEN Master0 ELSE p
LeafCert ==
    /\ step = "cert"
    /\ pki' = [pki EXCEPT ![place].cert = [sans |-> sans \cup {NodeOf(place)}, ca |-> pki[place].caKey],
                          ![place].paired = TRUE]
    /\ Goto(IF place = "local" THEN "send" ELSE IF cmd = "join" THEN "kubeadm" ELSE "next")
    /\ Keep /\ UNCHANGED <<cas, conf, cluster>>

-----------------------------------------------------------------------------
(* sendNewCertAndKey: the local directory, to master0 or a joining master.   *)
Receiver == IF cmd = "join" THEN place ELSE Master0

\* mutant: the CA is not sent
SendLeafOnly ==
    /\ step = "send"
    /\ pki' = [pki EXCEPT ![Receiver].cert = pki["local"].cert, ![Receiver].paired = TRUE]
    /\ Goto(CASE cmd = "init" -> "confs" [] cmd = "join" -> "merge" [] OTHER -> "upload")
    /\ Keep /\ UNCHANGED <<cas, conf, cluster>>

Send ==
    /\ step = "send"
    /\ \/ /\ pki' = [pki EXCEPT ![Receiver] = pki["local"]]
          /\ Goto(CASE cmd = "init" -> "confs" [] cmd = "join" -> "merge" [] OTHER -> "upload")
       \/ /\ "fail" \in Faults
          /\ pki' = [pki EXCEPT ![Receiver].paired = FALSE]
          /\ Stop("failed")
    /\ Keep /\ UNCHANGED <<cas, conf, cluster>>

(* createKubeConfigFiles: a file that exists must trust the same CA *)
Written(f) == pki["local"].caCert
KubeConfigs ==
    /\ step = "confs"
    /\ IF \E f \in Files : conf[f] \notin {None, pki["local"].caCert}
       THEN Stop("failed") /\ UNCHANGED conf
       ELSE \/ conf' = [f \in Files |-> Written(f)] /\ Goto("kubeadm")
            \/ /\ "fail" \in Faults
               /\ \E fs \in SUBSET Files : conf' = [f \in Files |-> IF f \in fs THEN Written(f) ELSE conf[f]]
               /\ Stop("failed")
    /\ Keep /\ UNCHANGED <<disk, cluster>>

Merge ==
    /\ step = "merge"
    /\ sans' = CurrentSANs
    /\ Goto("sakey")
    /\ UNCHANGED <<cmd, place, todo, commands, granted, disk, conf, cluster>>

(* kubeadm init and kubeadm join keep certificates they find: external *)
Kubeadm ==
    /\ step = "kubeadm"
    /\ LET m == NodeOf(place) IN
       /\ served' = [served EXCEPT ![m] = pki[m].cert]
       /\ joined' = joined \cup {m}
    /\ cm' = IF cmd = "init" THEN sans ELSE cm
    /\ Stop("ok")
    /\ Keep /\ UNCHANGED <<disk, conf>>

-----------------------------------------------------------------------------
(* saveNewKubeadmConfig and uploadConfigFromKubeadm; then syncCert *)
Upload ==
    /\ step = "upload"
    /\ cm' = sans
    /\ todo' = joined \ {Master0}
    /\ Goto("next")
    /\ UNCHANGED <<cmd, place, sans, commands, granted, disk, conf, served, joined>>

\* mutant: only master0's API server is restarted
SyncCertMaster0 ==
    /\ step = "next"
    /\ IF todo = {}
       THEN todo' = {Master0} /\ Goto("restart") /\ UNCHANGED place
       ELSE \E m \in todo : /\ todo' = todo \ {m} /\ place' = m
                            /\ Goto("sakey")
    /\ UNCHANGED <<cmd, sans, commands, granted, disk, conf, cluster>>

SyncCert ==
    /\ step = "next"
    /\ IF todo = {}
       THEN todo' = joined /\ Goto("restart") /\ UNCHANGED place
       ELSE \E m \in todo : /\ todo' = todo \ {m} /\ place' = m
                            /\ Goto("sakey")
    /\ UNCHANGED <<cmd, sans, commands, granted, disk, conf, cluster>>

(* An API server starts with the certificate on its disk, when it is one *)
Loaded(m) == IF pki[m].paired THEN pki[m].cert ELSE None

(* deleteAPIServer, in parallel: the kubelet starts the pod again.  It fails *)
(* on a master where no API server is found.                                 *)
DeleteAPIServer ==
    /\ step = "restart" /\ todo # {}
    /\ \E m \in todo :
          /\ todo' = todo \ {m}
          /\ \/ served' = [served EXCEPT ![m] = Loaded(m)] /\ Goto("restart")
             \/ served[m] = None /\ Stop("failed") /\ UNCHANGED served
    /\ UNCHANGED <<cmd, place, sans, commands, granted, disk, conf, cm, joined>>

Updated ==
    /\ step = "restart" /\ todo = {}
    /\ granted' = granted \cup (sans \ Base)
    /\ Stop("ok")
    /\ UNCHANGED <<cmd, place, todo, sans, commands, disk, conf, cluster>>

-----------------------------------------------------------------------------
(* refreshLocalKubeConfigFiles, file by file *)
Remove ==
    /\ step = "remove"
    /\ \E f \in todo : conf' = [conf EXCEPT ![f] = None]
    /\ Goto("create")
    /\ Keep /\ UNCHANGED <<disk, cluster>>

Create ==
    /\ step = "create"
    /\ \E f \in todo :
          /\ conf[f] = None
          /\ conf' = [conf EXCEPT ![f] = Written(f)]
          /\ todo' = todo \ {f}
          /\ IF todo = {f} THEN Stop("ok") ELSE Goto("remove")
    /\ UNCHANGED <<cmd, place, sans, commands, granted, disk, cluster>>

(* A command on a host, a copy or a write fails, or the process is killed *)
Fail ==
    /\ \/ "kill" \in Faults /\ step # "idle"
       \/ "fail" \in Faults /\ step \notin {"idle", "sakey", "sapub"}
    /\ Stop("failed")
    /\ Keep /\ UNCHANGED <<disk, conf, cluster>>

(* The kubelet restarts an API server: external *)
Crash(m) ==
    /\ "crash" \in Faults /\ m \in joined /\ served[m] # Loaded(m)
    /\ served' = [served EXCEPT ![m] = Loaded(m)]
    /\ UNCHANGED <<disk, conf, cm, joined, control, step, granted, result>>

Done == step = "idle" /\ commands = MaxCommands /\ UNCHANGED vars

Next ==
    \/ BeginInit \/ \E m \in Masters : BeginJoin(m)
    \/ \E names \in SUBSET Names : BeginUpdate(names)
    \/ \E fs \in SUBSET Files : BeginRefresh(fs)
    \/ SaKey \/ SaPub \/ CaKey \/ CaCert \/ LeafKey \/ LeafCert
    \/ Send \/ KubeConfigs \/ Merge \/ Kubeadm
    \/ Upload \/ SyncCert \/ DeleteAPIServer \/ Updated
    \/ Remove \/ Create \/ Fail
    \/ \E m \in Masters : Crash(m)
    \/ Done

Spec == Init /\ [][Next]_vars

-----------------------------------------------------------------------------
CAs == 1 .. MaxCommands
PKI == [caKey : CAs \cup {None}, caCert : CAs \cup {None}, saKey : BOOLEAN, saPub : BOOLEAN,
        cert : Certs \cup {None}, paired : BOOLEAN]

(* Every variable has its type. *)
TypeOK ==
    /\ pki \in [Places -> PKI]
    /\ conf \in [Files -> CAs \cup {None}]
    /\ cm \in {None} \cup SUBSET (Masters \cup Names)
    /\ served \in [Masters -> Certs \cup {None}]
    /\ joined \subseteq Masters /\ granted \subseteq Names
    /\ cas \in 0 .. MaxCommands /\ result \in {"none", "ok", "failed"}

(* A running API server's certificate is for its own node and has every name *)
(* a successful "sealos cert" has added, through later failed updates, joins *)
(* of new masters and restarts.                                              *)
ServedKeepsNames == \A m \in joined :
    served[m] # None => {m} \cup granted \subseteq served[m].sans

(* All masters' certificates and the local kubeconfigs are of one CA. *)
OneCA == \A m \in joined :
    /\ pki[m].cert # None => pki[m].cert.ca = pki["local"].caKey
    /\ pki[m].caCert = pki["local"].caCert
    /\ \A f \in Files : conf[f] \in {None, pki[m].caCert}

(* After "sealos cert" succeeds every API server that runs serves what is on *)
(* its disk.                                                                 *)
UpdateIsLive == (step = "idle" /\ cmd = "update" /\ result = "ok") =>
    \A m \in joined : served[m] # None => served[m].sans = pki[m].cert.sans

(* Through failures, kills and restarts of API servers: the names, the CA    *)
(* and what is served.                                                       *)
CertsSound == TypeOK /\ ServedKeepsNames /\ OneCA /\ UpdateIsLive
=============================================================================
