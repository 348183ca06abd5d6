------------------------- MODULE ClusterCerts_proofs -------------------------
(* The certificates of a cluster, for any masters, names and kubeconfig      *)
(* files, any number of commands, and failures, kills and API servers that   *)
(* restart at any step.                                                      *)
EXTENDS MCKubeadm, TLAPS

(* What the provers need of the parameters. *)
LEMMA Facts ==
    ASSUME ClusterCertsAssumption
    PROVE  /\ Master0 \in Masters /\ "local" \notin Masters /\ "local" \in Places
           /\ Masters \subseteq Places /\ MaxCommands \in Nat
           /\ None \notin CAs /\ None \notin Certs
           /\ \A S \in SUBSET (Masters \cup Names) : S # None
BY DEF ClusterCertsAssumption, Places, CAs

-----------------------------------------------------------------------------
(* The invariant.                                                            *)

Home == pki["local"]

(* Which steps a command takes where, and the names it works with: those of  *)
(* the cluster when it generates on a master.                                *)
Generating == {"sakey", "sapub", "cakey", "cacert", "key", "cert"}

InitAt == /\ cm = None /\ joined = {} /\ place = "local"
          /\ step \in Generating \cup {"send", "confs", "kubeadm"}
JoinAt == /\ cm # None /\ place \in Masters \ joined
          /\ \/ step \in {"send", "merge"}
             \/ step \in Generating \cup {"kubeadm"} /\ sans = cm
UpdateHome == place = "local" /\ step \in Generating \cup {"send", "upload"} /\ cm \subseteq sans
UpdateMaster == place \in joined \ {Master0} /\ step \in Generating /\ cm = sans
UpdateAll == step \in {"next", "restart"} /\ cm = sans
RefreshAt == cm # None /\ place = "local" /\ step \in {"remove", "create"} /\ todo \subseteq Files

CommandInv ==
    /\ commands \in 0 .. MaxCommands /\ sans \subseteq Masters \cup Names
    /\ place \in Places
    /\ step # "idle" =>
         /\ commands # 0
         /\ \/ cmd = "init" /\ InitAt
            \/ cmd = "join" /\ JoinAt
            \/ cmd = "update" /\ cm # None /\ (UpdateHome \/ UpdateMaster \/ UpdateAll)
            \/ cmd = "refresh" /\ RefreshAt
    /\ cm # None => Master0 \in joined
    /\ cm = None => joined = {}

(* There is one CA.  It is made at home by the first init and whole before   *)
(* anything is signed; a master trusts it from when it has been sent.        *)
Ready == Home.caKey # None /\ Home.caCert = Home.caKey
Trusts(m) == /\ pki[m].caKey = Home.caKey /\ pki[m].caCert = Home.caCert
             /\ pki[m].cert # None => pki[m].cert.ca = Home.caKey

CAInv ==
    /\ cas \in {0, 1} /\ (Home.caKey = None => cas = 0)
    /\ Home.caCert \in {None, Home.caKey}
    /\ cm # None \/ step \in {"key", "cert", "send", "confs", "kubeadm"} => Ready
    /\ step = "cacert" => cmd = "init" /\ Home.caKey # None
    /\ Home.cert # None => Ready /\ Home.cert.ca = Home.caKey
    /\ \A f \in Files : conf[f] \in {None, Home.caCert}
    /\ \A m \in joined : Trusts(m)
    /\ cmd = "join" /\ step \notin {"idle", "send"} => Trusts(place)
    /\ cmd = "init" /\ step \in {"confs", "kubeadm"} => Trusts(Master0)

(* The names: the ConfigMap has all that were granted, and so has every      *)
(* certificate a joined master holds or serves.                              *)
Named(m, cert) == cert # None => {m} \cup granted \subseteq cert.sans

NamesInv ==
    /\ granted \subseteq Names
    /\ cm = None => granted = {}
    /\ cm # None => granted \subseteq cm
    /\ \A m \in joined : Named(m, pki[m].cert) /\ Named(m, served[m])
    /\ Home.cert # None => Master0 \in Home.cert.sans
    /\ cmd = "update" /\ step = "send" /\ Home.cert # None => sans \subseteq Home.cert.sans
    /\ cmd = "join" /\ step = "kubeadm" => Named(place, pki[place].cert)
    /\ cmd = "init" /\ step \in {"confs", "kubeadm"} => Named(Master0, pki[Master0].cert)

(* An update renews the certificates of the masters one by one, then the     *)
(* API servers load them.                                                    *)
Renewed(m) == pki[m].cert # None => sans \subseteq pki[m].cert.sans
Live(m) == served[m] # None => served[m] = pki[m].cert

UpdateInv ==
    /\ cmd = "update" /\ step = "upload" => Renewed(Master0)
    /\ cmd = "update" /\ step = "next" =>
         todo \subseteq joined \ {Master0} /\ \A m \in joined \ todo : Renewed(m)
    /\ cmd = "update" /\ place # "local" /\ step \in Generating =>
         todo \subseteq joined \ {Master0} /\ \A m \in joined \ (todo \cup {place}) : Renewed(m)
    /\ cmd = "update" /\ step = "restart" =>
         /\ todo \subseteq joined
         /\ \A m \in joined : Renewed(m)
         /\ \A m \in joined \ todo : Live(m)
    /\ step = "idle" /\ cmd = "update" /\ result = "ok" => \A m \in joined : Live(m)

IInv == TypeOK /\ CommandInv /\ CAInv /\ NamesInv /\ UpdateInv

-----------------------------------------------------------------------------
(* Nothing is there at the start. *)
LEMMA NothingYet == ASSUME ClusterCertsAssumption PROVE Init => IInv
<1> SUFFICES ASSUME Init PROVE IInv
    OBVIOUS
<1>1. NoPKI \in PKI
    BY DEF NoPKI, PKI
<1>2. TypeOK
    BY <1>1, Facts DEF Init, TypeOK
<1>3. Home = NoPKI
    BY Facts DEF Init, Home
<1>4. CommandInv
    BY Facts DEF Init, CommandInv
<1>5. CAInv
    BY <1>3 DEF Init, CAInv, NoPKI, Ready
<1>6. NamesInv /\ UpdateInv
    BY <1>3 DEF Init, NamesInv, UpdateInv, NoPKI, Generating
<1> QED
    BY <1>2, <1>4, <1>5, <1>6 DEF IInv

(* What a step leaves of the keys and certificates on the disks. *)
SameCA == \A p \in Places : /\ pki'[p].caKey = pki[p].caKey
                            /\ pki'[p].caCert = pki[p].caCert
                            /\ pki'[p].cert = pki[p].cert

(* Steps that write no CA and no certificate: the service account's key      *)
(* pair, a CA that is loaded, the private key of a certificate, a failure.   *)
QuietMove ==
    \/ step \in {"sakey", "sapub"} /\ step' \in {"sapub", "cakey"} /\ UNCHANGED result
    \/ /\ step = "cakey" /\ step' = "key" /\ UNCHANGED result
       /\ pki[place].caKey # None /\ pki[place].caCert # None
    \/ step = "key" /\ step' = "cert" /\ UNCHANGED result
    \/ step' = "idle" /\ result' = "failed"

LEMMA QuietStep ==
    ASSUME ClusterCertsAssumption, IInv, pki' \in [Places -> PKI], SameCA, QuietMove,
           UNCHANGED <<cas, conf, cm, served, joined, cmd, place, todo, sans, commands, granted>>
    PROVE  IInv'
<1>1. TypeOK'
    BY DEF IInv, TypeOK, QuietMove
<1>2. /\ Home'.caKey = Home.caKey /\ Home'.caCert = Home.caCert /\ Home'.cert = Home.cert
      /\ Ready' <=> Ready
    BY Facts DEF SameCA, Home, Ready
<1>3. \A m \in Masters : /\ Trusts(m)' <=> Trusts(m)
                         /\ Renewed(m)' <=> Renewed(m)
                         /\ Live(m)' <=> Live(m)
                         /\ pki'[m].cert = pki[m].cert
    BY <1>2, Facts DEF SameCA, Trusts, Renewed, Live
<1>4. CommandInv'
    BY DEF IInv, CommandInv, QuietMove, InitAt, JoinAt, UpdateHome, UpdateMaster,
       UpdateAll, RefreshAt, Generating
<1>5. joined \subseteq Masters
    BY DEF IInv, TypeOK
<1>6. CAInv'
    <2>1. step \in {"cakey", "key"} /\ step' \in {"key", "cert"} => Ready
        <3>1. step = "key" => Ready
            BY DEF IInv, CAInv
        <3>2. step = "cakey" => cmd \in {"init", "join", "update"} /\ (cm = None => place = "local")
            BY DEF IInv, CommandInv, InitAt, JoinAt, UpdateHome, UpdateMaster, UpdateAll, RefreshAt
        <3>3. step = "cakey" /\ step' \in {"key", "cert"} => pki[place].caKey # None /\ pki[place].caCert # None
            BY DEF QuietMove
        <3>4. step = "cakey" /\ step' \in {"key", "cert"} => Ready
            BY <3>2, <3>3 DEF IInv, CAInv, Home, Ready
        <3> QED
            BY <3>1, <3>4
    <2>2. cmd = "join" /\ step # "idle" => place \in Masters
        BY DEF IInv, CommandInv, JoinAt, InitAt, UpdateHome, UpdateMaster, UpdateAll, RefreshAt
    <2>3. cm # None \/ step' \in {"key", "cert", "send", "confs", "kubeadm"} => Ready
        BY <2>1 DEF QuietMove, IInv, CAInv
    <2>4. cmd = "join" /\ step' \notin {"idle", "send"} => Trusts(place)'
        BY <1>3, <2>2 DEF QuietMove, IInv, CAInv
    <2>5. \A m \in joined : Trusts(m)'
        BY <1>3, <1>5 DEF IInv, CAInv
    <2>6. step' \notin {"cacert", "confs", "kubeadm"}
        BY DEF QuietMove
    <2>7. /\ cas \in {0, 1} /\ (Home.caKey = None => cas = 0)
          /\ Home.caCert \in {None, Home.caKey}
          /\ Home.cert # None => Ready /\ Home.cert.ca = Home.caKey
          /\ \A f \in Files : conf[f] \in {None, Home.caCert}
        BY DEF IInv, CAInv
    <2> QED
        BY <1>2, <2>3, <2>4, <2>5, <2>6, <2>7 DEF CAInv
<1>7. NamesInv'
    <2>1. step' \notin {"send", "confs", "kubeadm"}
        BY DEF QuietMove
    <2> QED
        BY <1>2, <1>3, <1>5, <2>1 DEF IInv, NamesInv, Named
<1>8. UpdateInv'
    <2>1. step' \notin {"upload", "next", "restart"} /\ (step' = "idle" => result' = "failed")
        BY DEF QuietMove
    <2>2. step' \in Generating => step \in Generating
        BY DEF QuietMove, Generating
    <2> QED
        BY <1>3, <1>5, <2>1, <2>2 DEF IInv, UpdateInv
<1> QED
    BY <1>1, <1>4, <1>6, <1>7, <1>8 DEF IInv

(* A command begins: what is asked, and no certificate written yet. *)
LEMMA BeginStep ==
    ASSUME ClusterCertsAssumption, IInv,
           \/ BeginInit
           \/ \E m \in Masters : BeginJoin(m)
           \/ \E names \in SUBSET Names : BeginUpdate(names)
           \/ \E fs \in SUBSET Files : BeginRefresh(fs)
    PROVE  IInv'
<1>1. /\ step = "idle" /\ commands < MaxCommands /\ commands' = commands + 1 /\ result' = "none"
      /\ UNCHANGED <<pki, cas, conf, cm, served, joined, granted>>
    BY DEF BeginInit, BeginJoin, BeginUpdate, BeginRefresh, Start, disk, cluster
<1>2. /\ step' \in {"sakey", "send", "remove"}
      /\ \/ cmd' = "init" /\ cm = None /\ step' = "sakey" /\ place' = "local"
            /\ sans' = Base \ (Masters \ {Master0})
         \/ cmd' = "join" /\ cm # None /\ step' = "send" /\ place' \in Masters \ joined /\ sans' = {}
         \/ cmd' = "update" /\ cm # None /\ step' = "sakey" /\ place' = "local"
            /\ \E names \in SUBSET Names : sans' = cm \cup names
         \/ cmd' = "refresh" /\ cm # None /\ step' = "remove" /\ place' = "local" /\ sans' = {}
            /\ todo' \subseteq Files
    BY DEF BeginInit, BeginJoin, BeginUpdate, BeginRefresh, Start, CurrentSANs
<1>3. TypeOK'
    BY <1>1 DEF IInv, TypeOK
<1>4. cm # None => cm \in SUBSET (Masters \cup Names)
    <2>1. cm \in {None} \cup SUBSET (Masters \cup Names)
        BY DEF IInv, TypeOK
    <2> QED
        BY <2>1, Zenon
<1>5. CommandInv'
    <2>1. commands' \in 0 .. MaxCommands /\ commands' # 0
        BY <1>1, Facts DEF IInv, CommandInv
    <2>2. sans' \subseteq Masters \cup Names /\ place' \in Places
        BY <1>2, <1>4, Facts DEF Base
    <2>3. (cm = None => joined = {}) /\ (cm # None => Master0 \in joined)
        BY DEF IInv, CommandInv
    <2>4. CASE cmd' = "init"
        BY <1>1, <1>2, <2>1, <2>2, <2>3, <2>4 DEF CommandInv, InitAt, Generating
    <2>5. CASE cmd' = "join"
        BY <1>1, <1>2, <2>1, <2>2, <2>3, <2>5 DEF CommandInv, JoinAt
    <2>6. CASE cmd' = "update"
        BY <1>1, <1>2, <2>1, <2>2, <2>3, <2>6 DEF CommandInv, UpdateHome, Generating
    <2>7. CASE cmd' = "refresh"
        BY <1>1, <1>2, <2>1, <2>2, <2>3, <2>7 DEF CommandInv, RefreshAt
    <2> QED
        BY <1>2, <2>4, <2>5, <2>6, <2>7
<1>6. CAInv'
    BY <1>1, <1>2 DEF IInv, CAInv, Home, Ready, Trusts
<1>7. NamesInv'
    BY <1>1, <1>2 DEF IInv, NamesInv, Home, Named
<1>8. UpdateInv'
    BY <1>1, <1>2 DEF UpdateInv
<1> QED
    BY <1>3, <1>5, <1>6, <1>7, <1>8 DEF IInv

-----------------------------------------------------------------------------
(* NewCaCertAndKey makes a CA at home only, in the first init: every other   *)
(* place has been sent one.                                                  *)
LEMMA Generates ==
    ASSUME ClusterCertsAssumption, IInv, step \in Generating
    PROVE  /\ cmd \in {"init", "join", "update"}
           /\ place = "local" \/ (place \in Masters /\ cm # None /\ Trusts(place))
           /\ place \in Places /\ pki[place] \in PKI /\ Home \in PKI
           /\ pki \in [Places -> PKI]
<1>1. \/ cmd = "init" /\ InitAt
      \/ cmd = "join" /\ JoinAt
      \/ cmd = "update" /\ cm # None /\ (UpdateHome \/ UpdateMaster)
    BY DEF IInv, CommandInv, Generating, UpdateAll, RefreshAt
<1>2. joined \subseteq Masters /\ pki \in [Places -> PKI]
    BY DEF IInv, TypeOK
<1>3. cmd = "join" => Trusts(place)
    BY DEF IInv, CAInv, Generating
<1>4. \A m \in joined : Trusts(m)
    BY DEF IInv, CAInv
<1>5. place = "local" \/ (place \in Masters /\ cm # None /\ Trusts(place))
    BY <1>1, <1>2, <1>3, <1>4 DEF InitAt, JoinAt, UpdateHome, UpdateMaster
<1> QED
    BY <1>1, <1>2, <1>5, Facts DEF Home

LEMMA MakeCAKey ==
    ASSUME ClusterCertsAssumption, IInv, step = "cakey", pki[place].caKey = None,
           cas' = cas + 1, pki' = [pki EXCEPT ![place].caKey = cas + 1],
           Goto("cacert"), Keep, UNCHANGED <<conf, cluster>>
    PROVE  IInv'
<1>1. /\ place = "local" \/ (place \in Masters /\ cm # None /\ Trusts(place))
      /\ place \in Places /\ Home \in PKI /\ pki \in [Places -> PKI]
    BY Generates DEF Generating
<1>2. cm # None => Ready
    BY DEF IInv, CAInv
<1>3. place = "local" /\ cm = None /\ Home.caKey = None
    BY <1>1, <1>2 DEF Trusts, Ready, Home
<1>4. cmd = "init" /\ joined = {}
    BY <1>3 DEF IInv, CommandInv, JoinAt, RefreshAt
<1>5. /\ cas = 0 /\ cas' = 1 /\ Home.caCert = None /\ Home.cert = None
      /\ \A f \in Files : conf[f] = None
    BY <1>3 DEF IInv, CAInv, Ready
<1>6. commands \in 1 .. MaxCommands
    BY Facts DEF IInv, CommandInv
<1>7. 1 \in CAs /\ 1 # None
    BY <1>6, Facts DEF CAs
<1>8. /\ pki' \in [Places -> PKI]
      /\ Home'.caKey = 1 /\ Home'.caCert = None /\ Home'.cert = None
      /\ \A m \in Masters : pki'[m] = pki[m]
    BY <1>1, <1>3, <1>5, <1>7, Facts DEF Home, PKI
<1>9. TypeOK'
    <2>1. cas' \in 0 .. MaxCommands
        BY <1>5, <1>6, Facts
    <2> QED
        BY <1>8, <2>1 DEF IInv, TypeOK, Goto, Keep, cluster
<1>10. CommandInv'
    BY <1>3, <1>4 DEF IInv, CommandInv, InitAt, Goto, Keep, cluster, Generating
<1>11. CAInv'
    BY <1>3, <1>4, <1>5, <1>7, <1>8 DEF CAInv, Goto, Keep, cluster, Ready
<1>12. NamesInv' /\ UpdateInv'
    BY <1>3, <1>4, <1>8 DEF IInv, NamesInv, UpdateInv, Goto, Keep, cluster, Generating
<1> QED
    BY <1>9, <1>10, <1>11, <1>12 DEF IInv

LEMMA MakeCACert ==
    ASSUME ClusterCertsAssumption, IInv, CaCert
    PROVE  IInv'
<1>1. cmd = "init" /\ Home.caKey # None
    BY DEF IInv, CAInv, CaCert
<1>2. place = "local" /\ cm = None /\ joined = {} /\ granted = {}
    BY <1>1 DEF IInv, CommandInv, InitAt, CaCert, NamesInv
<1>3. pki \in [Places -> PKI] /\ Home \in PKI
    BY Facts DEF IInv, TypeOK, Home
<1>4. /\ pki' \in [Places -> PKI]
      /\ Home'.caKey = Home.caKey /\ Home'.caCert = Home.caKey /\ Home'.cert = Home.cert
      /\ \A m \in Masters : pki'[m] = pki[m]
    BY <1>2, <1>3, Facts DEF CaCert, Home, PKI
<1>5. /\ step' = "key" /\ result' = result
      /\ UNCHANGED <<cas, conf, cm, served, joined, cmd, place, todo, sans, commands, granted>>
    BY DEF CaCert, Goto, Keep, cluster
<1>6. TypeOK'
    BY <1>4, <1>5 DEF IInv, TypeOK
<1>7. CommandInv'
    BY <1>1, <1>2, <1>5 DEF IInv, CommandInv, InitAt, Generating, CaCert
<1>8. CAInv'
    <2>1. \A f \in Files : conf[f] \in {None, Home.caKey}
        BY DEF IInv, CAInv
    <2>2. /\ cas \in {0, 1} /\ (Home.caKey = None => cas = 0)
          /\ (Home.cert # None => Home.cert.ca = Home.caKey)
        BY DEF IInv, CAInv
    <2> QED
        BY <1>1, <1>2, <1>4, <1>5, <2>1, <2>2 DEF CAInv, Ready
<1>9. NamesInv' /\ UpdateInv'
    BY <1>1, <1>2, <1>4, <1>5 DEF IInv, NamesInv, UpdateInv, Generating
<1> QED
    BY <1>6, <1>7, <1>8, <1>9 DEF IInv

(* The certificate of a place has the names the command works with and the   *)
(* place's own, and is signed by the one CA.                                 *)
LEMMA MakeCert ==
    ASSUME ClusterCertsAssumption, IInv, LeafCert
    PROVE  IInv'
<1> DEFINE c == [sans |-> sans \cup {NodeOf(place)}, ca |-> pki[place].caKey]
<1>1. step = "cert" /\ Ready
    BY DEF LeafCert, IInv, CAInv
<1>2. /\ cmd \in {"init", "join", "update"}
      /\ place = "local" \/ (place \in Masters /\ cm # None /\ Trusts(place))
      /\ place \in Places /\ pki[place] \in PKI /\ Home \in PKI /\ pki \in [Places -> PKI]
    BY <1>1, Generates DEF Generating
<1>3. pki[place].caKey = Home.caKey /\ Home.caKey \in CAs
    BY <1>1, <1>2 DEF Trusts, Ready, Home, PKI
<1>4. NodeOf(place) \in Masters /\ sans \subseteq Masters \cup Names
    BY <1>2, Facts DEF NodeOf, IInv, CommandInv
<1>5. c \in Certs /\ c # None
    BY <1>3, <1>4, Facts DEF Certs, CAs
<1>6. /\ pki' = [pki EXCEPT ![place].cert = c, ![place].paired = TRUE]
      /\ step' = (IF place = "local" THEN "send" ELSE IF cmd = "join" THEN "kubeadm" ELSE "next")
      /\ result' = result
      /\ UNCHANGED <<cas, conf, cm, served, joined, cmd, place, todo, sans, commands, granted>>
    BY DEF LeafCert, Goto, Keep, cluster
<1> HIDE DEF c
<1>7. /\ pki' \in [Places -> PKI]
      /\ \A p \in Places : /\ pki'[p].caKey = pki[p].caKey /\ pki'[p].caCert = pki[p].caCert
                           /\ pki'[p].cert = IF p = place THEN c ELSE pki[p].cert
    BY <1>2, <1>5, <1>6 DEF PKI
<1>8. c.sans = sans \cup {NodeOf(place)} /\ c.ca = Home.caKey
    BY <1>3 DEF c
<1>9. Home'.caKey = Home.caKey /\ Home'.caCert = Home.caCert
    BY <1>7, Facts DEF Home
<1>10. TypeOK'
    BY <1>6, <1>7 DEF IInv, TypeOK
<1>11. CommandInv'
    <2>1. /\ commands \in 0 .. MaxCommands /\ sans \subseteq Masters \cup Names
          /\ commands # 0
          /\ cm # None => Master0 \in joined
          /\ cm = None => joined = {}
        BY <1>1 DEF IInv, CommandInv
    <2>2. CASE cmd = "init"
        <3>1. cm = None /\ joined = {} /\ place = "local"
            BY <1>1, <2>2 DEF IInv, CommandInv, InitAt
        <3> QED
            BY <1>2, <1>6, <2>1, <2>2, <3>1 DEF CommandInv, InitAt
    <2>3. CASE cmd = "join"
        <3>1. cm # None /\ place \in Masters \ joined /\ sans = cm
            BY <1>1, <2>3 DEF IInv, CommandInv, JoinAt
        <3>2. place # "local"
            BY <3>1, Facts
        <3> QED
            BY <1>2, <1>6, <2>1, <2>3, <3>1, <3>2 DEF CommandInv, JoinAt
    <2>4. CASE cmd = "update"
        <3>1. cm # None /\ (UpdateHome \/ UpdateMaster)
            BY <1>1, <2>4 DEF IInv, CommandInv, UpdateAll
        <3>2. UpdateHome => place = "local" /\ cm \subseteq sans
            BY DEF UpdateHome
        <3>3. UpdateMaster => place # "local" /\ cm = sans
            BY <1>2, Facts DEF UpdateMaster, IInv, TypeOK
        <3> QED
            BY <1>2, <1>6, <2>1, <2>4, <3>1, <3>2, <3>3 DEF CommandInv, UpdateHome, UpdateAll
    <2> QED
        BY <1>2, <2>2, <2>3, <2>4
<1>12. CAInv'
    <2>1. \A m \in Masters : Trusts(m) => Trusts(m)'
        BY <1>7, <1>8, <1>9, Facts DEF Trusts
    <2>2. joined \subseteq Masters
        BY DEF IInv, TypeOK
    <2>3. Home'.cert # None => Home'.cert.ca = Home.caKey
        BY <1>7, <1>8, Facts DEF Home, IInv, CAInv
    <2>4. cmd = "join" => place \in Masters /\ Trusts(place)
        BY <1>1, <1>2 DEF IInv, CAInv, CommandInv, JoinAt
    <2>5. step' \notin {"cacert", "confs", "kubeadm"} \/ cmd = "join"
        BY <1>6
    <2>6. Ready'
        BY <1>1, <1>9 DEF Ready
    <2> QED
        BY <1>1, <1>6, <1>9, <2>1, <2>2, <2>3, <2>4, <2>5, <2>6 DEF IInv, CAInv
<1>13. granted = {} \/ (cm # None /\ granted \subseteq cm)
    BY DEF IInv, NamesInv
<1>14. NamesInv'
    <2>1. joined \subseteq Masters
        BY DEF IInv, TypeOK
    <2>2. place \in joined => cm # None /\ cm = sans
        BY <1>1, <1>2, <2>1, Facts DEF IInv, CommandInv, InitAt, JoinAt, UpdateHome, UpdateMaster, UpdateAll
    <2>3. \A m \in joined : pki'[m].cert # None => {m} \cup granted \subseteq pki'[m].cert.sans
        <3> SUFFICES ASSUME NEW m \in joined, pki'[m].cert # None
                     PROVE  {m} \cup granted \subseteq pki'[m].cert.sans
            OBVIOUS
        <3>0. m \in Masters /\ m \in Places
            BY <2>1, Facts
        <3>1. CASE m = place
            <4>1. pki'[m].cert = c
                BY <1>7, <3>0, <3>1
            <4>2. c.sans = sans \cup {m} /\ granted \subseteq sans
                BY <1>8, <1>13, <2>2, <3>0, <3>1, Facts DEF NodeOf
            <4> QED
                BY <4>1, <4>2
        <3>2. CASE m # place
            <4>1. pki'[m].cert = pki[m].cert
                BY <1>7, <3>0, <3>2
            <4> QED
                BY <4>1 DEF Named, IInv, NamesInv
        <3> QED
            BY <3>1, <3>2
    <2>4. \A m \in joined : Named(m, served[m])'
        BY <1>6 DEF Named, IInv, NamesInv
    <2>5. Home'.cert # None => Master0 \in Home'.cert.sans
        BY <1>7, <1>8, Facts DEF Home, NodeOf, IInv, NamesInv
    <2>6. step' = "send" => place = "local"
        BY <1>6
    <2>7. cmd = "update" /\ step' = "send" /\ Home'.cert # None => sans \subseteq Home'.cert.sans
        BY <1>7, <1>8, <2>6, Facts DEF Home
    <2>8. ASSUME cmd = "join", step' = "kubeadm"
          PROVE  Named(place, pki'[place].cert)
        <3>1. place \in Masters /\ sans = cm /\ cm # None
            BY <1>1, <2>8, Facts DEF IInv, CommandInv, JoinAt
        <3> QED
            BY <1>7, <1>8, <1>13, <3>1, Facts DEF Named, NodeOf
    <2>9. cmd = "init" => step' \notin {"confs", "kubeadm"}
        BY <1>6
    <2> QED
        BY <1>6, <2>3, <2>4, <2>5, <2>7, <2>8, <2>9 DEF IInv, NamesInv, Named
<1>15. UpdateInv'
    <2>1. step' \notin {"upload", "restart", "idle"} /\ step' \notin Generating
        BY <1>6 DEF Generating
    <2>2. ASSUME cmd = "update", step' = "next"
          PROVE  /\ todo \subseteq joined \ {Master0}
                 /\ \A m \in joined \ todo : Renewed(m)'
        <3>1. place # "local"
            BY <1>6, <2>2
        <3>2. /\ todo \subseteq joined \ {Master0}
              /\ \A m \in joined \ (todo \cup {place}) : Renewed(m)
            BY <1>1, <2>2, <3>1 DEF IInv, UpdateInv, Generating
        <3>3. joined \subseteq Places
            BY Facts DEF IInv, TypeOK
        <3>4. Renewed(place)'
            BY <1>2, <1>6, <1>7, <1>8 DEF Renewed
        <3>5. ASSUME NEW m \in joined \ (todo \cup {place}) PROVE Renewed(m)'
            BY <1>6, <1>7, <3>2, <3>3, <3>5 DEF Renewed
        <3> QED
            BY <1>6, <3>2, <3>4, <3>5
    <2> QED
        BY <1>6, <2>1, <2>2 DEF UpdateInv
<1> QED
    BY <1>10, <1>11, <1>12, <1>14, <1>15 DEF IInv

-----------------------------------------------------------------------------
(* A master that is sent what home holds trusts the same CA, and the names   *)
(* home's certificate has.                                                   *)
LEMMA SendWhole ==
    ASSUME ClusterCertsAssumption, IInv, step = "send",
           pki' = [pki EXCEPT ![Receiver] = Home],
           Goto(CASE cmd = "init" -> "confs" [] cmd = "join" -> "merge" [] OTHER -> "upload"),
           Keep, UNCHANGED <<cas, conf, cluster>>
    PROVE  IInv'
<1>1. /\ result' = result
      /\ UNCHANGED <<cas, conf, cm, served, joined, cmd, place, todo, sans, commands, granted>>
    BY DEF Goto, Keep, cluster
<1>2. /\ commands \in 0 .. MaxCommands /\ sans \subseteq Masters \cup Names /\ place \in Places
      /\ commands # 0
      /\ cm # None => Master0 \in joined
      /\ cm = None => joined = {}
      /\ \/ cmd = "init" /\ cm = None /\ place = "local"
         \/ cmd = "join" /\ cm # None /\ place \in Masters \ joined
         \/ cmd = "update" /\ cm # None /\ place = "local" /\ cm \subseteq sans
    BY DEF IInv, CommandInv, InitAt, JoinAt, UpdateHome, UpdateMaster, UpdateAll, RefreshAt, Generating
<1>3. /\ cmd = "init" => step' = "confs"
      /\ cmd = "join" => step' = "merge"
      /\ cmd = "update" => step' = "upload"
    BY DEF Goto
<1>4. Receiver \in Masters /\ Receiver # "local" /\ (cmd # "join" => Receiver = Master0)
      /\ (cmd = "join" => Receiver = place)
    BY <1>2, Facts DEF Receiver
<1>5. Ready
    BY DEF IInv, CAInv
<1>6. pki \in [Places -> PKI] /\ Home \in PKI /\ joined \subseteq Masters
    BY Facts DEF IInv, TypeOK, Home
<1>7. /\ pki' \in [Places -> PKI] /\ Home' = Home
      /\ \A m \in Masters : pki'[m] = IF m = Receiver THEN Home ELSE pki[m]
    <2>1. pki' \in [Places -> PKI]
        BY <1>6
    <2>2. \A p \in Places : pki'[p] = IF p = Receiver THEN Home ELSE pki[p]
        BY <1>6
    <2> QED
        BY <1>4, <2>1, <2>2, Facts DEF Home
<1>8. TypeOK'
    BY <1>1, <1>3, <1>7 DEF IInv, TypeOK
<1>9. CommandInv'
    BY <1>1, <1>2, <1>3 DEF CommandInv, InitAt, JoinAt, UpdateHome
<1>10. CAInv'
    <2>1. \A m \in Masters : m = Receiver => Trusts(m)'
        BY <1>7 DEF Trusts, IInv, CAInv
    <2>2. \A m \in Masters : Trusts(m) => Trusts(m)'
        BY <1>4, <1>5, <1>7 DEF Trusts, IInv, CAInv
    <2>3. cmd = "join" => Trusts(place)'
        BY <1>1, <1>4, <2>1 DEF Trusts
    <2>4. cmd = "init" => Trusts(Master0)'
        BY <1>4, <2>1 DEF Trusts
    <2>5. Ready'
        BY <1>5, <1>7 DEF Ready
    <2> QED
        BY <1>1, <1>2, <1>3, <1>6, <1>7, <2>2, <2>3, <2>4, <2>5 DEF IInv, CAInv
<1>11. NamesInv'
    <2>1. Home.cert # None => Master0 \in Home.cert.sans
        BY DEF IInv, NamesInv
    <2>2. cmd = "update" /\ Home.cert # None => granted \subseteq Home.cert.sans
        BY <1>2 DEF IInv, NamesInv
    <2>3. ASSUME NEW m \in joined
          PROVE  pki'[m].cert # None => {m} \cup granted \subseteq pki'[m].cert.sans
        <3>1. CASE m = Receiver
            <4>1. cmd = "update" /\ m = Master0
                BY <1>2, <1>4, <3>1
            <4> QED
                BY <1>6, <1>7, <2>1, <2>2, <3>1, <4>1
        <3>2. CASE m # Receiver
            BY <1>6, <1>7, <3>2 DEF IInv, NamesInv, Named
        <3> QED
            BY <3>1, <3>2
    <2>4. cmd = "init" => granted = {}
        BY <1>2 DEF IInv, NamesInv
    <2>5. cmd = "init" /\ pki'[Master0].cert # None =>
            {Master0} \cup granted \subseteq pki'[Master0].cert.sans
        BY <1>4, <1>7, <2>1, <2>4, Facts
    <2>6. step' \notin {"send", "kubeadm"}
        BY <1>2, <1>3
    <2> QED
        BY <1>1, <1>7, <2>3, <2>5, <2>6 DEF IInv, NamesInv, Named
<1>12. UpdateInv'
    <2>1. cmd = "update" => Renewed(Master0)'
        BY <1>1, <1>4, <1>7, Facts DEF Renewed, IInv, NamesInv
    <2>2. step' \notin {"next", "restart", "idle"} /\ step' \notin Generating
        BY <1>2, <1>3 DEF Generating
    <2> QED
        BY <1>1, <2>1, <2>2 DEF UpdateInv
<1> QED
    BY <1>8, <1>9, <1>10, <1>11, <1>12 DEF IInv

(* A step that changes no certificate on a disk, none served and no name     *)
(* keeps what is said of them; a kubeconfig file trusts home's CA.           *)
LEMMA FilesStep ==
    ASSUME ClusterCertsAssumption, IInv, KubeConfigs \/ Remove \/ Create
    PROVE  IInv'
<1>1. UNCHANGED <<pki, cas, cm, served, joined, cmd, place, sans, commands, granted>>
    BY DEF KubeConfigs, Remove, Create, Keep, disk, cluster
<1>2. \/ step' = "idle" /\ cmd # "update"
      \/ step' = "kubeadm" /\ cmd = "init" /\ step = "confs"
      \/ cmd = "refresh" /\ step \in {"remove", "create"} /\ step' \in {"remove", "create"}
         /\ todo' \subseteq Files
    <2>1. /\ step = "confs" => cmd = "init"
          /\ step \in {"remove", "create"} => cmd = "refresh" /\ todo \subseteq Files
        BY DEF IInv, CommandInv, InitAt, JoinAt, UpdateHome, UpdateMaster, UpdateAll, RefreshAt, Generating
    <2> QED
        BY <2>1 DEF KubeConfigs, Remove, Create, Stop, Goto, Keep
<1>3. result' \in {result, "ok", "failed"}
    BY DEF KubeConfigs, Remove, Create, Stop, Goto
<1>4. /\ DOMAIN conf' = Files
      /\ \A f \in Files : conf'[f] \in {None, Home.caCert}
    <2>1. conf \in [Files -> CAs \cup {None}] /\ \A f \in Files : conf[f] \in {None, Home.caCert}
        BY DEF IInv, TypeOK, CAInv
    <2>2. CASE KubeConfigs
        BY <2>1, <2>2 DEF KubeConfigs, Written, Home
    <2>3. CASE Remove \/ Create
        BY <2>1, <2>3 DEF Remove, Create, Written, Home
    <2> QED
        BY <2>2, <2>3
<1>5. TypeOK'
    <2>1. Home.caCert \in CAs \cup {None}
        BY Facts DEF IInv, TypeOK, Home, PKI
    <2>2. conf' = [f \in Files |-> conf'[f]]
        BY <1>4 DEF KubeConfigs, Remove, Create, IInv, TypeOK
    <2>3. conf' \in [Files -> CAs \cup {None}]
        BY <1>4, <2>1, <2>2
    <2> QED
        BY <1>1, <1>3, <2>3 DEF IInv, TypeOK
<1>6. CommandInv'
    BY <1>1, <1>2 DEF IInv, CommandInv, InitAt, RefreshAt, Generating
<1>7. CAInv'
    <2>1. Home' = Home /\ (Ready' <=> Ready) /\ \A m : Trusts(m)' <=> Trusts(m)
        BY <1>1 DEF Home, Ready, Trusts
    <2> QED
        BY <1>1, <1>2, <1>4, <2>1 DEF IInv, CAInv
<1>8. NamesInv' /\ UpdateInv'
    BY <1>1, <1>2 DEF IInv, NamesInv, UpdateInv, Named, Home, Generating
<1> QED
    BY <1>5, <1>6, <1>7, <1>8 DEF IInv

(* A joining master works with the names the cluster has. *)
LEMMA MergeStep ==
    ASSUME ClusterCertsAssumption, IInv, Merge
    PROVE  IInv'
<1>1. /\ step = "merge" /\ step' = "sakey" /\ sans' = cm /\ result' = result
      /\ UNCHANGED <<pki, cas, conf, cm, served, joined, cmd, place, todo, commands, granted>>
    BY DEF Merge, CurrentSANs, Goto, disk, cluster
<1>2. cmd = "join" /\ cm # None /\ place \in Masters \ joined
    BY <1>1 DEF IInv, CommandInv, InitAt, JoinAt, UpdateHome, UpdateMaster, UpdateAll, RefreshAt, Generating
<1>3. cm \in SUBSET (Masters \cup Names)
    <2>1. cm \in {None} \cup SUBSET (Masters \cup Names)
        BY DEF IInv, TypeOK
    <2> QED
        BY <1>2, <2>1
<1>4. TypeOK'
    BY <1>1 DEF IInv, TypeOK
<1>5. CommandInv'
    BY <1>1, <1>2, <1>3 DEF IInv, CommandInv, JoinAt, Generating
<1>6. CAInv'
    <2>1. Home' = Home /\ (Ready' <=> Ready) /\ \A m : Trusts(m)' <=> Trusts(m)
        BY <1>1 DEF Home, Ready, Trusts
    <2> QED
        BY <1>1, <1>2, <2>1 DEF IInv, CAInv
<1>7. NamesInv' /\ UpdateInv'
    BY <1>1, <1>2 DEF IInv, NamesInv, UpdateInv, Named, Home, Generating
<1> QED
    BY <1>4, <1>5, <1>6, <1>7 DEF IInv

(* The host of a finished init or join becomes a master of the cluster.      *)
LEMMA KubeadmStep ==
    ASSUME ClusterCertsAssumption, IInv, Kubeadm
    PROVE  IInv'
<1> DEFINE m == NodeOf(place)
<1>1. /\ step = "kubeadm" /\ step' = "idle" /\ result' = "ok"
      /\ served' = [served EXCEPT ![m] = pki[m].cert]
      /\ joined' = joined \cup {m}
      /\ cm' = IF cmd = "init" THEN sans ELSE cm
      /\ UNCHANGED <<pki, cas, conf, cmd, place, todo, sans, commands, granted>>
    BY DEF Kubeadm, Stop, Keep, disk
<1>2. /\ sans \in SUBSET (Masters \cup Names)
      /\ \/ cmd = "init" /\ cm = None /\ joined = {} /\ place = "local"
         \/ cmd = "join" /\ cm # None /\ Master0 \in joined /\ place \in Masters \ joined
    BY <1>1 DEF IInv, CommandInv, InitAt, JoinAt, UpdateHome, UpdateMaster, UpdateAll, RefreshAt, Generating
<1>3. m \in Masters /\ (cmd = "init" => m = Master0) /\ (cmd = "join" => m = place)
    BY <1>2, Facts DEF NodeOf
<1>4. pki[m].cert \in Certs \cup {None}
    BY <1>3, Facts DEF IInv, TypeOK, PKI
<1>5. Trusts(m) /\ Named(m, pki[m].cert)
    BY <1>1, <1>2, <1>3 DEF IInv, CAInv, NamesInv
<1> HIDE DEF m
<1>6. TypeOK'
    BY <1>1, <1>2, <1>3, <1>4 DEF IInv, TypeOK
<1>7. cm' # None /\ Master0 \in joined'
    BY <1>1, <1>2, <1>3, Facts
<1>8. CommandInv'
    BY <1>1, <1>7 DEF IInv, CommandInv
<1>9. CAInv'
    <2>1. Home' = Home /\ (Ready' <=> Ready) /\ \A n : Trusts(n)' <=> Trusts(n)
        BY <1>1 DEF Home, Ready, Trusts
    <2>2. Ready
        BY <1>1 DEF IInv, CAInv
    <2> QED
        BY <1>1, <1>5, <2>1, <2>2 DEF IInv, CAInv
<1>10. NamesInv'
    <2>1. granted \subseteq cm'
        BY <1>1, <1>2 DEF IInv, NamesInv
    <2>2. ASSUME NEW n \in joined'
          PROVE  Named(n, pki[n].cert) /\ Named(n, served'[n])
        <3>1. CASE n = m
            BY <1>1, <1>3, <1>5, <3>1 DEF IInv, TypeOK
        <3>2. CASE n # m
            BY <1>1, <2>2, <3>2 DEF IInv, TypeOK, NamesInv
        <3> QED
            BY <3>1, <3>2
    <2> QED
        BY <1>1, <1>7, <2>1, <2>2 DEF IInv, NamesInv, Named, Home
<1>11. UpdateInv'
    BY <1>1, <1>2 DEF UpdateInv, Generating
<1> QED
    BY <1>6, <1>8, <1>9, <1>10, <1>11 DEF IInv

-----------------------------------------------------------------------------
(* An update that has sent master0 its certificate renews those of the other *)
(* masters, one after the other; those not yet visited are in todo.          *)
LEMMA RenewStep ==
    ASSUME ClusterCertsAssumption, IInv, Upload \/ SyncCert
    PROVE  IInv'
<1>1. /\ step \in {"upload", "next"} /\ result' = result
      /\ UNCHANGED <<pki, cas, conf, served, joined, cmd, sans, commands, granted>>
    BY DEF Upload, SyncCert, Goto, disk, cluster
<1>2. /\ cmd = "update" /\ cm # None /\ cm \subseteq sans /\ Master0 \in joined
      /\ step = "upload" => place = "local"
      /\ step = "next" => cm = sans
      /\ sans \in SUBSET (Masters \cup Names) /\ commands \in 0 .. MaxCommands /\ commands # 0
      /\ place \in Places
    BY <1>1 DEF IInv, CommandInv, InitAt, JoinAt, UpdateHome, UpdateMaster, UpdateAll, RefreshAt, Generating
<1>3. joined \subseteq Masters
    BY DEF IInv, TypeOK
<1>4. /\ cm' = sans
      /\ \/ /\ step = "upload" /\ step' = "next" /\ todo' = joined \ {Master0} /\ place' = place
         \/ /\ step = "next" /\ todo = {} /\ step' = "restart" /\ todo' = joined /\ place' = place
         \/ /\ step = "next" /\ step' = "sakey"
            /\ \E m \in todo : todo' = todo \ {m} /\ place' = m
    BY <1>1, <1>2 DEF Upload, SyncCert, Goto, cluster
<1>5. cm' # None
    BY <1>2, <1>4, Facts
<1>6. step = "next" =>
        todo \subseteq joined \ {Master0} /\ \A m \in joined \ todo : Renewed(m)
    BY <1>2 DEF IInv, UpdateInv
<1>7. \A m : Renewed(m)' <=> Renewed(m)
    BY <1>1 DEF Renewed
<1>8. TypeOK'
    BY <1>1, <1>2, <1>4 DEF IInv, TypeOK
<1>9. CommandInv'
    <2>1. place' \in Places
        BY <1>2, <1>3, <1>4, <1>6, Facts
    <2>2. step' \in {"next", "restart"} \/ (step' = "sakey" /\ place' \in joined \ {Master0})
        BY <1>4, <1>6
    <2> QED
        BY <1>1, <1>2, <1>4, <1>5, <2>1, <2>2 DEF CommandInv, UpdateAll, UpdateMaster, Generating
<1>10. CAInv'
    <2>1. Home' = Home /\ (Ready' <=> Ready) /\ \A m : Trusts(m)' <=> Trusts(m)
        BY <1>1 DEF Home, Ready, Trusts
    <2>2. step' \notin {"cacert", "key", "cert", "send", "confs", "kubeadm"}
        BY <1>4
    <2> QED
        BY <1>1, <1>2, <2>1, <2>2 DEF IInv, CAInv
<1>11. NamesInv'
    BY <1>1, <1>2, <1>4, <1>5 DEF IInv, NamesInv, Named, Home
<1>12. UpdateInv'
    <2>1. CASE step = "upload"
        <3>1. Renewed(Master0)
            BY <1>2, <2>1 DEF IInv, UpdateInv
        <3> QED
            BY <1>1, <1>2, <1>4, <1>7, <2>1, <3>1 DEF UpdateInv, Generating
    <2>2. CASE step' = "restart"
        BY <1>1, <1>2, <1>4, <1>6, <1>7, <2>2 DEF UpdateInv, Generating
    <2>3. CASE step' = "sakey"
        BY <1>1, <1>2, <1>4, <1>6, <1>7, <2>3 DEF UpdateInv, Generating
    <2> QED
        BY <1>4, <2>1, <2>2, <2>3
<1> QED
    BY <1>8, <1>9, <1>10, <1>11, <1>12 DEF IInv

(* An API server that starts serves what its master holds: all of the names  *)
(* that were granted.                                                        *)
LEMMA ServeStep ==
    ASSUME ClusterCertsAssumption, IInv,
           NEW m \in joined, served' = [served EXCEPT ![m] = Loaded(m)],
           UNCHANGED <<pki, cas, conf, cm, joined, cmd, place, sans, commands, granted, result, step>>,
           \/ todo' = todo
           \/ step = "restart" /\ todo' = todo \ {m}
    PROVE  IInv'
<1>1. m \in Masters /\ served \in [Masters -> Certs \cup {None}]
    BY DEF IInv, TypeOK
<1>2. Loaded(m) \in {None, pki[m].cert} /\ Loaded(m) \in Certs \cup {None}
    BY <1>1, Facts DEF Loaded, IInv, TypeOK, PKI
<1>3. /\ \A n \in Masters : served'[n] = IF n = m THEN Loaded(m) ELSE served[n]
      /\ Live(m)' /\ \A n \in Masters : Live(n) => Live(n)'
    BY <1>1, <1>2 DEF Live
<1>4. TypeOK'
    BY <1>1, <1>2 DEF IInv, TypeOK
<1>5. joined \subseteq Masters
    BY DEF IInv, TypeOK
<1>6. CommandInv'
    BY DEF IInv, CommandInv, InitAt, JoinAt, UpdateHome, UpdateMaster, UpdateAll, RefreshAt
<1>7. CAInv'
    BY DEF IInv, CAInv, Home, Ready, Trusts
<1>8. NamesInv'
    <2>1. \A n \in joined : Named(n, served'[n])
        BY <1>2, <1>3, <1>5 DEF IInv, NamesInv, Named
    <2> QED
        BY <2>1 DEF IInv, NamesInv, Named, Home
<1>9. UpdateInv'
    <2>1. \A n : Renewed(n)' <=> Renewed(n)
        BY DEF Renewed
    <2>2. step # "restart" => todo' = todo
        OBVIOUS
    <2>3. step \in Generating => step # "restart"
        BY DEF Generating
    <2> QED
        BY <1>3, <1>5, <2>1, <2>2, <2>3 DEF IInv, UpdateInv
<1> QED
    BY <1>4, <1>6, <1>7, <1>8, <1>9 DEF IInv

(* When every API server has been restarted, what is served has the names    *)
(* that are granted.                                                         *)
LEMMA GrantStep ==
    ASSUME ClusterCertsAssumption, IInv, Updated
    PROVE  IInv'
<1>1. /\ step = "restart" /\ todo = {} /\ step' = "idle" /\ result' = "ok"
      /\ granted' = granted \cup (sans \ Base)
      /\ UNCHANGED <<pki, cas, conf, cm, served, joined, cmd, place, todo, sans, commands>>
    BY DEF Updated, Stop, disk, cluster
<1>2. cmd = "update" /\ cm # None /\ cm = sans /\ sans \subseteq Masters \cup Names
    BY <1>1 DEF IInv, CommandInv, InitAt, JoinAt, UpdateHome, UpdateMaster, UpdateAll, RefreshAt, Generating
<1>3. \A m \in joined : Renewed(m) /\ Live(m)
    BY <1>1, <1>2 DEF IInv, UpdateInv
<1>4. granted' \subseteq Names /\ granted' \subseteq cm
    BY <1>1, <1>2 DEF Base, IInv, NamesInv
<1>5. TypeOK'
    BY <1>1, <1>4 DEF IInv, TypeOK
<1>6. CommandInv'
    BY <1>1 DEF IInv, CommandInv
<1>7. CAInv'
    BY <1>1, <1>2 DEF IInv, CAInv, Home, Ready, Trusts
<1>8. NamesInv'
    <2>1. ASSUME NEW m \in joined
          PROVE  /\ pki[m].cert # None => {m} \cup granted' \subseteq pki[m].cert.sans
                 /\ served[m] # None => {m} \cup granted' \subseteq served[m].sans
        BY <1>1, <1>3 DEF IInv, NamesInv, Named, Renewed, Live
    <2> QED
        BY <1>1, <1>2, <1>4, <2>1 DEF IInv, NamesInv, Named, Home
<1>9. UpdateInv'
    BY <1>1, <1>3 DEF UpdateInv, Live, Generating
<1> QED
    BY <1>5, <1>6, <1>7, <1>8, <1>9 DEF IInv

-----------------------------------------------------------------------------
(* The steps that write no certificate are quiet. *)
LEMMA QuietSteps ==
    ASSUME ClusterCertsAssumption, IInv,
           \/ SaKey \/ SaPub \/ LeafKey \/ Fail
           \/ CaKey /\ pki[place].caKey # None
           \/ Send /\ step' = "idle"
           \/ KubeConfigs /\ step' = "idle" /\ UNCHANGED conf
    PROVE  IInv'
<1>1. pki \in [Places -> PKI]
    BY DEF IInv, TypeOK
<1>2. UNCHANGED <<cas, conf, cm, served, joined, cmd, place, todo, sans, commands, granted>>
    BY DEF SaKey, SaPub, LeafKey, Fail, CaKey, Send, KubeConfigs, Keep, disk, cluster
<1>3. pki' \in [Places -> PKI] /\ SameCA
    <2>1. CASE UNCHANGED pki
        BY <1>1, <2>1 DEF SameCA
    <2>2. CASE \E p \in Places : pki' = [pki EXCEPT ![p].saKey = TRUE]
        <3>1. PICK p \in Places : pki' = [pki EXCEPT ![p].saKey = TRUE]
            BY <2>2
        <3>2. PICK r : r = [pki[p] EXCEPT !.saKey = TRUE]
            OBVIOUS
        <3>3. pki' = [pki EXCEPT ![p] = r]
            BY <3>1, <3>2
        <3>4. r \in PKI /\ r.caKey = pki[p].caKey /\ r.caCert = pki[p].caCert /\ r.cert = pki[p].cert
            BY <1>1, <3>2 DEF PKI
        <3> QED
            BY <1>1, <3>3, <3>4 DEF SameCA
    <2>3. CASE \E p \in Places : pki' = [pki EXCEPT ![p].saPub = TRUE]
        <3>1. PICK p \in Places : pki' = [pki EXCEPT ![p].saPub = TRUE]
            BY <2>3
        <3>2. PICK r : r = [pki[p] EXCEPT !.saPub = TRUE]
            OBVIOUS
        <3>3. pki' = [pki EXCEPT ![p] = r]
            BY <3>1, <3>2
        <3>4. r \in PKI /\ r.caKey = pki[p].caKey /\ r.caCert = pki[p].caCert /\ r.cert = pki[p].cert
            BY <1>1, <3>2 DEF PKI
        <3> QED
            BY <1>1, <3>3, <3>4 DEF SameCA
    <2>4. CASE \E p \in Places : pki' = [pki EXCEPT ![p].paired = FALSE]
        <3>1. PICK p \in Places : pki' = [pki EXCEPT ![p].paired = FALSE]
            BY <2>4
        <3>2. PICK r : r = [pki[p] EXCEPT !.paired = FALSE]
            OBVIOUS
        <3>3. pki' = [pki EXCEPT ![p] = r]
            BY <3>1, <3>2
        <3>4. r \in PKI /\ r.caKey = pki[p].caKey /\ r.caCert = pki[p].caCert /\ r.cert = pki[p].cert
            BY <1>1, <3>2 DEF PKI
        <3> QED
            BY <1>1, <3>3, <3>4 DEF SameCA
    <2>5. place \in Places /\ Receiver \in Places
        BY Facts DEF Receiver, IInv, CommandInv
    <2> QED
        BY <2>1, <2>2, <2>3, <2>4, <2>5
        DEF SaKey, SaPub, LeafKey, Fail, CaKey, Send, KubeConfigs, Goto, disk
<1>4. QuietMove
    <2>1. CASE step' = "idle"
        BY <2>1 DEF QuietMove, SaKey, SaPub, LeafKey, Fail, CaKey, Send, KubeConfigs, Goto, Stop
    <2>2. CASE step' # "idle"
        BY <2>2 DEF QuietMove, SaKey, SaPub, LeafKey, Fail, CaKey, Send, KubeConfigs, Goto, Stop
    <2> QED
        BY <2>1, <2>2
<1> QED
    BY <1>2, <1>3, <1>4, QuietStep

(* Every step keeps the invariant. *)
LEMMA NextStep ==
    ASSUME ClusterCertsAssumption
    PROVE  IInv /\ [Next]_vars => IInv'
<1> SUFFICES ASSUME IInv, [Next]_vars PROVE IInv'
    OBVIOUS
<1>1. CASE \/ BeginInit
           \/ \E m \in Masters : BeginJoin(m)
           \/ \E names \in SUBSET Names : BeginUpdate(names)
           \/ \E fs \in SUBSET Files : BeginRefresh(fs)
    BY <1>1, BeginStep
<1>2. CASE SaKey \/ SaPub \/ LeafKey \/ Fail
    BY <1>2, QuietSteps
<1>3. CASE CaKey
    <2>1. CASE pki[place].caKey # None
        BY <1>3, <2>1, QuietSteps
    <2>2. CASE pki[place].caKey = None
        BY <1>3, <2>2, MakeCAKey DEF CaKey
    <2> QED
        BY <2>1, <2>2
<1>4. CASE CaCert
    BY <1>4, MakeCACert
<1>5. CASE LeafCert
    BY <1>5, MakeCert
<1>6. CASE Send
    <2>1. CASE step' = "idle"
        BY <1>6, <2>1, QuietSteps
    <2>2. CASE step' # "idle"
        BY <1>6, <2>2, SendWhole DEF Send, Stop, Home
    <2> QED
        BY <2>1, <2>2
<1>7. CASE KubeConfigs \/ Remove \/ Create
    BY <1>7, FilesStep
<1>8. CASE Merge
    BY <1>8, MergeStep
<1>9. CASE Kubeadm
    BY <1>9, KubeadmStep
<1>10. CASE Upload \/ SyncCert
    BY <1>10, RenewStep
<1>11. CASE DeleteAPIServer
    <2>1. step = "restart" /\ todo \subseteq joined
        <3>1. step = "restart" => cmd = "update"
            BY DEF IInv, CommandInv, InitAt, JoinAt, RefreshAt, Generating
        <3> QED
            BY <1>11, <3>1 DEF DeleteAPIServer, IInv, UpdateInv
    <2>2. PICK m \in todo :
            /\ todo' = todo \ {m}
            /\ \/ served' = [served EXCEPT ![m] = Loaded(m)] /\ Goto("restart")
               \/ served[m] = None /\ Stop("failed") /\ UNCHANGED served
        BY <1>11 DEF DeleteAPIServer
    <2>3. UNCHANGED <<pki, cas, conf, cm, joined, cmd, place, sans, commands, granted>>
        BY <1>11 DEF DeleteAPIServer, disk
    <2>4. CASE served' = [served EXCEPT ![m] = Loaded(m)] /\ Goto("restart")
        BY <2>1, <2>2, <2>3, <2>4, ServeStep DEF Goto
    <2>5. CASE Stop("failed") /\ UNCHANGED served
        BY <2>1, <2>3, <2>5
        DEF Stop, IInv, TypeOK, CommandInv, CAInv, NamesInv, UpdateInv, Home, Ready, Trusts, Named, Generating
    <2> QED
        BY <2>2, <2>4, <2>5
<1>12. CASE Updated
    BY <1>12, GrantStep
<1>13. CASE \E m \in Masters : Crash(m)
    BY <1>13, ServeStep DEF Crash, disk, control
<1>14. CASE UNCHANGED vars \/ Done
    BY <1>14 DEF Done, vars, disk, cluster, control, IInv, TypeOK, CommandInv, InitAt, JoinAt,
       UpdateHome, UpdateMaster, UpdateAll, RefreshAt, CAInv, NamesInv, UpdateInv, Home, Ready,
       Trusts, Named, Renewed, Live
<1> QED
    BY <1>1, <1>2, <1>3, <1>4, <1>5, <1>6, <1>7, <1>8, <1>9, <1>10, <1>11, <1>12, <1>13, <1>14 DEF Next

(* Whatever fails and is run again, a serving API server's certificate names *)
(* its node and all that "sealos cert" has added, everything is signed by    *)
(* one CA, and an update that succeeds is live on every API server           *)
(* (InitCertsAndKubeConfigs, joinMasters, UpdateCertSANs).                   *)
THEOREM CertificatesAreSound ==
    ASSUME ClusterCertsAssumption
    PROVE  Spec => []CertsSound
<1>1. IInv => CertsSound
    <2> SUFFICES ASSUME IInv PROVE ServedKeepsNames /\ OneCA /\ UpdateIsLive
        BY DEF IInv, CertsSound
    <2>1. ServedKeepsNames
        BY DEF IInv, NamesInv, Named, ServedKeepsNames
    <2>2. OneCA
        BY DEF IInv, CAInv, Trusts, Home, OneCA
    <2>3. UpdateIsLive
        BY DEF IInv, UpdateInv, Live, UpdateIsLive
    <2> QED
        BY <2>1, <2>2, <2>3
<1>2. Init => IInv
    BY NothingYet
<1>3. IInv /\ [Next]_vars => IInv'
    BY NextStep
<1> QED
    BY <1>1, <1>2, <1>3, PTL DEF Spec

-----------------------------------------------------------------------------
(* The other machines of the suite MCKubeadm, by the lemmas of their proofs.  *)

JoinInv ==
    /\ machine = "join" => Join!IInv
    /\ machine = "single" => Single!IInv
    /\ machine = "rotate" => Rotating!IInv

(* A step of a machine is one of its module; the others do not move. *)
LEMMA JoinSteps == JoinInv /\ [MCNext]_allVars => JoinInv'
<1> SUFFICES ASSUME JoinInv, [MCNext]_allVars PROVE JoinInv'
    OBVIOUS
<1>1. machine' = machine
    BY DEF MCNext, allVars
<1>2. CASE machine = "join"
    <2>1. [Join!Next]_(Join!vars)
        BY <1>2 DEF MCNext, allVars, joinVars, Join!vars, Join!files, Join!cluster, Join!routines
    <2>2. Join!IInv'
        BY <1>2, <2>1, Join!NextStep, MCKubeadmAssumption DEF JoinInv
    <2> QED
        BY <1>1, <1>2, <2>2 DEF JoinInv
<1>3. CASE machine = "single"
    <2>1. [Single!Next]_(Single!vars)
        BY <1>3 DEF MCNext, allVars, joinVars, Single!vars, Single!files, Single!cluster,
                    Single!routines
    <2>2. Single!IInv'
        BY <1>3, <2>1, Single!NextStep, MCKubeadmAssumption DEF JoinInv
    <2> QED
        BY <1>1, <1>3, <2>2 DEF JoinInv
<1>4. CASE machine = "rotate"
    <2>1. [Rotating!Next]_(Rotating!vars)
        BY <1>4 DEF MCNext, allVars, joinVars, Rotating!vars, Rotating!files, Rotating!cluster,
                    Rotating!routines
    <2>2. Rotating!IInv'
        BY <1>4, <2>1, Rotating!NextStep, MCKubeadmAssumption DEF JoinInv
    <2> QED
        BY <1>1, <1>4, <2>2 DEF JoinInv
<1> QED
    BY <1>1, <1>2, <1>3, <1>4 DEF JoinInv

(* In every machine of the suite that creates, joins, removes and rotates:   *)
(* each host gets its own configuration and a key that opens the uploaded    *)
(* certificates, a reported success has joined every master, a single        *)
(* worker's failure is reported, and the token embeds the cached key.        *)
THEOREM SuiteJoinsAreSound == MCSpec => []JoinSound
<1>1. MCInit => JoinInv
    <2> SUFFICES ASSUME MCInit PROVE JoinInv
        OBVIOUS
    <2>1. machine = "join" => Join!Init
        BY DEF MCInit
    <2>2. machine = "single" => Single!Init
        BY DEF MCInit
    <2>3. machine = "rotate" => Rotating!Init
        BY DEF MCInit
    <2> QED
        BY <2>1, <2>2, <2>3, Join!NothingYet, Single!NothingYet, Rotating!NothingYet,
           MCKubeadmAssumption DEF JoinInv
<1>2. JoinInv /\ [MCNext]_allVars => JoinInv'
    BY JoinSteps
<1>3. JoinInv => JoinSound
    BY Join!JoinFollows, Single!JoinFollows, Rotating!JoinFollows, MCKubeadmAssumption
       DEF JoinInv, JoinSound
<1> QED
    BY <1>1, <1>2, <1>3, PTL DEF MCSpec

UpgradeInv ==
    /\ machine = "upgrade" => Up!IInv
    /\ machine = "first" => First!FirstInv

LEMMA UpgradeSteps == UpgradeInv /\ [MCNext]_allVars => UpgradeInv'
<1> SUFFICES ASSUME UpgradeInv, [MCNext]_allVars PROVE UpgradeInv'
    OBVIOUS
<1>1. machine' = machine
    BY DEF MCNext, allVars
<1>2. CASE machine = "upgrade"
    <2>1. [Up!Next]_(Up!vars)
        BY <1>2 DEF MCNext, allVars, upgradeVars, Up!vars, Up!stored, Up!nodes
    <2>2. Up!IInv'
        BY <1>2, <2>1, Up!NextStep, MCKubeadmAssumption DEF UpgradeInv
    <2> QED
        BY <1>1, <1>2, <2>2 DEF UpgradeInv
<1>3. CASE machine = "first"
    <2>1. [First!Next]_(First!vars)
        BY <1>3 DEF MCNext, allVars, upgradeVars, First!vars, First!stored, First!nodes
    <2>2. First!FirstInv'
        BY <1>3, <2>1, First!FirstStep, MCKubeadmAssumption DEF UpgradeInv
    <2> QED
        BY <1>1, <1>3, <2>2 DEF UpgradeInv
<1> QED
    BY <1>1, <1>2, <1>3 DEF UpgradeInv

(* Upgrades of two masters and a worker, run again any number of times after *)
(* failures, unnoticed ones too: the version skew, the order of the hosts    *)
(* and a complete success, but for the hosts whose upgrade was lost; in the  *)
(* first upgrade of a cluster the skew holds on those too.                   *)
THEOREM SuiteUpgradesAreSound == MCSpec => []UpgradeSound
<1>1. MCInit => UpgradeInv
    <2> SUFFICES ASSUME MCInit PROVE UpgradeInv
        OBVIOUS
    <2>1. Up!Init /\ First!Init
        BY DEF MCInit, Up!Init, First!Init, Up!HostSet, First!HostSet, Up!Hosts,
               First!Hosts
    <2> QED
        BY <2>1, Up!Start, First!FirstStart, MCKubeadmAssumption DEF UpgradeInv
<1>2. UpgradeInv /\ [MCNext]_allVars => UpgradeInv'
    BY UpgradeSteps
<1>3. UpgradeInv => UpgradeSound
    BY Up!UpgradeFollows, First!FirstFollows, MCKubeadmAssumption DEF UpgradeInv, UpgradeSound
<1> QED
    BY <1>1, <1>2, <1>3, PTL DEF MCSpec
=============================================================================
