------------------------ MODULE ReleaseChannel_proofs ------------------------
(***************************************************************************)
(* Proofs about ReleaseChannel for any channels, promoters, clients,       *)
(* revisions and contents, and any number of promotions, derivations and   *)
(* failures; MCRelease adds only machines that leave the store alone.      *)
(***************************************************************************)
EXTENDS MCRelease, SequenceTheorems, TLAPS

PromoterPC == {"idle", "proof", "read", "decide", "candidate", "channel", "record"}
Copy == [target : Revisions \cup {None}, digest : Contents \cup {None}, history : Seq(Promotion)]

PromoterState == [pc : PromoterPC, ch : Channels \cup {None}, rev : Revisions \cup {None},
                  src : Sources \cup {None}, given : Verdict \cup {None}, doc : Copy]
ClientState == [pc : {"idle", "served", "bom", "resolved"}, ch : Channels \cup {None},
                doc : Copy, pinned : BOOLEAN, content : Contents \cup {None}]

\* Types of what promoters, derivations and clients hold in memory.
MemoryOK ==
    /\ prom \in [Promoters -> PromoterState]
    /\ derive \in PromoterState
    /\ client \in [Clients -> ClientState]

\* What the policy asked of an entry of a promotion history.
Proven(c, e) ==
    /\ e.source \in AllowedSources(c)
    /\ e.proof = "passed" \/ (c = "alpha" /\ e.proof = None)

\* A history whose entries the policy allowed and which have candidates.
Evidenced(c, history) ==
    \A i \in DOMAIN history : Proven(c, history[i]) /\ history[i].to \in candidate

\* A document that pins a digest was written by somebody who approved it.
Pinned(c, doc) == doc.digest # None => <<c, doc.target, doc.digest>> \in approved

ChannelInv == \A c \in Channels : Evidenced(c, channel[c].history) /\ Pinned(c, channel[c])

PromoterInv(st) ==
    LET entry == st.doc.history[Len(st.doc.history)] IN
    /\ st.pc # "idle" => st.ch \in Channels /\ st.rev \in Revisions /\ st.src \in Sources
    /\ st.pc \in {"proof", "read", "decide"} => bom[st.rev] # None
    /\ st.pc = "decide" => st.doc \in Document /\ Evidenced(st.ch, st.doc.history)
    /\ st.pc \in {"candidate", "channel", "record"} =>
          /\ st.doc \in Document /\ st.doc.history # <<>>
          /\ st.doc.target = st.rev /\ entry.to = st.rev
          /\ st.doc.digest = entry.digest /\ entry.digest \in Contents
          /\ \A i \in DOMAIN st.doc.history : Proven(st.ch, st.doc.history[i])
          /\ \A i \in 1 .. Len(st.doc.history) - 1 : st.doc.history[i].to \in candidate
    /\ st.pc \in {"channel", "record"} => st.rev \in candidate
    /\ st.pc = "record" => <<st.ch, st.rev, st.doc.digest>> \in approved

DeriveInv ==
    derive.pc # "idle" =>
        /\ derive.pc = "channel" /\ derive.ch \in DeriveChannels /\ derive.rev \in Revisions
        /\ derive.doc \in Document
        /\ derive.doc.target = derive.rev /\ derive.doc.history = <<>>

ClientInv(k) ==
    /\ client[k].pc \in {"served", "bom"} => client[k].doc.target \in Revisions
    /\ client[k].pinned =>
        /\ client[k].pc \in {"served", "bom"} =>
              client[k].doc.digest # None /\ Pinned(client[k].ch, client[k].doc)
        /\ client[k].pc = "resolved" =>
              <<client[k].ch, client[k].doc.target, client[k].content>> \in approved

IInv ==
    /\ TypeOK /\ MemoryOK /\ ChannelInv /\ RecordIsTrue
    /\ \A p \in Promoters : PromoterInv(prom[p])
    /\ DeriveInv
    /\ \A k \in Clients : ClientInv(k)

-----------------------------------------------------------------------------
(* The operators. *)

\* Channels, allowed sources and verdicts are among the known ones.
LEMMA Known ==
    /\ Channels \subseteq Sources /\ DeriveChannels \subseteq Channels
    /\ First \in Revisions /\ None \notin Revisions \cup Contents
    /\ \A c \in Channels : AllowedSources(c) \subseteq Sources
    /\ "passed" \in Verdict
BY ReleaseAssumption DEF Sources, AllowedSources, Verdict

\* What Evaluate lets through is proven.
LEMMA EvaluateProves ==
    ASSUME NEW c, NEW s, NEW v, Evaluate(c, s, v)
    PROVE  /\ s \in AllowedSources(c)
           /\ v = "passed" \/ (c = "alpha" /\ v = None)
BY DEF Evaluate, RequiresHealthProof

\* An empty history has no entries.
LEMMA EmptyHistory ==
    /\ <<>> \in Seq(Promotion) /\ DOMAIN <<>> = {}
    /\ \A c : Evidenced(c, <<>>)
BY EmptySeq DEF Evidenced

\* More candidates and approvals keep what was evidenced and pinned.
LEMMA Monotone ==
    ASSUME candidate \subseteq candidate', approved \subseteq approved'
    PROVE  /\ \A c, h : Evidenced(c, h) => Evidenced(c, h)'
           /\ \A c, d : Pinned(c, d) => Pinned(c, d)'
BY DEF Evidenced, Pinned, Proven

\* What a promoter has seen stays true while others write: BOM files do not
\* vanish, candidates and approvals are never taken back.
LEMMA PromoterKeeps ==
    ASSUME MemoryOK, NEW p \in Promoters, PromoterInv(prom[p]),
           candidate \subseteq candidate', approved \subseteq approved',
           \A r \in Revisions : bom[r] # None => bom'[r] # None,
           prom'[p] = prom[p]
    PROVE  PromoterInv(prom[p])'
BY DEF PromoterInv, Evidenced, Proven, MemoryOK

\* The invariant holds at the start.
LEMMA Start == Init => IInv
<1> SUFFICES ASSUME Init PROVE IInv
    OBVIOUS
<1>1. PICK d \in {bom[First], None} :
          channel = [c \in Channels |-> [target |-> First, digest |-> d, history |-> <<>>]]
    BY DEF Init
<1>2. bom \in [Revisions -> Contents \cup {None}] /\ bom[First] \in Contents
    BY Known DEF Init
<1>3. [target |-> First, digest |-> d, history |-> <<>>] \in Document
    BY <1>2, Known, EmptyHistory DEF Document
<1>4. IdlePromoter \in PromoterState /\ IdleClient \in ClientState
    BY EmptyHistory DEF IdlePromoter, IdleClient, PromoterState, ClientState, Copy, NoDoc,
                        PromoterPC
<1>5. TypeOK
    BY <1>1, <1>2, <1>3 DEF Init, TypeOK, IdlePromoter, IdleClient
<1>6. MemoryOK
    BY <1>4 DEF Init, MemoryOK
<1>7. ChannelInv
    <2> SUFFICES ASSUME NEW c \in Channels
                 PROVE  Evidenced(c, channel[c].history) /\ Pinned(c, channel[c])
        BY DEF ChannelInv
    <2>1. channel[c] = [target |-> First, digest |-> d, history |-> <<>>]
        BY <1>1
    <2>2. <<c, First, bom[First]>> \in approved
        BY DEF Init
    <2> QED
        BY <2>1, <2>2, EmptyHistory DEF Pinned
<1>8. /\ \A p \in Promoters : PromoterInv(prom[p])
      /\ DeriveInv /\ RecordIsTrue /\ \A k \in Clients : ClientInv(k)
    BY DEF Init, PromoterInv, DeriveInv, ClientInv, RecordIsTrue, IdlePromoter, IdleClient
<1> QED
    BY <1>5, <1>6, <1>7, <1>8 DEF IInv

-----------------------------------------------------------------------------
(* A promoter goes on. *)

\* What has to be shown of a step of a promoter: its own state and the
\* documents it wrote; everybody else keeps what they hold.
LEMMA PromoterMoves ==
    ASSUME IInv, NEW p \in Promoters, NEW s \in PromoterState,
           prom' = [prom EXCEPT ![p] = s], PromoterInv(s)',
           UNCHANGED <<bom, derive, client>>,
           proof' \in [Revisions -> Verdict \cup {None}],
           candidate \subseteq candidate', candidate' \subseteq Revisions,
           approved \subseteq approved',
           channel' \in [Channels -> Document], ChannelInv',
           record' \subseteq Channels \X Promotion, RecordIsTrue'
    PROVE  IInv'
<1>1. MemoryOK'
    BY DEF IInv, MemoryOK
<1>2. \A q \in Promoters : PromoterInv(prom[q])'
    <2> SUFFICES ASSUME NEW q \in Promoters PROVE PromoterInv(prom[q])'
        OBVIOUS
    <2>1. CASE q = p
        <3>1. prom'[q] = s
            BY <2>1 DEF IInv, MemoryOK
        <3> QED
            BY <3>1 DEF PromoterInv
    <2>2. CASE q # p
        <3>1. prom'[q] = prom[q]
            BY <2>2 DEF IInv, MemoryOK
        <3> QED
            BY <3>1, PromoterKeeps DEF IInv
    <2> QED
        BY <2>1, <2>2
<1>3. TypeOK'
    <2>1. \A q \in Promoters : prom'[q] \in PromoterState
        BY <1>1 DEF MemoryOK
    <2>2. \A q \in Promoters : prom'[q].pc \in PromoterPC
        BY <2>1 DEF PromoterState
    <2>3. \A q \in Promoters :
              prom'[q].pc \in {"decide", "candidate", "channel", "record"} => prom'[q].doc \in Document
        BY <1>2 DEF PromoterInv
    <2> QED
        BY <2>2, <2>3 DEF IInv, TypeOK, PromoterPC
<1>4. DeriveInv' /\ \A k \in Clients : ClientInv(k)'
    BY DEF IInv, DeriveInv, ClientInv, Pinned
<1> QED
    BY <1>1, <1>2, <1>3, <1>4 DEF IInv

\* ...without writing a channel.
LEMMA PromoterWorks ==
    ASSUME IInv, NEW p \in Promoters, NEW s \in PromoterState,
           prom' = [prom EXCEPT ![p] = s], PromoterInv(s)',
           UNCHANGED <<bom, channel, record, derive, client, approved>>,
           proof' \in [Revisions -> Verdict \cup {None}],
           candidate \subseteq candidate', candidate' \subseteq Revisions
    PROVE  IInv'
<1>1. ChannelInv' /\ RecordIsTrue'
    BY Monotone DEF IInv, ChannelInv, RecordIsTrue
<1>2. channel' \in [Channels -> Document] /\ record' \subseteq Channels \X Promotion
    BY DEF IInv, TypeOK
<1> QED
    BY <1>1, <1>2, PromoterMoves

\* A promoter that is idle has promised nothing.
LEMMA IdleStep ==
    ASSUME IInv, NEW p \in Promoters, prom' = [prom EXCEPT ![p] = IdlePromoter],
           UNCHANGED <<docs, derive, client, approved>>
    PROVE  IInv'
<1>1. IdlePromoter \in PromoterState /\ PromoterInv(IdlePromoter)'
    BY EmptyHistory DEF IdlePromoter, PromoterState, Copy, NoDoc, PromoterPC, PromoterInv
<1>2. proof' \in [Revisions -> Verdict \cup {None}] /\ candidate' \subseteq Revisions
    BY DEF IInv, TypeOK, docs
<1> QED
    BY <1>1, <1>2, PromoterWorks DEF docs

\* Request, proof and reading of the channel.
LEMMA ReadStep ==
    ASSUME IInv, NEW p \in Promoters, Request(p) \/ WriteHealthProof(p) \/ ReadChannel(p)
    PROVE  IInv'
<1>t. /\ proof \in [Revisions -> Verdict \cup {None}] /\ candidate \subseteq Revisions
      /\ prom[p] \in PromoterState /\ PromoterInv(prom[p])
      /\ channel \in [Channels -> Document]
      /\ prom \in [Promoters -> PromoterState]
    BY DEF IInv, TypeOK, MemoryOK
<1>1. CASE Request(p)
    <2>2. PICK c \in Channels, r \in Revisions, s \in Sources, g \in Verdict \cup {None} :
              /\ bom[r] # None
              /\ prom' = [prom EXCEPT ![p] = [pc |-> "proof", ch |-> c, rev |-> r,
                            src |-> s, given |-> g, doc |-> NoDoc]]
        BY <1>1 DEF Request
    <2>3. PICK n : n = [pc |-> "proof", ch |-> c, rev |-> r, src |-> s, given |-> g, doc |-> NoDoc]
        OBVIOUS
    <2>5. n \in PromoterState
        BY <2>3, EmptyHistory DEF PromoterState, PromoterPC, Copy, NoDoc
    <2>6. UNCHANGED <<docs, derive, client, approved>>
        BY <1>1 DEF Request
    <2>7. PromoterInv(n)'
        BY <2>2, <2>3, <2>6 DEF PromoterInv, docs
    <2> QED
        BY <2>2, <2>3, <2>5, <2>6, <2>7, <1>t, PromoterWorks DEF docs
<1>2. CASE WriteHealthProof(p)
    <2>1. PICK n : n = [prom[p] EXCEPT !.pc = "read"]
        OBVIOUS
    <2>2. /\ prom[p].pc = "proof" /\ prom' = [prom EXCEPT ![p] = n]
          /\ UNCHANGED <<bom, channel, candidate, record, derive, client, approved>>
        BY <1>2, <1>t, <2>1 DEF WriteHealthProof
    <2>3. n \in PromoterState /\ n.pc = "read" /\ n.rev = prom[p].rev /\ n.ch = prom[p].ch
          /\ n.src = prom[p].src
        BY <1>t, <2>1 DEF PromoterState, PromoterPC
    <2>4. PromoterInv(n)'
        BY <1>t, <2>2, <2>3 DEF PromoterInv
    <2>5. proof' \in [Revisions -> Verdict \cup {None}]
        BY <1>2, <1>t DEF WriteHealthProof, PromoterState
    <2> QED
        BY <2>2, <2>3, <2>4, <2>5, <1>t, PromoterWorks
<1>3. CASE ReadChannel(p)
    <2>1. PICK n : n = [prom[p] EXCEPT !.pc = "decide", !.doc = channel[prom[p].ch]]
        OBVIOUS
    <2>2. /\ prom[p].pc = "read" /\ prom' = [prom EXCEPT ![p] = n]
          /\ UNCHANGED <<docs, derive, client, approved>>
        BY <1>3, <1>t, <2>1 DEF ReadChannel
    <2>3. prom[p].ch \in Channels
        BY <1>t, <2>2 DEF PromoterInv
    <2>4. channel[prom[p].ch] \in Document /\ Evidenced(prom[p].ch, channel[prom[p].ch].history)
        BY <1>t, <2>3 DEF IInv, ChannelInv
    <2>5. channel[prom[p].ch] \in Copy
        BY <2>4 DEF Document, Copy
    <2>6. /\ n \in PromoterState /\ n.pc = "decide" /\ n.rev = prom[p].rev /\ n.ch = prom[p].ch
          /\ n.src = prom[p].src /\ n.doc = channel[prom[p].ch]
        BY <1>t, <2>1, <2>5 DEF PromoterState, PromoterPC
    <2>7. PromoterInv(n)'
        BY <1>t, <2>2, <2>4, <2>6 DEF PromoterInv, Evidenced, Proven, docs
    <2> QED
        BY <2>2, <2>6, <2>7, <1>t, PromoterWorks DEF docs
<1> QED
    BY <1>1, <1>2, <1>3

\* The document of an allowed promotion: the one that was read with one proven
\* entry more.
LEMMA DecideStep ==
    ASSUME IInv, NEW p \in Promoters, Decide(p)
    PROVE  IInv'
<1> DEFINE st == prom[p]
           verdict == IF st.given = None THEN None ELSE proof[st.rev]
           ref == [from |-> st.doc.target, to |-> st.rev, source |-> st.src,
                   digest |-> bom[st.rev], proof |-> verdict]
<1>t. /\ proof \in [Revisions -> Verdict \cup {None}] /\ candidate \subseteq Revisions
      /\ prom[p] \in PromoterState /\ PromoterInv(prom[p])
      /\ prom \in [Promoters -> PromoterState]
      /\ bom \in [Revisions -> Contents \cup {None}]
    BY DEF IInv, TypeOK, MemoryOK
<1>1. st.pc = "decide" /\ UNCHANGED <<docs, derive, client, approved>>
    BY DEF Decide
<1>2. /\ st.ch \in Channels /\ st.rev \in Revisions /\ st.src \in Sources
      /\ bom[st.rev] \in Contents
      /\ st.doc \in Document /\ Evidenced(st.ch, st.doc.history)
    BY <1>t, <1>1 DEF PromoterInv
<1>3. CASE ~Evaluate(st.ch, st.src, verdict)
    BY <1>1, <1>3, IdleStep DEF Decide
<1>4. CASE Evaluate(st.ch, st.src, verdict)
    <2>1. PICK doc : doc = Promoted(st.doc, ref)
        OBVIOUS
    <2>2. PICK n : n = [prom[p] EXCEPT !.pc = "candidate", !.doc = doc]
        OBVIOUS
    <2>3. prom' = [prom EXCEPT ![p] = n]
        BY <1>4, <1>t, <2>1, <2>2 DEF Decide
    <2>4. verdict \in Verdict \cup {None}
        BY <1>t, <1>2
    <2>5. ref \in Promotion /\ ref.to = st.rev /\ ref.digest \in Contents /\ Proven(st.ch, ref)
        <3>1. ref \in Promotion
            BY <1>2, <2>4 DEF Promotion, Document, Sources
        <3>2. Proven(st.ch, ref)
            BY <1>4, EvaluateProves DEF Proven
        <3> QED
            BY <1>2, <3>1, <3>2
    <2> HIDE DEF ref, verdict
    <2> DEFINE h == st.doc.history
    <2>6. h \in Seq(Promotion) /\ Len(h) \in Nat
        BY <1>2 DEF Document
    <2>7. /\ doc.history = Append(h, ref) /\ doc.target = st.rev /\ doc.digest = ref.digest
          /\ doc = [target |-> st.rev, digest |-> ref.digest, history |-> Append(h, ref)]
        BY <2>1, <2>5 DEF Promoted
    <2>8. /\ Append(h, ref) \in Seq(Promotion) /\ Len(Append(h, ref)) = Len(h) + 1
          /\ Append(h, ref)[Len(h) + 1] = ref
          /\ \A i \in 1 .. Len(h) : Append(h, ref)[i] = h[i]
        BY <2>5, <2>6, AppendProperties
    <2>9. doc \in Document /\ doc \in Copy
        BY <1>2, <2>5, <2>7, <2>8 DEF Document, Copy
    <2>10. /\ n \in PromoterState /\ n.pc = "candidate" /\ n.doc = doc
           /\ n.ch = st.ch /\ n.rev = st.rev /\ n.src = st.src
        BY <1>t, <2>2, <2>9 DEF PromoterState, PromoterPC
    <2>11. /\ doc.history # <<>> /\ Len(doc.history) = Len(h) + 1
           /\ doc.history[Len(doc.history)] = ref
           /\ \A i \in DOMAIN doc.history : Proven(st.ch, doc.history[i])
           /\ \A i \in 1 .. Len(doc.history) - 1 : doc.history[i].to \in candidate
        <3>1. Len(doc.history) = Len(h) + 1 /\ doc.history[Len(doc.history)] = ref
            BY <2>7, <2>8
        <3>2. doc.history # <<>>
            BY <2>6, <3>1, EmptySeq
        <3>3. DOMAIN h = 1 .. Len(h) /\ DOMAIN doc.history = 1 .. Len(h) + 1
            BY <2>6, <2>7, <2>8, LenProperties
        <3>4. \A i \in 1 .. Len(h) : Proven(st.ch, doc.history[i]) /\ doc.history[i].to \in candidate
            BY <1>2, <2>7, <2>8, <3>3 DEF Evidenced
        <3>5. \A i \in DOMAIN doc.history : Proven(st.ch, doc.history[i])
            BY <2>5, <2>6, <2>7, <2>8, <3>3, <3>4
        <3> QED
            BY <2>6, <3>1, <3>2, <3>4, <3>5
    <2>12. PromoterInv(n)'
        BY <1>1, <1>2, <2>5, <2>7, <2>9, <2>10, <2>11 DEF PromoterInv, Proven, docs
    <2> QED
        BY <1>1, <1>t, <2>3, <2>10, <2>12, PromoterWorks DEF docs
<1> QED
    BY <1>3, <1>4

\* The three files: the candidate before the channel that mentions it, the
\* channel before the record of its promotion.
LEMMA WriteStep ==
    ASSUME IInv, NEW p \in Promoters,
           WriteCandidate(p) \/ WriteChannel(p) \/ WriteRecord(p) \/ PromoterFails(p)
    PROVE  IInv'
<1> DEFINE st == prom[p]
<1>t. /\ proof \in [Revisions -> Verdict \cup {None}] /\ candidate \subseteq Revisions
      /\ prom[p] \in PromoterState /\ PromoterInv(prom[p])
      /\ prom \in [Promoters -> PromoterState]
      /\ channel \in [Channels -> Document] /\ record \subseteq Channels \X Promotion
      /\ ChannelInv /\ RecordIsTrue
    BY DEF IInv, TypeOK, MemoryOK
<1>1. CASE WriteCandidate(p)
    <2>1. PICK n : n = [prom[p] EXCEPT !.pc = "channel"]
        OBVIOUS
    <2>2. /\ st.pc = "candidate" /\ prom' = [prom EXCEPT ![p] = n]
          /\ candidate' = candidate \cup {st.rev}
          /\ UNCHANGED <<bom, channel, proof, record, derive, client, approved>>
        BY <1>1, <1>t, <2>1 DEF WriteCandidate
    <2>3. /\ n \in PromoterState /\ n.pc = "channel" /\ n.rev = st.rev /\ n.ch = st.ch
          /\ n.src = st.src /\ n.doc = st.doc
        BY <1>t, <2>1 DEF PromoterState, PromoterPC
    <2>4. st.rev \in Revisions
        BY <1>t, <2>2 DEF PromoterInv
    <2>5. PromoterInv(n)'
        BY <1>t, <2>2, <2>3 DEF PromoterInv, Proven
    <2> QED
        BY <1>t, <2>2, <2>3, <2>4, <2>5, PromoterWorks
<1>2. CASE WriteChannel(p)
    <2>1. PICK n : n = [prom[p] EXCEPT !.pc = "record"]
        OBVIOUS
    <2>2. /\ st.pc = "channel" /\ prom' = [prom EXCEPT ![p] = n]
          /\ channel' = [channel EXCEPT ![st.ch] = st.doc]
          /\ approved' = approved \cup {<<st.ch, st.doc.target, st.doc.digest>>}
          /\ UNCHANGED <<bom, proof, candidate, record, derive, client>>
        BY <1>2, <1>t, <2>1 DEF WriteChannel
    <2>3. /\ n \in PromoterState /\ n.pc = "record" /\ n.rev = st.rev /\ n.ch = st.ch
          /\ n.src = st.src /\ n.doc = st.doc
        BY <1>t, <2>1 DEF PromoterState, PromoterPC
    <2>4. /\ st.ch \in Channels /\ st.rev \in Revisions /\ st.doc \in Document
          /\ st.doc.history # <<>>
          /\ st.doc.target = st.rev
          /\ st.doc.history[Len(st.doc.history)].to = st.rev
          /\ \A i \in DOMAIN st.doc.history : Proven(st.ch, st.doc.history[i])
          /\ \A i \in 1 .. Len(st.doc.history) - 1 : st.doc.history[i].to \in candidate
          /\ st.rev \in candidate
        BY <1>t, <2>2 DEF PromoterInv
    <2>5. PromoterInv(n)'
        BY <1>t, <2>2, <2>3, <2>4 DEF PromoterInv, Proven
    <2>6. Evidenced(st.ch, st.doc.history)
        <3>1. DOMAIN st.doc.history = 1 .. Len(st.doc.history) /\ Len(st.doc.history) \in Nat
            BY <2>4, LenProperties DEF Document
        <3>2. \A i \in DOMAIN st.doc.history : st.doc.history[i].to \in candidate
            <4>1. TAKE i \in DOMAIN st.doc.history
            <4>2. i = Len(st.doc.history) \/ i \in 1 .. Len(st.doc.history) - 1
                BY <3>1
            <4> QED
                BY <2>4, <4>2
        <3> QED
            BY <2>4, <3>2 DEF Evidenced
    <2>7. ChannelInv'
        <3> SUFFICES ASSUME NEW c \in Channels
                     PROVE  Evidenced(c, channel[c].history)' /\ Pinned(c, channel[c])'
            BY DEF ChannelInv
        <3>1. CASE c = st.ch
            <4>1. channel'[c] = st.doc
                BY <1>t, <2>2, <3>1
            <4>2. <<c, st.doc.target, st.doc.digest>> \in approved'
                BY <2>2, <3>1
            <4> QED
                BY <2>2, <2>6, <3>1, <4>1, <4>2 DEF Evidenced, Pinned, Proven
        <3>2. CASE c # st.ch
            <4>1. channel'[c] = channel[c]
                BY <1>t, <2>2, <3>2
            <4> QED
                BY <1>t, <2>2, <4>1 DEF ChannelInv, Evidenced, Pinned, Proven
        <3> QED
            BY <3>1, <3>2
    <2>8. channel' \in [Channels -> Document] /\ RecordIsTrue'
        BY <1>t, <2>2, <2>4 DEF RecordIsTrue
    <2> QED
        BY <1>t, <2>2, <2>3, <2>5, <2>7, <2>8, PromoterMoves
<1>3. CASE WriteRecord(p)
    <2> DEFINE entry == st.doc.history[Len(st.doc.history)]
    <2>1. /\ st.pc = "record" /\ prom' = [prom EXCEPT ![p] = IdlePromoter]
          /\ record' = record \cup {<<st.ch, entry>>}
          /\ UNCHANGED <<bom, channel, proof, candidate, derive, client, approved>>
        BY <1>3 DEF WriteRecord, Last
    <2>2. /\ st.ch \in Channels /\ st.doc \in Document /\ st.doc.history # <<>>
          /\ entry.to = st.rev /\ st.doc.digest = entry.digest
          /\ <<st.ch, st.rev, st.doc.digest>> \in approved
        BY <1>t, <2>1 DEF PromoterInv
    <2>3. entry \in Promotion
        <3>1. st.doc.history \in Seq(Promotion)
            BY <2>2 DEF Document
        <3>2. Len(st.doc.history) \in Nat /\ Len(st.doc.history) # 0
            BY <2>2, <3>1, EmptySeq, LenProperties
        <3> QED
            BY <3>1, <3>2, ElementOfSeq
    <2> HIDE DEF entry
    <2>4. record' \subseteq Channels \X Promotion
        BY <1>t, <2>1, <2>2, <2>3
    <2>5. RecordIsTrue'
        <3> SUFFICES ASSUME NEW e \in record' PROVE <<e[1], e[2].to, e[2].digest>> \in approved
            BY <2>1 DEF RecordIsTrue
        <3>1. CASE e \in record
            BY <1>t, <3>1 DEF RecordIsTrue
        <3>2. CASE e = <<st.ch, entry>>
            BY <2>2, <3>2
        <3> QED
            BY <2>1, <3>1, <3>2
    <2>6. IdlePromoter \in PromoterState /\ PromoterInv(IdlePromoter)'
        BY EmptyHistory DEF IdlePromoter, PromoterState, Copy, NoDoc, PromoterPC, PromoterInv
    <2>7. ChannelInv'
        BY <1>t, <2>1 DEF ChannelInv, Evidenced, Pinned, Proven
    <2> QED
        BY <1>t, <2>1, <2>4, <2>5, <2>6, <2>7, PromoterMoves
<1>4. CASE PromoterFails(p)
    BY <1>4, IdleStep DEF PromoterFails
<1> QED
    BY <1>1, <1>2, <1>3, <1>4

-----------------------------------------------------------------------------
(* sync derive and the clusters. *)

\* A derivation: the BOM first, the channel document with its digest later.
LEMMA DeriveStep ==
    ASSUME IInv, DeriveBOM \/ DeriveChannel \/ DeriveFails
    PROVE  IInv'
<1>t. /\ bom \in [Revisions -> Contents \cup {None}]
      /\ channel \in [Channels -> Document] /\ ChannelInv /\ DeriveInv /\ RecordIsTrue
      /\ derive \in PromoterState /\ MemoryOK /\ TypeOK
    BY DEF IInv, TypeOK, MemoryOK
<1>i. IdlePromoter \in PromoterState /\ IdlePromoter.pc = "idle"
    BY EmptyHistory DEF IdlePromoter, PromoterState, Copy, NoDoc, PromoterPC
<1>1. CASE DeriveBOM
    <2>1. PICK c \in DeriveChannels, r \in Revisions, b \in Contents :
              /\ bom' = [bom EXCEPT ![r] = b]
              /\ derive' = [IdlePromoter EXCEPT !.pc = "channel", !.ch = c, !.rev = r,
                            !.doc = [target |-> r, digest |-> b, history |-> <<>>]]
        BY <1>1 DEF DeriveBOM
    <2>2. UNCHANGED <<channel, proof, candidate, record, prom, client, approved>>
        BY <1>1 DEF DeriveBOM
    <2>3. derive' = [pc |-> "channel", ch |-> c, rev |-> r, src |-> None, given |-> None,
                     doc |-> [target |-> r, digest |-> b, history |-> <<>>]]
        BY <2>1 DEF IdlePromoter
    <2>4. [target |-> r, digest |-> b, history |-> <<>>] \in Document \cap Copy /\ c \in Channels
        BY EmptyHistory, Known DEF Document, Copy
    <2>5. derive' \in PromoterState /\ DeriveInv'
        BY <2>3, <2>4 DEF PromoterState, PromoterPC, DeriveInv
    <2>6. bom' \in [Revisions -> Contents \cup {None}]
          /\ \A s \in Revisions : bom[s] # None => bom'[s] # None
        BY <1>t, <2>1, Known
    <2>7. \A p \in Promoters : PromoterInv(prom[p])'
        BY <2>2, <2>6, PromoterKeeps DEF IInv
    <2>8. TypeOK' /\ MemoryOK' /\ ChannelInv' /\ RecordIsTrue'
        BY <1>t, <2>2, <2>5, <2>6
           DEF TypeOK, MemoryOK, ChannelInv, RecordIsTrue, Evidenced, Pinned, Proven
    <2>9. \A k \in Clients : ClientInv(k)'
        BY <2>2 DEF IInv, ClientInv, Pinned
    <2> QED
        BY <2>5, <2>7, <2>8, <2>9 DEF IInv
<1>2. CASE DeriveChannel
    <2>1. /\ derive.pc = "channel" /\ derive' = IdlePromoter
          /\ channel' = [channel EXCEPT ![derive.ch] = derive.doc]
          /\ approved' = approved \cup {<<derive.ch, derive.rev, derive.doc.digest>>}
          /\ UNCHANGED <<bom, proof, candidate, record, prom, client>>
        BY <1>2 DEF DeriveChannel
    <2>2. /\ derive.ch \in Channels /\ derive.doc \in Document
          /\ derive.doc.target = derive.rev /\ derive.doc.history = <<>>
        BY <1>t, <2>1, Known DEF DeriveInv
    <2>3. ChannelInv'
        <3> SUFFICES ASSUME NEW c \in Channels
                     PROVE  Evidenced(c, channel[c].history)' /\ Pinned(c, channel[c])'
            BY DEF ChannelInv
        <3>1. CASE c = derive.ch
            <4>1. channel'[c] = derive.doc
                BY <1>t, <2>1, <3>1
            <4>2. Evidenced(c, channel[c].history)'
                BY <2>2, <4>1, EmptyHistory DEF Evidenced
            <4>3. Pinned(c, channel[c])'
                BY <2>1, <2>2, <3>1, <4>1 DEF Pinned
            <4> QED
                BY <4>2, <4>3
        <3>2. CASE c # derive.ch
            <4>1. channel'[c] = channel[c]
                BY <1>t, <2>1, <3>2
            <4> QED
                BY <1>t, <2>1, <4>1 DEF ChannelInv, Evidenced, Pinned, Proven
        <3> QED
            BY <3>1, <3>2
    <2>4. channel' \in [Channels -> Document]
        BY <1>t, <2>1, <2>2
    <2>5. TypeOK' /\ MemoryOK' /\ RecordIsTrue' /\ DeriveInv'
        BY <1>t, <1>i, <2>1, <2>4 DEF TypeOK, MemoryOK, RecordIsTrue, DeriveInv
    <2>6. \A p \in Promoters : PromoterInv(prom[p])'
        BY <2>1, PromoterKeeps DEF IInv
    <2>7. \A k \in Clients : ClientInv(k)'
        BY <2>1 DEF IInv, ClientInv, Pinned
    <2> QED
        BY <2>3, <2>5, <2>6, <2>7 DEF IInv
<1>3. CASE DeriveFails
    <2>1. derive' = IdlePromoter /\ UNCHANGED <<docs, prom, client, approved>>
        BY <1>3 DEF DeriveFails
    <2>2. TypeOK' /\ MemoryOK' /\ RecordIsTrue' /\ DeriveInv' /\ ChannelInv'
        BY <1>t, <1>i, <2>1
           DEF TypeOK, MemoryOK, RecordIsTrue, DeriveInv, ChannelInv, Evidenced, Pinned, Proven, docs
    <2>3. \A p \in Promoters : PromoterInv(prom[p])'
        BY <2>1, PromoterKeeps DEF IInv, docs
    <2>4. \A k \in Clients : ClientInv(k)'
        BY <2>1 DEF IInv, ClientInv, Pinned
    <2> QED
        BY <2>2, <2>3, <2>4 DEF IInv
<1> QED
    BY <1>1, <1>2, <1>3

\* A cluster changes only what it holds itself.
LEMMA ClientMoves ==
    ASSUME IInv, NEW k \in Clients, NEW s \in ClientState,
           client' = [client EXCEPT ![k] = s], UNCHANGED <<docs, prom, derive, approved>>,
           s.pc \in {"served", "bom"} => s.doc.target \in Revisions,
           s.pinned /\ s.pc \in {"served", "bom"} => s.doc.digest # None /\ Pinned(s.ch, s.doc),
           s.pinned /\ s.pc = "resolved" => <<s.ch, s.doc.target, s.content>> \in approved
    PROVE  IInv'
<1>1. MemoryOK'
    BY DEF IInv, MemoryOK
<1>2. \A q \in Clients : client'[q].pc \in {"idle", "served", "bom", "resolved"}
    BY <1>1 DEF MemoryOK, ClientState
<1>3. \A q \in Clients : ClientInv(q)'
    <2> SUFFICES ASSUME NEW q \in Clients PROVE ClientInv(q)'
        OBVIOUS
    <2>1. client'[q] = IF q = k THEN s ELSE client[q]
        BY DEF IInv, MemoryOK
    <2> QED
        BY <2>1 DEF IInv, ClientInv, Pinned
<1>4. TypeOK' /\ RecordIsTrue' /\ DeriveInv' /\ ChannelInv'
    BY <1>2 DEF IInv, TypeOK, RecordIsTrue, DeriveInv, ChannelInv, Evidenced, Pinned, Proven, docs
<1>5. \A p \in Promoters : PromoterInv(prom[p])'
    BY PromoterKeeps DEF IInv, docs
<1> QED
    BY <1>1, <1>3, <1>4, <1>5 DEF IInv

\* Resolution: what the document pinned when it was read was approved, and
\* the digest ties the BOM that is read later to it.
LEMMA ClientStep ==
    ASSUME IInv, NEW k \in Clients,
           \/ ResolveReleaseChannelFile(k) \/ ResolveReleaseChannelLookup(k)
           \/ ServeChannel(k) \/ ServeVerified(k) \/ LookupBOM(k)
    PROVE  IInv'
<1>t. /\ client \in [Clients -> ClientState] /\ client[k] \in ClientState /\ ClientInv(k)
      /\ channel \in [Channels -> Document] /\ ChannelInv
      /\ bom \in [Revisions -> Contents \cup {None}]
    BY DEF IInv, TypeOK, MemoryOK
<1>i. IdleClient \in ClientState /\ IdleClient.pc = "idle" /\ ~IdleClient.pinned
    BY EmptyHistory DEF IdleClient, ClientState, Copy, NoDoc
\* The client gives up.
<1>f. ASSUME client' = [client EXCEPT ![k] = IdleClient], UNCHANGED <<docs, prom, derive, approved>>
      PROVE  IInv'
    BY <1>f, <1>i, ClientMoves
<1>1. ASSUME NEW c \in Channels, NEW lookup \in BOOLEAN, NEW next \in {"bom", "served"},
             ReadFrom(k, c, lookup, next)
      PROVE  IInv'
    <2>1. CASE lookup /\ channel[c].digest = None
        BY <1>1, <2>1, <1>f DEF ReadFrom
    <2>2. CASE ~(lookup /\ channel[c].digest = None)
        <3>1. PICK s : s = [pc |-> next, ch |-> c, doc |-> channel[c], pinned |-> lookup,
                            content |-> None]
            OBVIOUS
        <3>2. client' = [client EXCEPT ![k] = s] /\ UNCHANGED <<docs, prom, derive, approved>>
            BY <1>1, <2>2, <3>1 DEF ReadFrom
        <3>3. channel[c] \in Copy
            <4>1. channel[c] \in Document
                BY <1>t
            <4> QED
                BY <4>1 DEF Document, Copy
        <3>4. s \in ClientState
            BY <3>1, <3>3 DEF ClientState
        <3>5. s.pinned /\ s.pc \in {"served", "bom"} => s.doc.digest # None /\ Pinned(s.ch, s.doc)
            BY <1>t, <2>2, <3>1 DEF ChannelInv
        <3>6. s.doc.target \in Revisions
            BY <1>t, <3>1 DEF Document
        <3> QED
            BY <3>1, <3>2, <3>4, <3>5, <3>6, ClientMoves
    <2> QED
        BY <2>1, <2>2
<1>2. CASE ServeVerified(k)
    <2>1. client[k].pc = "served" /\ UNCHANGED <<docs, prom, derive, approved>>
        BY <1>2 DEF ServeVerified
    <2>2. CASE VerifyReleaseChannelBOMDigest(k)
        <3>1. PICK s : s = [client[k] EXCEPT !.pc = "bom"]
            OBVIOUS
        <3>2. client' = [client EXCEPT ![k] = s]
            BY <1>2, <1>t, <2>2, <3>1 DEF ServeVerified
        <3>3. /\ s \in ClientState /\ s.pc = "bom" /\ s.pinned = client[k].pinned
              /\ s.ch = client[k].ch /\ s.doc = client[k].doc
            BY <1>t, <3>1 DEF ClientState
        <3>4. s.pinned => s.doc.digest # None /\ Pinned(s.ch, s.doc)
            BY <1>t, <2>1, <3>3 DEF ClientInv
        <3>5. s.doc.target \in Revisions
            BY <1>t, <2>1, <3>3 DEF ClientInv
        <3> QED
            BY <2>1, <3>2, <3>3, <3>4, <3>5, ClientMoves
    <2>3. CASE ~VerifyReleaseChannelBOMDigest(k)
        BY <1>2, <2>1, <2>3, <1>f DEF ServeVerified
    <2> QED
        BY <2>2, <2>3
<1>3. CASE LookupBOM(k)
    <2>1. client[k].pc = "bom" /\ UNCHANGED <<docs, prom, derive, approved>>
        BY <1>3 DEF LookupBOM
    <2> DEFINE content == bom[client[k].doc.target]
    <2>2. CASE VerifyReleaseChannelBOMDigest(k)
        <3>1. PICK s : s = [client[k] EXCEPT !.pc = "resolved", !.content = content]
            OBVIOUS
        <3>2. client' = [client EXCEPT ![k] = s]
            BY <1>3, <1>t, <2>2, <3>1 DEF LookupBOM
        <3>3. client[k].doc.target \in Revisions
            BY <1>t, <2>1 DEF ClientInv
        <3>4. /\ s \in ClientState /\ s.pc = "resolved" /\ s.pinned = client[k].pinned
              /\ s.ch = client[k].ch /\ s.doc = client[k].doc /\ s.content = content
            BY <1>t, <3>1, <3>3 DEF ClientState
        <3>5. s.pinned => <<s.ch, s.doc.target, s.content>> \in approved
            BY <1>t, <2>1, <2>2, <3>4 DEF ClientInv, Pinned, VerifyReleaseChannelBOMDigest
        <3> QED
            BY <2>1, <3>2, <3>4, <3>5, ClientMoves
    <2>3. CASE ~VerifyReleaseChannelBOMDigest(k)
        BY <1>3, <2>1, <2>3, <1>f DEF LookupBOM
    <2> QED
        BY <2>2, <2>3
<1> QED
    BY <1>1, <1>2, <1>3 DEF ResolveReleaseChannelFile, ResolveReleaseChannelLookup, ServeChannel

-----------------------------------------------------------------------------
(* The invariant of the store, alone and beside the other machines. *)

\* Every step of the store keeps the invariant.
LEMMA StoreStep ==
    ASSUME IInv, [Next]_vars
    PROVE  IInv'
<1>1. ASSUME UNCHANGED vars PROVE IInv'
    BY <1>1 DEF vars, docs, IInv, TypeOK, MemoryOK, ChannelInv, RecordIsTrue, PromoterInv,
                DeriveInv, ClientInv, Evidenced, Pinned, Proven
<1>2. CASE Next
    BY <1>2, ReadStep, DecideStep, WriteStep, DeriveStep, ClientStep DEF Next
<1> QED
    BY <1>1, <1>2

\* What it says of promotions.
LEMMA PromotionsEvidenced ==
    ASSUME IInv
    PROVE  TypeOK /\ PromotionHasCandidate /\ RecordIsTrue /\ ProvenPromotion
BY DEF IInv, ChannelInv, Evidenced, Proven, PromotionHasCandidate, ProvenPromotion

\* What it says of the clusters.
LEMMA ResolutionsApproved ==
    ASSUME IInv
    PROVE  ResolvedIsApproved
BY DEF IInv, ClientInv, ResolvedIsApproved

\* A behaviour of MCRelease that is not about three channels has a store.
LEMMA StoreOfMachine ==
    /\ MCInit => (machine # "order" => IInv)
    /\ (machine # "order" => IInv) /\ [MCNext]_allVars => (machine # "order" => IInv)'
<1>1. MCInit => (machine # "order" => IInv)
    BY Start DEF MCInit
<1>2. ASSUME machine # "order" => IInv, [MCNext]_allVars, machine' # "order" PROVE IInv'
    <2>1. UNCHANGED machine
        BY <1>2 DEF MCNext, allVars
    <2>2. [Next]_vars
        BY <1>2, <2>1 DEF MCNext, allVars
    <2> QED
        BY <1>2, <2>1, <2>2, StoreStep
<1> QED
    BY <1>1, <1>2

(* What a cluster resolves by a lookup was approved for that channel under    *)
(* that revision, for any number of promoters, clients and derivations that   *)
(* write between the two reads of a resolution: verifyReleaseChannelBOMDigest. *)
THEOREM ResolutionsAreApproved == MCSpec => []StoreResolvedIsApproved
<1>1. (machine # "order" => IInv) => StoreResolvedIsApproved
    BY ResolutionsApproved DEF StoreResolvedIsApproved
<1> QED
    BY <1>1, StoreOfMachine, PTL DEF MCSpec

(* The documents of the store are well formed, every promotion a channel      *)
(* mentions has its candidate and rests on an allowed source and a passed     *)
(* proof, and a record exists only for a promotion that moved its channel,     *)
(* wherever promoters and derivations die (PromoteReleaseChannelFile).        *)
THEOREM PromotionsAreSound == MCSpec => []PromotionSound
<1>1. (machine # "order" => IInv) => PromotionSound
    BY PromotionsEvidenced DEF PromotionSound
<1> QED
    BY <1>1, StoreOfMachine, PTL DEF MCSpec

-----------------------------------------------------------------------------
(* The histories of the channels. *)

\* A promotion extends a chain by an entry that starts where the chain ends.
LEMMA PromotedChain ==
    ASSUME NEW doc \in Document, Chain(doc), NEW e, e.from = doc.target,
           Promoted(doc, e) \in Document
    PROVE  Chain(Promoted(doc, e))
<1> DEFINE h == doc.history
           g == Append(h, e)
<1>1. /\ h \in Seq(Promotion) /\ Len(h) \in Nat /\ g \in Seq(Promotion)
      /\ Promoted(doc, e).history = g /\ Promoted(doc, e).target = e.to
      /\ Promoted(doc, e).digest = e.digest
    BY DEF Document, Promoted
<1>2. /\ Len(g) = Len(h) + 1 /\ g[Len(h) + 1] = e
      /\ \A i \in 1 .. Len(h) : g[i] = h[i]
      /\ DOMAIN h = 1 .. Len(h) /\ DOMAIN g = 1 .. Len(h) + 1
    BY <1>1
<1> HIDE DEF h, g
<1>3. ASSUME NEW i \in DOMAIN g \ {1} PROVE g[i].from = g[i - 1].to
    <2>1. CASE i = Len(h) + 1
        <3>1. Len(h) # 0 /\ g[i] = e /\ g[i - 1] = h[Len(h)]
            BY <1>1, <1>2, <1>3, <2>1
        <3>2. h # <<>>
            BY <1>1, <3>1, EmptySeq
        <3>3. doc.target = h[Len(h)].to
            BY <3>2 DEF Chain, Last, h
        <3> QED
            BY <3>1, <3>3
    <2>2. CASE i # Len(h) + 1
        <3>1. i \in DOMAIN h \ {1} /\ i - 1 \in 1 .. Len(h) /\ i \in 1 .. Len(h)
            BY <1>1, <1>2, <1>3, <2>2
        <3>2. h[i].from = h[i - 1].to
            BY <3>1 DEF Chain, h
        <3> QED
            BY <1>2, <3>1, <3>2
    <2> QED
        BY <2>1, <2>2
<1> QED
    BY <1>1, <1>2, <1>3 DEF Chain, Last

\* The documents of the channels are chains, and so are those that promoters
\* hold, whatever the channels say by now.
ChainInv ==
    /\ IInv /\ HistoryIsChain
    /\ \A p \in Promoters :
          prom[p].pc \in {"decide", "candidate", "channel"} => Chain(prom[p].doc)

\* Every step of the store keeps the chains.
LEMMA ChainStep ==
    ASSUME ChainInv, [Next]_vars
    PROVE  ChainInv'
<1>i. IInv /\ IInv'
    BY StoreStep DEF ChainInv
<1>t. /\ prom \in [Promoters -> PromoterState] /\ prom' \in [Promoters -> PromoterState]
      /\ channel \in [Channels -> Document]
    BY <1>i DEF IInv, MemoryOK, TypeOK
\* The channels stay, and a promoter with a document kept it or read a channel.
<1>u. ASSUME UNCHANGED channel,
             \A p \in Promoters :
                \/ prom'[p] = prom[p]
                \/ prom'[p].pc \in {"decide", "candidate", "channel"} => Chain(prom'[p].doc)
      PROVE  ChainInv'
    BY <1>i, <1>u DEF ChainInv, HistoryIsChain, Chain
<1>1. CASE UNCHANGED vars
    BY <1>1, <1>u DEF vars, docs
<1>2. ASSUME NEW p \in Promoters,
             Request(p) \/ WriteHealthProof(p) \/ WriteRecord(p) \/ PromoterFails(p)
      PROVE  ChainInv'
    <2>1. /\ UNCHANGED channel /\ \A q \in Promoters : q # p => prom'[q] = prom[q]
          /\ prom'[p].pc \in {"proof", "read", "idle"}
        BY <1>2, <1>t DEF Request, WriteHealthProof, WriteRecord, PromoterFails, docs,
                          PromoterState, IdlePromoter
    <2> QED
        BY <2>1, <1>u
<1>3. ASSUME NEW p \in Promoters, ReadChannel(p) PROVE ChainInv'
    <2>1. /\ prom[p].pc = "read" /\ UNCHANGED channel
          /\ prom' = [prom EXCEPT ![p].pc = "decide", ![p].doc = channel[prom[p].ch]]
        BY <1>3 DEF ReadChannel, docs
    <2>2. prom[p].ch \in Channels
        BY <1>i, <2>1 DEF IInv, PromoterInv
    <2>3. /\ prom'[p].doc = channel[prom[p].ch]
          /\ \A q \in Promoters : q # p => prom'[q] = prom[q]
        BY <1>t, <2>1 DEF PromoterState
    <2>4. Chain(prom'[p].doc)
        BY <2>2, <2>3 DEF ChainInv, HistoryIsChain
    <2> QED
        BY <2>1, <2>3, <2>4, <1>u
<1>4. ASSUME NEW p \in Promoters, Decide(p) PROVE ChainInv'
    <2>1. prom[p].pc = "decide" /\ UNCHANGED channel
        BY <1>4 DEF Decide, docs
    <2>2. PICK d, v : prom' = [prom EXCEPT ![p] =
             IF Evaluate(prom[p].ch, prom[p].src, v)
             THEN [@ EXCEPT !.pc = "candidate",
                            !.doc = Promoted(prom[p].doc, [from |-> prom[p].doc.target,
                                        to |-> prom[p].rev, source |-> prom[p].src,
                                        digest |-> d, proof |-> v])]
             ELSE IdlePromoter]
        BY <1>4 DEF Decide
    <2>3. \A q \in Promoters : q # p => prom'[q] = prom[q]
        BY <1>t, <2>2
    <2>4. CASE prom'[p].pc = "idle"
        BY <2>1, <2>3, <2>4, <1>u
    <2>5. CASE prom'[p].pc # "idle"
        <3>1. PICK e : e = [from |-> prom[p].doc.target, to |-> prom[p].rev,
                            source |-> prom[p].src, digest |-> d, proof |-> v]
            OBVIOUS
        <3>2. prom'[p] = [prom[p] EXCEPT !.pc = "candidate", !.doc = Promoted(prom[p].doc, e)]
            BY <1>t, <2>2, <2>5, <3>1 DEF IdlePromoter
        <3>3. prom'[p].pc = "candidate" /\ prom'[p].doc = Promoted(prom[p].doc, e)
            BY <1>t, <3>2 DEF PromoterState
        <3>4. prom[p].doc \in Document /\ Chain(prom[p].doc)
            BY <1>i, <2>1 DEF ChainInv, IInv, PromoterInv
        <3>5. Promoted(prom[p].doc, e) \in Document
            BY <1>i, <3>3 DEF IInv, PromoterInv
        <3>6. e.from = prom[p].doc.target
            BY <3>1
        <3>7. Chain(prom'[p].doc)
            BY <3>3, <3>4, <3>5, <3>6, PromotedChain
        <3> QED
            BY <2>1, <2>3, <3>7, <1>u
    <2> QED
        BY <2>4, <2>5
<1>5. ASSUME NEW p \in Promoters, WriteCandidate(p) PROVE ChainInv'
    <2>1. /\ prom[p].pc = "candidate" /\ UNCHANGED channel
          /\ prom' = [prom EXCEPT ![p].pc = "channel"]
        BY <1>5 DEF WriteCandidate
    <2>2. prom'[p].doc = prom[p].doc /\ \A q \in Promoters : q # p => prom'[q] = prom[q]
        BY <1>t, <2>1 DEF PromoterState
    <2>3. Chain(prom'[p].doc)
        BY <2>1, <2>2 DEF ChainInv
    <2> QED
        BY <2>1, <2>2, <2>3, <1>u
\* A document that is a chain replaces one.
<1>w. ASSUME NEW c \in Channels, NEW doc, Chain(doc), channel' = [channel EXCEPT ![c] = doc],
             \A p \in Promoters : prom'[p] = prom[p] \/ prom'[p].pc = "record"
      PROVE  ChainInv'
    <2>1. \A b \in Channels : channel'[b] = IF b = c THEN doc ELSE channel[b]
        BY <1>t, <1>w
    <2>2. \A b \in Channels : Chain(channel'[b])
        BY <1>w, <2>1 DEF ChainInv, HistoryIsChain
    <2>3. \A p \in Promoters :
              prom'[p].pc \in {"decide", "candidate", "channel"} => Chain(prom'[p].doc)
        BY <1>w DEF ChainInv
    <2> QED
        BY <1>i, <2>2, <2>3 DEF ChainInv, HistoryIsChain, Chain
<1>6. ASSUME NEW p \in Promoters, WriteChannel(p) PROVE ChainInv'
    <2>1. /\ prom[p].pc = "channel" /\ prom' = [prom EXCEPT ![p].pc = "record"]
          /\ channel' = [channel EXCEPT ![prom[p].ch] = prom[p].doc]
        BY <1>6 DEF WriteChannel
    <2>2. prom[p].ch \in Channels /\ Chain(prom[p].doc)
        BY <1>i, <2>1 DEF ChainInv, IInv, PromoterInv
    <2>3. \A q \in Promoters : prom'[q] = prom[q] \/ prom'[q].pc = "record"
        BY <1>t, <2>1 DEF PromoterState
    <2> QED
        BY <2>1, <2>2, <2>3, <1>w
<1>7. CASE DeriveBOM \/ DeriveFails
    BY <1>7, <1>u DEF DeriveBOM, DeriveFails, docs
<1>8. CASE DeriveChannel
    <2>1. /\ derive.pc = "channel" /\ UNCHANGED prom
          /\ channel' = [channel EXCEPT ![derive.ch] = derive.doc]
        BY <1>8 DEF DeriveChannel
    <2>2. derive.ch \in Channels /\ derive.doc.history = <<>>
        BY <1>i, <2>1, Known DEF IInv, DeriveInv
    <2>3. Chain(derive.doc)
        BY <2>2, EmptyHistory DEF Chain
    <2> QED
        BY <2>1, <2>2, <2>3, <1>w
<1>9. ASSUME NEW k \in Clients,
             \/ ResolveReleaseChannelFile(k) \/ ResolveReleaseChannelLookup(k)
             \/ ServeChannel(k) \/ ServeVerified(k) \/ LookupBOM(k)
      PROVE  ChainInv'
    BY <1>9, <1>u DEF ResolveReleaseChannelFile, ResolveReleaseChannelLookup, ServeChannel,
                      ReadFrom, ServeVerified, LookupBOM, docs
<1> QED
    BY <1>1, <1>2, <1>3, <1>4, <1>5, <1>6, <1>7, <1>8, <1>9 DEF Next

(* The promotions a channel document lists lead without a gap to the revision *)
(* and the BOM it names, for any number of promoters and derivations that     *)
(* overwrite each other's documents and fail: PromoteReleaseChannelFile.      *)
THEOREM HistoriesAreChains == Spec => []HistoryIsChain
<1>1. Init => ChainInv
    <2> SUFFICES ASSUME Init PROVE ChainInv
        OBVIOUS
    <2>1. \A c \in Channels : channel[c].history = <<>>
        BY DEF Init
    <2>2. HistoryIsChain
        BY <2>1, EmptyHistory DEF HistoryIsChain, Chain
    <2> QED
        BY <2>2, Start DEF ChainInv, Init, IdlePromoter
<1>2. ChainInv /\ [Next]_vars => ChainInv'
    BY ChainStep
<1>3. ChainInv => HistoryIsChain
    BY DEF ChainInv
<1> QED
    BY <1>1, <1>2, <1>3, PTL DEF Spec

-----------------------------------------------------------------------------
(* One writer at a time. *)

\* A sequence is a prefix of itself and of itself with one entry more.
LEMMA AppendExtends ==
    ASSUME NEW h \in Seq(Promotion), NEW e \in Promotion
    PROVE  IsPrefix(h, h) /\ IsPrefix(h, Append(h, e))
<1>1. /\ Append(h, e) \in Seq(Promotion) /\ Len(Append(h, e)) = Len(h) + 1
      /\ \A i \in 1 .. Len(h) : Append(h, e)[i] = h[i]
      /\ Len(h) \in Nat
      /\ \A i \in 1 .. Len(h) : h[i] \in Promotion
    BY AppendProperties, LenProperties, ElementOfSeq
<1>2. SubSeq(h, 1, Len(h)) = h
    BY SubSeqFull
<1>3. SubSeq(Append(h, e), 1, Len(h)) = h
    <2> DEFINE t == SubSeq(Append(h, e), 1, Len(h))
    <2>1. 1 \in Int /\ Len(h) \in Int /\ \A i \in 1 .. Len(h) : Append(h, e)[i] \in Promotion
        BY <1>1
    <2>2. /\ t \in Seq(Promotion) /\ Len(t) = IF 1 <= Len(h) THEN Len(h) - 1 + 1 ELSE 0
          /\ \A i \in 1 .. Len(h) - 1 + 1 : t[i] = Append(h, e)[1 + i - 1]
        BY ONLY <2>1, SubSeqProperties
    <2>3. Len(t) = Len(h) /\ \A i \in 1 .. Len(t) : t[i] = h[i]
        BY <1>1, <2>2
    <2> HIDE DEF t
    <2> QED
        BY <2>2, <2>3, SeqEqual
<1> QED
    BY <1>1, <1>2, <1>3 DEF IsPrefix

\* With one promoter and no derivation nobody else writes the channel between
\* its read and its write.
WriterInv(p) ==
    /\ IInv
    /\ prom[p].pc = "decide" => prom[p].doc = channel[prom[p].ch]
    /\ prom[p].pc \in {"candidate", "channel"} =>
           \E e \in Promotion : prom[p].doc.history = Append(channel[prom[p].ch].history, e)

\* Every step of the one promoter, and what it does to the histories.
LEMMA WriterStep ==
    ASSUME NEW p, Promoters = {p}, DeriveChannels = {}, WriterInv(p), [Next]_vars
    PROVE  WriterInv(p)' /\ HistoryStep
<1>i. IInv /\ IInv'
    BY StoreStep DEF WriterInv
<1>t. /\ p \in Promoters /\ prom \in [Promoters -> PromoterState] /\ prom[p] \in PromoterState
      /\ channel \in [Channels -> Document] /\ PromoterInv(prom[p])
      /\ proof \in [Revisions -> Verdict \cup {None}]
    BY <1>i DEF IInv, MemoryOK, TypeOK
<1>h. \A c \in Channels : channel[c].history \in Seq(Promotion)
    BY <1>t DEF Document
\* The channels stay as they are, and so does the promoter, or it forgets.
<1>k. ASSUME UNCHANGED channel PROVE HistoryStep
    <2> SUFFICES ASSUME NEW c \in Channels PROVE IsPrefix(channel[c].history, channel[c].history)
        BY <1>k DEF HistoryStep
    <2> QED
        BY <1>h, SubSeqFull, LenProperties DEF IsPrefix
<1>u. ASSUME UNCHANGED channel, prom'[p] = prom[p] \/ prom'[p].pc \in {"idle", "proof", "read", "record"}
      PROVE  WriterInv(p)' /\ HistoryStep
    BY <1>i, <1>k, <1>u DEF WriterInv
<1>1. CASE UNCHANGED vars
    BY <1>1, <1>u DEF vars, docs
<1>2. CASE Request(p) \/ WriteHealthProof(p) \/ WriteRecord(p) \/ PromoterFails(p)
    <2>1. CASE Request(p)
        <3>1. UNCHANGED channel /\ prom'[p].pc = "proof"
            BY <1>t, <2>1 DEF Request, docs
        <3> QED
            BY <3>1, <1>u
    <2>2. CASE WriteHealthProof(p)
        <3>1. UNCHANGED channel /\ prom'[p].pc = "read"
            BY <1>t, <2>2 DEF WriteHealthProof, PromoterState
        <3> QED
            BY <3>1, <1>u
    <2>3. CASE WriteRecord(p) \/ PromoterFails(p)
        <3>1. UNCHANGED channel /\ prom'[p].pc = "idle"
            BY <1>t, <2>3 DEF WriteRecord, PromoterFails, docs, IdlePromoter
        <3> QED
            BY <3>1, <1>u
    <2> QED
        BY <1>2, <2>1, <2>2, <2>3
<1>3. CASE ReadChannel(p)
    <2>1. /\ UNCHANGED channel
          /\ prom' = [prom EXCEPT ![p].pc = "decide", ![p].doc = channel[prom[p].ch]]
        BY <1>3 DEF ReadChannel, docs
    <2>2. prom'[p].pc = "decide" /\ prom'[p].doc = channel[prom[p].ch] /\ prom'[p].ch = prom[p].ch
        BY <1>t, <2>1 DEF PromoterState
    <2> QED
        BY <1>i, <1>k, <2>1, <2>2 DEF WriterInv
<1>4. CASE Decide(p)
    <2>1. UNCHANGED channel /\ prom[p].pc = "decide"
        BY <1>4 DEF Decide, docs
    <2>2. PICK d, v : prom' = [prom EXCEPT ![p] =
             IF Evaluate(prom[p].ch, prom[p].src, v)
             THEN [@ EXCEPT !.pc = "candidate",
                            !.doc = Promoted(prom[p].doc, [from |-> prom[p].doc.target,
                                        to |-> prom[p].rev, source |-> prom[p].src,
                                        digest |-> d, proof |-> v])]
             ELSE IdlePromoter]
        BY <1>4 DEF Decide
    <2>3. CASE prom'[p].pc = "idle"
        BY <2>1, <2>3, <1>u
    <2>4. CASE prom'[p].pc # "idle"
        <3> DEFINE e == [from |-> prom[p].doc.target, to |-> prom[p].rev, source |-> prom[p].src,
                         digest |-> d, proof |-> v]
        <3>1. prom'[p] = [prom[p] EXCEPT !.pc = "candidate", !.doc = Promoted(prom[p].doc, e)]
            BY <1>t, <2>2, <2>4 DEF IdlePromoter
        <3> HIDE DEF e
        <3>2. /\ prom'[p].pc = "candidate" /\ prom'[p].ch = prom[p].ch
              /\ prom'[p].doc.history = Append(prom[p].doc.history, e)
            BY <1>t, <3>1 DEF PromoterState, Promoted
        <3>3. prom[p].doc = channel[prom[p].ch] /\ prom[p].ch \in Channels
            BY <1>t, <2>1 DEF WriterInv, PromoterInv
        <3>4. prom'[p].doc.history = Append(channel'[prom'[p].ch].history, e)
            BY <2>1, <3>2, <3>3
        <3>5. e \in Promotion
            <4>1. /\ Len(prom[p].doc.history) \in Nat /\ prom[p].doc.history \in Seq(Promotion)
                BY <1>h, <3>3, LenProperties
            <4>2. prom'[p].doc.history \in Seq(Promotion)
                BY <1>i, <1>t, <3>2 DEF IInv, PromoterInv, Document
            <4>3. Append(prom[p].doc.history, e)[Len(prom[p].doc.history) + 1] = e
                  /\ Len(Append(prom[p].doc.history, e)) = Len(prom[p].doc.history) + 1
                BY <4>1
            <4> QED
                BY <3>2, <4>1, <4>2, <4>3, ElementOfSeq
        <3> QED
            BY <1>i, <1>k, <2>1, <3>2, <3>4, <3>5 DEF WriterInv
    <2> QED
        BY <2>3, <2>4
<1>5. CASE WriteCandidate(p)
    <2>1. UNCHANGED channel /\ prom[p].pc = "candidate" /\ prom' = [prom EXCEPT ![p].pc = "channel"]
        BY <1>5 DEF WriteCandidate
    <2>2. prom'[p].pc = "channel" /\ prom'[p].doc = prom[p].doc /\ prom'[p].ch = prom[p].ch
        BY <1>t, <2>1 DEF PromoterState
    <2> QED
        BY <1>i, <1>k, <2>1, <2>2 DEF WriterInv
<1>6. CASE WriteChannel(p)
    <2>1. /\ prom[p].pc = "channel" /\ prom' = [prom EXCEPT ![p].pc = "record"]
          /\ channel' = [channel EXCEPT ![prom[p].ch] = prom[p].doc]
        BY <1>6 DEF WriteChannel
    <2>2. prom'[p].pc = "record"
        BY <1>t, <2>1 DEF PromoterState
    <2>3. PICK e \in Promotion : prom[p].doc.history = Append(channel[prom[p].ch].history, e)
        BY <2>1 DEF WriterInv
    <2>4. HistoryStep
        <3> SUFFICES ASSUME NEW c \in Channels PROVE IsPrefix(channel[c].history, channel'[c].history)
            BY DEF HistoryStep
        <3>1. CASE c = prom[p].ch
            <4>1. channel'[c].history = Append(channel[c].history, e)
                BY <1>t, <2>1, <2>3, <3>1
            <4> QED
                BY <1>h, <4>1, AppendExtends
        <3>2. CASE c # prom[p].ch
            <4>1. channel'[c] = channel[c]
                BY <1>t, <2>1, <3>2
            <4> QED
                BY <1>h, <4>1, SubSeqFull, LenProperties DEF IsPrefix
        <3> QED
            BY <3>1, <3>2
    <2> QED
        BY <1>i, <2>2, <2>4 DEF WriterInv
<1>7. CASE DeriveBOM \/ DeriveChannel \/ DeriveFails
    <2>1. derive.pc = "idle"
        BY <1>i DEF IInv, DeriveInv
    <2> QED
        BY <1>7, <2>1 DEF DeriveBOM, DeriveChannel, DeriveFails
<1>8. ASSUME NEW k \in Clients,
             \/ ResolveReleaseChannelFile(k) \/ ResolveReleaseChannelLookup(k)
             \/ ServeChannel(k) \/ ServeVerified(k) \/ LookupBOM(k)
      PROVE  WriterInv(p)' /\ HistoryStep
    BY <1>8, <1>u DEF ResolveReleaseChannelFile, ResolveReleaseChannelLookup, ServeChannel,
                      ReadFrom, ServeVerified, LookupBOM, docs
<1> QED
    BY <1>1, <1>2, <1>3, <1>4, <1>5, <1>6, <1>7, <1>8 DEF Next

(* Promotion history is append-only evidence while one promoter at a time     *)
(* writes and nobody derives: PromoteReleaseChannelFile never drops an entry,  *)
(* wherever it fails.  Two promoters may, since nothing locks the document    *)
(* between its read and its write.                                            *)
THEOREM OneWriterKeepsHistory ==
    ASSUME NEW p, Promoters = {p}, DeriveChannels = {}
    PROVE  Spec => [][HistoryStep]_vars
<1>1. Init => WriterInv(p)
    BY Start DEF WriterInv, Init, IdlePromoter
<1>2. WriterInv(p) /\ [Next]_vars => WriterInv(p)' /\ HistoryStep
    BY WriterStep
<1> QED
    BY <1>1, <1>2, PTL DEF Spec
=============================================================================
