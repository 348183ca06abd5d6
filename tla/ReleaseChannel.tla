--------------------------- MODULE ReleaseChannel ---------------------------
(***************************************************************************)
(* The release store of one distribution line (pkg/distribution/bom,       *)
(* pkg/distribution/promotion): BOM files by revision, one ReleaseChannel  *)
(* document per channel, candidate and promotion-history documents and     *)
(* health-proof files.  Promotions come from `sync promote' and from the   *)
(* concurrent handlers of the release metadata service; each reads the     *)
(* channel document, evaluates the policy and then writes three files, and *)
(* may die between any two of them.  `sync derive' writes a BOM and        *)
(* replaces a channel document.  Clusters resolve a channel by reading its *)
(* document first and the BOM it names afterwards.                         *)
(*                                                                         *)
(* A BOM's content stands for its digest.  What a health proof says is     *)
(* module HealthProof; here a proof file has passed or has not.            *)
(***************************************************************************)
EXTENDS Naturals, Sequences, FiniteSets, SequencesExt

CONSTANTS
    Channels,        \* channels in use, of alpha, beta and stable
    Promoters,       \* commands and service handlers that promote
    Clients,         \* clusters that resolve a channel
    Revisions,       \* revisions of the line
    Contents,        \* contents a BOM file may have
    First,           \* the revision all channels start from
    DeriveChannels,  \* channels `sync derive' may write
    None,
    MaxPromotions,   \* bound: promotions begun
    MaxRewrites,     \* bound: BOM files written by sync derive
    MaxFaults        \* bound: writers that die

ASSUME ReleaseAssumption ==
    /\ Channels \subseteq {"alpha", "beta", "stable"} /\ Channels # {}
    /\ DeriveChannels \subseteq Channels
    /\ First \in Revisions
    /\ None \notin Revisions \cup Contents
    /\ MaxPromotions \in Nat /\ MaxRewrites \in Nat /\ MaxFaults \in Nat

VARIABLES
    bom,        \* releases/<line>/<revision>/bom.yaml
    channel,    \* channels/<line>/<channel>.yaml
    proof,      \* proofs/<line>/<revision>/<name>.yaml
    candidate,  \* revisions with a candidates/<line>/<revision> document
    record,     \* promotions/<line>/<channel>/... documents
    prom,       \* per promoter: where it is and what it has read
    derive,     \* the same for sync derive
    client,     \* per client: the document it read and what it resolved
    approved,   \* history: <<channel, revision, content>> once written to a channel
    begun, rewrites, faults

docs == <<bom, channel, proof, candidate, record>>
vars == <<docs, prom, derive, client, approved, begun, rewrites, faults>>

Verdict == {"passed", "failed"}
Sources == {"alpha", "beta", "stable"}
NoDoc   == [target |-> None, digest |-> None, history |-> <<>>]

\* DistributionPromotionRef, without reasons, approvers and times
Promotion == [from : Revisions, to : Revisions, source : Sources,
              digest : Contents, proof : Verdict \cup {None}]

IdlePromoter == [pc |-> "idle", ch |-> None, rev |-> None, src |-> None,
                 given |-> None, doc |-> NoDoc]
IdleClient   == [pc |-> "idle", ch |-> None, doc |-> NoDoc, pinned |-> FALSE, content |-> None]

Init ==
    /\ bom \in {b \in [Revisions -> Contents \cup {None}] : b[First] # None}
    /\ \E d \in {bom[First], None} :
         channel = [c \in Channels |-> [target |-> First, digest |-> d, history |-> <<>>]]
    /\ proof = [r \in Revisions |-> None]
    /\ candidate = {} /\ record = {}
    /\ prom = [p \in Promoters |-> IdlePromoter]
    /\ derive = IdlePromoter
    /\ client = [k \in Clients |-> IdleClient]
    /\ approved = {<<c, First, bom[First]>> : c \in Channels}
    /\ begun = 0 /\ rewrites = 0 /\ faults = 0

-----------------------------------------------------------------------------
(* Promotion policy *)

\* DefaultPolicy
AllowedSources(target) ==
    CASE target = "alpha"  -> {"alpha"}
      [] target = "beta"   -> {"alpha", "beta"}
      [] target = "stable" -> {"beta", "stable"}

RequiresHealthProof(target) == target # "alpha"

\* Mutant: a channel that needs a proof accepts a promotion without one.
EvaluateForgetsProof(target, source, verdict) ==
    source \in AllowedSources(target) /\ verdict \in {None, "passed"}

\* Policy.Evaluate after distributionHealthProofForPromotion: a proof that
\* is given must have passed, one that is required must be given.
Evaluate(target, source, verdict) ==
    /\ source \in AllowedSources(target)
    /\ RequiresHealthProof(target) => verdict # None
    /\ verdict \in {None, "passed"}

-----------------------------------------------------------------------------
(* Promotion: request, proof file, channel, evidence, then three writes *)

\* A request of the command or of the service.  It may claim any source
\* channel, and one that claims none claims the channel it promotes; nothing
\* compares the claim with the store.
Request(p) ==
    /\ prom[p].pc = "idle" /\ begun < MaxPromotions
    /\ \E c \in Channels, r \in Revisions, s \in Sources, g \in Verdict \cup {None} :
          /\ bom[r] # None
          /\ prom' = [prom EXCEPT ![p] = [pc |-> "proof", ch |-> c, rev |-> r,
                        src |-> s, given |-> g, doc |-> NoDoc]]
    /\ begun' = begun + 1
    /\ UNCHANGED <<docs, derive, client, approved, rewrites, faults>>

\* writeReleaseMetadataHealthProof: the service stores the proof of the
\* request before anything is decided, over an earlier one of that name.
WriteHealthProof(p) ==
    /\ prom[p].pc = "proof"
    /\ proof' = IF prom[p].given = None THEN proof
                ELSE [proof EXCEPT ![prom[p].rev] = prom[p].given]
    /\ prom' = [prom EXCEPT ![p].pc = "read"]
    /\ UNCHANGED <<bom, channel, candidate, record, derive, client, approved,
                   begun, rewrites, faults>>

\* LoadReleaseChannelFile: the document read here is written back later.
ReadChannel(p) ==
    /\ prom[p].pc = "read"
    /\ prom' = [prom EXCEPT ![p].pc = "decide", ![p].doc = channel[prom[p].ch]]
    /\ UNCHANGED <<docs, derive, client, approved, begun, rewrites, faults>>

\* The channel document after the promotion of a BOM with this content.
Promoted(doc, ref) ==
    [target |-> ref.to, digest |-> ref.digest, history |-> Append(doc.history, ref)]

\* Mutant: the record is written before the channel.
DecideRecordsFirst(p) ==
    LET st == prom[p]
        verdict == IF st.given = None THEN None ELSE proof[st.rev]
        ref == [from |-> st.doc.target, to |-> st.rev, source |-> st.src,
                digest |-> bom[st.rev], proof |-> verdict]
    IN  /\ st.pc = "decide"
        /\ IF Evaluate(st.ch, st.src, verdict)
           THEN /\ prom' = [prom EXCEPT ![p].pc = "candidate", ![p].doc = Promoted(st.doc, ref)]
                /\ record' = record \cup {<<st.ch, ref>>}
           ELSE prom' = [prom EXCEPT ![p] = IdlePromoter] /\ UNCHANGED record
        /\ UNCHANGED <<bom, channel, proof, candidate, derive, client, approved,
                       begun, rewrites, faults>>

\* The BOM and the proof are read, the policy is evaluated, and the three
\* documents are prepared; a blocked promotion writes none of them.
Decide(p) ==
    LET st == prom[p]
        verdict == IF st.given = None THEN None ELSE proof[st.rev]
        ref == [from |-> st.doc.target, to |-> st.rev, source |-> st.src,
                digest |-> bom[st.rev], proof |-> verdict]
    IN  /\ st.pc = "decide"
        /\ prom' = [prom EXCEPT ![p] =
             IF Evaluate(st.ch, st.src, verdict)
             THEN [@ EXCEPT !.pc = "candidate", !.doc = Promoted(st.doc, ref)]
             ELSE IdlePromoter]
        /\ UNCHANGED <<docs, derive, client, approved, begun, rewrites, faults>>

\* Mutant: the candidate document is written after the channel.
WriteCandidateLater(p) ==
    /\ prom[p].pc = "candidate"
    /\ prom' = [prom EXCEPT ![p].pc = "channel"]
    /\ UNCHANGED <<docs, derive, client, approved, begun, rewrites, faults>>

\* newReleaseCandidateRevisionDocument, first of the three files.
WriteCandidate(p) ==
    /\ prom[p].pc = "candidate"
    /\ candidate' = candidate \cup {prom[p].rev}
    /\ prom' = [prom EXCEPT ![p].pc = "channel"]
    /\ UNCHANGED <<bom, channel, proof, record, derive, client, approved,
                   begun, rewrites, faults>>

\* Mutant: the history starts anew with every promotion.
WriteChannelAnew(p) ==
    LET st == prom[p] IN
    /\ st.pc = "channel"
    /\ channel' = [channel EXCEPT ![st.ch] = [st.doc EXCEPT !.history = <<Last(@)>>]]
    /\ approved' = approved \cup {<<st.ch, st.doc.target, st.doc.digest>>}
    /\ prom' = [prom EXCEPT ![p].pc = "record"]
    /\ UNCHANGED <<bom, proof, candidate, record, derive, client, begun, rewrites, faults>>

\* Mutant: the entry is appended to the document as it is now.
WriteChannelMerged(p) ==
    LET st == prom[p]
        doc == [st.doc EXCEPT !.history = Append(channel[st.ch].history, Last(@))]
    IN  /\ st.pc = "channel"
        /\ channel' = [channel EXCEPT ![st.ch] = doc]
        /\ approved' = approved \cup {<<st.ch, doc.target, doc.digest>>}
        /\ prom' = [prom EXCEPT ![p].pc = "record", ![p].doc = doc]
        /\ UNCHANGED <<bom, proof, candidate, record, derive, client, begun, rewrites, faults>>

\* Mutant: a promotion that leaves the target as it is gets no record.
WriteChannelOnlyChange(p) ==
    LET st == prom[p] IN
    /\ st.pc = "channel"
    /\ channel' = [channel EXCEPT ![st.ch] = st.doc]
    /\ approved' = approved \cup {<<st.ch, st.doc.target, st.doc.digest>>}
    /\ prom' = [prom EXCEPT ![p] =
          IF st.doc.target = channel[st.ch].target THEN IdlePromoter ELSE [@ EXCEPT !.pc = "record"]]
    /\ UNCHANGED <<bom, proof, candidate, record, derive, client, begun, rewrites, faults>>

\* The whole document that was read and extended replaces the file.
WriteChannel(p) ==
    LET st == prom[p] IN
    /\ st.pc = "channel"
    /\ channel' = [channel EXCEPT ![st.ch] = st.doc]
    /\ approved' = approved \cup {<<st.ch, st.doc.target, st.doc.digest>>}
    /\ prom' = [prom EXCEPT ![p].pc = "record"]
    /\ UNCHANGED <<bom, proof, candidate, record, derive, client, begun, rewrites, faults>>

\* newReleasePromotionHistoryDocument, last of the three files.
WriteRecord(p) ==
    LET st == prom[p] IN
    /\ st.pc = "record"
    /\ record' = record \cup {<<st.ch, Last(st.doc.history)>>}
    /\ prom' = [prom EXCEPT ![p] = IdlePromoter]
    /\ UNCHANGED <<bom, channel, proof, candidate, derive, client, approved,
                   begun, rewrites, faults>>

\* The promoter dies, or one of its writes fails.
PromoterFails(p) ==
    /\ prom[p].pc # "idle" /\ faults < MaxFaults
    /\ prom' = [prom EXCEPT ![p] = IdlePromoter]
    /\ faults' = faults + 1
    /\ UNCHANGED <<docs, derive, client, approved, begun, rewrites>>

-----------------------------------------------------------------------------
(* sync derive: a BOM file, then a channel document of its own *)

DeriveBOM ==
    /\ derive.pc = "idle" /\ rewrites < MaxRewrites
    /\ \E c \in DeriveChannels, r \in Revisions, b \in Contents :
        /\ bom' = [bom EXCEPT ![r] = b]
        /\ derive' = [IdlePromoter EXCEPT !.pc = "channel", !.ch = c, !.rev = r,
                      !.doc = [target |-> r, digest |-> b, history |-> <<>>]]
    /\ rewrites' = rewrites + 1
    /\ UNCHANGED <<channel, proof, candidate, record, prom, client, approved, begun, faults>>

DeriveChannel ==
    /\ derive.pc = "channel"
    /\ channel' = [channel EXCEPT ![derive.ch] = derive.doc]
    /\ approved' = approved \cup {<<derive.ch, derive.rev, derive.doc.digest>>}
    /\ derive' = IdlePromoter
    /\ UNCHANGED <<bom, proof, candidate, record, prom, client, begun, rewrites, faults>>

DeriveFails ==
    /\ derive.pc # "idle" /\ faults < MaxFaults
    /\ derive' = IdlePromoter
    /\ faults' = faults + 1
    /\ UNCHANGED <<docs, prom, client, approved, begun, rewrites>>

-----------------------------------------------------------------------------
(* Resolution: the channel document, then the BOM it names *)

\* The document is read; a lookup refuses one that pins no digest.
ReadFrom(k, c, lookup, next) ==
    /\ client[k].pc \in {"idle", "resolved"}
    /\ client' = [client EXCEPT ![k] =
          IF lookup /\ channel[c].digest = None THEN IdleClient
          ELSE [pc |-> next, ch |-> c, doc |-> channel[c], pinned |-> lookup, content |-> None]]
    /\ UNCHANGED <<docs, prom, derive, approved, begun, rewrites, faults>>

\* --release-channel: a channel file
ResolveReleaseChannelFile(k) == \E c \in Channels : ReadFrom(k, c, FALSE, "bom")

\* --release-source: a lookup in a directory
ResolveReleaseChannelLookup(k) == \E c \in Channels : ReadFrom(k, c, TRUE, "bom")

\* The same through the release metadata service, which resolves the channel
\* itself before it answers, with reads of its own.
ServeChannel(k) == \E c \in Channels : ReadFrom(k, c, TRUE, "served")

\* Mutant: the digest is looked at only for channel files.
VerifyFilesOnly(k) ==
    client[k].pinned \/ client[k].doc.digest \in {None, bom[client[k].doc.target]}

\* verifyReleaseChannelBOMDigest; the content read also carries the name and
\* the revision that validateReleaseChannelBOM compares.
VerifyReleaseChannelBOMDigest(k) ==
    client[k].doc.digest \in {None, bom[client[k].doc.target]}

ServeVerified(k) ==
    /\ client[k].pc = "served"
    /\ client' = [client EXCEPT ![k] =
          IF VerifyReleaseChannelBOMDigest(k) THEN [@ EXCEPT !.pc = "bom"] ELSE IdleClient]
    /\ UNCHANGED <<docs, prom, derive, approved, begun, rewrites, faults>>

\* loadBOMDataFromReleaseSource, or serveBOM by the revision of the channel
LookupBOM(k) ==
    /\ client[k].pc = "bom"
    /\ client' = [client EXCEPT ![k] =
          IF VerifyReleaseChannelBOMDigest(k)
          THEN [@ EXCEPT !.pc = "resolved", !.content = bom[client[k].doc.target]]
          ELSE IdleClient]
    /\ UNCHANGED <<docs, prom, derive, approved, begun, rewrites, faults>>

-----------------------------------------------------------------------------
Next ==
    \/ \E p \in Promoters :
         \/ Request(p) \/ WriteHealthProof(p) \/ ReadChannel(p) \/ Decide(p)
         \/ WriteCandidate(p) \/ WriteChannel(p) \/ WriteRecord(p) \/ PromoterFails(p)
    \/ DeriveBOM \/ DeriveChannel \/ DeriveFails
    \/ \E k \in Clients :
         \/ ResolveReleaseChannelFile(k) \/ ResolveReleaseChannelLookup(k)
         \/ ServeChannel(k) \/ ServeVerified(k) \/ LookupBOM(k)

Spec == Init /\ [][Next]_vars

-----------------------------------------------------------------------------
(* Properties *)

Document == [target : Revisions, digest : Contents \cup {None}, history : Seq(Promotion)]

\* The documents of the store (BOM files, channels, proofs, candidates and
\* records) and what promoters and clients hold of them are well formed.
TypeOK ==
    /\ bom \in [Revisions -> Contents \cup {None}]
    /\ channel \in [Channels -> Document]
    /\ proof \in [Revisions -> Verdict \cup {None}]
    /\ candidate \subseteq Revisions
    /\ record \subseteq Channels \X Promotion
    /\ \A p \in Promoters : prom[p].pc \in
         {"idle", "proof", "read", "decide", "candidate", "channel", "record"}
    /\ \A p \in Promoters : prom[p].pc \in {"decide", "candidate", "channel", "record"} =>
         prom[p].doc \in Document
    /\ \A k \in Clients : client[k].pc \in {"idle", "served", "bom", "resolved"}

\* What a cluster gets by a lookup (ResolveReleaseChannelLookup) is content
\* that somebody approved for that channel under that revision, whatever
\* promotions and derivations wrote between its two reads.
ResolvedIsApproved ==
    \A k \in Clients : client[k].pc = "resolved" /\ client[k].pinned =>
        <<client[k].ch, client[k].doc.target, client[k].content>> \in approved

\* Every promotion a channel document mentions has its candidate document,
\* even if the promoter died before its last write.
PromotionHasCandidate ==
    \A c \in Channels : \A i \in DOMAIN channel[c].history :
        channel[c].history[i].to \in candidate

\* A promotion-history document exists only for a promotion that moved its
\* channel, wherever the promoter failed.
RecordIsTrue ==
    \A e \in record : <<e[1], e[2].to, e[2].digest>> \in approved

\* A promotion into beta or stable that reached the channel document rests
\* on a proof that had passed when it was read.
ProvenPromotion ==
    \A c \in Channels : \A i \in DOMAIN channel[c].history :
        LET e == channel[c].history[i] IN
        /\ e.source \in AllowedSources(c)
        /\ e.proof = "passed" \/ (c = "alpha" /\ e.proof = None)

\* The promotions a document lists lead without a gap to what it names.
Chain(doc) ==
    /\ \A i \in DOMAIN doc.history \ {1} : doc.history[i].from = doc.history[i - 1].to
    /\ doc.history # <<>> =>
          doc.target = Last(doc.history).to /\ doc.digest = Last(doc.history).digest

\* Whichever writers overwrote each other, the promotions a channel document
\* lists start each where the one before it ended, and end at the revision and
\* the BOM the document names: PromoteReleaseChannelFile extends the document
\* it read and writes it back whole.
HistoryIsChain == \A c \in Channels : Chain(channel[c])

\* A promotion that a channel document lists has its record, but for one per
\* promoter that died and one per promoter about to write it.
HistoryRecorded ==
    \A c \in Channels :
        Cardinality({i \in DOMAIN channel[c].history : <<c, channel[c].history[i]>> \notin record})
            <= faults + Cardinality({p \in Promoters : prom[p].pc = "record"})

\* "Promotion history is append-only evidence": PromoteReleaseChannelFile
\* never drops an entry of spec.promotionHistory.
HistoryStep == \A c \in Channels : IsPrefix(channel[c].history, channel'[c].history)

\* A revision enters stable only after it was the target of beta, as
\* docs/guides/bom-and-channel.md says of the channel rules: they keep an
\* alpha candidate from skipping directly to stable.
NoSkipToStable ==
    \A e \in approved : e[1] = "stable" =>
        \E d \in approved : d[1] = "beta" /\ d[2] = e[2]
=============================================================================
