----------------------------- MODULE MCRelease -----------------------------
(***************************************************************************)
(* The release store with its promoters and clients, and the evidence that *)
(* promotions rest on: machines that share no state.  A behaviour runs one *)
(* of them; the other stays in an initial state:                           *)
(*   store    two promoters in turn that claim no source, a derivation, a  *)
(*            client, two channels                                         *)
(*   race     both promoters at once, with any source, and no client       *)
(*   order    one promoter, three channels                                 *)
(*   report   proofs from a report with a contract of one stage, which     *)
(*            mutates, and of one more with a revert check, which does not *)
(*   hand     hand-written proofs without a repeated signal                *)
(*   repeats  hand-written proofs                                          *)
(***************************************************************************)
EXTENDS ReleaseChannel, TLC

CONSTANTS Machines, r1, r2

Interchangeable == Permutations(Promoters) \cup Permutations(Contents)

VARIABLES machine, report, evidence, origin

evidenceVars == <<report, evidence, origin>>
allVars == <<machine, vars, evidenceVars>>

Order == INSTANCE ReleaseChannel WITH
    Channels <- {"alpha", "beta", "stable"}, Promoters <- {"promoter"}, Clients <- {},
    Contents <- {"content"}, DeriveChannels <- {}, MaxPromotions <- 3, MaxRewrites <- 0

Report == INSTANCE HealthProof WITH
    proof <- evidence, Facts <- {"status"}, OtherStages <- {"plan"},
    Contract <- {[name |-> "apply", mutates |-> TRUE]},
    RevertContract <- {[name |-> "clean-diff", mutates |-> FALSE]},
    Names <- {}, Repeats <- FALSE, MaxStages <- 2, MaxSignals <- 0
Hand == INSTANCE HealthProof WITH
    proof <- evidence, Facts <- {}, OtherStages <- {}, Contract <- {}, RevertContract <- {},
    Names <- {"a", "b", "c"}, Repeats <- FALSE, MaxStages <- 0, MaxSignals <- 3
Repeating == INSTANCE HealthProof WITH
    proof <- evidence, Facts <- {}, OtherStages <- {}, Contract <- {}, RevertContract <- {},
    Names <- {"a", "b", "c"}, Repeats <- TRUE, MaxStages <- 0, MaxSignals <- 3

ASSUME /\ Order!ReleaseAssumption /\ Report!HealthProofAssumption
       /\ Hand!HealthProofAssumption /\ Repeating!HealthProofAssumption

-----------------------------------------------------------------------------
(* Beside another machine, one initial state of each. *)
BlankReport == [facts |-> <<>>, mutatingApply |-> FALSE, revertCheck |-> FALSE,
                postApply |-> "", postRevert |-> "", stages |-> <<>>]

MCInit ==
    /\ machine \in Machines
    /\ IF machine = "order" THEN Order!Init ELSE Init
    /\ IF machine = "report" THEN Report!Init ELSE Hand!Init /\ report = BlankReport
    /\ machine \in {"report", "hand", "repeats"} =>
          /\ bom = [r \in Revisions |-> CHOOSE b \in Contents : TRUE]
          /\ \A c \in Channels : channel[c].digest # None

\* A promotion begins when the one before it has ended or failed.
InTurn == \A p, q \in Promoters : p # q => "idle" \in {prom'[p].pc, prom'[q].pc}

\* No promotion claims a source, which is the promoted channel then.
DefaultSource == \A p \in Promoters : prom'[p].src = prom'[p].ch

MCNext ==
    \/ /\ UNCHANGED <<machine, evidenceVars>>
       /\ \/ machine = "store" /\ Next /\ InTurn /\ DefaultSource
          \/ machine = "race" /\ Next /\ UNCHANGED client
          \/ machine = "order" /\ Order!Next
    \/ /\ UNCHANGED <<machine, vars>>
       /\ \/ machine = "report" /\ Report!Next
          \/ machine = "hand" /\ Hand!Next
          \/ machine = "repeats" /\ Repeating!Next

MCSpec == MCInit /\ [][MCNext]_allVars

-----------------------------------------------------------------------------
(* The properties of each machine are stated and explained in its module.   *)

(* Clients beside promotions and a derivation. *)
StoreResolvedIsApproved == machine = "store" => ResolvedIsApproved

(* Promotions that fail half-way and are repeated: the record, the          *)
(* candidate and the proof behind each channel are there.                   *)
PromotionSound ==
    machine # "order" =>
        TypeOK /\ PromotionHasCandidate /\ RecordIsTrue /\ ProvenPromotion

(* What the history of a channel tells, beside other writers and failures,  *)
(* and that a single writer only extends it.                                *)
HistorySound ==
    /\ [](IF machine = "order"
          THEN Order!TypeOK /\ Order!HistoryIsChain /\ Order!HistoryRecorded
          ELSE HistoryIsChain /\ HistoryRecorded)
    /\ [][machine = "order" => Order!HistoryStep]_vars

(* The order of the channels: what stable names was in beta before.         *)
ChannelOrder == machine = "order" => Order!NoSkipToStable

(* The evaluation of evidence: a proof counts only if it was earned, more   *)
(* evidence never turns it down, and both judges agree.                     *)
ProofSound ==
    /\ [](/\ machine = "report" => Report!AcceptedProofIsEarned
          /\ machine = "hand" => Hand!RequiredSignalsPassed
          /\ machine = "repeats" => Repeating!LayersAgree)
    /\ [][machine = "hand" => Hand!EvidenceStep]_evidenceVars
=============================================================================
