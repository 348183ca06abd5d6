---------------------------- MODULE HealthProof ----------------------------
(***************************************************************************)
(* Evidence for promotions: `sync health-proof' turns the acceptance       *)
(* report of a package run into a DistributionHealthProof                  *)
(* (cmd/sync_health_proof.go), and promotions evaluate such proofs, built  *)
(* by the command or written by hand (bom/channel.go,                      *)
(* promotion/policy.go).                                                   *)
(*                                                                         *)
(* The acceptance automation appends one stage after the other to the      *)
(* report; the command may be run on the report at any time.               *)
(***************************************************************************)
EXTENDS Naturals, Sequences, FiniteSets, SequencesExt

CONSTANTS
    Facts,           \* report fields with a signal of their own: status, BOM
                     \* file, identity and digest, state digests, preflights
    Contract,        \* contract stages, with the flag that they mutate
    RevertContract,  \* contract stages of a report with a revert check
    OtherStages,     \* stages outside the contract
    Names,           \* signal names of hand-written proofs
    Repeats,         \* a hand-written proof may repeat a signal name
    MaxStages,       \* bound: stages of a report
    MaxSignals       \* bound: signals of a hand-written proof

Stages == {s.name : s \in Contract \cup RevertContract} \cup OtherStages

HealthProofAssumption ==
    /\ Contract \cup RevertContract \subseteq [name : Stages, mutates : BOOLEAN]
    /\ Repeats \in BOOLEAN /\ MaxStages \in Nat /\ MaxSignals \in Nat

VARIABLES
    report,  \* PackageAcceptanceReport
    proof,   \* DistributionHealthProof
    origin   \* none, report or hand

vars == <<report, proof, origin>>

Signal(name, passed, required) == [name |-> name, passed |-> passed, required |-> required]
NoProof == [signals |-> <<>>, required |-> {}, min |-> 0, passed |-> FALSE]

Init ==
    /\ report \in [facts : [Facts -> BOOLEAN], mutatingApply : BOOLEAN, revertCheck : BOOLEAN,
                   postApply : {"", "Clean", "Drifted"}, postRevert : {"", "Clean", "Drifted"},
                   stages : {<<>>}]
    /\ report.postApply # "" => report.mutatingApply
    /\ report.postRevert # "" => report.revertCheck
    /\ proof = NoProof /\ origin = "none"

-----------------------------------------------------------------------------
(* Evaluation *)

Count(signals, verdict) == Len(SelectSeq(signals, LAMBDA s : s.passed = verdict))

\* signalByName: of several signals with one name the last one stays.
ByName(signals, name) == SelectLastInSeq(signals, LAMBDA s : s.name = name)

HasThresholds(p) == p.required # {} \/ p.min > 0

Required(p) == p.required \cup {s.name : s \in {t \in ToSet(p.signals) : t.required}}

\* Mutant: signals that are missing count as passed.
RequiredMissedPresent(p) ==
    {n \in Required(p) : \E i \in DOMAIN p.signals :
        i = ByName(p.signals, n) /\ ~p.signals[i].passed}

\* Required signals that are missing, or whose last entry failed.
RequiredMissed(p) ==
    {n \in Required(p) : LET i == ByName(p.signals, n) IN i = 0 \/ ~p.signals[i].passed}

MinPassed(p) == IF p.min = 0 /\ ~HasThresholds(p) THEN Len(p.signals) ELSE p.min

\* Mutant: the number of passed signals has to meet the threshold exactly.
EvaluateExactly(p) ==
    /\ p.signals # <<>>
    /\ Count(p.signals, TRUE) = MinPassed(p)
    /\ RequiredMissed(p) = {}
    /\ ~HasThresholds(p) => Count(p.signals, FALSE) = 0

EvaluateDistributionHealthProof(p) ==
    /\ p.signals # <<>>
    /\ Count(p.signals, TRUE) >= MinPassed(p)
    /\ RequiredMissed(p) = {}
    /\ ~HasThresholds(p) => Count(p.signals, FALSE) = 0

Normalize(p) == [p EXCEPT !.passed = EvaluateDistributionHealthProof(p)]

\* distributionHealthProofForPromotion, for the line and revision promoted
AcceptedForPromotion(p) ==
    p.passed /\ p.signals # <<>> /\ EvaluateDistributionHealthProof(p)

\* Mutant: failed optional signals block although there are thresholds.
PolicyAllowsStrict(p) ==
    /\ p.passed /\ EvaluateDistributionHealthProof(p)
    /\ Count(p.signals, FALSE) = 0
    /\ RequiredMissed(p) = {}

\* Policy.Evaluate on distributionPromotionHealthProofSummary, for a channel
\* that requires a proof: its own tests of the summary's numbers.
PolicyAllows(p) ==
    /\ p.passed /\ EvaluateDistributionHealthProof(p)
    /\ ~HasThresholds(p) => Count(p.signals, FALSE) = 0
    /\ RequiredMissed(p) = {}
    /\ MinPassed(p) > 0 => Count(p.signals, TRUE) >= MinPassed(p)

-----------------------------------------------------------------------------
(* Building a proof from a report *)

LastStage(name) == SelectLastInSeq(report.stages, LAMBDA s : s.name = name)

\* Mutant: it is not looked at whether a stage did mutate.
ContractSignalDryRun(stage) ==
    LET i == LastStage(stage.name) IN
    Signal(<<"contract", stage.name>>, i # 0 /\ report.stages[i].status = "Passed", TRUE)

\* syncHealthProofContractSignals: the last stage of that name has passed and
\* did mutate if the contract says so.
ContractSignal(stage) ==
    LET i == LastStage(stage.name) IN
    Signal(<<"contract", stage.name>>,
           /\ i # 0
           /\ report.stages[i].status = "Passed"
           /\ stage.mutates => report.stages[i].mutates,
           TRUE)

StageSignal(stage) == Signal(<<"stage", stage.name>>, stage.status \in {"Passed", "Skipped"}, TRUE)

DriftSignal(wanted, name, state) ==
    IF wanted THEN <<Signal(name, state = "Clean", TRUE)>> ELSE <<>>

\* syncHealthProofSignals
SyncHealthProofSignals ==
    LET facts == SetToSeq(Facts)
        contract == SetToSeq(Contract \cup (IF report.revertCheck THEN RevertContract ELSE {}))
    IN  [i \in DOMAIN facts |-> Signal(<<"report", facts[i]>>, report.facts[facts[i]], TRUE)]
        \o [i \in DOMAIN contract |-> ContractSignal(contract[i])]
        \o <<Signal(<<"report", "mutating-apply">>, report.mutatingApply, TRUE)>>
        \o DriftSignal(report.mutatingApply, <<"report", "post-apply-drift">>, report.postApply)
        \o DriftSignal(report.revertCheck, <<"report", "post-revert-drift">>, report.postRevert)
        \o [i \in DOMAIN report.stages |-> StageSignal(report.stages[i])]

\* DistributionHealthProof.Validate: the list of required names repeats none.
\* The command requires every signal, so a repeated stage is refused.
Unrepeated(signals) == Cardinality({s.name : s \in ToSet(signals)}) = Len(signals)

\* syncHealthProofThresholds
SyncHealthProofThresholds(signals) ==
    [signals |-> signals, passed |-> FALSE, required |-> {s.name : s \in ToSet(signals)},
     min |-> Len(signals)]

-----------------------------------------------------------------------------
(* Steps *)

\* The acceptance run records the outcome of one more stage.
RunStage(name, status, mutates) ==
    /\ Len(report.stages) < MaxStages
    /\ report' = [report EXCEPT !.stages =
         Append(@, [name |-> name, status |-> status, mutates |-> mutates])]
    /\ UNCHANGED <<proof, origin>>

\* buildSyncHealthProof; the command writes no proof it cannot validate.
BuildSyncHealthProof ==
    /\ Unrepeated(SyncHealthProofSignals)
    /\ proof' = Normalize(SyncHealthProofThresholds(SyncHealthProofSignals))
    /\ origin' = "report"
    /\ UNCHANGED report

\* Somebody writes a proof by hand, or adds a signal to one.
SetThresholds(required, min) ==
    /\ origin = "none" /\ Names # {}
    /\ proof' = [NoProof EXCEPT !.required = required, !.min = min]
    /\ origin' = "hand"
    /\ UNCHANGED report

AddSignal(signal) ==
    /\ origin = "hand" /\ Len(proof.signals) < MaxSignals
    /\ Repeats \/ \A s \in ToSet(proof.signals) : s.name # signal.name
    /\ proof' = Normalize([proof EXCEPT !.signals = Append(@, signal)])
    /\ UNCHANGED <<report, origin>>

Next ==
    \/ \E n \in Stages, s \in {"Passed", "Skipped", "Failed"}, b \in BOOLEAN : RunStage(n, s, b)
    \/ BuildSyncHealthProof
    \/ \E required \in SUBSET Names, min \in 0..MaxSignals : SetThresholds(required, min)
    \/ \E n \in Names, p \in BOOLEAN, q \in BOOLEAN : AddSignal(Signal(n, p, q))

Spec == Init /\ [][Next]_vars

-----------------------------------------------------------------------------
(* Properties *)

\* A proof the command wrote and promotion accepts was earned: all report
\* fields are good, every contract stage passed the last time it ran, the
\* mutating ones did mutate, drift was clean, and no recorded stage failed.
\* It speaks of the report the proof was built from, so of the states in
\* which the command would build that proof again.
AcceptedProofIsEarned ==
    LET fresh == Unrepeated(SyncHealthProofSignals)
                 /\ proof = Normalize(SyncHealthProofThresholds(SyncHealthProofSignals))
    IN  origin = "report" /\ AcceptedForPromotion(proof) /\ fresh =>
        /\ \A f \in Facts : report.facts[f]
        /\ report.mutatingApply /\ report.postApply = "Clean"
        /\ report.revertCheck => report.postRevert = "Clean"
        /\ \A s \in Contract \cup (IF report.revertCheck THEN RevertContract ELSE {}) :
             \E i \in DOMAIN report.stages :
                /\ report.stages[i].name = s.name /\ report.stages[i].status = "Passed"
                /\ s.mutates => report.stages[i].mutates
        /\ \A i \in DOMAIN report.stages : report.stages[i].status # "Failed"

\* The proof check of PromoteReleaseChannelFile and the policy's own look at
\* the summary never disagree on a proof the store may hold.
LayersAgree == proof # NoProof => (AcceptedForPromotion(proof) <=> PolicyAllows(proof))

\* "Signal names that must be present and pass for promotion": an accepted
\* proof shows no failed signal of a required name.
RequiredSignalsPassed ==
    AcceptedForPromotion(proof) =>
        /\ proof.required \subseteq {s.name : s \in ToSet(proof.signals)}
        /\ \A s \in ToSet(proof.signals) : s.name \in Required(proof) => s.passed

\* More good evidence never takes an acceptance away, and more bad evidence
\* never earns one.
EvidenceStep ==
    \A s \in [name : Names, passed : BOOLEAN, required : BOOLEAN] : AddSignal(s) =>
        IF s.passed THEN AcceptedForPromotion(proof) => AcceptedForPromotion(proof')
        ELSE AcceptedForPromotion(proof') => AcceptedForPromotion(proof)
=============================================================================
