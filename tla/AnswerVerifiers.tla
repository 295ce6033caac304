--------------------------- MODULE AnswerVerifiers ---------------------------
(***************************************************************************)
(* The two verifiers of an answer: the deterministic gate                  *)
(* (internal/respondent/gate.go) and the evaluation of the critic's        *)
(* contract (internal/answercontract/evaluate.go).  Both read claims a     *)
(* language model made about what the person said and check them against   *)
(* the person's words.                                                     *)
(*                                                                         *)
(* A text is a sequence of words and commas; a clause is what lies between *)
(* commas.  Words stand for runs of characters: fillers, words that carry  *)
(* a fact (a number, a name, a negation, a condition) and words that carry *)
(* an uncertainty of level 1 to 3.  Lengths, UTF-8 and white space are     *)
(* left out.  Confidences are percentages; the entropy of the hypotheses   *)
(* is an input ("spread"), its logarithms are not computed.                *)
(***************************************************************************)
EXTENDS AnswerSupport, Sequences, SequencesExt

CONSTANTS Comma,     \* any of the separators of semanticClauses
          Fillers,   \* the words of nonPropositionalFillerPattern
          Facts,     \* words the preservation checks count
          Doubts     \* words of uncertaintyLevel: [words -> 1..3]

-----------------------------------------------------------------------------
(* Texts. *)

Clauses(text) ==
    SelectSeq(FoldLeft(LAMBDA cs, w: IF w = Comma THEN Append(cs, <<>>)
                                     ELSE Front(cs) \o <<Append(Last(cs), w)>>,
                       << <<>> >>, text),
              LAMBDA c: c # <<>>)

Occurs(span, text) ==
    /\ span # <<>>
    /\ \E i \in 0..(Len(text) - Len(span)):
           SubSeq(text, i + 1, i + Len(span)) = span

StartsWith(text, span) == span # <<>> /\ IsPrefix(span, text)

IsFiller(clause) == Len(clause) = 1 /\ clause[1] \in Fillers

\* leadingNonPropositionalFillerPattern: fillers, separated or not.
WithoutFillers(text) ==
    LET kept == {i \in 1..Len(text): text[i] \notin Fillers \cup {Comma}}
    IN  IF kept = {} THEN <<>>
        ELSE SubSeq(text, CHOOSE i \in kept: \A j \in kept: i <= j, Len(text))

SameBag(P(_), left, right) ==
    ToBag(SelectSeq(left, P)) = ToBag(SelectSeq(right, P))

-----------------------------------------------------------------------------
(* The gate.  Its input is [operator, required, ambiguous, evidence,       *)
(* protected, text, recon, front]; evidence maps slots to spans.  The slot *)
(* of an operator has the operator's name.                                 *)

ValidSlots(operator, required) ==
    /\ operator \in required
    /\ operator = "quantity" => "unit" \in required

ValidInput(in) ==
    /\ in.text # <<>>
    /\ ValidSlots(in.operator, in.required)
    /\ DOMAIN in.evidence \subseteq in.required
    /\ \A s \in DOMAIN in.evidence:
           /\ Len(Clauses(in.evidence[s])) = 1
           /\ Occurs(in.evidence[s], in.text)
    /\ \A span \in in.protected: Occurs(span, in.text)

\* slotCoverage is 1: every required slot has evidence and the text holds it.
Covers(in, text) ==
    \A s \in in.required: s \in DOMAIN in.evidence /\ Occurs(in.evidence[s], text)

StartsWithTarget(clause, span) ==
    StartsWith(clause, span) \/ StartsWith(WithoutFillers(clause), span)

\* Slip: requireTargetAtUtteranceFront is not passed on.
CommitmentInFirstClause(in, text) ==
    LET said == SelectSeq(Clauses(text), LAMBDA c: ~IsFiller(c))
        span == IF in.operator \in DOMAIN in.evidence
                THEN in.evidence[in.operator] ELSE <<>>
        hits == {i \in DOMAIN said: Occurs(span, said[i])}
    IN  CASE hits = {} -> "absent"
          [] 1 \in hits -> "first"
          [] OTHER -> "later"

CommitmentPosition(in, text) ==
    LET said == SelectSeq(Clauses(text), LAMBDA c: ~IsFiller(c))
        span == IF in.operator \in DOMAIN in.evidence
                THEN in.evidence[in.operator] ELSE <<>>
        hits == {i \in DOMAIN said: Occurs(span, said[i])}
    IN  CASE hits = {} -> "absent"
          [] /\ 1 \in hits
             /\ in.front => StartsWithTarget(said[1], span) -> "first"
          [] OTHER -> "later"

PreservationIssues(in) ==
    LET fact(w) == w \in Facts
        doubt(w) == w \in DOMAIN Doubts
        any(c) == TRUE
        times(span, text) == Cardinality({i \in 0..(Len(text) - Len(span)):
                                 SubSeq(text, i + 1, i + Len(span)) = span})
    IN  {k \in {"fact_changed"}: ~SameBag(fact, in.text, in.recon)}
        \cup {k \in {"uncertainty_changed"}: ~SameBag(doubt, in.text, in.recon)}
        \cup {k \in {"protected_span_changed"}:
                 \E span \in in.protected: times(span, in.text) # times(span, in.recon)}
        \cup {k \in {"content_changed"}:
                 ~SameBag(any, Clauses(in.text), Clauses(in.recon))}

Rejected == [outcome |-> "reject", covered |-> FALSE, original |-> "absent",
             satisfied |-> FALSE, preserved |-> FALSE, issues |-> {}]

\* Whose words count: the reconstruction when there is one.
Effective(in) == IF in.recon = <<>> THEN in.text ELSE in.recon

(* Gate, after its contract was found valid: the first of its returns.     *)
Judged(in, a) ==
    LET issues == IF in.recon = <<>> THEN {} ELSE PreservationIssues(in)
        at == CommitmentPosition(in, Effective(in))
        is(outcome, more) == [a EXCEPT !.outcome = outcome, !.issues = issues \cup more,
                                       !.preserved = issues = {}]
    IN  IF issues # {} THEN is("reject", {})
        ELSE IF in.ambiguous THEN is("clarify", {"ambiguous_question"})
        ELSE IF ~a.covered THEN is("clarify", {"required_slot_missing"})
        ELSE IF ~Covers(in, Effective(in)) THEN is("reject", {"required_slot_lost"})
        ELSE IF at = "absent" THEN is("reject", {"commitment_absent"})
        ELSE IF at # "first" /\ in.recon = <<>> THEN is("clarify", {"reconstruction_needed"})
        ELSE IF at # "first" THEN is("reject", {"commitment_not_first"})
        ELSE [is(IF \/ in.recon = <<>>
                    \/ Clauses(in.text) = Clauses(in.recon) /\ a.original = "first"
                 THEN "keep" ELSE "restructure", {}) EXCEPT !.satisfied = TRUE]

Gate(in) ==
    IF ~ValidInput(in) THEN [Rejected EXCEPT !.issues = {"invalid_contract"}]
    ELSE Judged(in, [Rejected EXCEPT !.covered = Covers(in, in.text),
                                     !.original = CommitmentPosition(in, in.text)])

-----------------------------------------------------------------------------
(* The critic's contract: [operator, required, confidences, spread, first, *)
(* position, filled, issue, calibration, minimal, recon, faith, gain].     *)
(* The agent derives the coverage from the filled slots, and makes the     *)
(* issue agree with it, before the contract is validated.                  *)

Canonical(c) ==
    LET required == c.required \cup {c.operator}
    IN  [c EXCEPT !.required = required,
                  !.issue = CASE c.filled # required /\ c.issue = "none" ->
                                 IF c.operator \in c.filled THEN "missing_required_slot"
                                 ELSE "target_missing"
                              [] /\ c.filled = required
                                 /\ c.issue \in {"target_missing", "missing_required_slot"} -> "none"
                              [] OTHER -> c.issue]

RepairableIssues == {"reason_only", "background_first", "condition_separated",
                     "ambiguous_commitment", "missing_required_slot",
                     "insufficient_evidence"}
BlockingIssues == {"question_restatement", "answer_type_mismatch",
                   "unsupported_certainty", "contradiction",
                   "meaning_changed", "not_evaluable"}

MaxHypotheses == 3
HypothesisGapThreshold == 20
LowTopHypothesisThreshold == 65
RepairGainThreshold == 20
MeaningPreservationThreshold == 86
InferredCommitmentThreshold == 90

ValidContract(c) ==
    LET h == c.confidences
    IN  /\ ValidSlots(c.operator, c.required)
        /\ Len(h) \in 1..MaxHypotheses
        /\ \A i \in DOMAIN h: h[i] \in 1..100 /\ (i > 1 => h[i] <= h[i - 1])
        /\ FoldLeft(LAMBDA s, x: s + x, 0, h) <= 100
        /\ (c.position = "absent") <=> (c.first = <<>>)
        /\ c.filled \subseteq c.required
        /\ c.position = "absent" => c.operator \notin c.filled
        /\ c.issue = "none" => c.filled = c.required
        /\ c.gain > 0 => c.minimal # <<>> /\ c.recon # <<>>

Gap(h) == IF Len(h) < 2 THEN 100 ELSE h[1] - h[2]

IsAmbiguous(c) == \/ Len(c.confidences) > 1 /\ Gap(c.confidences) <= HypothesisGapThreshold
                  \/ c.confidences[1] < LowTopHypothesisThreshold
                  \/ c.spread

\* startsWithCommitmentIgnoringFillers: whole filler clauses may come first.
Fronted(text, first) ==
    LET said == Clauses(text)
        front == Clauses(first)
        skipped == {i \in 0..Len(said): \A j \in 1..i: IsFiller(said[j])}
        from == CHOOSE i \in skipped: \A j \in skipped: j <= i
    IN  \/ StartsWith(text, first)
        \/ /\ said # <<>> /\ front # <<>>
           /\ from > 0
           /\ Len(said) - from >= Len(front)
           /\ \A i \in 1..(Len(front) - 1): said[from + i] = front[i]
           /\ IsPrefix(Last(front), said[from + Len(front)])

\* Slip: the clauses that did not move are compared as a bag.
FrontMoveAnyOrder(text, recon, first) ==
    LET said == Clauses(text)
        rebuilt == Clauses(recon)
        front == Clauses(first)
        any(c) == TRUE
    IN  /\ said # <<>> /\ front # <<>>
        /\ SameBag(any, said, rebuilt)
        /\ IsPrefix(front, rebuilt)

\* stableCommitmentFrontMove: the clauses of the commitment, found once, come
\* first and the others keep their order.
FrontMove(text, recon, first) ==
    LET said == Clauses(text)
        rebuilt == Clauses(recon)
        front == Clauses(first)
        starts == {i \in 0..(Len(said) - Len(front)):
                       SubSeq(said, i + 1, i + Len(front)) = front}
    IN  /\ said # <<>> /\ front # <<>>
        /\ Len(said) = Len(rebuilt)
        /\ Cardinality(starts) = 1
        /\ LET at == CHOOSE i \in starts: TRUE
           IN  /\ \A i \in DOMAIN front: rebuilt[i] = front[i]
               /\ \A i \in DOMAIN said:
                      \/ i \in (at + 1)..(at + Len(front))
                      \/ rebuilt[IF i <= at THEN Len(front) + i ELSE i] = said[i]

DoubtLevel(text) ==
    LET levels == {0} \cup {Doubts[w]: w \in DOMAIN Doubts \cap ToSet(text)}
    IN  CHOOSE n \in levels: \A m \in levels: m <= n

PreservesMeaning(c, text) ==
    IF c.recon = <<>> THEN text = <<>>
    ELSE /\ FrontMove(text, c.recon, c.first)
         /\ ToSet(text) \cap Facts = ToSet(c.recon) \cap Facts
         /\ DoubtLevel(c.recon) = IF DoubtLevel(text) = 0 THEN c.calibration
                                  ELSE DoubtLevel(text)

Covered(c) == c.filled = c.required

TargetSatisfied(c, text) ==
    /\ c.operator \in c.filled
    /\ Covered(c)
    /\ c.position = "first" /\ Occurs(c.first, text) /\ Fronted(text, c.first)
    /\ c.issue = "none"

MeaningPreserved(c, text) ==
    /\ PreservesMeaning(c, text)
    /\ c.gain = 0 => c.recon = text
    /\ c.minimal # <<>> => Occurs(c.minimal, c.recon)
    /\ c.operator \notin c.filled => c.faith >= InferredCommitmentThreshold

RepairAccepted(c, text) ==
    /\ Covered(c)
    /\ c.issue \notin BlockingIssues
    /\ MeaningPreserved(c, text)
    /\ \/ c.gain = 0
       \/ StartsWith(c.recon, IF c.position = "later" \/ c.issue = "background_first"
                              THEN c.first ELSE c.minimal)
    /\ c.faith >= MeaningPreservationThreshold

HighGainRepair(c, text) ==
    /\ \/ ~TargetSatisfied(c, text)
       \/ c.position = "later"
       \/ c.issue \in RepairableIssues
    /\ c.gain >= RepairGainThreshold

Outcome(c, text) ==
    IF IsAmbiguous(c) THEN "clarify"
    ELSE IF c.position # "absent" /\ ~Occurs(c.first, text) THEN "reject"
    ELSE IF c.position = "first" /\ ~Fronted(text, c.first) THEN "reject"
    ELSE IF c.issue \in BlockingIssues THEN "reject"
    ELSE IF HighGainRepair(c, text)
    THEN IF RepairAccepted(c, text) THEN "restructure" ELSE "reject"
    ELSE IF TargetSatisfied(c, text) THEN "keep"
    ELSE IF \/ 5 * Cardinality(c.filled) < Cardinality(c.required)
            \/ c.issue \in {"answer_type_mismatch", "question_restatement", "not_evaluable"}
    THEN "reject"
    ELSE "clarify"

Evaluate(c, text) ==
    IF ~ValidContract(c) THEN [outcome |-> "invalid"]
    ELSE [outcome |-> Outcome(c, text), covered |-> Covered(c),
          position |-> c.position, ambiguous |-> IsAmbiguous(c),
          satisfied |-> TargetSatisfied(c, text), repaired |-> RepairAccepted(c, text)]

-----------------------------------------------------------------------------
(* What the verdicts promise about the person's own words.                *)

\* The person's words in order, without the fillers before the first of them
\* and without separators.
Spoken(text) == SelectSeq(WithoutFillers(text), LAMBDA w: w # Comma)

(* Whatever the models claimed and whatever the coach prefers: an attempt   *)
(* that completes its scope as the person's own first answer began with    *)
(* the words both verifiers were given as its evidence and commitment.     *)
OwnAnswerFirst(in, c) ==
    LET o(phase) == [gate |-> GateSignal(Gate(in)),
                     critic |-> CriticSignal(Evaluate(Canonical(c), in.text)),
                     phase |-> phase, attempts |-> 0, oneShot |-> FALSE,
                     hesitation |-> FALSE, available |-> TRUE]
    IN  \A phase \in {"awaiting_answer", "awaiting_restatement"}:
            \A d \in PlanAnswerSupport(o(phase), FALSE):
                in.front /\ d.first =>
                    /\ IsPrefix(Spoken(in.evidence[in.operator]), Spoken(in.text))
                    /\ IsPrefix(Spoken(c.first), Spoken(in.text))

(* A repair that is released moves the commitment to the front and nothing *)
(* else: no clause is lost, added or reordered.                            *)
RepairMovesOnly(in, c) ==
    LET said == Clauses(in.text)
        front == Clauses(c.first)
        moved == {front \o SubSeq(said, 1, i) \o SubSeq(said, i + Len(front) + 1, Len(said)):
                    i \in {j \in 0..(Len(said) - Len(front)):
                              SubSeq(said, j + 1, j + Len(front)) = front}}
    IN  Evaluate(c, in.text).outcome = "restructure" => Clauses(c.recon) \in moved

=============================================================================
