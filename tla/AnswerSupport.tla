---------------------------- MODULE AnswerSupport ----------------------------
(***************************************************************************)
(* How the coach answers an attempt to answer: internal/respondent/        *)
(* belief_controller.go, coach.go and belief_state.go, with the projection *)
(* of the verifiers' assessments in                                        *)
(* conversation/verifier_progress_observation.go.                          *)
(*                                                                         *)
(* The utilities of the five actions are real-valued (they hold an         *)
(* entropy); which of several allowed actions is best is left open, so     *)
(* PlanAnswerSupport is a set of decisions.  The posterior is exact: its   *)
(* masses are integers that sum to Scale, as they are stored.  A spoken    *)
(* reply is the kind of its fixed text; operators only choose the wording. *)
(***************************************************************************)
EXTENDS Integers, FiniteSets

CONSTANT Scale     \* StoredVerifierProgressScale

SupportAssumption == Scale \in Nat /\ Scale > 0 /\ Scale % 100 = 0

MaxCoachAttempts == 2

Phases == {"none", "awaiting_answer", "awaiting_restatement", "expanding",
           "complete", "blocked"}
Signals == {"invalid", "missing", "available", "later", "first",
            "ambiguous", "rejected"}
Evidence == {"unknown", "hesitation", "missing", "available", "late", "first", "ambiguous"}

-----------------------------------------------------------------------------
(* From an assessment to a signal.  A gate assessment is                   *)
(* [outcome, covered, original, satisfied, issues], a critic assessment    *)
(* [outcome, covered, position, ambiguous, satisfied].                     *)

GateSignal(g) ==
    IF g.outcome = "invalid" \/ "invalid_contract" \in g.issues THEN "invalid"
    ELSE IF "content_changed" \in g.issues THEN "rejected"
    ELSE IF g.outcome = "reject" /\ ~(g.covered /\ g.original = "later") THEN "rejected"
    ELSE IF "ambiguous_question" \in g.issues THEN "ambiguous"
    ELSE IF ~g.covered THEN "missing"
    ELSE IF g.original = "first"
    THEN IF g.satisfied /\ g.outcome = "keep" THEN "first" ELSE "available"
    ELSE IF g.original = "later" THEN "later"
    ELSE "available"

CriticSignal(e) ==
    IF e.outcome = "invalid" THEN "invalid"
    ELSE IF e.outcome = "reject" /\ ~(e.covered /\ e.position # "absent") THEN "rejected"
    ELSE IF e.ambiguous THEN "ambiguous"
    ELSE IF e.outcome = "reject" THEN "later"
    ELSE IF ~e.covered THEN "missing"
    ELSE IF e.position = "first"
    THEN IF e.satisfied /\ e.outcome = "keep" THEN "first" ELSE "available"
    ELSE IF e.position = "later" THEN "later"
    ELSE "available"

-----------------------------------------------------------------------------
(* Evidence, the actions it allows, and the bounded number of prompts.  An *)
(* observation is [gate, critic, phase, attempts, oneShot, hesitation,     *)
(* available].                                                             *)

EvidenceOf(o) ==
    LET either(S) == {o.gate, o.critic} \cap S # {}
        both(s) == o.gate = s /\ o.critic = s
    IN  IF o.hesitation THEN "hesitation"
        ELSE IF ~o.available \/ o.phase \notin Phases THEN "unknown"
        ELSE IF either({"invalid", "rejected"}) THEN "unknown"
        ELSE IF either({"ambiguous"}) THEN "ambiguous"
        ELSE IF both("first") THEN "first"
        ELSE IF both("later") THEN "late"
        ELSE IF either({"first", "later"}) THEN "unknown"
        ELSE IF either({"missing"}) THEN "missing"
        ELSE "available"

HasTarget(s) == s \in {"first", "later", "available"}

\* Slip: the attempts are only looked at for an answer that came late.
AllowedUnbounded(o) ==
    LET e == EvidenceOf(o)
    IN  IF o.gate = "rejected" THEN {"release"}
        ELSE IF e \in {"hesitation", "unknown"} THEN {"wait"}
        ELSE IF e = "first" THEN {"complete"}
        ELSE IF e = "late" /\ o.attempts >= 1 THEN {"release"}
        ELSE {"wait", "elicit"}

AllowedActions(o) ==
    LET e == EvidenceOf(o)
    IN  IF o.gate = "rejected" THEN {"release"}
        ELSE IF o.phase = "complete"
        THEN IF e \in {"first", "late"} THEN {"complete"} ELSE {"wait"}
        ELSE IF e \in {"hesitation", "unknown"} THEN {"wait"}
        ELSE IF e = "first" THEN {"complete"}
        ELSE IF o.phase = "expanding" /\ HasTarget(o.gate) /\ HasTarget(o.critic) THEN {"complete"}
        ELSE IF e = "late" /\ (o.oneShot \/ o.phase = "expanding") THEN {"complete"}
        ELSE IF o.attempts >= 1 THEN {"release"}
        ELSE IF e = "late" THEN {"wait", "restate"}
        ELSE {"wait", "elicit"}

NextAttempts(action, attempts) ==
    CASE action = "release" -> MaxCoachAttempts
      [] action \in {"elicit", "restate"} /\ attempts < MaxCoachAttempts -> attempts + 1
      [] OTHER -> attempts

-----------------------------------------------------------------------------
(* The coach's decisions: [phase, action, reply, attempts, keep, first].   *)

Decision(phase, action, reply, attempts) ==
    [phase |-> phase, action |-> action, reply |-> reply, attempts |-> attempts,
     keep |-> TRUE, first |-> FALSE]

ReleaseDecision(attempts) ==
    [Decision("blocked", "release", "release", attempts) EXCEPT !.keep = FALSE]

Completed(reply, attempts, first) ==
    [Decision("complete", "complete", reply, attempts) EXCEPT !.keep = FALSE, !.first = first]

\* The action a phase waits with.
ActionOf(phase) ==
    CASE phase = "awaiting_restatement" -> "restate"
      [] phase = "expanding" -> "expand"
      [] phase = "blocked" -> "retry"
      [] OTHER -> "elicit"

HoldForHesitation(phase, attempts) ==
    Decision(IF phase \in {"awaiting_restatement", "expanding", "blocked"} THEN phase
             ELSE "awaiting_answer", ActionOf(phase), "", attempts)

\* The prompt of a phase, spoken once more.
Prompt(phase, attempts) ==
    CASE phase = "expanding" -> Decision(phase, "expand", "expansion", attempts)
      [] phase = "awaiting_restatement" -> Decision(phase, "restate", "reask", attempts)
      [] OTHER -> Decision("awaiting_answer", "elicit", "core", attempts)

GuideAwaitingInPhase(phase, attempts, countAttempt) ==
    IF countAttempt /\ attempts >= MaxCoachAttempts - 1
    THEN ReleaseDecision(MaxCoachAttempts)
    ELSE Prompt(phase, IF countAttempt THEN attempts + 1 ELSE attempts)

BeginExpansion == [Prompt("expanding", 0) EXCEPT !.first = TRUE]

CompleteExpansion(abstained) ==
    Completed(IF abstained THEN "completion_abstained" ELSE "completion", 0, FALSE)

CompletionReply(phase, abstained) ==
    IF abstained THEN "completion_abstained"
    ELSE IF phase = "expanding" THEN "completion"
    ELSE "continuation"

(* GuideAttemptWithVerifierProgress: one decision for each action the      *)
(* utilities may prefer.                                                   *)
Rendered(o, action, abstained) ==
    LET attempts == NextAttempts(action, o.attempts)
        late == EvidenceOf(o) = "late" /\ o.phase # "complete" /\ o.phase # "expanding"
    IN  CASE action = "complete" ->
               Completed(IF late THEN "late" ELSE CompletionReply(o.phase, abstained), attempts,
                         EvidenceOf(o) = "first" /\ o.phase # "expanding")
          [] action = "release" -> ReleaseDecision(attempts)
          [] action = "restate" -> Decision("awaiting_restatement", "restate", "reask", attempts)
          [] action = "elicit" ->
               Prompt(IF o.phase = "expanding" THEN o.phase ELSE "awaiting_answer", attempts)
          [] OTHER ->
               Decision(IF o.phase \in Phases THEN o.phase ELSE "blocked", "none", "", attempts)

PlanAnswerSupport(o, abstained) ==
    {Rendered(o, action, abstained): action \in AllowedActions(o)}

(* The policy without verifier progress.  "later" and "absent" are looked  *)
(* for in either assessment; the words of both must cover the target.      *)
GuideAttempt(g, e, phase, attempts, available, abstained, oneShot, restatement) ==
    LET succeeded == GateSignal(g) = "first" /\ CriticSignal(e) = "first"
        covered == g.covered /\ e.covered
        later == g.original = "later" \/ e.position = "later"
        next == attempts + 1
    IN  IF ~available THEN Decision("blocked", "retry", "unavailable", attempts)
        ELSE IF succeeded THEN Completed(IF oneShot THEN "continuation"
                                         ELSE CompletionReply(phase, abstained),
                                         attempts, phase # "expanding")
        ELSE IF phase = "expanding" /\ covered
        THEN Completed(CompletionReply(phase, abstained), attempts, FALSE)
        ELSE IF next >= MaxCoachAttempts THEN ReleaseDecision(MaxCoachAttempts)
        ELSE IF phase = "expanding" THEN Prompt(phase, next)
        ELSE IF covered /\ ~e.ambiguous /\ later
        THEN IF restatement /\ ~oneShot THEN Prompt("awaiting_restatement", next)
             ELSE Completed("late", attempts, FALSE)
        ELSE IF \/ ~covered
                \/ "absent" \in {g.original, e.position}
                \/ "clarify" \in {g.outcome, e.outcome}
                \/ e.ambiguous
        THEN Prompt("awaiting_answer", next)
        ELSE Decision("blocked", "retry", "retry", next)

-----------------------------------------------------------------------------
(* The belief of the verifiers' progress, as it is stored: a function from *)
(* the five latent states to masses that sum to Scale.                     *)

Latent == 1..5  \* target missing, available, late, first, unknown

DefaultPrior == <<30, 25, 10, 15, 20>>

Likelihood(e) ==
    CASE e = "missing" -> <<930, 30, 2, 1, 37>>
      [] e = "available" -> <<20, 900, 20, 5, 55>>
      [] e = "late" -> <<1, 4, 980, 5, 10>>
      [] e = "first" -> <<1, 3, 8, 980, 8>>
      [] e = "ambiguous" -> <<80, 100, 50, 20, 750>>
      [] e = "hesitation" -> <<1, 1, 1, 1, 1>>
      [] OTHER -> <<5, 8, 8, 5, 974>>

Total(w) == w[1] + w[2] + w[3] + w[4] + w[5]

\* Slip: every share is rounded down and the rest is forgotten.
Floors(w) == [i \in Latent |-> (Scale * w[i]) \div Total(w)]

(* StoreVerifierProgress: shares are rounded down, what is left goes to    *)
(* the largest remainders, the earlier state first.                        *)
Stored(w) ==
    LET total == Total(w)
        floor == [i \in Latent |-> (Scale * w[i]) \div total]
        rest == [i \in Latent |-> (Scale * w[i]) % total]
        before(i, j) == rest[i] > rest[j] \/ (rest[i] = rest[j] /\ i < j)
        left == Scale - Total(floor)
    IN  [i \in Latent |->
            IF Cardinality({j \in Latent \ {i}: before(j, i)}) < left
            THEN floor[i] + 1 ELSE floor[i]]

ValidMass(m) == m \in [Latent -> 0..Scale] /\ Total(m) = Scale

\* One update: three parts in a hundred return to the prior, then Bayes' rule.
Updated(mass, e) ==
    LET prior == IF ValidMass(mass) THEN mass
                 ELSE [i \in Latent |-> DefaultPrior[i] * (Scale \div 100)]
    IN  Stored([i \in Latent |-> (97 * prior[i] + 3 * DefaultPrior[i] * (Scale \div 100))
                                   * Likelihood(e)[i]])

-----------------------------------------------------------------------------
(* Properties of the pure policy. *)

(* A stored belief always reads back as valid, and no share is off by more *)
(* than one unit: nothing a long conversation does makes the next turn     *)
(* throw the belief away.                                                  *)
BeliefSurvives(mass, e) ==
    LET next == Updated(mass, e)
        exact(i) == (97 * mass[i] + 3 * DefaultPrior[i] * (Scale \div 100)) * Likelihood(e)[i]
        total == Total([i \in Latent |-> exact(i)])
    IN  ValidMass(mass) =>
            /\ ValidMass(next)
            /\ \A i \in Latent: /\ next[i] * total < Scale * exact(i) + total
                                /\ next[i] * total > Scale * exact(i) - total

(* Whatever the utilities prefer: a scope is completed as the person's own *)
(* first answer only on two agreeing verifiers, and a prompt is spoken     *)
(* only to someone who was not prompted before in this scope.              *)
NeverPressed(o) ==
    \A abstained \in BOOLEAN: \A d \in PlanAnswerSupport(o, abstained):
        /\ d.first => o.gate = "first" /\ o.critic = "first" /\ o.available /\ ~o.hesitation
        /\ d.action \in {"elicit", "restate", "expand"} => o.attempts = 0 /\ d.attempts = 1
        /\ d.attempts >= o.attempts /\ d.attempts <= MaxCoachAttempts
        /\ o.hesitation /\ o.gate # "rejected" => d.reply = "" /\ d.attempts = o.attempts
=============================================================================
