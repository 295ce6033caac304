-------------------------------- MODULE Qarc --------------------------------
(***************************************************************************)
(* The question-bound retrieval policy, internal/respondent/qarc.go: from  *)
(* an observation of the floor to an action, a minimax-regret choice over  *)
(* an interval belief; and its use by the coach,                           *)
(* internal/conversation/qarc_coach_policy.go.                             *)
(*                                                                         *)
(* Every caller passes an operator confidence of 1 and probabilities of 0  *)
(* for an onset and for incidental speech; the model has these values, so  *)
(* an observation is [known, scoped, endpoint, protected, new,             *)
(* substantive, hesitation, attempts, cancelable], "known" saying that the *)
(* operator is one of the eleven.  The arithmetic is exact: weights are    *)
(* hundredths, uncertainties and utilities thousandths, so an expectation  *)
(* is an integer over 10^6 times the total weight, and qarcRound leaves    *)
(* millionths.                                                             *)
(***************************************************************************)
EXTENDS AnswerSupport, SequencesExt

\* Target lost, search blocked, formulation, initiation, self-monitoring,
\* ready, knowledge unknown, question unclear.
RetrievalStates == 1..8

Actions == {"wait", "neutral", "cue", "release"}

SpeechAllowed(o) ==
    /\ o.known /\ o.scoped
    /\ ~o.hesitation
    /\ o.endpoint \/ o.protected
    /\ o.cancelable

-----------------------------------------------------------------------------
(* The belief: a weight, an uncertainty, and the interval around the point *)
(* they give, in units of one thousandth of the total weight.              *)

Weights(o) ==
    LET plus(b, n) == IF b THEN n ELSE 0
    IN  << 20 + plus(o.new, 12) - plus(o.substantive, 6),
           18 + plus(o.new, 8),
           14 + plus(o.substantive, 18),
           14 + plus(o.new, 6),
           10 + plus(o.hesitation, 8) + 6 * o.attempts,
           14 + plus(o.substantive, 8) + plus(o.hesitation, 36),
           6 + 6 * o.attempts,
           4 >>

Sum(w) == FoldLeft(LAMBDA s, x: s + x, 0, w)

Uncertainty(o) == IF o.hesitation THEN 60 ELSE 35

Least(m, n) == IF m <= n THEN m ELSE n
Most(m, n) == IF m >= n THEN m ELSE n

\* [unit, lower, upper]; the invalid observation believes anything.
Belief(o) ==
    LET w == Weights(o)
        unit == Sum(w)
        spread == Uncertainty(o) * unit
    IN  IF ~o.known
        THEN [unit |-> 1, lower |-> [s \in RetrievalStates |-> 0],
              upper |-> [s \in RetrievalStates |-> 1000]]
        ELSE [unit |-> unit,
              lower |-> [s \in RetrievalStates |-> Most(0, 1000 * w[s] - spread)],
              upper |-> [s \in RetrievalStates |-> Least(1000 * unit, 1000 * w[s] + spread)]]

Utility(action, o) ==
    LET values ==
            CASE action = "cue" -> <<950, 680, 480, 580, -280, -780, -420, -860>>
              [] action = "neutral" -> <<340, 360, 280, 420, -100, -340, 40, 180>>
              [] action = "release" -> <<-350, -250, -120, 120, 620, 180, 720, 480>>
              [] OTHER -> <<-360, -100, 180, -180, 240, 720, 320, 280>>
        cost == CASE action = "cue" -> 50
                  [] action = "neutral" -> 35
                  [] action = "release" /\ o.attempts < MaxCoachAttempts -> 350
                  [] OTHER -> 0
    IN  [s \in RetrievalStates |-> values[s] - cost]

-----------------------------------------------------------------------------
(* The bounds of an expectation over the belief: every state gets its      *)
(* lower mass, the rest goes to the states in the order of their utility.  *)

\* Slip: the allocations are not sorted.
UnsortedBound(belief, utility, maximum) ==
    LET free == 1000 * belief.unit - Sum(belief.lower)
        room(s) == belief.upper[s] - belief.lower[s]
        given(s) == Least(room(s), Most(0, free - MapThenSumSet(room, 1..(s - 1))))
    IN  Sum([s \in RetrievalStates |-> (belief.lower[s] + given(s)) * utility[s]])

Bound(belief, utility, maximum) ==
    LET free == 1000 * belief.unit - Sum(belief.lower)
        room(s) == belief.upper[s] - belief.lower[s]
        better(s, t) == IF utility[s] = utility[t] THEN s < t
                        ELSE (utility[s] > utility[t]) = maximum
        earlier(s) == {t \in RetrievalStates: better(t, s)}
        given(s) == Least(room(s), Most(0, free - MapThenSumSet(room, earlier(s))))
    IN  Sum([s \in RetrievalStates |-> (belief.lower[s] + given(s)) * utility[s]])

Rounded(belief, value) == (2 * value + belief.unit) \div (2 * belief.unit)

Against(action, other, o) ==
    [s \in RetrievalStates |-> Utility(other, o)[s] - Utility(action, o)[s]]

WorstCaseRegret(action, safe, o) ==
    LET belief == Belief(o)
        regrets == {0} \cup {Rounded(belief, Bound(belief, Against(action, other, o), TRUE)):
                                other \in safe}
    IN  Max(regrets)

WorstCase(action, o) == Rounded(Belief(o), Bound(Belief(o), Utility(action, o), FALSE))

Priority(action) ==
    CASE action = "wait" -> 0 [] action = "neutral" -> 1
      [] action = "cue" -> 2 [] OTHER -> 3

\* The least regret, then the best worst case, then the quieter action.
Minimax(safe, o) ==
    LET score == [a \in safe |-> <<WorstCaseRegret(a, safe, o), -WorstCase(a, o), Priority(a)>>]
        before(x, y) == \/ x[1] < y[1]
                        \/ x[1] = y[1] /\ x[2] < y[2]
                        \/ x[1] = y[1] /\ x[2] = y[2] /\ x[3] < y[3]
    IN  CHOOSE a \in safe: \A b \in safe \ {a}: before(score[a], score[b])

\* What is chosen when the floor allows speech, for every observation it can meet.
Chosen ==
    {<<new, substantive, attempts,
       Minimax({"wait", "neutral", "cue"},
               [known |-> TRUE, hesitation |-> FALSE, new |-> new, substantive |-> substantive,
                attempts |-> attempts])>>:
        new \in BOOLEAN, substantive \in BOOLEAN, attempts \in 0..(MaxCoachAttempts - 1)}

DecideQARC(o) ==
    IF ~o.known THEN "wait"
    ELSE IF ~o.scoped THEN "wait"
    ELSE IF o.hesitation THEN "wait"
    ELSE IF ~SpeechAllowed(o) THEN "wait"
    ELSE IF o.attempts >= MaxCoachAttempts THEN "release"
    ELSE CHOOSE a \in Actions: <<o.new, o.substantive, o.attempts, a>> \in Chosen

(* The certificate that goes with it.  The template is named by the action *)
(* and, for a cue, by the operator.                                        *)
Certificate(o) ==
    LET action == DecideQARC(o)
        safe == IF action = "release" THEN {"release"}
                ELSE IF SpeechAllowed(o) THEN {"wait", "neutral", "cue"}
                ELSE {"wait"}
        waitBest == Rounded(Belief(o), Bound(Belief(o), Utility("wait", o), TRUE))
    IN  [action |-> action,
         worst |-> WorstCase(action, o),
         regret |-> WorstCaseRegret(action, safe, o),
         waitBest |-> waitBest,
         dominatesWait |-> WorstCase(action, o) > waitBest,
         floorProtected |-> action = "wait" \/ SpeechAllowed(o)]

-----------------------------------------------------------------------------
(* The coach's use of it.  A turn is [speculative, origin, floor,          *)
(* cancelable].                                                            *)

EndpointCommitted(turn) ==
    /\ ~turn.speculative
    /\ turn.origin = "committed_voice"
    /\ turn.floor = "hybrid_committed"

CommitProtected(turn) ==
    /\ turn.speculative
    /\ turn.origin = "provisional_voice"
    /\ turn.floor = "provisional_commit_gate"

HasSpeechAuthority(turn) ==
    /\ turn.cancelable
    /\ \/ ~turn.speculative /\ turn.origin = "committed_voice"
       \/ turn.speculative /\ turn.origin = "provisional_voice"

Observed(known, turn, new, substantive, hesitation, attempts) ==
    [known |-> known, scoped |-> TRUE, endpoint |-> EndpointCommitted(turn),
     protected |-> CommitProtected(turn), new |-> new, substantive |-> substantive,
     hesitation |-> hesitation, attempts |-> attempts, cancelable |-> turn.cancelable]

\* A prompt of the phase when QARC speaks, a silent hold when it waits.
Acted(action, p, attempts) ==
    CASE action = "release" -> ReleaseDecision(MaxCoachAttempts)
      [] action \in {"cue", "neutral"} -> Prompt(p, Least(attempts + 1, MaxCoachAttempts))
      [] OTHER -> Decision(p, "none", "", attempts)

Intervention(known, phase, attempts, turn, substantive, hesitation) ==
    Acted(DecideQARC(Observed(known, turn, FALSE, substantive, hesitation, attempts)),
          IF phase \in {"awaiting_restatement", "expanding", "blocked"} THEN phase
          ELSE "awaiting_answer", attempts)

CoachPrompt(known, phase, attempts, turn, substantive) ==
    Intervention(known, phase, attempts, turn, substantive, ~substantive)

\* The verifier-progress policy decides; a prompt it allows is QARC's to speak.
CoachAttempt(known, turn, abstained, o) ==
    {IF d.action \in {"elicit", "restate", "expand"}
     THEN Intervention(known, d.phase, o.attempts, turn, TRUE, FALSE) ELSE d:
        d \in PlanAnswerSupport(o, abstained)}

-----------------------------------------------------------------------------
(* The greedy bound is the optimum of the linear program it stands for: by *)
(* duality, the least of the bounds a price for the free mass gives.       *)

BoundIsExact(o) ==
    LET belief == Belief(o)
        free == 1000 * belief.unit - Sum(belief.lower)
        dual(u) == LET at(p) == p * free + Sum([s \in RetrievalStates |->
                                   belief.lower[s] * u[s]
                                   + (belief.upper[s] - belief.lower[s]) * Most(0, u[s] - p)])
                   IN  Min({at(u[s]): s \in RetrievalStates})
        minus(u) == [s \in RetrievalStates |-> -u[s]]
    IN  \A a, b \in Actions:
            /\ Bound(belief, Against(a, b, o), TRUE) = dual(Against(a, b, o))
            /\ Bound(belief, Utility(a, o), FALSE) = -dual(minus(Utility(a, o)))
=============================================================================
