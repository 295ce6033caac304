----------------------------- MODULE MCCoaching -----------------------------
(* A conversation of a few turns with three revisions. *)
EXTENDS Coaching, TLC

ASSUME MCAssumption == CoachingAssumption /\ SupportAssumption

Flags(v2, binding, proof, progress, transition, retrieval, delta) ==
    [v2 |-> v2, binding |-> binding, proof |-> proof, progress |-> progress,
     transition |-> transition, retrieval |-> retrieval, delta |-> delta]

MCRevisions == {Flags(TRUE, TRUE, TRUE, TRUE, TRUE, TRUE, TRUE),
                Flags(TRUE, TRUE, TRUE, FALSE, FALSE, FALSE, FALSE),
                Flags(FALSE, TRUE, FALSE, FALSE, FALSE, FALSE, FALSE)}

Voice == [mode |-> "intentional", speculative |-> FALSE, origin |-> "committed_voice",
          floor |-> "hybrid_committed", cancelable |-> TRUE, request |-> 1, strict |-> FALSE,
          handoff |-> FALSE]

MCTurns == {Voice,
            [Voice EXCEPT !.mode = "foreground", !.speculative = TRUE,
                          !.origin = "provisional_voice", !.floor = "provisional_commit_gate"],
            [Voice EXCEPT !.request = 2, !.handoff = TRUE],
            [Voice EXCEPT !.mode = "passive", !.floor = "unknown", !.cancelable = FALSE]}

Say(control, question, clauses, owner) ==
    [control |-> control, question |-> question, clauses |-> clauses, owner |-> owner,
     sensitive |-> FALSE]

MCSayings == {Say("opt_in", 1, <<>>, "bare"), Say("opt_in", 2, <<"b", "a">>, "bare"),
              Say("opt_in_only", 0, <<>>, "bare"),
              Say("none", 0, <<"a">>, "bare"), Say("none", 0, <<"b", "a">>, "bare"),
              Say("none", 0, <<"b", "a">>, "linked"), Say("none", 0, <<"a">>, "retracted"),
              Say("none", 0, <<>>, "bare"), Say("companion", 0, <<>>, "bare"),
              Say("change", 0, <<>>, "bare"), Say("expand_only", 0, <<>>, "bare")}

OnQuestion == [NewFrame EXCEPT !.question = QuestionTag(1), !.subject = SubjectTag(1)]

MCLegacy ==
    {[Unsealed EXCEPT !.turn = 1, !.pending = f]:
        f \in {[OnQuestion EXCEPT !.attempts = 1],
               [OnQuestion EXCEPT !.attempts = 1, !.phase = "awaiting_restatement",
                             !.answer = AnswerTag("a"), !.restatement = RestatementTag("a")],
               [NewFrame EXCEPT !.phase = "awaiting_restatement", !.attempts = 1],
               [NewFrame EXCEPT !.followUp = TRUE]}}

\* What QARC's integers come to: who was asked once, and speaks, is not asked again.
ASSUME OnceAsked == (CHOOSE a \in Actions: <<FALSE, TRUE, 1, a>> \in Chosen) = "wait"

(* What is proved of a person is theirs: the answer they said first, and   *)
(* the move from late to first.                                            *)
ProofsHold == ProofIsPersons /\ TransitionIsMove
=============================================================================
