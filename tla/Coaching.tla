------------------------------ MODULE Coaching ------------------------------
(***************************************************************************)
(* The coach: one turn of the conversation agent,                          *)
(* internal/conversation/agent.go (process), answer_proof.go,              *)
(* coach_expansion.go, retrieval_fastpath.go, generic_coach_start.go and   *)
(* the bindings of coach_continuity.go, from the token the client sends to *)
(* the reply and the token it gets back.                                   *)
(*                                                                         *)
(* A turn is [mode, speculative, origin, floor, cancelable, request,       *)
(* strict, handoff], what the person says is                               *)
(* [control, question, clauses, owner, sensitive]: at most one control     *)
(* phrase, at most one reported question (0 is none), the clauses of an    *)
(* attempt to answer, and whose words they are.  "linked" words also say   *)
(* which question they answer.  A plan is what the planner may return      *)
(* after its output was validated; "claim" is the clause it points at as   *)
(* the answer.  Prompts, wording, the graph, memory and the text of        *)
(* research are left out; a spoken reply is its kind.                      *)
(***************************************************************************)
EXTENDS CoachFrame

CONSTANTS Revisions,   \* the rollout flags the agent may be running with
          Turns,       \* turns, as the voice layer authors them
          Sayings,     \* what a person may say
          Legacy       \* tokens of older revisions a client may still hold

\* The evidence of a late answer is newer than the revisions that wrote these.
CoachingAssumption ==
    /\ MaxStateTurns \in Nat \ {0}
    /\ \A r \in Revisions: ValidRevision(r)
    /\ \A s \in Legacy: ValidState(s) /\ TokenShape(s) /\ ~s.pending.evidence

VARIABLES agent,       \* the flags of the revision that serves the turn
          token,       \* the state in the token the client holds
          reply,       \* the reply under way, Idle when there is none
          heard        \* what the person did and heard since the scope opened

vars == <<agent, token, reply, heard>>

Idle == [kind |-> "idle"]

NoOne == "nobody"    \* no clause

-----------------------------------------------------------------------------
(* What is said. *)

Expects(turn) == turn.mode # "passive"
OptIn(said) == said.control \in {"opt_in", "opt_in_only"}
Recovers(said) == said.control \in {"stop", "companion", "change"}
Expands(said) == said.control \in {"expand", "expand_only"}
Own(said) == said.owner \in {"bare", "linked"}
ReportedWithAttempt(said) == said.question # 0 /\ said.clauses # <<>> /\ Own(said)
Substantive(said) == said.clauses # <<>> \/ said.question # 0 \/ said.control # "none"

QuestionTag(q) == <<"question", q>>
SubjectTag(q) == <<"subject", q>>
AnswerTag(c) == <<"answer", c>>
RestatementTag(c) == <<"restatement", c>>
NativeTag(turn) == <<"native", turn>>

-----------------------------------------------------------------------------
(* Replies.  "next" is the state of the new token; it is sealed as the     *)
(* last thing a turn does, and a state the codec refuses fails the turn.   *)

Carry(s, pending, support) ==
    [turn |-> s.turn + 1, pending |-> pending, support |-> support, checkpoint |-> NoTag]

Reply(next, target, stage, phase, action, spoken) ==
    [kind |-> IF ValidState(Sealed(agent, next)) THEN "reply" ELSE "refused",
     next |-> Sealed(agent, next), target |-> target, stage |-> stage, phase |-> phase,
     action |-> action, spoken |-> spoken, proof |-> FALSE, candidate |-> FALSE,
     transition |-> FALSE, claim |-> NoOne, basis |-> Idle]

Plain(next, spoken) == Reply(next, "assistant", "none", "none", "none", spoken)

Coached(next, stage, d) == Reply(next, "respondent", stage, d.phase, d.action, d.reply)

\* A speculative turn may not act outside: it fails and is run again.
Withheld == [Plain(Unsealed, "") EXCEPT !.kind = "withheld"]

-----------------------------------------------------------------------------
(* What is decided before any model is asked.                              *)

Controllable(turn, said) == Expects(turn) /\ ~said.sensitive

OptedIn(s) == [s EXCEPT !.support.companion = FALSE, !.support.cooldown = 0]

AfterOptOut(p, companionOnly) ==
    IF companionOnly THEN [p EXCEPT !.companion = TRUE, !.verified = 0, !.cooldown = 3]
    ELSE AfterPass(p)

\* Frames of older revisions that no longer carry authority.
Revoked(f) ==
    /\ f.active
    /\ \/ f.followUp
       \/ agent.v2 /\ f.phase = "expanding" /\ ~f.optIn
       \/ agent.binding /\ f.phase = "awaiting_restatement" /\ f.restatement = NoTag

ExpansionEligible(s, turn, said) ==
    agent.v2 /\ s.pending.active /\ Controllable(turn, said) /\ ~s.support.companion

(* The state the turn works on: companion mode lifted, revoked frames gone, *)
(* the request for one expansion noted.                                    *)
Entered(s, turn, said) ==
    LET lifted == IF Controllable(turn, said) /\ s.support.companion /\ OptIn(said)
                  THEN OptedIn(s) ELSE s
        kept == IF Revoked(lifted.pending) THEN [lifted EXCEPT !.pending = EmptyFrame]
                ELSE lifted
    IN  IF ExpansionEligible(kept, turn, said) /\ Expands(said)
        THEN [kept EXCEPT !.pending.optIn = TRUE] ELSE kept

CanOpen(e, turn, said) ==
    /\ agent.v2 /\ agent.retrieval /\ ~e.pending.active
    /\ Expects(turn) /\ turn.request # 0
    /\ OptIn(said) /\ ~ReportedWithAttempt(said)

\* completeQARCRetrievalStartLocal: a reported question and nothing but the opt-in.
OpensQuestion(e, turn, said) ==
    /\ CanOpen(e, turn, said)
    /\ agent.proof /\ ~turn.strict /\ turn.cancelable /\ ~said.sensitive
    /\ said.question # 0 /\ said.clauses = <<>>
    /\ \/ EndpointCommitted(turn) \/ CommitProtected(turn)
       \/ ~turn.speculative /\ turn.origin = "committed_voice" /\ turn.floor = "unknown"

OpenQuestion(e, turn, said) ==
    LET f == [NewFrame EXCEPT !.question = QuestionTag(said.question),
                              !.subject = SubjectTag(said.question)]
        next == WithCheckpoint(Carry(e, f, OptedIn(e).support), turn.request, f.question)
    IN  Coached(next, "awaiting_answer",
                CASE DecideQARC(Observed(TRUE, turn, TRUE, FALSE, FALSE, 0)) = "cue" ->
                        Decision(f.phase, "elicit", "opening", 0)
                  [] OTHER -> Decision(f.phase, "none", "", 0))

\* completeGenericCoachStartLocal: an answer slot with no question.
OpensSlot(e, turn, said) ==
    /\ CanOpen(e, turn, said)
    /\ IF turn.speculative THEN turn.cancelable /\ CommitProtected(turn)
       ELSE turn.origin = "committed_voice"

OpenSlot(e, turn, said) ==
    LET f == [NewFrame EXCEPT !.native = NativeTag(e.turn + 1)]
        next == WithCheckpoint(Carry(e, f, OptedIn(e).support), turn.request, f.native)
    IN  Coached(next, "awaiting_answer", Decision(f.phase, "elicit", "opening", 0))

Hold(e, turn) ==
    LET next == Carry(e, e.pending, e.support)
        scope == ScopeTag(e.pending)
    IN  Coached(IF turn.request # 0 /\ scope # NoTag
                THEN WithCheckpoint(next, turn.request, scope) ELSE next,
                "awaiting_answer", Decision("expanding", "expand", "", e.pending.attempts))

AtLeastOne(p) == [p EXCEPT !.cooldown = Most(1, @)]

(* The reply that needs no model, Idle when the models are asked.          *)
LocalReply(s, turn, said) ==
    LET e == Entered(s, turn, said)
        followUp == s.pending.active /\ s.pending.followUp
        eligible == ExpansionEligible(e, turn, said)
    IN  IF Controllable(turn, said) /\ said.control = "proxy_out"
        THEN Plain(Carry(s, s.pending, s.support), "control")
        ELSE IF /\ Controllable(turn, said)
                /\ said.control = "companion" \/ (said.control = "stop" /\ s.pending.active)
        THEN Plain(Carry(s, EmptyFrame, AfterOptOut(s.support, said.control = "companion")),
                   "control")
        ELSE IF Controllable(turn, said) /\ s.support.companion /\ said.control = "opt_in_only"
        THEN Plain(Carry(s, EmptyFrame, OptedIn(s).support), "control")
        ELSE IF eligible /\ said.control = "expand_only"
        THEN Plain(Carry(e, e.pending, e.support), "control")
        ELSE IF /\ eligible /\ e.pending.phase = "expanding" /\ e.pending.optIn
                /\ ~Substantive(said)
        THEN Hold(e, turn)
        ELSE IF said.control = "greeting" /\ turn.mode = "intentional"
        THEN Plain(Carry(e, EmptyFrame, e.support), "greeting")
        ELSE IF said.control = "topic" /\ Expects(turn)
        THEN Plain(Carry(e, EmptyFrame, IF followUp THEN AtLeastOne(e.support) ELSE e.support),
                   "topic")
        ELSE IF OpensQuestion(e, turn, said) THEN OpenQuestion(e, turn, said)
        ELSE IF OpensSlot(e, turn, said) THEN OpenSlot(e, turn, said)
        ELSE Idle

-----------------------------------------------------------------------------
(* Plans.  The planner's output is validated against the person's words    *)
(* and against the authority of the turn: it may not leave a bound         *)
(* exercise, except for safety, and it may not open one that nobody asked  *)
(* for.                                                                    *)

\* What an urgent plan claims about an answer is not read.
PlansFor ==
    [said \in Sayings |->
        [target: {"assistant"}, stage: {"none"}, claim: {NoOne}, covered: {FALSE},
         matches: {TRUE}, urgent: BOOLEAN, unclear: BOOLEAN, abstain: {FALSE},
         research: {"none", "done", "denied"}]
        \cup
        [target: {"respondent"}, stage: {"awaiting_answer"}, claim: {NoOne}, covered: {FALSE},
         matches: BOOLEAN, urgent: {FALSE}, unclear: {FALSE}, abstain: {FALSE},
         research: {"none"}]
        \cup
        [target: {"respondent"}, stage: {x \in {"restructure"}: said.clauses # <<>>},
         claim: {NoOne} \cup Range(said.clauses), covered: BOOLEAN,
         matches: BOOLEAN, urgent: {FALSE}, unclear: {FALSE}, abstain: BOOLEAN,
         research: {"none"}]
        \cup
        [target: {"respondent"}, stage: {x \in {"restructure"}: said.clauses # <<>>},
         claim: {NoOne}, covered: {FALSE}, matches: BOOLEAN, urgent: {TRUE},
         unclear: {FALSE}, abstain: {FALSE}, research: {"none"}]]

RespondentAllowed(e, turn, said) ==
    /\ ~e.support.companion
    /\ e.pending.active \/ (Expects(turn) /\ OptIn(said))

RespondentRequired(e, turn, said) ==
    /\ RespondentAllowed(e, turn, said)
    /\ IF e.pending.active THEN ScopeTag(e.pending) # NoTag /\ ~Recovers(said) ELSE OptIn(said)

ValidPlan(e, turn, said, plan) ==
    /\ plan.target = "respondent" => RespondentAllowed(e, turn, said)
    /\ RespondentRequired(e, turn, said) => plan.target = "respondent" \/ plan.urgent
    /\ plan.covered => plan.claim # NoOne
    /\ plan.urgent => plan.research = "none" /\ ~plan.unclear
    /\ plan.research # "none" => Expects(turn) /\ ~plan.unclear

-----------------------------------------------------------------------------
(* Whose answer it is: the bindings of the frame to what was said.         *)

Position(plan, said) ==
    IF plan.claim = NoOne THEN "absent"
    ELSE IF Head(said.clauses) = plan.claim THEN "first"
    ELSE "later"

\* boundedCoachAnswerFingerprint, with and without allowLaterClause.
AnswerBound(plan, said) == plan.claim # NoOne /\ plan.covered /\ Own(said)
StrictlyBound(plan, said) ==
    AnswerBound(plan, said) /\ (Position(plan, said) = "first" \/ said.owner = "linked")

Fingerprinted(plan, said) == plan.claim # NoOne /\ said.owner # "retracted"

\* pendingAnswerFromPlan.
PlanFrame(plan, said) ==
    LET reported == agent.v2 /\ said.question # 0
        bound == reported /\ plan.stage = "restructure" /\ AnswerBound(plan, said)
    IN  [NewFrame EXCEPT
            !.subject = IF reported THEN SubjectTag(said.question) ELSE NoTag,
            !.question = IF reported /\ agent.proof /\ plan.matches
                         THEN QuestionTag(said.question) ELSE NoTag,
            !.answer = IF bound THEN AnswerTag(plan.claim) ELSE NoTag,
            !.optIn = reported /\ Expands(said)]

\* Slip: the last answer is the one that is bound.
BindLast(f, plan, said) ==
    IF f.subject # NoTag /\ said.question = 0 /\ AnswerBound(plan, said)
    THEN [f EXCEPT !.answer = AnswerTag(plan.claim)] ELSE f

\* bindFirstCoachAnswerForTurn.
BindFirst(f, plan, said) ==
    IF /\ f.phase = "awaiting_answer" /\ f.answer = NoTag /\ f.subject # NoTag
       /\ said.question = 0 /\ AnswerBound(plan, said)
    THEN [f EXCEPT !.answer = AnswerTag(plan.claim)] ELSE f

\* Slip: any answer of the person's own continues the scope.
ContinuesAny(f, plan, said) == said.question = 0 /\ StrictlyBound(plan, said)

\* coachAttemptContinuity: the answer of the scope, and no other.
Continues(f, plan, said) ==
    /\ said.question = 0
    /\ StrictlyBound(plan, said)
    /\ f.answer = AnswerTag(plan.claim)

RestatementMatches(f, plan, said) ==
    IF f.phase # "awaiting_restatement" THEN TRUE
    ELSE IF f.restatement = NoTag THEN ~agent.binding
    ELSE Fingerprinted(plan, said) /\ f.restatement = RestatementTag(plan.claim)

FailedContinuity == [outcome |-> "clarify", covered |-> FALSE, original |-> "absent",
                     satisfied |-> FALSE, issues |-> {"content_changed"}]

\* The gate on the person's words, then the position the coach itself finds.
GateOf(f, plan, said, ambiguous) ==
    LET at == Position(plan, said)
        is(outcome, issue) == [outcome |-> outcome, covered |-> plan.covered, original |-> at,
                               satisfied |-> outcome = "keep", issues |-> issue]
        gate == IF ambiguous THEN is("clarify", {"ambiguous_question"})
                ELSE IF ~plan.covered THEN is("clarify", {"required_slot_missing"})
                ELSE IF at = "first" THEN is("keep", {})
                ELSE is("clarify", {"reconstruction_needed"})
        found == IF Own(said) THEN at ELSE "absent"
    IN  IF Protected(f) /\ found # "first"
        THEN [gate EXCEPT !.original = found, !.satisfied = FALSE, !.outcome = "clarify",
                          !.covered = @ /\ found # "absent"]
        ELSE gate

(* The assessments a critic may return, one for each signal; and none.     *)
Assessments ==
    LET a(outcome, covered, position, ambiguous) ==
            [outcome |-> outcome, covered |-> covered, position |-> position,
             ambiguous |-> ambiguous, satisfied |-> outcome = "keep"]
    IN  {a("keep", TRUE, "first", FALSE), a("clarify", TRUE, "later", FALSE),
         a("clarify", FALSE, "absent", FALSE), a("clarify", TRUE, "first", TRUE),
         a("reject", FALSE, "absent", FALSE), a("restructure", TRUE, "first", FALSE)}

NoCritic == [outcome |-> "none"]

(* What the coach makes of an attempt: the frame it is judged against, the *)
(* gate's assessment, and whether it continues the scope.                  *)
Attempt(pre, frame, plan, said, critic) ==
    LET continuing == Protected(frame) /\ pre.pending.active
        bound == BindFirst(frame, plan, said)
        ok == continuing => Continues(bound, plan, said)
        f == IF continuing THEN IF ok THEN bound ELSE pre.pending ELSE frame
    IN  [frame |-> f, ok |-> ok,
         gate |-> IF ~ok \/ (~Protected(frame) /\ ~RestatementMatches(f, plan, said))
                  THEN FailedContinuity ELSE GateOf(f, plan, said, critic.ambiguous)]

-----------------------------------------------------------------------------
(* Turns that end without the models' words. *)

Unavailable(s) == Plain(Carry(s, s.pending, s.support), "notice")

Clarified(s) ==
    LET listens == s.support.companion \/ s.support.cooldown > 0
    IN  Plain(Carry(s, s.pending, IF listens THEN Cooled(s.support) ELSE AtLeastOne(s.support)),
              IF listens THEN "listen" ELSE "question")

\* Ambient audio changes nothing but the turn.
Overheard(pre) ==
    {Plain(Carry(pre, pre.pending, pre.support), spoken): spoken \in {"", "assistant"}}

-----------------------------------------------------------------------------
(* The coach's decision: [frame, d, ok, evidence, posterior], the frame an *)
(* attempt was judged against with what the verifiers leave in it.         *)

Ruled(f, d, ok, evidence, posterior) ==
    [frame |-> f, d |-> d, ok |-> ok, evidence |-> evidence, posterior |-> posterior]

Authorised(f, turn) == agent.retrieval /\ QarcBound(f) /\ HasSpeechAuthority(turn)

AwaitingRulings(cur, f, turn, said) ==
    LET active == cur.pending.active
    IN  {Ruled(f,
            IF Authorised(f, turn)
            THEN CoachPrompt(TRUE, f.phase, f.attempts, turn, Substantive(said))
            ELSE IF active /\ ~Substantive(said) THEN HoldForHesitation(f.phase, f.attempts)
            ELSE GuideAwaitingInPhase(f.phase, f.attempts, active),
            FALSE, f.evidence, f.progress)}

\* Slip: evidence of an answer to no question in particular.
EvidenceUnbound(f, d, gate, critic) ==
    /\ d.phase = "awaiting_restatement" /\ d.action = "restate" /\ d.keep /\ ~f.followUp
    /\ GateSignal(gate) = "later" /\ CriticSignal(critic) = "later"

\* answerTransitionEvidenceForLateTurn.
LateEvidence(f, d, gate, critic) ==
    /\ d.phase = "awaiting_restatement" /\ d.action = "restate" /\ d.keep
    /\ ~f.followUp /\ NoTag \notin {f.question, f.subject, f.answer}
    /\ GateSignal(gate) = "later" /\ CriticSignal(critic) = "later"

AttemptRulings(pre, frame, turn, said, plan, critic) ==
    LET a == Attempt(pre, frame, plan, said, critic)
        f == a.frame
        o == [gate |-> GateSignal(a.gate), critic |-> CriticSignal(critic), phase |-> f.phase,
              attempts |-> f.attempts, oneShot |-> f.followUp, hesitation |-> FALSE,
              available |-> TRUE]
        decisions ==
            IF Authorised(f, turn) THEN CoachAttempt(TRUE, turn, plan.abstain, o)
            ELSE IF agent.retrieval THEN PlanAnswerSupport(o, plan.abstain)
            ELSE {GuideAttempt(a.gate, critic, f.phase, f.attempts, TRUE, plan.abstain,
                               f.followUp, agent.binding)}
    IN  {Ruled(f, d, a.ok,
               IF agent.transition THEN LateEvidence(f, d, a.gate, critic) ELSE f.evidence,
               IF agent.retrieval THEN f.progress \cup {Scope(f)} ELSE f.progress):
            d \in decisions}

(* The one expansion that was asked for: it ends with the first thing said *)
(* in it, and begins when the answer came first.  A new scope that nobody  *)
(* reported a question for is not kept.                                    *)
Settled(pre, r, said, plan) ==
    LET f == r.frame
        ended == IF f.phase = "expanding" /\ Substantive(said)
                 THEN CompleteExpansion(plan.abstain) ELSE r.d
        begun == IF /\ f.phase # "expanding" /\ f.optIn /\ ~f.followUp
                    /\ ended.action = "complete" /\ ended.first /\ ~plan.abstain
                 THEN BeginExpansion ELSE ended
        unbound == ~pre.pending.active /\ f.subject = NoTag /\ f.answer = NoTag
    IN  [r EXCEPT !.d = IF unbound /\ begun.keep THEN ReleaseDecision(MaxCoachAttempts)
                        ELSE begun]

-----------------------------------------------------------------------------
(* What is kept of the exercise. *)

(* EmptyFrame when a restatement can not be bound to what was said.        *)
Kept(pre, r, said, plan) ==
    LET f == r.frame
        phase == IF r.d.phase \in ActivePhases THEN r.d.phase
                 ELSE IF pre.pending.active THEN pre.pending.phase
                 ELSE "awaiting_answer"
        exchanged == phase = "awaiting_restatement" /\ f.native # NoTag
        stored == [f EXCEPT !.evidence = r.evidence,
                            !.restatement = IF phase = "expanding" THEN NoTag ELSE @,
                            !.answer = IF phase = "expanding" THEN NoTag ELSE @,
                            !.native = IF exchanged THEN NoTag ELSE @]
        binds == /\ agent.binding \/ exchanged
                 /\ phase = "awaiting_restatement" /\ stored.restatement = NoTag
        bound == IF binds THEN [stored EXCEPT !.restatement = RestatementTag(plan.claim)]
                 ELSE stored
        next == WithControl(bound, phase, r.d.attempts)
    IN  IF binds /\ ~Fingerprinted(plan, said) THEN EmptyFrame
        ELSE IF agent.progress THEN [next EXCEPT !.progress = ProgressFor(f, next, r.posterior)]
        ELSE next

SupportAfter(p, r) ==
    IF r.d.first THEN AfterVerifiedFirst(p)
    ELSE IF r.d.keep THEN p
    ELSE IF r.d.action = "complete" /\ r.frame.phase # "expanding" THEN AfterPass(p)
    ELSE IF r.d.action = "release" THEN AfterRelease(p)
    ELSE p

\* sealVoiceCheckpointState refuses a revision that does not write it.
Checkpointed(turn, next, scope, stage, d) ==
    IF turn.request = 0 \/ scope = NoTag THEN Coached(next, stage, d)
    ELSE IF agent.v2 THEN Coached(WithCheckpoint(next, turn.request, scope), stage, d)
    ELSE [Coached(next, stage, d) EXCEPT !.kind = "refused"]

(* The proofs of a turn.  answerProofCandidateForTurn,                     *)
(* answerTransitionProofForTurn, answerOwnershipYieldsFloor.               *)
Candidate(r, turn, said, plan) ==
    LET f == r.frame
    IN  /\ turn.origin \in {"committed_voice", "provisional_voice"} /\ ~turn.strict
        /\ plan.stage = "restructure" /\ r.ok
        /\ StrictlyBound(plan, said) /\ Position(plan, said) = "first"
        /\ r.d.first /\ ~f.followUp /\ f.phase # "expanding"
        /\ NoTag \notin {f.question, f.subject, f.answer}
        /\ <<r.d.phase, r.d.action>> \in {<<"complete", "complete">>, <<"expanding", "expand">>}

\* Slip: the answer is first now, whatever it was before.
FirstNow(pre, r) == pre.pending.phase = "awaiting_restatement"

\* What the turn before left, and sameAnswerTransitionScope.
CameLate(pre, r) ==
    LET tags(f) == <<f.question, f.subject, f.answer>>
    IN  /\ pre.pending.evidence
        /\ pre.pending.phase = "awaiting_restatement"
        /\ tags(pre.pending) = tags(r.frame)

Proved(reply0, pre, r, turn, said, plan) ==
    LET candidate == reply0.target = "respondent" /\ Candidate(r, turn, said, plan)
        proof == candidate /\ ~turn.speculative /\ turn.origin = "committed_voice"
    IN  [reply0 EXCEPT
            !.candidate = candidate, !.proof = proof, !.claim = plan.claim,
            !.transition = proof /\ agent.delta /\ r.d.action = "complete" /\ CameLate(pre, r),
            !.spoken = IF candidate /\ r.d.action = "complete" THEN "" ELSE @]

(* One turn of the exercise. *)
Exercised(pre, r, turn, said, plan) ==
    LET kept == IF r.d.keep THEN Kept(pre, r, said, plan) ELSE EmptyFrame
        unbound == r.d.keep /\ ~kept.active
        last == IF unbound THEN [r EXCEPT !.d = ReleaseDecision(MaxCoachAttempts)] ELSE r
        support == IF unbound THEN pre.support ELSE SupportAfter(pre.support, r)
        scope == IF ScopeTag(kept) # NoTag THEN ScopeTag(kept) ELSE ScopeTag(r.frame)
    IN  Proved(Checkpointed(turn, Carry(pre, kept, support), scope, plan.stage, last.d),
               pre, last, turn, said, plan)

(* A safety intervention wins the turn and pauses the exercise as it was.  *)
Paused(pre, f, turn, plan) ==
    LET scope == IF ScopeTag(pre.pending) # NoTag THEN ScopeTag(pre.pending) ELSE ScopeTag(f)
    IN  Checkpointed(turn, Carry(pre, pre.pending, pre.support), scope, plan.stage,
                     Decision("blocked", "retry", "safety", f.attempts))

(* The conversation goes on without an exercise. *)
Conversed(pre, followUp, turn, plan) ==
    LET base == IF pre.pending.active /\ pre.pending.phase # "expanding"
                THEN AfterPass(pre.support) ELSE pre.support
        asked == IF ~base.companion /\ base.fading < MaxFading /\ plan.research = "none"
                 THEN {base, [base EXCEPT !.cooldown = CooldownAfterPass]} ELSE {base}
        supports == IF followUp THEN {AtLeastOne(base)}
                    ELSE IF base.cooldown > 0 THEN {Cooled(base)}
                    ELSE asked
    IN  IF plan.urgent THEN {Plain(Carry(pre, pre.pending, pre.support), "safety")}
        ELSE {Plain(Carry(pre, EmptyFrame, p), "assistant"): p \in supports}

-----------------------------------------------------------------------------
(* A turn the models are asked for.  "pre" is the state it was entered     *)
(* with, "cur" the one it goes on with.                                    *)

Replans(pre, turn, said) == pre.pending.active /\ Expects(turn) /\ Recovers(said)

StartsExercise(turn, said, plan) ==
    turn.mode = "foreground" => plan.stage = "restructure" /\ ReportedWithAttempt(said)

Coaching(pre, cur, turn, said, plan) ==
    LET f == IF cur.pending.active THEN cur.pending ELSE PlanFrame(plan, said)
        critics == IF plan.stage = "restructure" THEN Assessments ELSE {NoCritic}
        rulings == IF plan.stage = "restructure"
                   THEN UNION {AttemptRulings(pre, f, turn, said, plan, c): c \in critics}
                   ELSE AwaitingRulings(cur, f, turn, said)
        unverified == IF plan.stage = "restructure" \/ said.sensitive THEN {Unavailable(pre)}
                      ELSE {}
    IN  IF cur.pending.active /\ ~plan.matches THEN {Unavailable(pre)}
        ELSE IF ~cur.pending.active /\ (~StartsExercise(turn, said, plan) \/ ~ValidFrame(f))
        THEN {Clarified(pre)}
        ELSE IF plan.urgent THEN {Paused(pre, f, turn, plan)} \cup unverified
        ELSE {Exercised(pre, Settled(pre, r, said, plan), turn, said, plan): r \in rulings}
             \cup unverified

Answered(pre, cur, followUp, turn, said, plan) ==
    LET strict == [plan EXCEPT !.research = IF turn.strict THEN "none" ELSE @]
    IN  IF ~Expects(turn) THEN Overheard(pre)
        ELSE IF plan.target = "assistant" /\ plan.unclear /\ ~plan.urgent /\ plan.research = "none"
                /\ ~said.sensitive
        THEN {Clarified(cur)}
        ELSE IF turn.speculative /\ strict.research # "none" THEN {Withheld}
        ELSE IF /\ agent.retrieval /\ QarcBound(cur.pending) /\ turn.speculative
                /\ plan.target # "respondent" /\ ~Recovers(said)
        THEN {Unavailable(pre)}
        ELSE IF strict.research = "denied" THEN {Unavailable(pre)}
        ELSE IF plan.target = "respondent" THEN Coaching(pre, cur, turn, said, plan)
        ELSE Conversed(pre, followUp, turn, strict) \cup {Unavailable(pre)}

(* The replies a turn may get.  A frame that is in the way of a topic      *)
(* change is set aside and the planner asked again, unless the plan is one *)
(* the precision model recovered: that goes on, if it asks for no research.*)
ModelReplies(s, turn, said) ==
    LET pre == Entered(s, turn, said)
        followUp == s.pending.active /\ s.pending.followUp
        cur == IF followUp THEN [pre EXCEPT !.support = AtLeastOne(@)] ELSE pre
        free == [cur EXCEPT !.pending = EmptyFrame]
        plans(state) == {<<state, p>>: p \in {q \in PlansFor[said]: ValidPlan(state, turn, said, q)}}
        replan(p) == Replans(pre, turn, said) /\ p.stage = "awaiting_answer"
        first == plans(cur)
        again == \E sp \in first: replan(sp[2])
    IN  {Unavailable(cur)}
        \cup (IF again THEN {Clarified(pre)} ELSE {})
        \cup UNION {Answered(pre, sp[1], followUp, turn, said, sp[2]):
                       sp \in {fp \in first: replan(fp[2]) => fp[2].research = "none"}
                              \cup (IF again THEN plans(free) ELSE {})}

-----------------------------------------------------------------------------
(* The conversation. *)

Init ==
    /\ agent \in Revisions
    /\ token \in {Unsealed} \cup Legacy
    /\ reply = Idle
    /\ heard = [asked |-> Least(1, token.pending.attempts), late |-> {}]

\* The state a turn is processed with: a handoff prepares the next one first.
Presented(turn) == IF turn.handoff THEN PreparedNative(token) ELSE token

\* One reply that needs no model, or what the models may lead to.
RepliesTo(s, turn, said) ==
    LET local == {LocalReply(s, turn, said)} \ {Idle}
    IN  IF local = {} THEN ModelReplies(s, turn, said) ELSE local

Answer ==
    /\ reply = Idle
    /\ \E turn \in Turns, said \in Sayings:
         LET s == Presented(turn)
         IN  /\ s.turn < MaxStateTurns
             /\ \E r \in RepliesTo(s, turn, said):
                  reply' = [r EXCEPT !.basis = [turn |-> turn, said |-> said,
                                                pre |-> Entered(s, turn, said)]]
    /\ UNCHANGED <<agent, token, heard>>

\* The exercise goes on, rather than ending or making room for another.
GoesOn(r) == r.basis.pre.pending.active /\ r.next.pending.active

Reasked(r) == GoesOn(r) /\ r.spoken \in {"core", "reask"}

SaidLater(r) ==
    /\ r.claim # NoOne /\ Own(r.basis.said)
    /\ Head(r.basis.said.clauses) # r.claim

Delivered(r) ==
    /\ r.kind = "reply"
    /\ r.basis.turn.handoff /\ r.target = "respondent" =>
           CheckpointAccepted(token, PreparedNative(token), r.next, r.basis.turn.request, r)

\* The client takes the token of the reply; a handoff that is not accepted ends.
\* The checkpoint in a token is not read again.  A turn of the assistant's own
\* opens no scope.
Deliver ==
    /\ reply # Idle /\ Delivered(reply)
    /\ token' = [reply.next EXCEPT !.checkpoint = NoTag]
    /\ reply' = Idle
    /\ LET known == IF GoesOn(reply) \/ reply.target = "assistant" THEN heard
                    ELSE [asked |-> 0, late |-> {}]
       IN  heard' = [asked |-> known.asked + IF Reasked(reply) THEN 1 ELSE 0,
                     late |-> known.late \cup
                                IF SaidLater(reply)
                                THEN {<<token'.pending.question, reply.claim>>} ELSE {}]
    /\ UNCHANGED agent

\* The reply does not arrive, or is not accepted: the client keeps its token.
Lose ==
    /\ reply # Idle
    /\ reply' = Idle
    /\ UNCHANGED <<agent, token, heard>>

\* An exchange of native voice, which the agent does not see.
NativeExchange ==
    /\ reply = Idle /\ ~token.pending.active /\ token.turn < MaxStateTurns
    /\ token' = Advanced(token)
    /\ UNCHANGED <<agent, reply, heard>>

\* A revision with other flags takes over.
Deploy ==
    /\ reply = Idle
    /\ agent' \in Revisions
    /\ UNCHANGED <<token, reply, heard>>

Next == Answer \/ Deliver \/ Lose \/ NativeExchange \/ Deploy

Spec == Init /\ [][Next]_vars

-----------------------------------------------------------------------------
(* Properties. *)

Given == IF reply = Idle THEN Idle ELSE reply.basis

(* An answer-first proof, which is what the page shows as the person's own *)
(* achievement, is for the clause they said first, in their own words, in  *)
(* answer to the question the exercise is bound to, and the same clause    *)
(* they had bound to it before; the public one only for a committed voice. *)
(* Tokens come back from lost turns, other revisions and handoffs.         *)
ProofIsPersons ==
    reply # Idle /\ reply.candidate =>
        LET f == Given.pre.pending
            said == Given.said
        IN  /\ Own(said) /\ Head(said.clauses) = reply.claim
            /\ f.active => /\ f.question # NoTag /\ said.question = 0
                           /\ f.answer \in {NoTag, AnswerTag(reply.claim)}
            /\ ~f.active => said.question # 0 /\ OptIn(said)
            /\ reply.proof => ~Given.turn.speculative /\ Given.turn.origin = "committed_voice"
            /\ ~Given.turn.strict /\ ~Given.pre.support.companion

(* The proof of a move, "said later, then said first", is given only when  *)
(* that same answer was heard later, in an earlier turn of the same scope. *)
TransitionIsMove ==
    reply # Idle /\ reply.transition =>
        <<Given.pre.pending.question, reply.claim>> \in heard.late

(* docs/pdf-alignment.md:60, "asking again is once only; if that does not  *)
(* succeed the coaching stops": however turns are lost, repeated, handed   *)
(* off or served by another revision.                                      *)
ReaskedOnce == heard.asked <= 1

(* What a turn seals can be opened by the next one: the seal of a turn     *)
(* fails only in an exercise for which an expansion was asked (that it     *)
(* does is a finding), and where a revision without state v2 was to write  *)
(* a checkpoint.                                                           *)
SealsWhatItReads ==
    reply # Idle /\ reply.kind = "refused" =>
        \/ Given.pre.pending.optIn \/ Expands(Given.said)
        \/ ~agent.v2 /\ Given.turn.request # 0

(* docs/pdf-alignment.md:36, "in the same explicit support, only when the  *)
(* person asks, one question about the reason": who asks for it, and goes  *)
(* on with the exercise, gets replies.                                     *)
ExpansionAnswered ==
    /\ reply # Idle /\ agent.v2
    /\ Given.pre.pending.optIn
    => reply.kind # "refused"

(* The question of a scope, and the answer bound to it, stay what they     *)
(* are until the scope ends, whatever the person says and the planner      *)
(* makes of it; a frame of an older revision may lose its authority.       *)
ScopeStays ==
    [][LET f == token.pending
           g == token'.pending
       IN  reply # Idle /\ f.active /\ g.active /\ ~Revoked(f) =>
               /\ f.question \in {NoTag, g.question} \/ ~agent.proof
               /\ f.answer # NoTag /\ g.phase # "expanding" /\ g.answer # NoTag => g.answer = f.answer]_token
=============================================================================
