----------------------------- MODULE CoachFrame -----------------------------
(***************************************************************************)
(* What a conversation carries from turn to turn: the sealed state token   *)
(* (internal/conversation/state.go, contracts.go, support.go), what the    *)
(* rollout flags let a revision write into it (agent.go), and the two      *)
(* tokens of a caption handoff, the prepared one and the checkpoint        *)
(* (native_state.go, agent.go).                                            *)
(*                                                                         *)
(* A tag, which is an HMAC of what it names, is the pair of its kind and   *)
(* what it names; the session is one, so it is left out of tags.  A frame  *)
(* has no operator or slots: the plan says whether it matches them.  The   *)
(* posterior of the verifiers' progress is the set of scopes whose         *)
(* evidence went into it, {} for the default prior.  Prose, the graph,     *)
(* memory, the trial and the expiry of tokens are left out.                *)
(***************************************************************************)
EXTENDS Qarc

CONSTANT MaxStateTurns   \* maxStateTurns, a bound of the code

NoTag == <<>>

-----------------------------------------------------------------------------
(* The pending answer: PendingAnswerFrame and its normal form.             *)

ActivePhases == {"awaiting_answer", "awaiting_restatement", "expanding"}

EmptyFrame ==
    [active |-> FALSE, phase |-> "none", attempts |-> 0, followUp |-> FALSE, optIn |-> FALSE,
     restatement |-> NoTag, question |-> NoTag, subject |-> NoTag, answer |-> NoTag,
     native |-> NoTag, evidence |-> FALSE, progress |-> {}]

NewFrame == [EmptyFrame EXCEPT !.active = TRUE, !.phase = "awaiting_answer"]

Protected(f) == f.question # NoTag \/ f.subject # NoTag \/ f.answer # NoTag

ValidFrame(f) ==
    f.active =>
        /\ f.phase \in ActivePhases /\ f.attempts <= MaxCoachAttempts
        /\ f.optIn => ~f.followUp /\ f.subject # NoTag
        /\ f.question # NoTag => f.subject # NoTag /\ ~f.followUp
        /\ f.followUp => f.phase # "expanding"
        /\ f.native # NoTag => /\ f.phase = "awaiting_answer"
                               /\ ~f.followUp /\ ~f.optIn
                               /\ f.restatement = NoTag /\ ~Protected(f)
        /\ f.restatement # NoTag => f.phase = "awaiting_restatement"
        /\ f.evidence => /\ f.phase = "awaiting_restatement"
                         /\ NoTag \notin {f.question, f.subject, f.answer}
                         /\ ~f.followUp /\ ~f.optIn

NormalFrame(f) == IF f.active THEN f ELSE EmptyFrame

QarcBound(f) == f.active /\ f.question # NoTag /\ f.subject # NoTag

\* voiceCheckpointScopeTag: the first tag there is.
ScopeTag(f) ==
    IF f.question # NoTag THEN f.question
    ELSE IF f.native # NoTag THEN f.native
    ELSE f.restatement

\* A native scope may only be exchanged for a restatement.
SameCheckpointScope(previous, next) ==
    /\ ScopeTag(previous) # NoTag /\ ScopeTag(next) # NoTag
    /\ \/ ScopeTag(previous) = ScopeTag(next)
       \/ previous.native # NoTag /\ next.restatement # NoTag

\* What evidence in a frame is about.  Phase and tags, not attempts.
Scope(f) == <<f.phase, f.question, f.subject, f.answer, f.restatement, f.native>>

SameProgressScope(left, right) ==
    left.active /\ right.active /\ left.followUp = right.followUp /\ Scope(left) = Scope(right)

\* Slip: the prompt is not counted.
WithPhase(f, phase, attempts) ==
    [f EXCEPT !.active = TRUE, !.phase = phase,
              !.restatement = IF phase = "awaiting_restatement" THEN @ ELSE NoTag]

\* pendingAnswerWithControl.
WithControl(f, phase, attempts) ==
    LET next == [f EXCEPT !.active = TRUE, !.phase = phase, !.attempts = attempts,
                          !.restatement = IF phase = "awaiting_restatement" THEN @ ELSE NoTag,
                          !.answer = IF phase = "expanding" THEN NoTag ELSE @]
    IN  IF SameProgressScope(f, next) THEN next ELSE [next EXCEPT !.progress = {}]

\* verifierProgressForControlTransition.
ProgressFor(previous, next, posterior) ==
    IF SameProgressScope(previous, next) THEN posterior ELSE {}

-----------------------------------------------------------------------------
(* The support profile. *)

MaxFading == 2
CooldownAfterAnswer == 2
CooldownAfterPass == 2
CooldownAfterRelease == 3

NoSupport == [fading |-> 0, verified |-> 0, cooldown |-> 0, companion |-> FALSE]

AfterVerifiedFirst(p) ==
    IF p.companion THEN p
    ELSE IF p.fading = MaxFading THEN [p EXCEPT !.cooldown = CooldownAfterAnswer, !.verified = 0]
    ELSE IF p.verified = 1 THEN [p EXCEPT !.cooldown = CooldownAfterAnswer, !.verified = 0,
                                          !.fading = @ + 1]
    ELSE [p EXCEPT !.cooldown = CooldownAfterAnswer, !.verified = 1]

AfterRelease(p) ==
    [p EXCEPT !.verified = 0, !.cooldown = CooldownAfterRelease, !.fading = Most(0, @ - 1)]

AfterPass(p) == [p EXCEPT !.verified = 0, !.cooldown = CooldownAfterPass]

Cooled(p) == [p EXCEPT !.cooldown = Most(0, @ - 1)]

ValidSupport(p) ==
    p.fading <= MaxFading /\ p.verified < 2 /\ p.cooldown <= 3

-----------------------------------------------------------------------------
(* The state and its sealing.  "agent" is the revision: the record of its  *)
(* rollout flags [v2, binding, proof, progress, transition, retrieval,     *)
(* delta].  A checkpoint is [request, turn, scope].                        *)

Unsealed == [turn |-> 0, pending |-> EmptyFrame, support |-> NoSupport, checkpoint |-> NoTag]

\* Config: which flags need which.
ValidRevision(agent) ==
    /\ agent.retrieval => agent.v2 /\ agent.proof /\ agent.binding
    /\ agent.progress => agent.v2
    /\ agent.transition => agent.v2 /\ agent.proof
    /\ agent.delta => agent.transition /\ agent.retrieval

TokenShape(s) ==
    /\ s = [x \in DOMAIN Unsealed |-> s[x]]
    /\ s.turn \in Nat
    /\ s.pending = [x \in DOMAIN EmptyFrame |-> s.pending[x]] /\ s.pending.attempts \in Nat
    /\ s.support \in [fading: Nat, verified: Nat, cooldown: Nat, companion: BOOLEAN]

ValidState(s) ==
    /\ s.turn \in 1..MaxStateTurns
    /\ ValidFrame(s.pending) /\ ValidSupport(s.support)
    /\ s.support.companion => ~s.pending.active

Written(agent, f) ==
    LET kept == [f EXCEPT !.question = IF agent.proof THEN @ ELSE NoTag,
                          !.evidence = @ /\ agent.transition,
                          !.progress = IF agent.progress /\ agent.v2 THEN @ ELSE {}]
        capability == Protected(kept) \/ kept.native # NoTag \/ kept.optIn
    IN  IF agent.v2 THEN kept
        ELSE IF capability THEN EmptyFrame
        ELSE [kept EXCEPT !.evidence = FALSE]

\* sealState, whose result may be a state the codec refuses.
Sealed(agent, s) ==
    [s EXCEPT !.pending = NormalFrame(Written(agent, @)),
              !.support = IF agent.v2 THEN @ ELSE NoSupport,
              !.checkpoint = IF agent.v2 THEN @ ELSE NoTag]

WithCheckpoint(s, request, scope) ==
    [s EXCEPT !.checkpoint = <<request, s.turn, scope>>]

-----------------------------------------------------------------------------
(* The tokens of a handoff. *)

\* advanceNativeState; CommitNativeExchange refuses a pending answer.
Advanced(s) == [s EXCEPT !.turn = @ + 1]

\* PrepareNativeState: the caller's own token while an answer is pending.
PreparedNative(s) == IF s.pending.active THEN s ELSE Advanced(s)

ValidPrepared(requested, prepared) ==
    IF requested.pending.active THEN prepared = requested
    ELSE requested.turn < MaxStateTurns /\ prepared = Advanced(requested)

ValidControl(phase, action) ==
    <<phase, action>> \in {<<"awaiting_answer", "elicit">>, <<"awaiting_restatement", "restate">>,
                           <<"expanding", "expand">>, <<"complete", "complete">>,
                           <<"blocked", "retry">>, <<"blocked", "release">>}

(* ValidateRespondentCheckpointTransition. *)
CheckpointAccepted(requested, prepared, next, request, reply) ==
    LET scope == next.checkpoint[3]
        at == ScopeTag(next.pending)
    IN  /\ reply.target = "respondent" /\ reply.stage \in {"awaiting_answer", "restructure"}
        /\ request # 0 /\ ValidControl(reply.phase, reply.action)
        /\ next.checkpoint # NoTag
        /\ next.checkpoint = <<request, next.turn, scope>>
        /\ ValidPrepared(requested, prepared)
        /\ prepared.turn < MaxStateTurns /\ next.turn = prepared.turn + 1
        /\ CASE reply.action \in {"complete", "release"} ->
                    /\ ~next.pending.active
                    /\ prepared.pending.active => ScopeTag(prepared.pending) = scope
             [] OTHER ->
                    /\ next.pending.active /\ at = scope /\ at # NoTag
                    /\ reply.action # "retry" => next.pending.phase = reply.phase
                    /\ reply.action = "restate" => next.pending.restatement # NoTag
                    /\ prepared.pending.active =>
                           SameCheckpointScope(prepared.pending, next.pending)
=============================================================================
