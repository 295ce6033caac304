----------------------------- MODULE AnswerAudit -----------------------------
(***************************************************************************)
(* The model calls of one turn of the conversation agent                   *)
(* (internal/conversation/agent.go, process): the planner, whose stream    *)
(* may show its reply early enough for an audit of it to run beside the    *)
(* rest of the plan, the recovery, replanning and precision calls, the     *)
(* critic, and the budgets that keep the end of the turn's time for        *)
(* speech.  Which reply is spoken, and what was audited of it.             *)
(*                                                                         *)
(* A plan is [reply, target, risk, research, urgent]: "awaiting" and       *)
(* "restructure" are the stages of a respondent, "technical" and "closed"  *)
(* the domains with their policies.  A text is the reply of a plan,        *)
(* "fixed", or the person's own "utterance".  Time is what is left until   *)
(* the deadline; it passes only in calls.  The state token and what the    *)
(* coach says are Coaching's; PDFs, which are refused, are left out.  What  *)
(* the turn's words ask for (its policy, a change of topic, research that  *)
(* is disabled) is a choice where it is read.                              *)
(***************************************************************************)
EXTENDS Naturals, Sequences

CONSTANTS
  Replies,                                \* what a model may write
  Horizon,                                \* bound: the time a turn has at most
  Sequence, Precision, Critic, Research,  \* timeouts of the calls
  Reserve                                 \* VoiceResponseReserve

AuditAssumption == {Horizon, Sequence, Precision, Critic, Research, Reserve} \subseteq Nat

Modes == {"intentional", "foreground", "passive"}
Targets == {"assistant", "awaiting", "restructure"}

\* An awaiting plan is validated to be a clarification.
Plans == {p \in [reply : Replies, target : Targets, risk : {"ordinary", "technical", "closed"},
                 research : BOOLEAN, urgent : BOOLEAN] :
            /\ p.target = "awaiting" => ~p.urgent
            /\ p.research => p.target = "assistant" /\ ~p.urgent /\ p.risk = "closed"}

NoPlan == [reply |-> "fixed", target |-> "assistant", risk |-> "ordinary", research |-> FALSE,
           urgent |-> FALSE]

Outcomes == {"keep", "clarify", "restructure", "reject"}
Errors == {"transient", "malformed", "blocked"}
NotJudged == [of |-> "fixed", level |-> "none", outcome |-> "none"]

VARIABLES
  turn,      \* the turn: [mode, deadline]
  left,      \* time until its deadline
  pc,        \* where process is: [at, limit], what is left when its call times out
  plan,      \* fastPlan, then finalPlan
  route,
  available, \* ~verificationUnavailable
  failed,    \* the error of the first planner call
  streamed,  \* the planner's stream has shown its reply
  early,     \* earlyAudit: the number of an audit, 0 for none
  audits,    \* the audits started: [of, limit, running, cancelled, result]
  judged,    \* answerAssessment: [of, level, outcome]
  said       \* the end of the turn: [kind, of]

auditVars == <<turn, left, pc, plan, route, available, failed, streamed, early, audits, judged, said>>

Calls == {"plan", "planAgain", "recover", "replan", "replanAgain", "precise", "research", "await",
          "critic", "criticAgain"}
Steps == {"begin", "planned", "replanned", "settled", "audit", "speak", "done"}

AuditTypeOK ==
  /\ turn \in [mode : Modes, deadline : {Reserve, Horizon}]
  /\ left \in 0..turn.deadline /\ pc \in [at : Calls \cup Steps, limit : 0..Horizon]
  /\ plan.reply \in Replies \cup {"fixed"} /\ available \in BOOLEAN /\ streamed \in BOOLEAN
  /\ early \in 0..Len(audits) /\ Len(audits) <= 2

AuditInit ==
  /\ turn \in [mode : Modes, deadline : {Reserve, Horizon}]
  /\ left = turn.deadline /\ pc = [at |-> "begin", limit |-> 0]
  /\ plan = NoPlan /\ route = "fast" /\ available = TRUE /\ failed = "none"
  /\ streamed = FALSE /\ early = 0 /\ audits = <<>>
  /\ judged = NotJudged /\ said = [kind |-> "nothing", of |-> "fixed"]

Sooner(a, b) == IF a < b THEN a ELSE b

FailClosed(p) == p.research \/ p.risk = "closed"

(* criticPolicyFor: how hard the critic has to think.                      *)
Level(p, r) ==
  IF r = "precision" \/ FailClosed(p) \/ p.risk # "ordinary" \/ p.urgent
     \/ p.target = "restructure"
  THEN "high" ELSE "low"

(* The text a critic is given: of a respondent's attempt, the attempt.     *)
Audited(p) == IF p.target = "restructure" THEN "utterance" ELSE p.reply

At(step) == pc' = [at |-> step, limit |-> 0]
End(kind, of) == At("done") /\ said' = [kind |-> kind, of |-> of]

(* A turn whose time is over fails; otherwise it ends with a fixed reply.  *)
Fixed(kind) == IF left = 0 THEN End("error", "fixed") ELSE End(kind, "fixed")

(* timeoutBudgetWithReserve: the call may run until the reserve.           *)
HasBudget == left > Reserve
CallUntil(step, limit) == pc' = [at |-> step, limit |-> limit]
Call(step, maximum) == CallUntil(step, left - Sooner(maximum, left - Reserve))

\* The result of a cancelled audit is not looked at again.
Cancelled(i) == IF i = 0 THEN audits
                ELSE [audits EXCEPT ![i] = [of |-> NoPlan, limit |-> 0, running |-> @.running,
                                            cancelled |-> TRUE, result |-> "cancelled"]]
-----------------------------------------------------------------------------
(* Time, and the audits that run beside the turn.                          *)

Passes ==
  /\ left > 0 /\ pc.at \in Calls
  /\ IF pc.at = "await" THEN audits[early].running ELSE left > pc.limit
  /\ \A i \in DOMAIN audits :
       audits[i].running => left > audits[i].limit /\ ~audits[i].cancelled
  /\ left' = left - 1
  /\ UNCHANGED <<turn, pc, plan, route, available, failed, streamed, early, audits, judged,
                 said>>

(* The goroutine of startSpeculativeAudit: it ends with an assessment, or  *)
(* with its timeout or its cancellation.                                   *)
AuditEnds(i) ==
  /\ audits[i].running
  /\ \E result \in IF audits[i].cancelled THEN {"cancelled"}
                   ELSE IF left = audits[i].limit THEN {"transient"} ELSE Outcomes \cup Errors :
       audits' = [audits EXCEPT ![i].running = FALSE, ![i].result = result]
  /\ UNCHANGED <<turn, left, pc, plan, route, available, failed, streamed, early, judged,
                 said>>
-----------------------------------------------------------------------------
(* The planner. *)

Begin ==
  /\ pc.at = "begin"
  /\ IF HasBudget THEN Call("plan", Sequence) /\ UNCHANGED said
     ELSE Fixed("notice")
  /\ UNCHANGED <<turn, left, plan, route, available, failed, streamed, early, audits, judged>>

\* startSpeculativeAudit: ordinary replies of an expected turn.
MayOverlap(p) == turn.mode # "passive" /\ p.target = "assistant" /\ Level(p, "fast") = "low"

(* earlyCandidateFromJSON: the plan as far as the stream has shown it; a   *)
(* key may come again with another value.                                  *)
Shows(p) ==
  /\ pc.at \in {"plan", "planAgain"} /\ ~streamed /\ streamed' = TRUE
  /\ IF early = 0 /\ MayOverlap(p)
     THEN /\ audits' = Append(audits, [of |-> p, limit |-> left - Sooner(Critic, left),
                                       running |-> TRUE, cancelled |-> FALSE, result |-> "none"])
          /\ early' = Len(audits')
     ELSE UNCHANGED <<audits, early>>
  /\ UNCHANGED <<turn, left, pc, plan, route, available, failed, judged, said>>

\* The attempt is over: its error and its stream are forgotten.
PlanOver == failed' = "none" /\ streamed' = FALSE

PlanReturns(p) ==
  /\ pc.at \in {"plan", "planAgain"} /\ plan' = p /\ At("planned") /\ PlanOver
  /\ UNCHANGED <<turn, left, route, available, early, audits, judged, said>>

(* A second attempt, in what is left of the same budget.                   *)
PlanAgain(e) ==
  /\ pc.at = "plan" /\ left > pc.limit /\ e # "blocked"
  /\ CallUntil("planAgain", pc.limit) /\ failed' = e /\ streamed' = FALSE
  /\ audits' = Cancelled(early) /\ early' = 0
  /\ UNCHANGED <<turn, left, plan, route, available, judged, said>>

(* Only malformed output is recovered with the precision model, and only   *)
(* when a critic still has its time after that.                            *)
PlanFails(e) ==
  /\ pc.at \in {"plan", "planAgain"} /\ ~(pc.at = "plan" /\ left > pc.limit /\ e # "blocked")
  /\ IF /\ left > pc.limit /\ e = "malformed" /\ failed \in {"none", "malformed"}
        /\ left >= Precision + Critic + Reserve
     THEN CallUntil("recover", left - Precision) /\ UNCHANGED said
     ELSE Fixed("notice")
  /\ PlanOver
  /\ UNCHANGED <<turn, left, plan, route, available, early, audits, judged>>

\* A recovery grants no capability.
RecoverReturns(p) ==
  /\ pc.at = "recover" /\ left > pc.limit
  /\ IF p.research THEN Fixed("notice") /\ UNCHANGED <<plan, route>>
     ELSE At("planned") /\ plan' = p /\ route' = "recovery" /\ UNCHANGED said
  /\ UNCHANGED <<turn, left, available, failed, streamed, early, audits, judged>>

RecoverFails ==
  /\ pc.at = "recover" /\ Fixed("notice")
  /\ UNCHANGED <<turn, left, plan, route, available, failed, streamed, early, audits, judged>>
-----------------------------------------------------------------------------
(* A frame that traps a topic change is set aside and the planner asked    *)
(* again, once.                                                            *)

Trapped == route = "fast" /\ turn.mode # "passive" /\ plan.target = "awaiting"

Planned ==
  /\ pc.at = "planned"
  /\ \/ At("replanned") /\ UNCHANGED said
     \/ Trapped /\ IF HasBudget THEN Call("replan", Sequence) /\ UNCHANGED said
                   ELSE Fixed("clarification")
  /\ UNCHANGED <<turn, left, plan, route, available, failed, streamed, early, audits, judged>>

ReplanReturns(p) ==
  /\ pc.at \in {"replan", "replanAgain"} /\ left > pc.limit
  /\ At("replanned") /\ plan' = p
  /\ UNCHANGED <<turn, left, route, available, failed, streamed, early, audits, judged, said>>

ReplanFails(e) ==
  /\ pc.at \in {"replan", "replanAgain"}
  /\ IF pc.at = "replan" /\ left > pc.limit /\ e # "blocked" THEN CallUntil("replanAgain", pc.limit) /\ UNCHANGED said
     ELSE Fixed("clarification")
  /\ UNCHANGED <<turn, left, plan, route, available, failed, streamed, early, audits, judged>>

\* What is little enough to end the turn: background silence, or no clear meaning.
Unclear ==
  /\ pc.at = "replanned"
  /\ plan.target = "assistant" /\ ~plan.urgent /\ ~FailClosed(plan)
  /\ End(IF turn.mode = "passive" THEN "silent" ELSE "clarification", "fixed")
  /\ UNCHANGED <<turn, left, plan, route, available, failed, streamed, early, audits, judged>>

NeedsPrecision ==
  /\ route = "fast"
  /\ FailClosed(plan) \/ (plan.risk # "ordinary" /\ plan.target # "awaiting")
  /\ ~(/\ turn.mode = "foreground" /\ plan.risk = "technical" /\ plan.target = "assistant"
       /\ ~plan.urgent /\ ~FailClosed(plan))

WithoutPrecision ==
  IF FailClosed(plan) THEN available' = FALSE /\ UNCHANGED route
  ELSE route' = "fallback" /\ UNCHANGED available

Replanned ==
  /\ pc.at = "replanned"
  /\ CASE ~NeedsPrecision -> At("settled") /\ UNCHANGED <<available, route, said>>
       [] NeedsPrecision /\ HasBudget ->
            Call("precise", Precision) /\ UNCHANGED <<available, route, said>>
       [] NeedsPrecision /\ ~HasBudget /\ left = 0 ->
            End("error", "fixed") /\ UNCHANGED <<available, route>>
       [] OTHER -> WithoutPrecision /\ At("settled") /\ UNCHANGED <<said>>
  /\ UNCHANGED <<turn, left, plan, failed, streamed, early, audits, judged>>

PreciseReturns(p) ==
  /\ pc.at = "precise" /\ left > pc.limit
  /\ At("settled") /\ plan' = p /\ route' = "precision"
  /\ UNCHANGED <<turn, left, available, failed, streamed, early, audits, judged, said>>

PreciseFails ==
  /\ pc.at = "precise"
  /\ IF left = 0 THEN End("error", "fixed") /\ UNCHANGED <<available, route>>
     ELSE WithoutPrecision /\ At("settled") /\ UNCHANGED said
  /\ UNCHANGED <<turn, left, plan, failed, streamed, early, audits, judged>>
-----------------------------------------------------------------------------
(* Research: the reply is a fixed sentence about what was found.           *)

Unanswered == IF left = 0 THEN End("error", "fixed") /\ UNCHANGED plan
              ELSE plan' = [plan EXCEPT !.reply = "fixed"] /\ At("audit") /\ UNCHANGED said

Settled ==
  /\ pc.at = "settled"
  /\ \/ ~(plan.research /\ available) /\ At("audit") /\ UNCHANGED <<plan, route, said>>
     \/ /\ plan.research                             \* a turn of strict privacy
        /\ plan' = [plan EXCEPT !.reply = "fixed", !.research = FALSE]
        /\ route' = "strict" /\ At("audit") /\ UNCHANGED said
     \/ /\ plan.research /\ turn.mode = "intentional" \* a speculative turn
        /\ End("error", "fixed") /\ UNCHANGED <<plan, route>>
     \/ /\ plan.research /\ available /\ UNCHANGED route
        /\ IF HasBudget THEN Call("research", Research) /\ UNCHANGED <<plan, said>>
           ELSE Unanswered
  /\ UNCHANGED <<turn, left, available, failed, streamed, early, audits, judged>>

(* Found, not found, denied, or refused.                                   *)
ResearchReturns ==
  /\ pc.at = "research"
  /\ \/ Unanswered
     \/ (Fixed("notice") \/ End("error", "fixed")) /\ UNCHANGED plan
  /\ UNCHANGED <<turn, left, route, available, failed, streamed, early, audits, judged>>
-----------------------------------------------------------------------------
(* The critic. *)

(* A plan that does not fit the question that is open, or opens one it may *)
(* not: the turn ends with fixed words.                                    *)
OutOfScope ==
  /\ pc.at = "audit" /\ turn.mode # "passive" /\ (plan.target # "assistant" \/ ~plan.research)
  /\ \E kind \in {"notice", "clarification"} : End(kind, "fixed")
  /\ UNCHANGED <<turn, left, plan, route, available, failed, streamed, early, audits, judged>>

\* Mutant: the reply is taken to be the one that was shown early.
ConsumesAny == early # 0 /\ route = "fast" /\ Level(plan, route) = "low" /\ turn.mode # "passive"

(* canConsumeSpeculativeAudit. *)
CanConsume ==
  /\ early # 0 /\ turn.mode # "passive" /\ route = "fast" /\ Level(plan, route) = "low"
  /\ ~plan.research /\ plan.target = "assistant"
  /\ audits[early].of.target = plan.target /\ audits[early].of.reply = plan.reply

Ready == /\ CanConsume /\ ~audits[early].running
         /\ audits[early].result \in Outcomes /\ left >= Reserve /\ left > 0

\* Mutant: only the critic's own time is kept.
HasTimeOnly == left >= Critic

HasCriticTime == left >= Critic + Reserve

Judges(outcome, p) == judged' = [of |-> Audited(p), level |-> Level(p, route), outcome |-> outcome]

(* Which assessment the turn goes on with, or waits for.                   *)
Audit ==
  /\ pc.at = "audit"
  /\ CASE plan.target = "awaiting" ->
            /\ judged' = [NotJudged EXCEPT !.outcome = "keep"] /\ At("speak")
            /\ UNCHANGED <<available, early, audits, said>>
       [] plan.target # "awaiting" /\ ~available ->
            At("speak") /\ UNCHANGED <<available, early, audits, judged, said>>
       [] OTHER ->
            CASE Ready -> /\ Judges(audits[early].result, audits[early].of)
                          /\ At("speak") /\ audits' = Cancelled(early)
                          /\ UNCHANGED <<available, early, said>>
              [] ~Ready /\ ~HasCriticTime ->
                   /\ IF left = 0 THEN End("error", "fixed") /\ UNCHANGED available
                      ELSE At("speak") /\ available' = FALSE /\ UNCHANGED said
                   /\ UNCHANGED <<early, audits, judged>>
              [] ~Ready /\ HasCriticTime /\ CanConsume ->
                   At("await") /\ UNCHANGED <<available, early, audits, judged, said>>
              [] OTHER ->
                   /\ CallUntil("critic", left - Critic)
                   /\ audits' = Cancelled(early) /\ early' = 0
                   /\ UNCHANGED <<available, judged, said>>
  /\ UNCHANGED <<turn, left, plan, route, failed, streamed>>

(* A transient failure of an ordinary audit is tried once more.            *)
CriticFailed(e) ==
  IF e = "transient" /\ Level(plan, route) = "low" /\ pc.at # "criticAgain" /\ HasCriticTime
  THEN CallUntil("criticAgain", left - Critic) /\ UNCHANGED <<available, said>>
  ELSE /\ IF left = 0 THEN End("error", "fixed") /\ UNCHANGED available
          ELSE At("speak") /\ available' = FALSE /\ UNCHANGED said

Awaited ==
  /\ pc.at = "await" /\ ~audits[early].running
  /\ audits' = Cancelled(early)
  /\ IF audits[early].result \in Outcomes
     THEN /\ Judges(audits[early].result, audits[early].of)
          /\ At("speak") /\ UNCHANGED <<available, said>>
     ELSE CriticFailed(audits[early].result) /\ UNCHANGED judged
  /\ UNCHANGED <<turn, left, plan, route, failed, streamed, early>>

CriticReturns(outcome) ==
  /\ pc.at \in {"critic", "criticAgain"} /\ left > pc.limit
  /\ Judges(outcome, plan) /\ At("speak")
  /\ UNCHANGED <<turn, left, plan, route, available, failed, streamed, early, audits, said>>

CriticFails(e) ==
  /\ pc.at \in {"critic", "criticAgain"} /\ CriticFailed(e)
  /\ UNCHANGED <<turn, left, plan, route, failed, streamed, early, audits, judged>>
-----------------------------------------------------------------------------
(* What is spoken.  A draft that is not kept gives at most its question.   *)

Blocked == judged.outcome \in {"clarify", "reject"}

MaySay ==
  LET respondent == plan.target # "assistant"
      passive == turn.mode = "passive"
      researched == plan.research /\ available
  IN  CASE plan.urgent ->
             {IF ~available \/ Blocked THEN <<"fixed", "fixed">> ELSE <<"draft", plan.reply>>}
        [] ~plan.urgent /\ passive /\ respondent -> {<<"silent", "fixed">>}
        [] ~plan.urgent /\ ~(passive /\ respondent) /\ ~available ->
             {IF passive THEN <<"silent", "fixed">> ELSE <<"notice", "fixed">>}
        [] ~plan.urgent /\ ~passive /\ respondent /\ available -> {<<"coach", "fixed">>}
        [] OTHER ->
             IF researched /\ judged.outcome # "keep" THEN {<<"fixed", "fixed">>}
             ELSE IF passive /\ Blocked THEN {<<"silent", "fixed">>}
             ELSE IF ~researched /\ judged.outcome = "restructure"
             THEN {<<"repair", plan.reply>>, <<"silent", "fixed">>}
             ELSE IF ~researched /\ ~passive /\ Blocked
             THEN {<<"question", plan.reply>>, <<"silent", "fixed">>}
             ELSE {<<"draft", plan.reply>>, <<"question", plan.reply>>,
                   <<"clarification", "fixed">>, <<"silent", "fixed">>}

(* The end of process, whose deferred call cancels the early audit.        *)
Speak ==
  /\ pc.at = "speak"
  /\ \E s \in MaySay : End(s[1], s[2])
  /\ UNCHANGED <<turn, left, plan, route, available, failed, streamed, early, audits, judged>>

\* The deferred cancellation, however process ends.
Stops ==
  /\ pc.at = "done" /\ early # 0 /\ ~audits[early].cancelled
  /\ audits' = Cancelled(early)
  /\ UNCHANGED <<turn, left, pc, plan, route, available, failed, streamed, early, judged, said>>

AuditNext ==
  \/ Passes \/ Begin \/ RecoverFails \/ Planned \/ Unclear \/ Replanned \/ PreciseFails
  \/ Settled \/ ResearchReturns \/ OutOfScope \/ Audit \/ Awaited \/ Speak \/ Stops
  \/ \E p \in Plans : \/ Shows(p) \/ PlanReturns(p) \/ RecoverReturns(p) \/ ReplanReturns(p)
                      \/ PreciseReturns(p)
  \/ \E e \in Errors : PlanAgain(e) \/ PlanFails(e) \/ ReplanFails(e) \/ CriticFails(e)
  \/ \E outcome \in Outcomes : CriticReturns(outcome)
  \/ \E i \in DOMAIN audits : AuditEnds(i)

AuditSpec == AuditInit /\ [][AuditNext]_auditVars
-----------------------------------------------------------------------------
(* Properties. *)

FromModel == said.kind \in {"draft", "repair", "question"} /\ said.of # "fixed"

(* A model's words are spoken only after a critic was given those very     *)
(* words, with the thinking their plan asks for, and only as its outcome   *)
(* allows: whichever attempt, early audit or recovery they come from.      *)
(* Urgent words in a coach's turn are the exception (SpeaksOnlyAudited).   *)
SpokenIsAudited ==
  FromModel /\ ~(plan.urgent /\ plan.target = "restructure") =>
    /\ judged = [of |-> said.of, level |-> Level(plan, route), outcome |-> judged.outcome]
    /\ judged.outcome \in CASE said.kind = "draft" -> {"keep"} \cup
                                 IF plan.urgent THEN {"restructure"} ELSE {}
                            [] said.kind = "repair" -> {"restructure"}
                            [] OTHER -> Outcomes

(* docs/architecture.md:114 and :117, every final draft is audited by a    *)
(* call of its own, and a draft that was not is not spoken.                *)
SpeaksOnlyAudited == FromModel => judged.of = said.of

(* The time that is kept for inspection, synthesis and transport is there  *)
(* when the turn has a reply, however many calls it took; and no audit is  *)
(* left running that nobody will cancel.                                   *)
ReserveKept ==
  pc.at = "done" =>
    /\ said.kind # "error" /\ turn.deadline > Reserve => left >= Reserve
    /\ \A i \in DOMAIN audits : audits[i].running => audits[i].cancelled \/ i = early
=============================================================================
