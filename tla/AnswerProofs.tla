---------------------------- MODULE AnswerProofs ----------------------------
(***************************************************************************)
(* The calls of one answer, for any replies, any deadline and any timeouts: *)
(* a model's words are spoken only as a critic's assessment of those words *)
(* allows, and the time reserved for the end of the turn is kept.  The     *)
(* inductive invariant follows the audits that run ahead of the plan: one  *)
(* that may still be used had all of a critic's time and the thinking its  *)
(* reply asks for, and every other one is cancelled.  At the end, three of *)
(* the decisions the calls lead to, for every input: who is prompted, what *)
(* becomes of the belief about their answers, and what a repair may move.  *)
(***************************************************************************)
EXTENDS AnswerAudit, AnswerVerifiers, SequenceTheorems, FiniteSetTheorems, TLAPS

-----------------------------------------------------------------------------
Drafts == [reply : Replies \union {"fixed"}, target : Targets,
           risk : {"ordinary", "technical", "closed"}, research : BOOLEAN, urgent : BOOLEAN]
Results == {"none", "cancelled"} \union Outcomes \union Errors
Audits == [of : Drafts, limit : Nat, running : BOOLEAN, cancelled : BOOLEAN, result : Results]
Lists == Seq(Audits)
Places == [at : Calls \union Steps, limit : Nat]

AuditTyped ==
  /\ turn \in [mode : Modes, deadline : {Reserve, Horizon}] /\ left \in Nat /\ pc \in Places
  /\ plan \in Drafts /\ (plan.target = "awaiting" => ~plan.urgent)
  /\ audits \in Lists /\ early \in 0..Len(audits)

(* An audit that may still be used: of a reply that needed little thinking *)
(* of its critic, with all of a critic's time.  No other one runs.         *)
Usable(i) ==
  ~audits[i].cancelled => /\ audits[i].of.target = "assistant" /\ Level(audits[i].of, "fast") = "low"
                          /\ audits[i].limit + Critic >= left

AuditsKnown ==
  /\ \A i \in 1..Len(audits) : Usable(i) /\ (audits[i].running => audits[i].cancelled \/ i = early)
  /\ pc.at \notin {"criticAgain", "speak", "done"} /\ early # 0 => ~audits[early].cancelled
  /\ pc.at = "await" => CanConsume

(* Every call was given its time before the reserve.                       *)
InReserve ==
  turn.deadline > Reserve =>
    /\ left >= Reserve
    /\ pc.at \in Calls \ {"await"} => pc.limit >= Reserve
    /\ pc.at = "await" => audits[early].limit >= Reserve

(* When the turn is about to speak it has an assessment of its plan, unless *)
(* it has no verification, or asks its question.                           *)
JudgedOf(p) ==
  judged = [of |-> Audited(p), level |-> Level(p, route), outcome |-> judged.outcome]
  /\ judged.outcome \in Outcomes

Assessed ==
  /\ pc.at = "speak" /\ available => plan.target = "awaiting" \/ JudgedOf(plan)
  /\ pc.at # "done" => said.of = "fixed"
  /\ SpokenIsAudited

AuditInv == AuditTyped /\ AuditsKnown /\ InReserve /\ Assessed

-----------------------------------------------------------------------------
(* The times of the calls are numbers.                                     *)
LEMMA Bounds ==
  ASSUME AuditAssumption
  PROVE  /\ Horizon \in Nat /\ Sequence \in Nat /\ Precision \in Nat /\ Critic \in Nat
         /\ Research \in Nat /\ Reserve \in Nat
BY DEF AuditAssumption

(* What the planner returns is a draft.                                    *)
LEMMA PlansAreDrafts == \A p \in Plans : p \in Drafts /\ (p.target = "awaiting" => ~p.urgent)
BY DEF Plans, Drafts

(* So is the absence of one.                                               *)
LEMMA NoPlanIsDraft == NoPlan \in Drafts
BY DEF NoPlan, Drafts, Targets

(* An audit of the list.                                                   *)
LEMMA AuditIs ==
  ASSUME audits \in Lists, NEW i \in 1..Len(audits)
  PROVE  /\ audits[i] \in Audits /\ audits[i].limit \in Nat /\ audits[i].of \in Drafts
         /\ audits[i].running \in BOOLEAN /\ audits[i].cancelled \in BOOLEAN
<1>1. audits[i] \in Audits  BY DEF Lists
<1> QED  BY <1>1 DEF Audits

(* The list with one audit cancelled.                                      *)
LEMMA CancelledIs ==
  ASSUME audits \in Lists, NEW i \in 0..Len(audits)
  PROVE  /\ Cancelled(i) \in Lists /\ Len(Cancelled(i)) = Len(audits)
         /\ \A j \in 1..Len(audits) : j # i => Cancelled(i)[j] = audits[j]
         /\ i # 0 => Cancelled(i)[i].cancelled
<1>1. CASE i = 0  BY <1>1 DEF Cancelled
<1>2. CASE i # 0
  <2>1. i \in 1..Len(audits)  BY <1>2 DEF Lists
  <2> DEFINE x == [of |-> NoPlan, limit |-> 0, running |-> audits[i].running,
                   cancelled |-> TRUE, result |-> "cancelled"]
  <2>2. audits[i].running \in BOOLEAN  BY <2>1, AuditIs
  <2>3. x \in Audits /\ x.cancelled  BY <2>2, NoPlanIsDraft DEF Audits, Results
  <2>4. Cancelled(i) = [audits EXCEPT ![i] = x]  BY <1>2 DEF Cancelled
  <2> HIDE DEF x
  <2> QED  BY <2>1, <2>3, <2>4 DEF Lists
<1> QED  BY <1>1, <1>2

(* A plan whose reply is replaced by a fixed one.                          *)
LEMMA Redrafted ==
  ASSUME plan \in Drafts
  PROVE  /\ [plan EXCEPT !.reply = "fixed"] \in Drafts
         /\ [plan EXCEPT !.reply = "fixed"].target = plan.target
         /\ [plan EXCEPT !.reply = "fixed"].urgent = plan.urgent
         /\ [plan EXCEPT !.reply = "fixed", !.research = FALSE] \in Drafts
         /\ [plan EXCEPT !.reply = "fixed", !.research = FALSE].target = plan.target
         /\ [plan EXCEPT !.reply = "fixed", !.research = FALSE].urgent = plan.urgent
BY DEF Drafts

(* Audits stay or are cancelled; one that is forgotten is.                 *)
Withdraws ==
  /\ audits' \in Lists /\ Len(audits') = Len(audits) /\ early' \in {0, early}
  /\ \A i \in 1..Len(audits) : audits'[i] = audits[i] \/ audits'[i].cancelled
  /\ early' # early => audits'[early].cancelled

(* A step that leaves the audits withdraws none.                           *)
LEMMA WithdrawsNone ==
  ASSUME AuditTyped, UNCHANGED <<audits, early>>
  PROVE  Withdraws
BY DEF AuditTyped, Withdraws

(* A step that cancels the early audit withdraws it.                       *)
LEMMA WithdrawsEarly ==
  ASSUME AuditTyped, audits' = Cancelled(early), early' \in {0, early}
  PROVE  Withdraws
BY CancelledIs DEF AuditTyped, Withdraws

(* A step of the turn that lets no time pass.                              *)
LEMMA TurnSteps ==
  ASSUME AuditAssumption, AuditInv, Withdraws, UNCHANGED <<turn, left>>,
         pc' \in Places, plan' \in Drafts, plan'.target = "awaiting" => ~plan'.urgent,
         pc'.at = "await" => CanConsume' /\ left >= Critic + Reserve,
         pc'.at \notin {"criticAgain", "speak", "done"} /\ early' # 0 => ~audits'[early'].cancelled,
         turn.deadline > Reserve /\ pc'.at \in Calls \ {"await"} => pc'.limit >= Reserve,
         Assessed'
  PROVE  AuditInv'
<1> USE Bounds DEF AuditInv
<1>1. AuditTyped'  BY DEF AuditTyped, Withdraws
<1>2. AuditsKnown'
  <2>1. ASSUME NEW i \in 1..Len(audits)
        PROVE  Usable(i)' /\ (audits'[i].running => audits'[i].cancelled \/ i = early')
    BY DEF AuditsKnown, Usable, Withdraws
  <2> QED  BY <2>1 DEF AuditsKnown, Withdraws
<1>3. InReserve'
  <2>1. turn.deadline > Reserve => left >= Reserve  BY DEF InReserve
  <2>2. ASSUME pc'.at = "await"  PROVE audits'[early'].limit >= Reserve
    <3>1. early' \in 1..Len(audits') /\ ~audits'[early'].cancelled
      BY <2>2, <1>1 DEF CanConsume, AuditTyped
    <3>2. audits'[early'] \in Audits  BY <3>1, <1>1 DEF AuditTyped, Lists
    <3>3. audits'[early'].limit \in Nat  BY <3>2 DEF Audits
    <3>4. audits'[early'].limit + Critic >= left  BY <3>1, <1>2 DEF AuditsKnown, Usable
    <3> QED  BY <2>2, <3>3, <3>4 DEF AuditTyped
  <2> QED  BY <2>1, <2>2 DEF InReserve
<1> QED  BY <1>1, <1>2, <1>3

(* Nothing of a model's is said.                                           *)
LEMMA NothingSaid ==
  ASSUME AuditInv, pc'.at # "speak", said'.of = "fixed"
  PROVE  Assessed'
BY DEF Assessed, SpokenIsAudited, FromModel

(* Before the turn is over nothing of a model's has been said.             *)
LEMMA SaidFixed ==
  ASSUME AuditInv, pc.at # "done"
  PROVE  said.of = "fixed"
BY DEF AuditInv, Assessed

(* The time of a call ends before the reserve.                             *)
LEMMA CallTimes ==
  ASSUME AuditAssumption, AuditInv
  PROVE  /\ pc.limit \in Nat /\ 0 \in Nat
         /\ turn.deadline > Reserve /\ pc.at \in Calls \ {"await"} => pc.limit >= Reserve
         /\ \A m \in Nat : HasBudget => /\ left - Sooner(m, left - Reserve) \in Nat
                                        /\ left - Sooner(m, left - Reserve) >= Reserve
         /\ HasCriticTime => left - Critic \in Nat /\ left - Critic >= Reserve
         /\ left >= Precision + Critic + Reserve => left - Precision \in Nat /\ left - Precision >= Reserve
<1>1. left \in Nat /\ pc \in Places  BY DEF AuditInv, AuditTyped
<1>2. pc.limit \in Nat  BY <1>1 DEF Places
<1>3. turn.deadline > Reserve /\ pc.at \in Calls \ {"await"} => pc.limit >= Reserve
  BY DEF AuditInv, InReserve
<1>4. ASSUME NEW m \in Nat, HasBudget
      PROVE  left - Sooner(m, left - Reserve) \in Nat /\ left - Sooner(m, left - Reserve) >= Reserve
  BY <1>1, <1>4, Bounds DEF HasBudget, Sooner
<1>5. /\ HasCriticTime => left - Critic \in Nat /\ left - Critic >= Reserve
      /\ left >= Precision + Critic + Reserve => left - Precision \in Nat /\ left - Precision >= Reserve
  BY <1>1, Bounds DEF HasCriticTime
<1> QED  BY <1>2, <1>3, <1>4, <1>5

(* A call is given its time before the reserve.                            *)
LEMMA CallGoes ==
  ASSUME AuditAssumption, AuditInv, HasBudget, NEW s \in Calls, NEW m \in Nat, Call(s, m)
  PROVE  pc' \in Places /\ pc'.at = s /\ pc'.limit >= Reserve
BY CallTimes DEF Call, CallUntil, Places

(* Before the critic the turn makes calls, or ends with fixed words.       *)
Continues ==
  /\ pc' \in Places /\ pc'.at \notin {"await", "speak", "criticAgain"}
  /\ pc.at \notin {"criticAgain", "speak", "done"} /\ said'.of = "fixed"
  /\ turn.deadline > Reserve /\ pc'.at \in Calls => pc'.limit >= Reserve
  /\ plan' \in Drafts /\ (plan'.target = "awaiting" => ~plan'.urgent)
  /\ UNCHANGED <<turn, left, audits, early>>

(* A step that continues keeps the invariant.                              *)
LEMMA ContinuesHolds ==
  ASSUME AuditAssumption, AuditInv, Continues
  PROVE  AuditInv'
<1>1. Withdraws  BY WithdrawsNone DEF AuditInv, Continues
<1>2. Assessed'  BY NothingSaid DEF Continues
<1> QED  BY <1>1, <1>2, TurnSteps DEF Continues, AuditInv, AuditsKnown

(* The steps between the calls continue.                                   *)
LEMMA PlanContinues ==
  ASSUME AuditAssumption, AuditInv,
         \/ Begin \/ Planned \/ Replanned \/ Unclear \/ OutOfScope \/ RecoverFails \/ PreciseFails
  PROVE  Continues
<1> USE Bounds, CallTimes, CallGoes, SaidFixed
        DEF AuditInv, AuditTyped, Continues, At, End, Fixed, CallUntil, WithoutPrecision,
            Calls, Steps, Places
<1>1. CASE Begin
  <2>1. CASE HasBudget
    <3>1. pc' \in Places /\ pc'.at = "plan" /\ pc'.limit >= Reserve
      BY <1>1, <2>1, CallGoes DEF Begin
    <3> QED  BY <1>1, <2>1, <3>1 DEF Begin
  <2>2. CASE ~HasBudget  BY SMTT(30), <1>1, <2>2 DEF Begin
  <2> QED  BY <2>1, <2>2
<1>2. CASE Planned
  <2>1. CASE HasBudget /\ pc'.at # "replanned"
    <3>1. /\ Call("replan", Sequence) /\ pc.at = "planned"
          /\ UNCHANGED <<said, turn, left, plan, audits, early>>
      BY <1>2, <2>1 DEF Planned
    <3>2. pc' \in Places /\ pc'.at = "replan" /\ pc'.limit >= Reserve
      BY <2>1, <3>1, CallGoes
    <3> QED  BY <3>1, <3>2
  <2>2. CASE ~(HasBudget /\ pc'.at # "replanned")  BY SMTT(30), <1>2, <2>2 DEF Planned
  <2> QED  BY <2>1, <2>2
<1>3. CASE Replanned  BY SMTT(30), <1>3 DEF Replanned
<1>4. CASE Unclear  BY <1>4 DEF Unclear
<1>5. CASE OutOfScope  BY <1>5 DEF OutOfScope
<1>6. CASE RecoverFails  BY <1>6 DEF RecoverFails
<1>7. CASE PreciseFails  BY SMTT(30), <1>7 DEF PreciseFails
<1> QED  BY <1>1, <1>2, <1>3, <1>4, <1>5, <1>6, <1>7

(* So does a planner's answer.                                             *)
LEMMA ModelContinues ==
  ASSUME AuditAssumption, AuditInv, NEW p \in Plans,
         PlanReturns(p) \/ RecoverReturns(p) \/ ReplanReturns(p) \/ PreciseReturns(p)
  PROVE  Continues
<1> USE CallTimes, PlansAreDrafts, SaidFixed
        DEF AuditInv, AuditTyped, Continues, At, End, Fixed, Calls, Steps, Places
<1>1. CASE PlanReturns(p)  BY <1>1 DEF PlanReturns
<1>2. CASE RecoverReturns(p)  BY <1>2 DEF RecoverReturns
<1>3. CASE ReplanReturns(p)  BY <1>3 DEF ReplanReturns
<1>4. CASE PreciseReturns(p)  BY <1>4 DEF PreciseReturns
<1> QED  BY <1>1, <1>2, <1>3, <1>4

(* So does a planner's failure.                                            *)
LEMMA FailureContinues ==
  ASSUME AuditAssumption, AuditInv, NEW e \in Errors, PlanFails(e) \/ ReplanFails(e)
  PROVE  Continues
<1> USE CallTimes, SaidFixed
        DEF AuditInv, AuditTyped, Continues, At, End, Fixed, CallUntil, Calls, Steps, Places
<1>1. CASE PlanFails(e)  BY <1>1 DEF PlanFails
<1>2. CASE ReplanFails(e)  BY <1>2 DEF ReplanFails
<1> QED  BY <1>1, <1>2

(* So does the research.                                                   *)
LEMMA ResearchContinues ==
  ASSUME AuditAssumption, AuditInv, Settled \/ ResearchReturns
  PROVE  Continues
<1>1. plan' \in Drafts /\ (plan'.target = "awaiting" => ~plan'.urgent)
  BY Redrafted DEF Settled, ResearchReturns, Unanswered, AuditInv, AuditTyped
<1>2. /\ pc' \in Places /\ pc'.at \in {"audit", "done", "research"}
      /\ pc.at \in {"settled", "research"} /\ said'.of = "fixed"
      /\ pc'.at \in Calls => pc'.limit >= Reserve
  BY CallTimes, Bounds, SaidFixed, CallGoes
  DEF Settled, ResearchReturns, Unanswered, At, End, Fixed, Calls, Steps, Places
<1>3. UNCHANGED <<turn, left, audits, early>>
  BY DEF Settled, ResearchReturns
<1> QED  BY <1>1, <1>2, <1>3 DEF Continues

(* A second attempt forgets the audit of the first one's reply.            *)
LEMMA AgainHolds ==
  ASSUME AuditAssumption, AuditInv, NEW e \in Errors, PlanAgain(e)
  PROVE  AuditInv'
<1>1. Withdraws  BY WithdrawsEarly DEF PlanAgain, AuditInv
<1>2. Assessed'  BY NothingSaid, SaidFixed DEF PlanAgain, CallUntil
<1>3. pc' \in Places /\ pc'.at = "planAgain" /\ (turn.deadline > Reserve => pc'.limit >= Reserve)
  BY CallTimes DEF PlanAgain, CallUntil, Places, Calls
<1> QED  BY <1>1, <1>2, <1>3, TurnSteps DEF PlanAgain, AuditInv, AuditTyped

(* The audit that is begun: of a reply that needs little thinking.         *)
LEMMA ShowsHolds ==
  ASSUME AuditAssumption, AuditInv, NEW p \in Plans, Shows(p)
  PROVE  AuditInv'
<1> USE DEF AuditInv
<1>1. /\ pc.at \in {"plan", "planAgain"} /\ UNCHANGED <<turn, left, pc, plan, route, available, judged, said>>
  BY DEF Shows
<1>2. Assessed'  BY <1>1, NothingSaid, SaidFixed
<1>3. CASE UNCHANGED <<audits, early>>
  BY <1>1, <1>2, <1>3, TurnSteps, WithdrawsNone DEF AuditsKnown, InReserve, AuditTyped
<1>4. CASE ~UNCHANGED <<audits, early>>
  <2> DEFINE a == [of |-> p, limit |-> left - Sooner(Critic, left),
                   running |-> TRUE, cancelled |-> FALSE, result |-> "none"]
  <2>1. early = 0 /\ MayOverlap(p) /\ audits' = Append(audits, a) /\ early' = Len(audits')
    BY <1>4 DEF Shows
  <2>2. left - Sooner(Critic, left) \in Nat /\ left - Sooner(Critic, left) + Critic >= left
    BY Bounds DEF AuditTyped, Sooner
  <2>3. a \in Audits  BY <2>2, PlansAreDrafts DEF Audits, Results
  <2>4. a.of = p /\ a.limit + Critic >= left /\ ~a.cancelled  BY <2>2
  <2> HIDE DEF a
  <2>5. /\ audits' \in Lists /\ Len(audits') = Len(audits) + 1 /\ audits'[early'] = a
        /\ Len(audits) \in Nat
        /\ \A i \in 1..Len(audits) : audits'[i] = audits[i]
    BY <2>1, <2>3 DEF AuditTyped, Lists
  <2>6. p.target = "assistant" /\ Level(p, "fast") = "low"  BY <2>1 DEF MayOverlap
  <2>7. AuditTyped'  BY <1>1, <2>1, <2>5 DEF AuditTyped
  <2>8. AuditsKnown'
    <3>1. ASSUME NEW i \in 1..Len(audits')
          PROVE  Usable(i)' /\ (audits'[i].running => audits'[i].cancelled \/ i = early')
      <4>1. CASE i = early'  BY <4>1, <1>1, <2>4, <2>5, <2>6 DEF Usable
      <4>2. CASE i # early'
        <5>1. i \in 1..Len(audits)  BY <4>2, <2>1, <2>5
        <5>2. i # early  BY <5>1, <2>1
        <5> QED  BY <5>1, <5>2, <1>1, <2>5 DEF AuditsKnown, Usable
      <4> QED  BY <4>1, <4>2
    <3> QED  BY <3>1, <1>1, <2>4, <2>5 DEF AuditsKnown
  <2>9. InReserve'  BY <1>1 DEF InReserve
  <2> QED  BY <2>7, <2>8, <2>9, <1>2
<1> QED  BY <1>3, <1>4

(* An audit ends, with an outcome or without one.                          *)
LEMMA AuditEndsHolds ==
  ASSUME AuditAssumption, AuditInv, NEW i \in DOMAIN audits, AuditEnds(i)
  PROVE  AuditInv'
<1> USE DEF AuditInv
<1>1. i \in 1..Len(audits)  BY DEF AuditTyped, Lists
<1>2. PICK result : /\ result \in Results
                    /\ audits' = [audits EXCEPT ![i].running = FALSE, ![i].result = result]
  <2>1. PICK result \in IF audits[i].cancelled THEN {"cancelled"}
                         ELSE IF left = audits[i].limit THEN {"transient"} ELSE Outcomes \union Errors :
             audits' = [audits EXCEPT ![i].running = FALSE, ![i].result = result]
    BY DEF AuditEnds
  <2>2. result \in Results  BY <2>1 DEF Results, Errors
  <2> QED  BY <2>1, <2>2
<1> DEFINE a == [audits[i] EXCEPT !.running = FALSE, !.result = result]
<1>3. audits[i] \in Audits  BY <1>1, AuditIs DEF AuditTyped
<1>4. /\ a \in Audits /\ a.of = audits[i].of /\ a.limit = audits[i].limit
      /\ a.cancelled = audits[i].cancelled /\ a.running = FALSE
  BY <1>2, <1>3 DEF Audits
<1>5. audits' = [audits EXCEPT ![i] = a]  BY <1>1, <1>2 DEF AuditTyped, Lists
<1> HIDE DEF a
<1>6. /\ audits' \in Lists /\ Len(audits') = Len(audits) /\ audits'[i] = a
      /\ \A j \in 1..Len(audits) : j # i => audits'[j] = audits[j]
  BY <1>1, <1>4, <1>5 DEF AuditTyped, Lists
<1>7. UNCHANGED <<turn, left, pc, plan, route, available, early, judged, said>>
  BY DEF AuditEnds
<1>8. AuditTyped'  BY <1>6, <1>7 DEF AuditTyped
<1>9. \A j \in 1..Len(audits) : /\ audits'[j].of = audits[j].of /\ audits'[j].limit = audits[j].limit
                                /\ audits'[j].cancelled = audits[j].cancelled
                                /\ audits'[j].running => audits[j].running
  BY <1>4, <1>6
<1>10. early # 0 => early \in 1..Len(audits)  BY DEF AuditTyped
<1>11. AuditsKnown'
  <2>1. pc.at = "await" => CanConsume'
    BY <1>7, <1>9, <1>10 DEF AuditsKnown, CanConsume, Level, FailClosed
  <2> QED  BY <1>6, <1>7, <1>9, <1>10, <2>1 DEF AuditsKnown, Usable
<1>12. InReserve'
  <2>1. pc.at = "await" => early \in 1..Len(audits)  BY <1>10 DEF AuditsKnown, CanConsume
  <2> QED  BY <1>7, <1>9, <2>1 DEF InReserve
<1>13. Assessed'
  BY <1>7 DEF Assessed, JudgedOf, SpokenIsAudited, FromModel, Level, FailClosed, Audited
<1> QED  BY <1>8, <1>11, <1>12, <1>13

(* Time passes only where every call, and the audit awaited, has some.     *)
LEMMA TimePasses ==
  ASSUME AuditAssumption, AuditInv, Passes
  PROVE  AuditInv'
<1> USE Bounds DEF AuditInv
<1>1. /\ UNCHANGED <<turn, pc, plan, route, available, early, audits, judged, said>>
      /\ left' = left - 1 /\ left > 0 /\ pc.at \in Calls /\ left \in Nat /\ left' \in Nat
  BY DEF Passes, AuditTyped
<1>2. AuditTyped'  BY <1>1 DEF AuditTyped
<1>3. AuditsKnown'
  <2>1. \A i \in 1..Len(audits) : audits[i].limit \in Nat  BY AuditIs DEF AuditTyped
  <2>2. pc.at = "await" => CanConsume'
    BY <1>1 DEF AuditsKnown, CanConsume, Level, FailClosed
  <2> QED  BY <1>1, <2>1, <2>2 DEF AuditsKnown, Usable
<1>4. InReserve'
  <2>1. ASSUME turn.deadline > Reserve  PROVE left' >= Reserve
    <3>1. CASE pc.at = "await"
      <4>1. early \in 1..Len(audits) /\ audits[early].running
        BY <3>1 DEF Passes, AuditsKnown, CanConsume, AuditTyped
      <4>2. audits[early].limit \in Nat /\ left > audits[early].limit
        BY <4>1, AuditIs DEF Passes, AuditTyped, Lists
      <4>3. audits[early].limit >= Reserve  BY <2>1, <3>1 DEF InReserve
      <4> QED  BY <4>2, <4>3, <1>1
    <3>2. CASE pc.at # "await"
      <4>1. pc.limit >= Reserve /\ left > pc.limit /\ pc.limit \in Nat
        BY <2>1, <3>2, <1>1, CallTimes DEF Passes
      <4> QED  BY <4>1, <1>1
    <3> QED  BY <3>1, <3>2
  <2> QED  BY <2>1, <1>1 DEF InReserve
<1>5. Assessed'  BY <1>1, NothingSaid, SaidFixed DEF Calls
<1> QED  BY <1>2, <1>3, <1>4, <1>5

(* The assessment a critic gives is of what the turn goes on with: of its  *)
(* plan, or of an early one that says the same and needs no more thinking. *)
LEMMA ConsumesOwn ==
  ASSUME AuditInv, CanConsume
  PROVE  /\ early \in 1..Len(audits) /\ plan.target = "assistant"
         /\ Audited(audits[early].of) = Audited(plan)
         /\ pc.at \notin {"criticAgain", "speak", "done"} =>
              Level(audits[early].of, route) = Level(plan, route)
<1>1. early \in 1..Len(audits)  BY DEF AuditInv, AuditTyped, CanConsume
<1>2. /\ audits[early].of.target = plan.target /\ audits[early].of.reply = plan.reply
      /\ plan.target = "assistant" /\ route = "fast" /\ Level(plan, route) = "low"
  BY DEF CanConsume
<1>3. pc.at \notin {"criticAgain", "speak", "done"} => Level(audits[early].of, "fast") = "low"
  BY <1>1 DEF AuditInv, AuditsKnown, Usable
<1> QED  BY <1>1, <1>2, <1>3 DEF Audited

(* The turn goes on to speak, with an assessment or without verification.  *)
LEMMA SpeaksNext ==
  ASSUME AuditAssumption, AuditInv, Withdraws, UNCHANGED <<turn, left, plan, route, said>>,
         pc.at # "done", At("speak"), available' => plan.target = "awaiting" \/ JudgedOf(plan)'
  PROVE  AuditInv'
<1>1. pc' \in Places /\ pc'.at = "speak"  BY CallTimes DEF At, Places, Steps
<1>2. Assessed'
  BY <1>1, SaidFixed DEF Assessed, SpokenIsAudited, FromModel, JudgedOf
<1> QED  BY <1>1, <1>2, TurnSteps DEF AuditInv, AuditTyped, Calls

(* The turn ends with fixed words, or calls a critic again.                *)
LEMMA EndsFixed ==
  ASSUME AuditAssumption, AuditInv, Withdraws, UNCHANGED <<turn, left, plan>>,
         NEW kind, End(kind, "fixed")
  PROVE  AuditInv'
<1>1. pc' \in Places /\ pc'.at = "done" /\ said'.of = "fixed"
  BY CallTimes DEF End, At, Places, Steps
<1>2. Assessed'  BY <1>1, NothingSaid
<1> QED  BY <1>1, <1>2, TurnSteps DEF AuditInv, AuditTyped, Calls

(* The critic gave no outcome: it is asked again, or the turn speaks       *)
(* without a model's words.                                                *)
LEMMA CriticFailedHolds ==
  ASSUME AuditAssumption, AuditInv, Withdraws, UNCHANGED <<turn, left, plan, route, early>>,
         pc.at \in {"await", "critic", "criticAgain"}, NEW e, CriticFailed(e)
  PROVE  AuditInv'
<1>1. CASE e = "transient" /\ Level(plan, route) = "low" /\ pc.at # "criticAgain" /\ HasCriticTime
  <2>1. pc' = [at |-> "criticAgain", limit |-> left - Critic] /\ UNCHANGED said
    BY <1>1 DEF CriticFailed, CallUntil
  <2>2. pc' \in Places /\ pc'.at = "criticAgain" /\ pc'.limit >= Reserve
    BY <1>1, <2>1, CallTimes DEF Places, Calls
  <2>3. Assessed'  BY <2>1, <2>2, NothingSaid, SaidFixed
  <2> QED  BY <2>2, <2>3, TurnSteps DEF AuditInv, AuditTyped
<1>2. CASE ~(e = "transient" /\ Level(plan, route) = "low" /\ pc.at # "criticAgain" /\ HasCriticTime)
  <2>1. CASE left = 0  BY <1>2, <2>1, EndsFixed DEF CriticFailed
  <2>2. CASE left # 0  BY <1>2, <2>2, SpeaksNext DEF CriticFailed
  <2> QED  BY <2>1, <2>2
<1> QED  BY <1>1, <1>2

(* The critic returned or failed.                                          *)
LEMMA CriticHolds ==
  ASSUME AuditAssumption, AuditInv,
         \/ \E e \in Errors : CriticFails(e)
         \/ \E outcome \in Outcomes : CriticReturns(outcome)
  PROVE  AuditInv'
<1>1. Withdraws
  BY WithdrawsNone DEF AuditInv, CriticFails, CriticReturns
<1>2. ASSUME NEW e \in Errors, CriticFails(e)  PROVE AuditInv'
  BY <1>1, <1>2, CriticFailedHolds DEF CriticFails
<1>3. ASSUME NEW outcome \in Outcomes, CriticReturns(outcome)  PROVE AuditInv'
  <2>1. JudgedOf(plan)'
    BY <1>3 DEF CriticReturns, Judges, JudgedOf, Level, FailClosed, Audited
  <2> QED  BY <1>1, <1>3, <2>1, SpeaksNext DEF CriticReturns
<1> QED  BY <1>2, <1>3

(* The early audit's outcome is taken.                                     *)
LEMMA AwaitedHolds ==
  ASSUME AuditAssumption, AuditInv, Awaited
  PROVE  AuditInv'
<1>1. Withdraws /\ UNCHANGED <<turn, left, plan, route, early>> /\ pc.at = "await"
  BY WithdrawsEarly DEF AuditInv, Awaited
<1>2. CASE audits[early].result \in Outcomes
  <2>1. CanConsume  BY <1>1 DEF AuditInv, AuditsKnown
  <2>2. judged' = [of |-> Audited(plan), level |-> Level(plan, route), outcome |-> audits[early].result]
    BY <1>1, <1>2, <2>1, ConsumesOwn DEF Awaited, Judges
  <2>3. JudgedOf(plan)'
    BY <1>1, <1>2, <2>2 DEF JudgedOf, Level, FailClosed, Audited
  <2> QED  BY <1>1, <1>2, <2>3, SpeaksNext DEF Awaited
<1>3. CASE audits[early].result \notin Outcomes
  BY <1>1, <1>3, CriticFailedHolds DEF Awaited
<1> QED  BY <1>2, <1>3

(* The plan goes to the critic, or the early audit of it is awaited.       *)
LEMMA AuditHolds ==
  ASSUME AuditAssumption, AuditInv, Audit
  PROVE  AuditInv'
<1> USE DEF Audit
<1>1. pc.at = "audit" /\ UNCHANGED <<turn, left, plan, route>>  OBVIOUS
<1>2. CASE plan.target = "awaiting"
  BY <1>1, <1>2, WithdrawsNone, SpeaksNext DEF AuditInv
<1>3. CASE plan.target # "awaiting" /\ ~available
  BY <1>1, <1>3, WithdrawsNone, SpeaksNext DEF AuditInv
<1>4. CASE plan.target # "awaiting" /\ available /\ Ready
  <2>1. /\ Judges(audits[early].result, audits[early].of) /\ At("speak")
        /\ audits' = Cancelled(early) /\ UNCHANGED <<early, said>>
    BY <1>4
  <2>2. CanConsume /\ audits[early].result \in Outcomes  BY <1>4 DEF Ready
  <2>3. judged' = [of |-> Audited(plan), level |-> Level(plan, route), outcome |-> audits[early].result]
    BY <1>1, <2>1, <2>2, ConsumesOwn DEF Judges
  <2>4. JudgedOf(plan)'  BY <1>1, <2>2, <2>3 DEF JudgedOf, Level, FailClosed, Audited
  <2> QED  BY <1>1, <2>1, <2>4, WithdrawsEarly, SpeaksNext DEF AuditInv
<1>5. CASE plan.target # "awaiting" /\ available /\ ~Ready /\ ~HasCriticTime
  <2>1. Withdraws  BY <1>5, WithdrawsNone DEF AuditInv
  <2>2. CASE left = 0  BY <1>1, <1>5, <2>1, <2>2, EndsFixed
  <2>3. CASE left # 0  BY <1>1, <1>5, <2>1, <2>3, SpeaksNext
  <2> QED  BY <2>2, <2>3
<1>6. CASE plan.target # "awaiting" /\ available /\ ~Ready /\ HasCriticTime /\ CanConsume
  <2>1. At("await") /\ UNCHANGED <<available, early, audits, judged, said>>  BY <1>6
  <2>2. pc' \in Places /\ pc'.at = "await"  BY <2>1, CallTimes DEF At, Places, Calls
  <2>3. CanConsume'  BY <1>1, <1>6, <2>1 DEF CanConsume, Level, FailClosed
  <2>4. left >= Critic + Reserve  BY <1>6 DEF HasCriticTime
  <2>5. Withdraws  BY <2>1, WithdrawsNone DEF AuditInv
  <2>6. Assessed'  BY <1>1, <2>1, <2>2, NothingSaid, SaidFixed
  <2> QED  BY <1>1, <2>1, <2>2, <2>3, <2>4, <2>5, <2>6, TurnSteps DEF AuditInv, AuditTyped, AuditsKnown
<1>7. CASE plan.target # "awaiting" /\ available /\ ~Ready /\ HasCriticTime /\ ~CanConsume
  <2>1. /\ CallUntil("critic", left - Critic) /\ audits' = Cancelled(early) /\ early' = 0
        /\ UNCHANGED said
    BY <1>7
  <2>2. pc' \in Places /\ pc'.at = "critic" /\ pc'.limit >= Reserve
    BY <1>7, <2>1, CallTimes DEF CallUntil, Places, Calls
  <2>3. Withdraws  BY <2>1, WithdrawsEarly DEF AuditInv
  <2>4. Assessed'  BY <1>1, <2>1, <2>2, NothingSaid, SaidFixed
  <2> QED  BY <1>1, <2>1, <2>2, <2>3, <2>4, TurnSteps DEF AuditInv, AuditTyped
<1> QED  BY <1>2, <1>3, <1>4, <1>5, <1>6, <1>7

(* The turn is cancelled.                                                  *)
LEMMA StopsHolds ==
  ASSUME AuditAssumption, AuditInv, Stops
  PROVE  AuditInv'
<1>1. Withdraws  BY WithdrawsEarly DEF AuditInv, Stops
<1>2. Assessed'
  BY DEF Stops, AuditInv, Assessed, JudgedOf, SpokenIsAudited, FromModel, Level, FailClosed
<1> QED  BY <1>1, <1>2, TurnSteps DEF Stops, AuditInv, AuditTyped, Calls

(* What is spoken is fixed, or is what the assessment allows of the plan.  *)
LEMMA SpokenIs ==
  ASSUME AuditInv, pc.at = "speak", NEW s \in MaySay, s[2] # "fixed", s[1] \in {"draft", "repair", "question"},
         ~(plan.urgent /\ plan.target = "restructure")
  PROVE  /\ available /\ plan.target = "assistant" /\ s[2] = plan.reply /\ s[2] = Audited(plan)
         /\ s[1] = "draft" => judged.outcome \in {"keep"} \union (IF plan.urgent THEN {"restructure"} ELSE {})
         /\ s[1] = "repair" => judged.outcome = "restructure"
<1> USE DEF AuditInv, AuditTyped, Assessed
<1>1. plan.target \in Targets /\ (plan.target = "awaiting" => ~plan.urgent)  BY DEF Drafts
<1>2. CASE plan.urgent
  <2>1. available /\ ~Blocked /\ s = <<"draft", plan.reply>>  BY <1>2 DEF MaySay
  <2>2. plan.target = "assistant"  BY <1>1, <1>2 DEF Targets
  <2>3. judged.outcome \in {"keep", "restructure"}
    BY <2>1, <2>2 DEF JudgedOf, Blocked, Outcomes
  <2> QED  BY <1>2, <2>1, <2>2, <2>3 DEF Audited
<1>3. CASE ~plan.urgent
  <2>1. available /\ plan.target = "assistant"  BY <1>3 DEF MaySay
  <2>2. judged.outcome \in Outcomes  BY <2>1 DEF JudgedOf
  <2>3. /\ s[2] = plan.reply
        /\ s[1] = "draft" => judged.outcome = "keep"
        /\ s[1] = "repair" => judged.outcome = "restructure"
    BY <1>3, <2>1, <2>2 DEF MaySay, Blocked, Outcomes
  <2> QED  BY <1>3, <2>1, <2>3 DEF Audited
<1> QED  BY <1>2, <1>3

(* The turn speaks.                                                        *)
LEMMA SpeakHolds ==
  ASSUME AuditAssumption, AuditInv, Speak
  PROVE  AuditInv'
<1> USE DEF AuditInv
<1>1. /\ pc.at = "speak"
      /\ UNCHANGED <<turn, left, plan, route, available, failed, streamed, early, audits, judged>>
  BY DEF Speak
<1>2. PICK s \in MaySay : End(s[1], s[2])  BY DEF Speak
<1>3. said' = [kind |-> s[1], of |-> s[2]] /\ pc' \in Places /\ pc'.at = "done"
  BY <1>2, CallTimes DEF End, At, Places, Steps
<1>4. ASSUME FromModel', ~(plan.urgent /\ plan.target = "restructure")
      PROVE  /\ judged = [of |-> s[2], level |-> Level(plan, route), outcome |-> judged.outcome]
             /\ judged.outcome \in Outcomes
             /\ s[1] = "draft" => judged.outcome \in {"keep"} \union (IF plan.urgent THEN {"restructure"} ELSE {})
             /\ s[1] = "repair" => judged.outcome = "restructure"
  <2>1. s[2] # "fixed" /\ s[1] \in {"draft", "repair", "question"}  BY <1>3, <1>4 DEF FromModel
  <2>2. available /\ plan.target = "assistant" /\ s[2] = Audited(plan)  BY <1>1, <1>2, <1>4, <2>1, SpokenIs
  <2>3. JudgedOf(plan)  BY <1>1, <2>2 DEF Assessed
  <2> QED  BY <1>1, <1>2, <1>4, <2>1, <2>2, <2>3, SpokenIs DEF JudgedOf
<1>5. SpokenIsAudited'
  <2> SUFFICES ASSUME FromModel', ~(plan'.urgent /\ plan'.target = "restructure")
               PROVE  /\ judged' = [of |-> said'.of, level |-> Level(plan, route)', outcome |-> judged'.outcome]
                      /\ judged'.outcome \in CASE said'.kind = "draft" -> {"keep"} \union
                                                      IF plan'.urgent THEN {"restructure"} ELSE {}
                                               [] said'.kind = "repair" -> {"restructure"}
                                               [] OTHER -> Outcomes
    BY DEF SpokenIsAudited
  <2>1. Level(plan, route)' = Level(plan, route)  BY <1>1 DEF Level, FailClosed
  <2> QED  BY <1>1, <1>3, <1>4, <2>1
<1>6. Assessed'  BY <1>3, <1>5 DEF Assessed
<1> QED  BY <1>1, <1>3, <1>6, WithdrawsNone, TurnSteps DEF AuditTyped, Calls

(* The invariant holds when the turn begins.                               *)
LEMMA AuditStarts == ASSUME AuditAssumption, AuditInit PROVE AuditInv
<1> USE Bounds DEF AuditInit
<1>1. AuditTyped
  <2>1. plan \in Drafts /\ plan.target = "assistant"  BY NoPlanIsDraft DEF NoPlan
  <2>2. audits \in Lists /\ Len(audits) = 0  BY DEF Lists
  <2>3. pc \in Places  BY DEF Places, Steps
  <2>4. left \in Nat  OBVIOUS
  <2> QED  BY <2>1, <2>2, <2>3, <2>4 DEF AuditTyped
<1>2. AuditsKnown /\ InReserve  BY DEF AuditsKnown, InReserve, Calls
<1>3. Assessed  BY DEF Assessed, SpokenIsAudited, FromModel
<1> QED  BY <1>1, <1>2, <1>3 DEF AuditInv

(* Every step of the turn and of its audits keeps it.                      *)
LEMMA AuditInvHolds ==
  ASSUME AuditAssumption
  PROVE  AuditInv /\ [AuditNext]_auditVars => AuditInv'
<1> SUFFICES ASSUME AuditInv, [AuditNext]_auditVars  PROVE AuditInv'  OBVIOUS
<1>1. CASE UNCHANGED auditVars
  BY <1>1
  DEF auditVars, AuditInv, AuditTyped, AuditsKnown, Usable, CanConsume, InReserve, Assessed,
      JudgedOf, SpokenIsAudited, FromModel, Level, FailClosed, Audited
<1>2. ASSUME \/ Begin \/ Planned \/ Replanned \/ Unclear \/ OutOfScope \/ RecoverFails \/ PreciseFails
             \/ Settled \/ ResearchReturns
      PROVE  AuditInv'
  BY <1>2, PlanContinues, ResearchContinues, ContinuesHolds
<1>3. ASSUME NEW p \in Plans,
             Shows(p) \/ PlanReturns(p) \/ RecoverReturns(p) \/ ReplanReturns(p) \/ PreciseReturns(p)
      PROVE  AuditInv'
  BY <1>3, ShowsHolds, ModelContinues, ContinuesHolds
<1>4. ASSUME NEW e \in Errors, PlanAgain(e) \/ PlanFails(e) \/ ReplanFails(e) \/ CriticFails(e)
      PROVE  AuditInv'
  BY <1>4, AgainHolds, FailureContinues, ContinuesHolds, CriticHolds
<1>5. ASSUME \E outcome \in Outcomes : CriticReturns(outcome)  PROVE AuditInv'
  BY <1>5, CriticHolds
<1>6. ASSUME \E i \in DOMAIN audits : AuditEnds(i)  PROVE AuditInv'
  BY <1>6, AuditEndsHolds
<1>7. ASSUME Passes \/ Audit \/ Awaited \/ Speak \/ Stops  PROVE AuditInv'
  BY <1>7, TimePasses, AuditHolds, AwaitedHolds, SpeakHolds, StopsHolds
<1> QED  BY <1>1, <1>2, <1>3, <1>4, <1>5, <1>6, <1>7 DEF AuditNext

(* A model's words are spoken only after a critic was given those very     *)
(* words, with the thinking their plan asks for, and only as its outcome   *)
(* allows: for any replies, any deadline and any timeouts of the calls.    *)
THEOREM SpokenIsAuditedAlways ==
  ASSUME AuditAssumption
  PROVE  AuditSpec => []SpokenIsAudited
<1>1. AuditInit => AuditInv  BY AuditStarts
<1>2. AuditInv /\ [AuditNext]_auditVars => AuditInv'  BY AuditInvHolds
<1>3. AuditInv => SpokenIsAudited  BY DEF AuditInv, Assessed
<1> QED  BY <1>1, <1>2, <1>3, PTL DEF AuditSpec

(* The time kept for the end of the turn is there when it has a reply, and *)
(* no audit runs on that nobody will cancel.                               *)
THEOREM ReserveKeptAlways ==
  ASSUME AuditAssumption
  PROVE  AuditSpec => []ReserveKept
<1>1. AuditInit => AuditInv  BY AuditStarts
<1>2. AuditInv /\ [AuditNext]_auditVars => AuditInv'  BY AuditInvHolds
<1>3. AuditInv => ReserveKept
  <2> SUFFICES ASSUME AuditInv  PROVE ReserveKept  OBVIOUS
  <2>1. DOMAIN audits = 1..Len(audits)  BY DEF AuditInv, AuditTyped, Lists
  <2> QED  BY <2>1 DEF AuditInv, AuditsKnown, InReserve, ReserveKept
<1> QED  BY <1>1, <1>2, <1>3, PTL DEF AuditSpec
-----------------------------------------------------------------------------
(* What the calls lead to: the decisions of the verifier-progress policy,  *)
(* and the repair of an answer.                                            *)
LEMMA DecisionIs ==
  ASSUME NEW phase, NEW action, NEW words, NEW attempts
  PROVE  LET d == Decision(phase, action, words, attempts)
         IN  /\ d.phase = phase /\ d.action = action /\ d.reply = words
             /\ d.attempts = attempts /\ ~d.first
BY DEF Decision

LEMMA ReleaseIs ==
  ASSUME NEW attempts
  PROVE  LET d == ReleaseDecision(attempts)
         IN  d.action = "release" /\ d.attempts = attempts /\ ~d.first
BY DEF Decision, ReleaseDecision

LEMMA CompletedIs ==
  ASSUME NEW words, NEW attempts, NEW first
  PROVE  LET d == Completed(words, attempts, first)
         IN  d.action = "complete" /\ d.attempts = attempts /\ d.first = first
BY DEF Decision, Completed

LEMMA PromptIs ==
  ASSUME NEW phase, NEW attempts
  PROVE  LET d == Prompt(phase, attempts)
         IN  d.attempts = attempts /\ ~d.first
<1>1. \E p, a, w : Prompt(phase, attempts) = Decision(p, a, w, attempts)
  BY Zenon DEF Prompt
<1> QED  BY <1>1, DecisionIs

(* A prompt is allowed once, to a person who hesitates none, and a scope   *)
(* is completed as a first answer when both verifiers heard one.           *)
LEMMA EvidenceIs ==
  ASSUME NEW o
  PROVE  LET e == EvidenceOf(o)
         IN  /\ o.hesitation => e = "hesitation"
             /\ e = "first" => o.gate = "first" /\ o.critic = "first" /\ o.available
BY DEF EvidenceOf

LEMMA AllowedIs ==
  ASSUME NEW o, NEW a \in AllowedActions(o)
  PROVE  /\ a \in {"release", "complete", "wait", "restate", "elicit"}
         /\ a \in {"elicit", "restate"} => ~(o.attempts >= 1)
         /\ o.hesitation /\ o.gate # "rejected" => a = "wait"
<1> DEFINE e == EvidenceOf(o)
<1>1. o.hesitation => e = "hesitation"  BY EvidenceIs
<1> HIDE DEF e
<1>2. \/ a \in {"release", "complete", "wait"}
      \/ ~(o.attempts >= 1) /\ a \in {"wait", "restate", "elicit"}
  BY DEF AllowedActions, e
<1>3. o.hesitation /\ o.gate # "rejected" => a = "wait"
  BY <1>1 DEF AllowedActions, e
<1> QED  BY <1>2, <1>3

(* Whatever the utilities prefer: a first answer rests on both verifiers,  *)
(* a prompt is for somebody who had none, the count of prompts never falls *)
(* and stays within its bound, and a hesitation is met in silence; for any *)
(* signals, phases and counts.                                             *)
THEOREM PromptedOnce ==
  ASSUME NEW o, o.attempts \in 0..MaxCoachAttempts
  PROVE  NeverPressed(o)
<1> DEFINE silence == ""
           Kind(d) ==
      /\ d.first => o.gate = "first" /\ o.critic = "first" /\ o.available /\ ~o.hesitation
      /\ d.action \in {"elicit", "restate", "expand"} => o.attempts = 0 /\ d.attempts = 1
      /\ d.attempts >= o.attempts /\ d.attempts <= MaxCoachAttempts
      /\ o.hesitation /\ o.gate # "rejected" => d.reply = silence /\ d.attempts = o.attempts
<1> SUFFICES ASSUME NEW abstained, NEW d \in PlanAnswerSupport(o, abstained)  PROVE Kind(d)
  BY DEF NeverPressed
<1> HIDE DEF silence
<1>1. PICK a \in AllowedActions(o) : d = Rendered(o, a, abstained)  BY DEF PlanAnswerSupport
<1> DEFINE n == NextAttempts(a, o.attempts)
           e == EvidenceOf(o)
           late == e = "late" /\ o.phase # "complete" /\ o.phase # "expanding"
           words == IF late THEN "late" ELSE CompletionReply(o.phase, abstained)
           first == e = "first" /\ o.phase # "expanding"
<1>0. o.attempts \in 0..2  BY DEF MaxCoachAttempts
<1>2. /\ a \in {"release", "complete", "wait", "restate", "elicit"}
      /\ a \in {"elicit", "restate"} => o.attempts = 0
      /\ o.hesitation /\ o.gate # "rejected" => a = "wait"
  BY <1>1, AllowedIs DEF MaxCoachAttempts
<1>3. /\ a = "release" => n = 2
      /\ a \in {"elicit", "restate"} => n = 1
      /\ a \in {"complete", "wait"} => n = o.attempts
  BY <1>2 DEF NextAttempts, MaxCoachAttempts
<1>4. first => o.gate = "first" /\ o.critic = "first" /\ o.available /\ ~o.hesitation
  BY EvidenceIs
<1>5. CASE a = "complete"
  <2>1. d = Completed(words, n, first)  BY <1>1, <1>5 DEF Rendered
  <2> HIDE DEF words, n, first
  <2>2. d.action = "complete" /\ d.attempts = n /\ d.first = first  BY <2>1, CompletedIs
  <2>3. d.attempts = o.attempts  BY <1>3, <1>5, <2>2
  <2>4. d.first => first  BY <2>2
  <2> QED  BY <1>0, <1>2, <1>4, <1>5, <2>2, <2>3, <2>4 DEF MaxCoachAttempts
<1>6. CASE a = "release"
  <2>1. d = ReleaseDecision(n)  BY <1>1, <1>6 DEF Rendered
  <2> HIDE DEF n
  <2>2. d.action = "release" /\ d.attempts = n /\ ~d.first  BY <2>1, ReleaseIs
  <2>3. d.attempts >= o.attempts /\ d.attempts <= 2  BY <1>0, <1>2, <1>3, <1>6, <2>2
  <2>4. d.action \in {"elicit", "restate", "expand"} => o.attempts = 0 /\ d.attempts = 1
    BY <1>2, <1>3, <1>6, <2>2
  <2> QED  BY <1>2, <1>6, <2>2, <2>3, <2>4 DEF MaxCoachAttempts
<1>7. CASE a = "restate"
  <2>1. d = Decision("awaiting_restatement", "restate", "reask", n)  BY <1>1, <1>7 DEF Rendered
  <2> HIDE DEF n
  <2>2. d.attempts = n /\ ~d.first  BY <2>1, DecisionIs
  <2>3. d.attempts >= o.attempts /\ d.attempts <= 2  BY <1>0, <1>2, <1>3, <1>7, <2>2
  <2>4. d.action \in {"elicit", "restate", "expand"} => o.attempts = 0 /\ d.attempts = 1
    BY <1>2, <1>3, <1>7, <2>2
  <2> QED  BY <1>2, <1>7, <2>2, <2>3, <2>4 DEF MaxCoachAttempts
<1>8. CASE a = "elicit"
  <2>1. d = Prompt(IF o.phase = "expanding" THEN o.phase ELSE "awaiting_answer", n)
    BY <1>1, <1>8 DEF Rendered
  <2> HIDE DEF n
  <2>2. d.attempts = n /\ ~d.first  BY <2>1, PromptIs
  <2>3. d.attempts >= o.attempts /\ d.attempts <= 2  BY <1>0, <1>2, <1>3, <1>8, <2>2
  <2>4. d.action \in {"elicit", "restate", "expand"} => o.attempts = 0 /\ d.attempts = 1
    BY <1>2, <1>3, <1>8, <2>2
  <2> QED  BY <1>2, <1>8, <2>2, <2>3, <2>4 DEF MaxCoachAttempts
<1>9. CASE a = "wait"
  <2> DEFINE p == IF o.phase \in Phases THEN o.phase ELSE "blocked"
  <2>1. d = Decision(p, "none", silence, n)  BY <1>1, <1>9 DEF Rendered, silence
  <2> HIDE DEF n, p
  <2>2. d.attempts = n /\ ~d.first /\ d.reply = silence /\ d.action = "none"  BY <2>1, DecisionIs
  <2>3. d.attempts >= o.attempts /\ d.attempts <= 2  BY <1>0, <1>3, <1>9, <2>2
  <2>4. d.action \in {"elicit", "restate", "expand"} => o.attempts = 0 /\ d.attempts = 1
    BY <1>2, <1>3, <1>9, <2>2
  <2> QED  BY <1>2, <1>3, <1>9, <2>2, <2>3, <2>4 DEF MaxCoachAttempts
<1> QED  BY <1>2, <1>5, <1>6, <1>7, <1>8, <1>9

-----------------------------------------------------------------------------
(* The belief of the verifiers' progress, as it is stored.                 *)

(* Facts of arithmetic, with variables where the proof has terms.          *)
LEMMA Divided ==
  ASSUME NEW a \in Nat, NEW b \in Nat, b > 0
  PROVE  a \div b \in Nat /\ a % b \in 0..(b - 1) /\ a = b * (a \div b) + (a % b)
<1>1. a \div b \in Int /\ a % b \in 0..(b - 1)  OBVIOUS
<1>2. a = b * (a \div b) + (a % b)  OBVIOUS
<1>3. a \div b \in Nat  OBVIOUS
<1> QED  BY <1>1, <1>2, <1>3

LEMMA FactorUp ==
  ASSUME NEW t \in Int, t > 0, NEW x \in Int, NEW y \in Int, t * x < t * y
  PROVE  x < y
OBVIOUS

LEMMA SignUp ==
  ASSUME NEW t \in Int, t > 0, NEW x \in Int, t * x >= 0
  PROVE  x >= 0
OBVIOUS

LEMMA Sized ==
  ASSUME NEW a \in Int, NEW b \in Int, a <= b
  PROVE  IsFiniteSet(a..b) /\ Cardinality(a..b) = b - a + 1
BY FS_Interval

(* Whose remainder is served first, and how many are served before.        *)
Ahead(rest, i, j) == rest[i] > rest[j] \/ (rest[i] = rest[j] /\ i < j)
Rank(rest, i) == Cardinality({j \in Latent \ {i} : Ahead(rest, j, i)})

LEMMA FiveStates == IsFiniteSet(Latent) /\ Cardinality(Latent) = 5
<1>1. PICK a \in Int, b \in Int : a = 1 /\ b = 5  OBVIOUS
<1>2. a <= b /\ b - a + 1 = 5 /\ Latent = a..b  BY <1>1 DEF Latent
<1>3. IsFiniteSet(a..b) /\ Cardinality(a..b) = b - a + 1  BY <1>2, Sized
<1> QED  BY <1>2, <1>3

(* No two states have the same rank, so the ranks are 0 to 4 and as many   *)
(* states as there are units to give have a rank below that number.        *)
LEMMA RankStep ==
  ASSUME NEW rest \in [Latent -> Int], NEW i \in Latent, NEW j \in Latent, i # j
  PROVE  Rank(rest, i) # Rank(rest, j)
<1> DEFINE A(k) == {l \in Latent \ {k} : Ahead(rest, l, k)}
<1>1. \A k \in Latent : IsFiniteSet(A(k)) /\ Cardinality(A(k)) \in Nat
  <2>1. \A k \in Latent : A(k) \in SUBSET Latent  OBVIOUS
  <2> HIDE DEF A
  <2>2. \A k \in Latent : IsFiniteSet(A(k))  BY <2>1, FiveStates, FS_Subset
  <2> QED  BY <2>2, FS_CardinalityType
<1>2. ASSUME NEW k \in Latent, NEW l \in Latent, k # l, Ahead(rest, k, l)
      PROVE  Cardinality(A(k)) < Cardinality(A(l))
  <2>1. A(k) \union {k} \subseteq A(l)
    <3>1. \A m \in Latent : m \in Int /\ rest[m] \in Int  BY DEF Latent
    <3>2. \A m \in Latent \ {k} : Ahead(rest, m, k) => m # l /\ Ahead(rest, m, l)
      BY <1>2, <3>1 DEF Ahead
    <3> QED  BY <1>2, <3>2
  <2>2. k \notin A(k)  OBVIOUS
  <2> HIDE DEF A
  <2>3. Cardinality(A(k) \union {k}) = Cardinality(A(k)) + 1  BY <1>1, <2>2, FS_AddElement
  <2>4. Cardinality(A(k) \union {k}) <= Cardinality(A(l))  BY <1>1, <2>1, FS_Subset
  <2> QED  BY <1>1, <2>3, <2>4
<1>3. Ahead(rest, i, j) \/ Ahead(rest, j, i)  BY DEF Ahead, Latent
<1>4. Rank(rest, i) = Cardinality(A(i)) /\ Rank(rest, j) = Cardinality(A(j))  BY DEF Rank
<1> HIDE DEF A
<1> QED  BY <1>1, <1>2, <1>3, <1>4

LEMMA RankBounds ==
  ASSUME NEW rest \in [Latent -> Int], NEW i \in Latent PROVE Rank(rest, i) \in 0..4
<1> DEFINE A == {j \in Latent \ {i} : Ahead(rest, j, i)}
<1>1. Cardinality(Latent \ {i}) = 4 /\ IsFiniteSet(Latent \ {i})
  <2>1. Cardinality(Latent \ {i}) = 5 - 1 /\ IsFiniteSet(Latent \ {i})
    BY FiveStates, FS_RemoveElement
  <2> QED  BY <2>1
<1>2. A \in SUBSET (Latent \ {i})  OBVIOUS
<1> HIDE DEF A
<1>3. IsFiniteSet(A) /\ Cardinality(A) <= 4  BY <1>1, <1>2, FS_Subset
<1>4. Cardinality(A) \in Nat  BY <1>3, FS_CardinalityType
<1> QED  BY <1>3, <1>4 DEF Rank, A

LEMMA Ranked ==
  ASSUME NEW rest \in [Latent -> Int], NEW n \in 0..4
  PROVE  Cardinality({i \in Latent : Rank(rest, i) < n}) = n
<1> DEFINE rank == [i \in Latent |-> Rank(rest, i)]
           top == {i \in Latent : Rank(rest, i) < n}
           lead == [i \in top |-> Rank(rest, i)]
<1>1. rank \in Injection(Latent, 0..4)
  BY RankBounds, RankStep DEF Injection, IsInjective
<1>2. IsFiniteSet(0..4) /\ Cardinality(0..4) = 5
  <2>1. PICK a \in Int, b \in Int : a = 0 /\ b = 4  OBVIOUS
  <2>2. a <= b /\ b - a + 1 = 5 /\ 0..4 = a..b  BY <2>1
  <2>3. IsFiniteSet(a..b) /\ Cardinality(a..b) = b - a + 1  BY <2>2, Sized
  <2> QED  BY <2>2, <2>3
<1>3. rank \in Surjection(Latent, 0..4)
  <2> HIDE DEF rank
  <2> QED  BY <1>1, <1>2, FiveStates, FS_Injection
<1>4. \A m \in 0..4 : \E i \in Latent : Rank(rest, i) = m  BY <1>3 DEF Surjection
<1>5. lead \in Injection(top, 0..(n - 1))
  BY RankBounds, RankStep DEF Injection, IsInjective
<1>6. lead \in Surjection(top, 0..(n - 1))
  <2>1. lead \in [top -> 0..(n - 1)]  BY <1>5 DEF Injection
  <2>2. ASSUME NEW m \in 0..(n - 1) PROVE \E i \in top : lead[i] = m
    <3>1. m \in 0..4  OBVIOUS
    <3>2. PICK i \in Latent : Rank(rest, i) = m  BY <1>4, <3>1
    <3> QED  BY <3>2
  <2> QED  BY <2>1, <2>2 DEF Surjection
<1>7. IsFiniteSet(0..(n - 1)) /\ Cardinality(0..(n - 1)) = n
  <2>1. /\ IsFiniteSet(0..(n - 1))
        /\ Cardinality(0..(n - 1)) = IF 0 > n - 1 THEN 0 ELSE (n - 1) - 0 + 1
    BY FS_Interval
  <2> QED  BY <2>1
<1> HIDE DEF lead, top
<1>8. Cardinality(top) = Cardinality(0..(n - 1))  BY <1>5, <1>6, <1>7, FS_Injection
<1> QED  BY <1>7, <1>8 DEF top

(* A set of states, counted state by state.                                *)
One(b) == IF b THEN 1 ELSE 0

LEMMA Counted ==
  ASSUME NEW A \in SUBSET Latent
  PROVE  Cardinality(A) = One(1 \in A) + One(2 \in A) + One(3 \in A) + One(4 \in A) + One(5 \in A)
<1> DEFINE upTo(k) == A \intersect (1..k)
<1>1. ASSUME NEW k \in 1..5, IsFiniteSet(upTo(k - 1)), Cardinality(upTo(k - 1)) \in Nat
      PROVE  IsFiniteSet(upTo(k)) /\ Cardinality(upTo(k)) = Cardinality(upTo(k - 1)) + One(k \in A)
             /\ Cardinality(upTo(k)) \in Nat
  <2>1. k \notin upTo(k - 1)  OBVIOUS
  <2>2. CASE k \in A
    <3>1. upTo(k) = upTo(k - 1) \union {k}  BY <2>2
    <3> HIDE DEF upTo
    <3> QED  BY <1>1, <2>1, <2>2, <3>1, FS_AddElement DEF One
  <2>3. CASE k \notin A
    <3>1. upTo(k) = upTo(k - 1)  BY <2>3
    <3> HIDE DEF upTo
    <3> QED  BY <1>1, <2>3, <3>1 DEF One
  <2> QED  BY <2>2, <2>3
<1>2. IsFiniteSet(upTo(0)) /\ Cardinality(upTo(0)) = 0
  <2>1. upTo(0) = {}  OBVIOUS
  <2> HIDE DEF upTo
  <2> QED  BY <2>1, FS_EmptySet
<1>3. upTo(5) = A  BY DEF Latent
<1> HIDE DEF upTo
<1>4. 1 - 1 = 0 /\ 2 - 1 = 1 /\ 3 - 1 = 2 /\ 4 - 1 = 3 /\ 5 - 1 = 4
      /\ 1 \in 1..5 /\ 2 \in 1..5 /\ 3 \in 1..5 /\ 4 \in 1..5 /\ 5 \in 1..5
  OBVIOUS
<1>5. IsFiniteSet(upTo(1)) /\ Cardinality(upTo(1)) = One(1 \in A) /\ Cardinality(upTo(1)) \in Nat
  BY <1>1, <1>2, <1>4 DEF One
<1>6. IsFiniteSet(upTo(2)) /\ Cardinality(upTo(2)) = One(1 \in A) + One(2 \in A)
      /\ Cardinality(upTo(2)) \in Nat
  BY <1>1, <1>4, <1>5
<1>7. IsFiniteSet(upTo(3)) /\ Cardinality(upTo(3)) = One(1 \in A) + One(2 \in A) + One(3 \in A)
      /\ Cardinality(upTo(3)) \in Nat
  BY <1>1, <1>4, <1>6
<1>8. IsFiniteSet(upTo(4)) /\ Cardinality(upTo(4)) = One(1 \in A) + One(2 \in A) + One(3 \in A) + One(4 \in A)
      /\ Cardinality(upTo(4)) \in Nat
  BY <1>1, <1>4, <1>7
<1> QED  BY <1>1, <1>3, <1>4, <1>8

(* A state that is given a unit has a remainder: there are fewer units to  *)
(* give than states with one.                                              *)
LEMMA ShareEarned ==
  ASSUME NEW t \in Nat, t > 0, NEW rest \in [Latent -> 0..(t - 1)], NEW units \in Nat,
         t * units = Total(rest), NEW i \in Latent, Rank(rest, i) < units
  PROVE  rest[i] > 0
<1> SUFFICES ASSUME rest[i] = 0 PROVE FALSE  OBVIOUS
<1> DEFINE some == {j \in Latent : rest[j] > 0}
           above == {j \in Latent \ {i} : Ahead(rest, j, i)}
<1>1. rest \in [Latent -> Int]  OBVIOUS
<1>2. some \in SUBSET Latent /\ above \in SUBSET Latent /\ some \subseteq above
  BY <1>1 DEF Ahead
<1>3. \A j \in Latent : rest[j] <= t * One(j \in some) /\ One(j \in some) \in {0, 1}
  BY DEF One
<1>4. Cardinality(above) = Rank(rest, i) /\ Rank(rest, i) \in 0..4  BY <1>1, RankBounds DEF Rank
<1> HIDE DEF some, above
<1>5. IsFiniteSet(above)  BY <1>2, FiveStates, FS_Subset
<1>6. Cardinality(some) <= Cardinality(above)  BY <1>2, <1>5, FS_Subset
<1>7. Cardinality(some) = One(1 \in some) + One(2 \in some) + One(3 \in some)
                          + One(4 \in some) + One(5 \in some)
  BY <1>2, Counted
<1>8. PICK a \in {0, 1}, b \in {0, 1}, c \in {0, 1}, d \in {0, 1}, e \in {0, 1} :
        /\ a = One(1 \in some) /\ b = One(2 \in some) /\ c = One(3 \in some)
        /\ d = One(4 \in some) /\ e = One(5 \in some)
  BY <1>3 DEF Latent
<1>9. Total(rest) <= t * a + t * b + t * c + t * d + t * e
  <2>1. rest[1] <= t * a /\ rest[2] <= t * b /\ rest[3] <= t * c /\ rest[4] <= t * d /\ rest[5] <= t * e
    BY <1>3, <1>8 DEF Latent
  <2>2. rest[1] \in Int /\ rest[2] \in Int /\ rest[3] \in Int /\ rest[4] \in Int /\ rest[5] \in Int
    BY DEF Latent
  <2> QED  BY <2>1, <2>2 DEF Total
<1>10. t * a + t * b + t * c + t * d + t * e = t * (a + b + c + d + e)  OBVIOUS
<1>11. a + b + c + d + e < units
  <2>1. Cardinality(some) = a + b + c + d + e  BY <1>7, <1>8
  <2>2. a + b + c + d + e \in Int  OBVIOUS
  <2> QED  BY <1>4, <1>6, <2>1, <2>2
<1>12. t * (a + b + c + d + e) < t * units
  <2> DEFINE n == a + b + c + d + e
  <2>1. n \in Nat /\ n < units  BY <1>11
  <2> HIDE DEF n
  <2>2. t * units = t * n + t * (units - n) /\ t * (units - n) > 0  BY <2>1
  <2>3. t * n < t * units  BY <2>1, <2>2
  <2> QED  BY <2>3 DEF n
<1>13. Total(rest) \in Int  BY DEF Total, Latent
<1> QED  BY <1>9, <1>10, <1>12, <1>13

(* StoreVerifierProgress loses nothing: the shares sum to the scale, and   *)
(* each is less than a unit away from the exact one.                       *)
LEMMA Apportioned ==
  ASSUME SupportAssumption, NEW w \in [Latent -> Nat], Total(w) > 0
  PROVE  /\ Stored(w) \in [Latent -> 0..Scale]
         /\ Total(Stored(w)) = Scale
         /\ \A i \in Latent : /\ Stored(w)[i] * Total(w) < Scale * w[i] + Total(w)
                               /\ Stored(w)[i] * Total(w) > Scale * w[i] - Total(w)
<1> DEFINE t == Total(w)
           floor == [i \in Latent |-> (Scale * w[i]) \div t]
           rest == [i \in Latent |-> (Scale * w[i]) % t]
           units == Scale - Total(floor)
           top == {i \in Latent : Rank(rest, i) < units}
<1>1. t \in Nat /\ t > 0 /\ Scale \in Nat  BY DEF Total, Latent, SupportAssumption
<1>2. \A i \in Latent : floor[i] \in Nat /\ rest[i] \in 0..(t - 1)
                        /\ Scale * w[i] = t * floor[i] + rest[i]
  <2> HIDE DEF t
  <2>1. \A i \in Latent : Scale * w[i] \in Nat  BY <1>1
  <2> QED  BY <1>1, <2>1, Divided
<1>3. floor \in [Latent -> Nat] /\ rest \in [Latent -> 0..(t - 1)]
  <2>1. \A i \in Latent : (Scale * w[i]) \div t \in Nat /\ (Scale * w[i]) % t \in 0..(t - 1)  BY <1>2
  <2> QED  BY <2>1
<1>4. Stored(w) = [i \in Latent |-> IF Rank(rest, i) < units THEN floor[i] + 1 ELSE floor[i]]
  BY DEF Stored, Rank, Ahead
<1> HIDE DEF t, floor, rest, units
<1>5. units \in Int /\ units = Scale - Total(floor) /\ t = Total(w)
      /\ Total(floor) = floor[1] + floor[2] + floor[3] + floor[4] + floor[5]
      /\ Total(rest) = rest[1] + rest[2] + rest[3] + rest[4] + rest[5]
      /\ t = w[1] + w[2] + w[3] + w[4] + w[5]
  BY <1>1, <1>3 DEF units, Total, Latent, t
<1>6. t * units = Total(rest)
  <2>1. \A i \in Latent : w[i] \in Int /\ floor[i] \in Int /\ rest[i] \in Int
                          /\ Scale * w[i] = t * floor[i] + rest[i]
    BY <1>2, <1>3
  <2>2. /\ w[1] \in Int /\ floor[1] \in Int /\ rest[1] \in Int /\ Scale * w[1] = t * floor[1] + rest[1]
        /\ w[2] \in Int /\ floor[2] \in Int /\ rest[2] \in Int /\ Scale * w[2] = t * floor[2] + rest[2]
        /\ w[3] \in Int /\ floor[3] \in Int /\ rest[3] \in Int /\ Scale * w[3] = t * floor[3] + rest[3]
        /\ w[4] \in Int /\ floor[4] \in Int /\ rest[4] \in Int /\ Scale * w[4] = t * floor[4] + rest[4]
        /\ w[5] \in Int /\ floor[5] \in Int /\ rest[5] \in Int /\ Scale * w[5] = t * floor[5] + rest[5]
    BY <2>1 DEF Latent
  <2>3. t * (Scale - (floor[1] + floor[2] + floor[3] + floor[4] + floor[5]))
          = rest[1] + rest[2] + rest[3] + rest[4] + rest[5]
    <3>1. Scale * t = Scale * w[1] + Scale * w[2] + Scale * w[3] + Scale * w[4] + Scale * w[5]
      BY <1>1, <1>5, <2>2
    <3>2. t * (Scale - (floor[1] + floor[2] + floor[3] + floor[4] + floor[5]))
            = Scale * t - (t * floor[1] + t * floor[2] + t * floor[3] + t * floor[4] + t * floor[5])
      BY <1>1, <2>2
    <3> QED  BY <1>1, <2>2, <3>1, <3>2
  <2> QED  BY <1>5, <2>3
<1>7. units \in 0..4
  <2>1. Total(rest) >= 0 /\ Total(rest) < t * 5
    <3>1. rest[1] \in 0..(t - 1) /\ rest[2] \in 0..(t - 1) /\ rest[3] \in 0..(t - 1)
          /\ rest[4] \in 0..(t - 1) /\ rest[5] \in 0..(t - 1)
      BY <1>3 DEF Latent
    <3> QED  BY <1>1, <1>5, <3>1
  <2>2. units >= 0  BY <1>1, <1>5, <1>6, <2>1, SignUp
  <2>3. t * units < t * 5  BY <1>6, <2>1
  <2>4. units < 5  BY <1>1, <1>5, <2>3, FactorUp
  <2> QED  BY <1>5, <2>2, <2>4
<1>8. rest \in [Latent -> Int]  BY <1>1, <1>3
<1>9. Cardinality(top) = units  BY <1>7, <1>8, Ranked
<1>10. \A i \in Latent : Stored(w)[i] = floor[i] + One(i \in top) /\ One(i \in top) \in {0, 1}
  BY <1>3, <1>4 DEF One
<1>11. \A i \in top : i \in Latent /\ rest[i] > 0  BY <1>1, <1>3, <1>6, <1>7, ShareEarned
<1>12. top \in SUBSET Latent  OBVIOUS
<1> HIDE DEF top
<1>13. units = One(1 \in top) + One(2 \in top) + One(3 \in top) + One(4 \in top) + One(5 \in top)
  BY <1>9, <1>12, Counted
<1>14. Total(Stored(w)) = Scale
  <2>1. 1 \in Latent /\ 2 \in Latent /\ 3 \in Latent /\ 4 \in Latent /\ 5 \in Latent  BY DEF Latent
  <2>2. PICK a \in {0, 1}, b \in {0, 1}, c \in {0, 1}, d \in {0, 1}, e \in {0, 1} :
          /\ a = One(1 \in top) /\ b = One(2 \in top) /\ c = One(3 \in top)
          /\ d = One(4 \in top) /\ e = One(5 \in top)
    BY <1>10, <2>1
  <2>3. Stored(w)[1] = floor[1] + a /\ Stored(w)[2] = floor[2] + b /\ Stored(w)[3] = floor[3] + c
        /\ Stored(w)[4] = floor[4] + d /\ Stored(w)[5] = floor[5] + e
    BY <1>10, <2>1, <2>2
  <2>4. units = a + b + c + d + e  BY <1>13, <2>2
  <2>5. floor[1] \in Nat /\ floor[2] \in Nat /\ floor[3] \in Nat /\ floor[4] \in Nat /\ floor[5] \in Nat
    BY <1>3, <2>1
  <2> QED  BY <1>1, <1>5, <2>3, <2>4, <2>5 DEF Total
<1>15. Stored(w) \in [Latent -> 0..Scale]
  <2>1. \A i \in Latent : Stored(w)[i] \in Nat  BY <1>3, <1>10
  <2>2. \A i \in Latent : Stored(w)[i] <= Total(Stored(w))  BY <2>1 DEF Total, Latent
  <2>3. \A i \in Latent : Stored(w)[i] \in 0..Scale  BY <1>1, <1>14, <2>1, <2>2
  <2>4. Stored(w) = [i \in Latent |-> Stored(w)[i]]  BY <1>4
  <2> QED  BY <2>3, <2>4
<1>16. ASSUME NEW i \in Latent
       PROVE  Stored(w)[i] * t < Scale * w[i] + t /\ Stored(w)[i] * t > Scale * w[i] - t
  <2>1. PICK b \in {0, 1} : b = One(i \in top)  BY <1>10
  <2>2. Stored(w)[i] = floor[i] + b  BY <1>10, <2>1
  <2>3. b = 1 => rest[i] > 0  BY <1>11, <2>1 DEF One
  <2>4. (floor[i] + b) * t = t * floor[i] + t * b  BY <1>1, <1>2
  <2>5. t * b = (IF b = 1 THEN t ELSE 0)  BY <1>1
  <2>6. Scale * w[i] = t * floor[i] + rest[i] /\ rest[i] \in 0..(t - 1) /\ t * floor[i] \in Int
    BY <1>1, <1>2
  <2> QED  BY <1>1, <2>2, <2>3, <2>4, <2>5, <2>6
<1> QED  BY <1>14, <1>15, <1>16 DEF t

(* A belief that reads back as valid is valid again after any evidence,    *)
(* with every share within one unit of Bayes' rule: for any scale and any  *)
(* valid belief, so after any number of attempts.                          *)
THEOREM BeliefKept ==
  ASSUME SupportAssumption, NEW mass, NEW e \in Evidence
  PROVE  BeliefSurvives(mass, e)
<1> DEFINE w == [i \in Latent |-> (97 * mass[i] + 3 * DefaultPrior[i] * (Scale \div 100)) * Likelihood(e)[i]]
<1> SUFFICES ASSUME ValidMass(mass)
             PROVE  /\ ValidMass(Updated(mass, e))
                    /\ \A i \in Latent :
                         /\ Updated(mass, e)[i] * Total(w) < Scale * w[i] + Total(w)
                         /\ Updated(mass, e)[i] * Total(w) > Scale * w[i] - Total(w)
  BY DEF BeliefSurvives
<1>1. Updated(mass, e) = Stored(w)  BY DEF Updated
<1>2. Scale \in Nat /\ Scale > 0  BY DEF SupportAssumption
<1>3. \A i \in Latent : Likelihood(e)[i] \in Nat /\ Likelihood(e)[i] > 0
  <2>1. CASE e = "missing"  BY <2>1 DEF Likelihood, Latent
  <2>2. CASE e = "available"  BY <2>2 DEF Likelihood, Latent
  <2>3. CASE e = "late"  BY <2>3 DEF Likelihood, Latent
  <2>4. CASE e = "first"  BY <2>4 DEF Likelihood, Latent
  <2>5. CASE e = "ambiguous"  BY <2>5 DEF Likelihood, Latent
  <2>6. CASE e = "hesitation"  BY <2>6 DEF Likelihood, Latent
  <2>7. CASE e = "unknown"  BY <2>7 DEF Likelihood, Latent
  <2> QED  BY <2>1, <2>2, <2>3, <2>4, <2>5, <2>6, <2>7 DEF Evidence
<1>4. \A i \in Latent : 3 * DefaultPrior[i] * (Scale \div 100) \in Nat
  <2>1. Scale \div 100 \in Nat  BY <1>2, Divided
  <2>2. \A i \in Latent : DefaultPrior[i] \in Nat  BY DEF DefaultPrior, Latent
  <2> QED  BY <2>1, <2>2
<1>5. /\ \A i \in Latent : mass[i] \in Nat
      /\ mass[1] + mass[2] + mass[3] + mass[4] + mass[5] > 0
  BY <1>2 DEF ValidMass, Total
<1>6. ASSUME NEW m \in Nat, NEW q \in Nat, NEW l \in Nat, l > 0
      PROVE  (97 * m + q) * l \in Nat /\ (m > 0 => (97 * m + q) * l > 0)
  <2> DEFINE p == 97 * m + q
  <2>1. p \in Nat /\ (m > 0 => p > 0)  OBVIOUS
  <2> HIDE DEF p
  <2>2. p * l \in Nat /\ (p > 0 => p * l > 0)  BY <1>6, <2>1
  <2>3. p * l \in Nat /\ (m > 0 => p * l > 0)  BY <2>1, <2>2
  <2> QED  BY <2>3 DEF p
<1>7. ASSUME NEW i \in Latent PROVE w[i] \in Nat /\ (mass[i] > 0 => w[i] > 0)
  <2>1. PICK m \in Nat : m = mass[i]  BY <1>5
  <2>2. PICK q \in Nat : q = 3 * DefaultPrior[i] * (Scale \div 100)  BY <1>4
  <2>3. PICK l \in Nat : l = Likelihood(e)[i] /\ l > 0  BY <1>3
  <2>4. w[i] = (97 * m + q) * l  BY <2>1, <2>2, <2>3
  <2> QED  BY <1>6, <2>1, <2>3, <2>4
<1>8. w = [i \in Latent |-> w[i]]  OBVIOUS
<1> HIDE DEF w
<1>9. w \in [Latent -> Nat]  BY <1>7, <1>8
<1>10. Total(w) > 0
  <2>1. /\ mass[1] \in Nat /\ mass[2] \in Nat /\ mass[3] \in Nat /\ mass[4] \in Nat /\ mass[5] \in Nat
        /\ w[1] \in Nat /\ w[2] \in Nat /\ w[3] \in Nat /\ w[4] \in Nat /\ w[5] \in Nat
        /\ (mass[1] > 0 => w[1] > 0) /\ (mass[2] > 0 => w[2] > 0) /\ (mass[3] > 0 => w[3] > 0)
        /\ (mass[4] > 0 => w[4] > 0) /\ (mass[5] > 0 => w[5] > 0)
    BY <1>5, <1>7 DEF Latent
  <2> QED  BY <1>5, <2>1 DEF Total
<1> QED  BY <1>1, <1>9, <1>10, Apportioned DEF ValidMass

-----------------------------------------------------------------------------
(* What a repair moves.                                                    *)

(* The clauses of a text, moved: the front of it found at a place, first,  *)
(* and the others in their order.                                          *)
Moves(text, rebuilt, front, at) ==
  /\ \A i \in DOMAIN front : rebuilt[i] = front[i]
  /\ \A i \in DOMAIN text : \/ i \in (at + 1)..(at + Len(front))
                            \/ rebuilt[IF i <= at THEN Len(front) + i ELSE i] = text[i]

LEMMA MovedClauses ==
  ASSUME NEW C, NEW text \in Seq(C), NEW rebuilt \in Seq(C), NEW front \in Seq(C),
         Len(text) = Len(rebuilt), NEW at \in 0..(Len(text) - Len(front)),
         Moves(text, rebuilt, front, at)
  PROVE  rebuilt = front \o SubSeq(text, 1, at) \o SubSeq(text, at + Len(front) + 1, Len(text))
<1> DEFINE n == Len(text)
           k == Len(front)
           before == SubSeq(text, 1, at)
           after == SubSeq(text, at + k + 1, n)
           moved == front \o before \o after
<1> USE DEF Moves
<1>1. /\ n \in Nat /\ k \in Nat /\ at \in Nat /\ at + k <= n
      /\ DOMAIN text = 1..n /\ DOMAIN front = 1..k /\ DOMAIN rebuilt = 1..n
  BY LenProperties
<1>2. /\ before \in Seq(C) /\ Len(before) = at
      /\ \A i \in 1..at : before[i] = text[i]
  <2>1. \A i \in 1..at : text[i] \in C  BY <1>1, ElementOfSeq
  <2> QED  BY <1>1, <2>1, SubSeqProperties, Z3
<1>3. /\ after \in Seq(C) /\ Len(after) = n - at - k
      /\ \A i \in 1..(n - at - k) : after[i] = text[at + k + i]
  <2>1. \A i \in (at + k + 1)..n : text[i] \in C  BY <1>1, ElementOfSeq
  <2>2. at + k + 1 \in Int /\ n \in Int  BY <1>1
  <2>3. /\ after \in Seq(C)
        /\ Len(after) = IF at + k + 1 <= n THEN n - (at + k + 1) + 1 ELSE 0
        /\ \A i \in 1..(n - (at + k + 1) + 1) : after[i] = text[(at + k + 1) + i - 1]
    <3> HIDE DEF n, k
    <3> QED  BY <2>1, <2>2, SubSeqProperties
  <2> HIDE DEF after, n, k
  <2> QED  BY <1>1, <2>3
<1> HIDE DEF before, after, n, k
<1>k. k = Len(front)  BY DEF k
<1>4. /\ front \o before \in Seq(C) /\ Len(front \o before) = k + at
      /\ \A i \in 1..(k + at) : (front \o before)[i] = IF i <= k THEN front[i] ELSE before[i - k]
  <2>1. /\ front \o before \in Seq(C) /\ Len(front \o before) = Len(front) + Len(before)
        /\ \A i \in 1..(Len(front) + Len(before)) :
              (front \o before)[i] = IF i <= Len(front) THEN front[i] ELSE before[i - Len(front)]
    BY <1>2, ConcatProperties
  <2> QED  BY <1>2, <1>k, <2>1
<1>5. /\ moved \in Seq(C) /\ Len(moved) = n
      /\ \A i \in 1..n : moved[i] = IF i <= k + at THEN (front \o before)[i]
                                    ELSE after[i - (k + at)]
  <2>1. (k + at) + (n - at - k) = n  BY <1>1
  <2>2. /\ moved \in Seq(C) /\ Len(moved) = Len(front \o before) + Len(after)
        /\ \A i \in 1..(Len(front \o before) + Len(after)) :
              moved[i] = IF i <= Len(front \o before) THEN (front \o before)[i]
                         ELSE after[i - Len(front \o before)]
    BY <1>3, <1>4, ConcatProperties
  <2> HIDE DEF moved
  <2> QED  BY <1>3, <1>4, <2>1, <2>2
<1> HIDE DEF moved
<1> DEFINE head == front \o before
<1>h. /\ \A i \in 1..(k + at) : head[i] = IF i <= k THEN front[i] ELSE before[i - k]
      /\ \A i \in 1..n : moved[i] = IF i <= k + at THEN head[i] ELSE after[i - (k + at)]
  BY <1>4, <1>5
<1>m. /\ \A i \in 1..k : rebuilt[i] = front[i]
      /\ \A i \in 1..n : \/ i \in (at + 1)..(at + k)
                        \/ rebuilt[IF i <= at THEN k + i ELSE i] = text[i]
  BY <1>1, <1>k
<1> HIDE DEF head, Moves
<1>6. ASSUME NEW i \in 1..n PROVE rebuilt[i] = moved[i]
  <2>0. i \in Int /\ k \in Int /\ at \in Int /\ n \in Int  BY <1>1
  <2>1. CASE i <= k
    <3>1. i \in 1..k /\ i <= k + at /\ i \in 1..(k + at)  BY <1>1, <2>1
    <3>2. rebuilt[i] = front[i]  BY <3>1, <1>m
    <3>3. moved[i] = head[i]  BY <1>h, <3>1
    <3>4. head[i] = front[i]  BY <1>h, <2>1, <3>1
    <3> QED  BY <3>2, <3>3, <3>4
  <2>2. CASE k < i /\ i <= k + at
    <3>1. i - k \in 1..at /\ i - k \in 1..n /\ i - k <= at /\ k + (i - k) = i
      BY <1>1, <2>0, <2>2
    <3>2. i - k \notin (at + 1)..(at + k)  BY <1>1, <3>1
    <3>3. rebuilt[i] = text[i - k]  BY <1>m, <3>1, <3>2
    <3>4. moved[i] = head[i]  BY <1>h, <2>2
    <3>5. i \in 1..(k + at) /\ ~(i <= k)  BY <1>1, <2>2
    <3>6. head[i] = before[i - k]  BY <1>h, <3>5
    <3>7. before[i - k] = text[i - k]  BY <1>2, <3>1
    <3> QED  BY <3>3, <3>4, <3>6, <3>7
  <2>3. CASE k + at < i
    <3>1. ~(i <= at) /\ i \notin (at + 1)..(at + k) /\ ~(i <= k + at)  BY <1>1, <2>3
    <3>2. rebuilt[i] = text[i]  BY <1>m, <3>1
    <3>3. i - (k + at) \in 1..(n - at - k) /\ at + k + (i - (k + at)) = i
      BY <1>1, <2>0, <2>3
    <3>4. moved[i] = after[i - (k + at)]  BY <1>h, <3>1
    <3>5. after[i - (k + at)] = text[i]  BY <1>3, <3>3
    <3> QED  BY <3>2, <3>4, <3>5
  <2> QED  BY <2>0, <2>1, <2>2, <2>3
<1> QED  BY <1>5, <1>6, SeqEqual DEF n, moved, before, after, k

(* A released repair moves the commitment to the front and nothing else:   *)
(* no clause is lost, added or reordered, whatever the critic claims; for  *)
(* any texts whose clauses are sequences, as Clauses makes them.           *)
THEOREM RepairMoves ==
  ASSUME NEW C, NEW in, NEW c, c.gain \in Nat,
         Clauses(in.text) \in Seq(C), Clauses(c.recon) \in Seq(C), Clauses(c.first) \in Seq(C)
  PROVE  RepairMovesOnly(in, c)
<1> DEFINE text == Clauses(in.text)
           rebuilt == Clauses(c.recon)
           front == Clauses(c.first)
           places == {j \in 0..(Len(text) - Len(front)) :
                        SubSeq(text, j + 1, j + Len(front)) = front}
           to(i) == front \o SubSeq(text, 1, i) \o SubSeq(text, i + Len(front) + 1, Len(text))
<1> SUFFICES ASSUME Evaluate(c, in.text).outcome = "restructure"
             PROVE  rebuilt \in {to(i) : i \in places}
  BY DEF RepairMovesOnly
<1>1. ValidContract(c) /\ Outcome(c, in.text) = "restructure"
  BY DEF Evaluate
<1>2. HighGainRepair(c, in.text) /\ RepairAccepted(c, in.text)
  BY <1>1 DEF Outcome
<1>3. c.recon # <<>>
  <2>1. c.gain > 0 => c.recon # <<>>  BY <1>1, Zenon DEF ValidContract
  <2>2. c.gain > 0  BY <1>2 DEF HighGainRepair, RepairGainThreshold
  <2> QED  BY <2>1, <2>2
<1>4. FrontMove(in.text, c.recon, c.first)
  BY <1>2, <1>3 DEF RepairAccepted, MeaningPreserved, PreservesMeaning
<1>5. /\ Len(text) = Len(rebuilt) /\ Cardinality(places) = 1
      /\ LET at == CHOOSE i \in places : TRUE
         IN  /\ \A i \in DOMAIN front : rebuilt[i] = front[i]
             /\ \A i \in DOMAIN text :
                   \/ i \in (at + 1)..(at + Len(front))
                   \/ rebuilt[IF i <= at THEN Len(front) + i ELSE i] = text[i]
  BY <1>4 DEF FrontMove
<1> DEFINE at == CHOOSE i \in places : TRUE
<1>6. at \in places
  <2> HIDE DEF places
  <2>1. Cardinality(places) = 1  BY <1>5
  <2>0. Cardinality({}) # 1  BY FS_EmptySet
  <2>2. places # {}  BY <2>0, <2>1
  <2> QED  BY <2>2
<1>7. at \in 0..(Len(text) - Len(front))  BY <1>6
<1>8. rebuilt = to(at)
  <2> HIDE DEF at, places
  <2>1. Moves(text, rebuilt, front, at)  BY <1>5 DEF at, Moves
  <2> HIDE DEF text, rebuilt, front
  <2>2. text \in Seq(C) /\ rebuilt \in Seq(C) /\ front \in Seq(C)
    BY DEF text, rebuilt, front
  <2>3. Len(text) = Len(rebuilt)  BY <1>5
  <2>4. rebuilt = front \o SubSeq(text, 1, at) \o SubSeq(text, at + Len(front) + 1, Len(text))
    BY <1>7, <2>1, <2>2, <2>3, MovedClauses
  <2> QED  BY <2>4
<1> HIDE DEF to, places, at
<1> QED  BY <1>6, <1>8
=============================================================================
