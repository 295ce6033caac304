----------------------------- MODULE CoachProofs -----------------------------
(***************************************************************************)
(* The conversation over several turns (Coaching), for any rollout flags,  *)
(* turns, sayings and tokens of older revisions: what is proved of a       *)
(* person is theirs, nobody is asked again twice in one scope, what a turn *)
(* seals the next one opens, and a scope keeps its question and its        *)
(* answer.  A turn is one step of nested decisions, so the proof follows   *)
(* process: for each way to a reply a lemma says that the reply is sound   *)
(* for the frame the turn began with (Sound), and one inductive invariant  *)
(* (CoachInv) carries that from token to token.  It rests on OnceAsked,    *)
(* what QARC's integers come to, which TLC evaluates.                      *)
(***************************************************************************)
EXTENDS MCCoaching, TLAPS

-----------------------------------------------------------------------------
(* The shapes of frames, supports, states and replies.                     *)
IsRec(f, D) == f = [x \in D |-> f[x]]

FrameFields == {"active", "phase", "attempts", "followUp", "optIn", "restatement", "question",
                "subject", "answer", "native", "evidence", "progress"}
SupportFields == {"fading", "verified", "cooldown", "companion"}
StateFields == {"turn", "pending", "support", "checkpoint"}
ReplyFields == {"kind", "next", "target", "stage", "phase", "action", "spoken", "proof",
                "candidate", "transition", "claim", "basis"}
RulingFields == {"frame", "d", "ok", "evidence", "posterior"}

IsFrame(f) == IsRec(f, FrameFields)
IsState(s) == IsRec(s, StateFields) /\ IsFrame(s.pending) /\ IsRec(s.support, SupportFields)

LEMMA Frames ==
  /\ IsFrame(EmptyFrame) /\ ~EmptyFrame.active /\ EmptyFrame.question = NoTag
  /\ IsFrame(NewFrame) /\ NewFrame.active /\ NewFrame.question = NoTag
  /\ NewFrame.phase = "awaiting_answer" /\ NewFrame.answer = NoTag
BY DEF IsFrame, IsRec, EmptyFrame, NewFrame, FrameFields

(* What a turn enters with: the state it was given, without a frame that   *)
(* was revoked, or with the request for an expansion noted.                *)
Noted(f) == [f EXCEPT !.optIn = TRUE]

LEMMA EnteredIs ==
  ASSUME NEW s, IsState(s), NEW turn, NEW said
  PROVE  LET e == Entered(s, turn, said)
         IN  /\ IsState(e) /\ e.turn = s.turn
             /\ e.support = s.support \/ (s.support.companion /\ e.support = OptedIn(s).support)
             /\ \/ Revoked(s.pending) /\ e.pending = EmptyFrame
                \/ ~Revoked(s.pending) /\ e.pending = s.pending
                \/ /\ ~Revoked(s.pending) /\ e.pending = Noted(s.pending)
                   /\ s.pending.active /\ Expands(said) /\ agent.v2 /\ ~e.support.companion
<1> DEFINE lifted == IF Controllable(turn, said) /\ s.support.companion /\ OptIn(said)
                     THEN OptedIn(s) ELSE s
           kept == IF Revoked(lifted.pending) THEN [lifted EXCEPT !.pending = EmptyFrame]
                   ELSE lifted
<1>1. IsState(lifted) /\ lifted.turn = s.turn /\ lifted.pending = s.pending
  <2>1. CASE lifted = s  BY <2>1
  <2>2. CASE lifted = OptedIn(s)
    BY <2>2 DEF OptedIn, IsState, IsRec, StateFields, SupportFields
  <2> QED  BY <2>1, <2>2
<1>2. lifted.support = s.support \/ (s.support.companion /\ lifted.support = OptedIn(s).support)
  OBVIOUS
<1> HIDE DEF lifted
<1>3. /\ IsState(kept) /\ kept.turn = s.turn /\ kept.support = lifted.support
      /\ \/ Revoked(s.pending) /\ kept.pending = EmptyFrame
         \/ ~Revoked(s.pending) /\ kept.pending = s.pending
  BY <1>1, Frames DEF IsState, IsRec, StateFields
<1> HIDE DEF kept
<1>4. CASE ExpansionEligible(kept, turn, said) /\ Expands(said)
  <2>1. Entered(s, turn, said) = [kept EXCEPT !.pending.optIn = TRUE]
    BY <1>4 DEF Entered, kept, lifted
  <2>2. kept.pending.active /\ agent.v2 /\ ~kept.support.companion  BY <1>4 DEF ExpansionEligible
  <2>3. ~Revoked(s.pending) /\ kept.pending = s.pending  BY <1>3, <2>2, Frames
  <2>4. /\ IsState([kept EXCEPT !.pending.optIn = TRUE])
        /\ [kept EXCEPT !.pending.optIn = TRUE].turn = kept.turn
        /\ [kept EXCEPT !.pending.optIn = TRUE].support = kept.support
        /\ [kept EXCEPT !.pending.optIn = TRUE].pending = Noted(kept.pending)
    BY <1>3 DEF IsState, IsFrame, IsRec, StateFields, FrameFields, Noted
  <2> QED  BY <1>2, <1>3, <1>4, <2>1, <2>2, <2>3, <2>4
<1>5. CASE ~(ExpansionEligible(kept, turn, said) /\ Expands(said))
  <2>1. Entered(s, turn, said) = kept  BY <1>5 DEF Entered, kept, lifted
  <2> QED  BY <1>2, <1>3, <2>1
<1> QED  BY <1>4, <1>5

-----------------------------------------------------------------------------
(* Replies. *)
LEMMA ReplyIs ==
  ASSUME NEW n, NEW t, NEW s, NEW p, NEW a, NEW k
  PROVE  LET r == Reply(n, t, s, p, a, k)
         IN  /\ IsRec(r, ReplyFields) /\ r.next = Sealed(agent, n) /\ r.target = t
             /\ ~r.candidate /\ ~r.proof /\ ~r.transition /\ r.spoken = k
             /\ r.kind = IF ValidState(Sealed(agent, n)) THEN "reply" ELSE "refused"
BY DEF Reply, IsRec, ReplyFields

(* A reply of a kind of its own.                                           *)
LEMMA KindIs ==
  ASSUME NEW r, IsRec(r, ReplyFields), NEW k
  PROVE  LET q == [r EXCEPT !.kind = k]
         IN  /\ IsRec(q, ReplyFields) /\ q.kind = k
             /\ \A x \in ReplyFields \ {"kind"} : q[x] = r[x]
BY DEF IsRec, ReplyFields

LEMMA CheckpointedIs ==
  ASSUME NEW turn, NEW n, NEW scope, NEW stage, NEW d
  PROVE  LET r == Checkpointed(turn, n, scope, stage, d)
         IN  IsRec(r, ReplyFields) /\ ~r.candidate /\ ~r.proof /\ ~r.transition /\ r.target = "respondent"
<1>1. \A m : LET r == Coached(m, stage, d)
             IN  /\ IsRec(r, ReplyFields) /\ r.target = "respondent"
                 /\ ~r.candidate /\ ~r.proof /\ ~r.transition
  BY ReplyIs DEF Coached
<1>2. LET r == [Coached(n, stage, d) EXCEPT !.kind = "refused"]
      IN  /\ IsRec(r, ReplyFields) /\ r.target = "respondent"
          /\ ~r.candidate /\ ~r.proof /\ ~r.transition
  BY <1>1 DEF IsRec, ReplyFields
<1> HIDE DEF Coached
<1> QED  BY <1>1, <1>2 DEF Checkpointed

(* The proofs of an exercise are those of its ruling, as it was settled;   *)
(* one that can not be kept is released.                                   *)
Retained(pre, r, said, plan) == IF r.d.keep THEN Kept(pre, r, said, plan) ELSE EmptyFrame
Latest(pre, r, said, plan) ==
  IF r.d.keep /\ ~Retained(pre, r, said, plan).active
  THEN [r EXCEPT !.d = ReleaseDecision(MaxCoachAttempts)] ELSE r

LEMMA ExercisedIs ==
  ASSUME NEW pre, NEW r, IsRec(r, RulingFields), NEW turn, NEW said, NEW plan
  PROVE  LET q == Exercised(pre, r, turn, said, plan)
         IN  /\ IsRec(q, ReplyFields) /\ q.claim = plan.claim
             /\ q.candidate => Candidate(Latest(pre, r, said, plan), turn, said, plan)
             /\ q.proof => q.candidate /\ ~turn.speculative /\ turn.origin = "committed_voice"
             /\ q.transition => q.proof /\ CameLate(pre, Latest(pre, r, said, plan))
<1> DEFINE kept == Retained(pre, r, said, plan)
           unbound == r.d.keep /\ ~kept.active
           last == Latest(pre, r, said, plan)
           support == IF unbound THEN pre.support ELSE SupportAfter(pre.support, r)
           scope == IF ScopeTag(kept) # NoTag THEN ScopeTag(kept) ELSE ScopeTag(r.frame)
           reply0 == Checkpointed(turn, Carry(pre, kept, support), scope, plan.stage, last.d)
<1>1. Exercised(pre, r, turn, said, plan) = Proved(reply0, pre, last, turn, said, plan)
  BY DEF Exercised, Latest, Retained
<1>3. IsRec(reply0, ReplyFields)  BY CheckpointedIs
<1> HIDE DEF last, reply0, Latest, Candidate
<1> DEFINE q == Proved(reply0, pre, last, turn, said, plan)
<1>4. /\ IsRec(q, ReplyFields) /\ q.claim = plan.claim
      /\ q.candidate => Candidate(last, turn, said, plan)
      /\ q.proof => q.candidate /\ ~turn.speculative /\ turn.origin = "committed_voice"
      /\ q.transition => q.proof /\ CameLate(pre, last)
  <2> HIDE DEF Candidate, CameLate
  <2> QED  BY <1>3 DEF Proved, IsRec, ReplyFields
<1> QED  BY <1>1, <1>4 DEF last

LEMMA LastIs ==
  ASSUME NEW pre, NEW r, IsRec(r, RulingFields), NEW said, NEW plan
  PROVE  LET l == Latest(pre, r, said, plan)
         IN  /\ IsRec(l, RulingFields) /\ \A x \in RulingFields \ {"d"} : l[x] = r[x]
             /\ l.d = r.d \/ l.d = ReleaseDecision(MaxCoachAttempts)
<1> DEFINE release == ReleaseDecision(MaxCoachAttempts)
           unbound == r.d.keep /\ ~Retained(pre, r, said, plan).active
<1> HIDE DEF release, unbound
<1>1. Latest(pre, r, said, plan) = IF unbound THEN [r EXCEPT !.d = release] ELSE r
  BY DEF Latest, release, unbound
<1> QED  BY <1>1 DEF IsRec, RulingFields, release

(* What an attempt is judged against: in a bound exercise that goes on,    *)
(* the frame it had, with this answer.                                     *)
LEMMA AttemptIs ==
  ASSUME NEW pre, NEW frame, IsFrame(frame), NEW plan, NEW said, NEW critic
  PROVE  LET a == Attempt(pre, frame, plan, said, critic)
         IN  /\ ~(Protected(frame) /\ pre.pending.active) => a.frame = frame
             /\ Protected(frame) /\ pre.pending.active /\ a.ok =>
                  /\ said.question = 0 /\ StrictlyBound(plan, said)
                  /\ a.frame.answer = AnswerTag(plan.claim) /\ a.frame.question = frame.question
                  /\ frame.answer \in {NoTag, AnswerTag(plan.claim)}
<1> DEFINE bound == BindFirst(frame, plan, said)
           a == Attempt(pre, frame, plan, said, critic)
<1>1. /\ bound.question = frame.question
      /\ bound.answer = frame.answer \/ frame.answer = NoTag
  BY DEF BindFirst, IsFrame, IsRec, FrameFields
<1> HIDE DEF bound
<1>2. /\ a.ok = (Protected(frame) /\ pre.pending.active => Continues(bound, plan, said))
      /\ a.frame = IF Protected(frame) /\ pre.pending.active
                   THEN IF Protected(frame) /\ pre.pending.active => Continues(bound, plan, said)
                        THEN bound ELSE pre.pending
                   ELSE frame
  BY DEF Attempt, bound
<1> QED  BY <1>1, <1>2 DEF Continues

(* What one may say of a candidate for a proof.                            *)
Persons(q, f, companion, turn, said) ==
  /\ Own(said) /\ Head(said.clauses) = q.claim
  /\ f.active => /\ f.question # NoTag /\ said.question = 0
                 /\ f.answer \in {NoTag, AnswerTag(q.claim)}
  /\ ~f.active => said.question # 0 /\ OptIn(said)
  /\ q.proof => ~turn.speculative /\ turn.origin = "committed_voice"
  /\ ~turn.strict /\ ~companion

LEMMA PlanFrameIs ==
  ASSUME NEW plan, NEW said
  PROVE  LET f == PlanFrame(plan, said)
         IN  /\ IsFrame(f) /\ f.active /\ f.phase = "awaiting_answer"
             /\ f.question # NoTag => said.question # 0
<1> DEFINE reported == agent.v2 /\ said.question # 0
           subject == IF reported THEN SubjectTag(said.question) ELSE NoTag
           question == IF reported /\ agent.proof /\ plan.matches THEN QuestionTag(said.question) ELSE NoTag
           answer == IF reported /\ plan.stage = "restructure" /\ AnswerBound(plan, said)
                     THEN AnswerTag(plan.claim) ELSE NoTag
           optIn == reported /\ Expands(said)
<1>1. PlanFrame(plan, said) = [NewFrame EXCEPT !.subject = subject, !.question = question,
                                              !.answer = answer, !.optIn = optIn]
  BY DEF PlanFrame
<1>2. question # NoTag => said.question # 0  OBVIOUS
<1> HIDE DEF subject, question, answer, optIn
<1> QED  BY <1>1, <1>2, Frames DEF IsFrame, IsRec, FrameFields

LEMMA RulingIs ==
  ASSUME NEW pre, NEW frame, NEW turn, NEW said, NEW plan, NEW critic,
         NEW r \in AttemptRulings(pre, frame, turn, said, plan, critic)
  PROVE  LET a == Attempt(pre, frame, plan, said, critic)
         IN  IsRec(r, RulingFields) /\ r.frame = a.frame /\ r.ok = a.ok
<1> DEFINE a == Attempt(pre, frame, plan, said, critic)
<1>1. PICK d, e, p : r = Ruled(a.frame, d, a.ok, e, p)
  BY DEF AttemptRulings
<1> HIDE DEF a
<1>2. IsRec(r, RulingFields) /\ r.frame = a.frame /\ r.ok = a.ok
  BY <1>1 DEF Ruled, IsRec, RulingFields
<1> QED  BY <1>2 DEF a

LEMMA AwaitingIs ==
  ASSUME NEW cur, NEW frame, NEW turn, NEW said, NEW r \in AwaitingRulings(cur, frame, turn, said)
  PROVE  IsRec(r, RulingFields) /\ r.frame = frame /\ ~r.ok
BY DEF AwaitingRulings, Ruled, IsRec, RulingFields

LEMMA SettledIs ==
  ASSUME NEW pre, NEW r, IsRec(r, RulingFields), NEW said, NEW plan
  PROVE  LET q == Settled(pre, r, said, plan)
         IN  IsRec(q, RulingFields) /\ q.frame = r.frame /\ q.ok = r.ok
BY DEF Settled, IsRec, RulingFields

(* Position and binding of a claim that is a proof's.                      *)
LEMMA FirstIs ==
  ASSUME NEW plan, NEW said, StrictlyBound(plan, said), Position(plan, said) = "first"
  PROVE  Own(said) /\ Head(said.clauses) = plan.claim
BY DEF StrictlyBound, AnswerBound, Position

LEMMA ExercisePersons ==
  ASSUME NEW pre, NEW cur, IsState(pre), IsState(cur), NEW turn, NEW said, NEW plan,
         cur.pending = pre.pending \/ (cur.pending = EmptyFrame /\ Recovers(said)),
         cur.support.companion = pre.support.companion, RespondentAllowed(cur, turn, said),
         NEW frame, frame = IF cur.pending.active THEN cur.pending ELSE PlanFrame(plan, said),
         NEW critic,
         NEW r, \/ r \in AttemptRulings(pre, frame, turn, said, plan, critic)
                \/ r \in AwaitingRulings(cur, frame, turn, said),
         NEW q, q = Exercised(pre, Settled(pre, r, said, plan), turn, said, plan)
  PROVE  /\ IsRec(q, ReplyFields)
         /\ q.candidate => Persons(q, pre.pending, pre.support.companion, turn, said)
<1>0. IsFrame(frame)  BY PlanFrameIs DEF IsState
<1>1. IsRec(r, RulingFields) /\ (r.ok => r \in AttemptRulings(pre, frame, turn, said, plan, critic))
  BY RulingIs, AwaitingIs
<1> DEFINE u == Settled(pre, r, said, plan)
           last == Latest(pre, u, said, plan)
<1>2. /\ IsRec(u, RulingFields) /\ last.frame = r.frame /\ last.ok = r.ok
      /\ q.candidate => Candidate(last, turn, said, plan)
      /\ q.proof => q.candidate /\ ~turn.speculative /\ turn.origin = "committed_voice"
  <2>1. IsRec(u, RulingFields) /\ u.frame = r.frame /\ u.ok = r.ok  BY <1>1, SettledIs
  <2> HIDE DEF u
  <2>2. last.frame = u.frame /\ last.ok = u.ok  BY <2>1, LastIs DEF RulingFields
  <2> HIDE DEF last
  <2>3. q = Exercised(pre, u, turn, said, plan)  BY DEF u
  <2> QED  BY <2>1, <2>2, <2>3, ExercisedIs DEF last
<1> HIDE DEF u, last
<1>3. IsRec(q, ReplyFields) /\ q.claim = plan.claim
  BY <1>1, SettledIs, ExercisedIs
<1>4. ASSUME q.candidate
      PROVE  Persons(q, pre.pending, pre.support.companion, turn, said)
  <2> DEFINE a == Attempt(pre, frame, plan, said, critic)
  <2>1. Candidate(last, turn, said, plan)  BY <1>2, <1>4
  <2>2. /\ last.ok /\ StrictlyBound(plan, said) /\ Position(plan, said) = "first"
        /\ last.frame.question # NoTag /\ ~turn.strict
    BY <2>1 DEF Candidate
  <2>3. r.frame = a.frame /\ a.ok
    <3>1. r \in AttemptRulings(pre, frame, turn, said, plan, critic)  BY <1>1, <1>2, <2>2
    <3>2. r.ok  BY <1>2, <2>2
    <3> QED  BY <3>1, <3>2, RulingIs
  <2>4. a.frame.question # NoTag  BY <1>2, <2>2, <2>3
  <2>5. /\ ~(Protected(frame) /\ pre.pending.active) => a.frame = frame
        /\ Protected(frame) /\ pre.pending.active =>
             /\ said.question = 0 /\ a.frame.question = frame.question
             /\ frame.answer \in {NoTag, AnswerTag(plan.claim)}
    BY <1>0, <2>3, AttemptIs
  <2> HIDE DEF a
  <2>6. Own(said) /\ Head(said.clauses) = plan.claim  BY <2>2, FirstIs
  <2>7. ~pre.support.companion  BY DEF RespondentAllowed
  <2>8. CASE cur.pending.active
    <3>1. frame = pre.pending  BY <2>8, Frames
    <3>2. pre.pending.active /\ frame.question # NoTag
      BY <2>4, <2>5, <2>8, <3>1 DEF Protected
    <3>3. Protected(frame)  BY <3>2 DEF Protected
    <3> QED  BY <1>2, <1>3, <2>2, <2>5, <2>6, <2>7, <3>1, <3>2, <3>3 DEF Persons
  <2>9. CASE ~cur.pending.active
    <3>1. OptIn(said)  BY <2>9 DEF RespondentAllowed
    <3>2. ~Recovers(said)  BY <3>1 DEF OptIn, Recovers
    <3>3. ~pre.pending.active  BY <2>9, <3>2
    <3>4. frame = PlanFrame(plan, said) /\ frame.question # NoTag  BY <2>4, <2>5, <2>9, <3>3
    <3>5. said.question # 0  BY <3>4, PlanFrameIs
    <3> QED  BY <1>2, <1>3, <2>2, <2>6, <2>7, <3>1, <3>3, <3>5 DEF Persons
  <2> QED  BY <2>8, <2>9
<1> QED  BY <1>3, <1>4
-----------------------------------------------------------------------------
(* Good states: what a token may hold.                                     *)
Supports == [fading: 0..2, verified: 0..1, cooldown: 0..3, companion: BOOLEAN]

GoodState(s) ==
  /\ IsState(s) /\ s.turn \in Nat /\ s.turn <= MaxStateTurns
  /\ ValidFrame(s.pending) /\ s.pending.attempts \in Nat
  /\ s.support \in Supports
  /\ s.support.companion => ~s.pending.active
  /\ s.pending.evidence => s.pending.active

(* A frame a revision can seal: evidence is left out by one that has no    *)
(* transition proofs.                                                      *)
Sealable(f) == ValidFrame([f EXCEPT !.evidence = @ /\ agent.transition])

SealedFrame(f) == NormalFrame(Written(agent, f))

LEMMA SealableIs ==
  ASSUME NEW f, IsFrame(f)
  PROVE  Sealable(f) <=>
         (f.active =>
            /\ f.phase \in ActivePhases /\ f.attempts <= MaxCoachAttempts
            /\ f.optIn => ~f.followUp /\ f.subject # NoTag
            /\ f.question # NoTag => f.subject # NoTag /\ ~f.followUp
            /\ f.followUp => f.phase # "expanding"
            /\ f.native # NoTag => /\ f.phase = "awaiting_answer"
                                   /\ ~f.followUp /\ ~f.optIn
                                   /\ f.restatement = NoTag /\ ~Protected(f)
            /\ f.restatement # NoTag => f.phase = "awaiting_restatement"
            /\ f.evidence /\ agent.transition =>
                 /\ f.phase = "awaiting_restatement"
                 /\ NoTag \notin {f.question, f.subject, f.answer}
                 /\ ~f.followUp /\ ~f.optIn)
<1> DEFINE g == [f EXCEPT !.evidence = @ /\ agent.transition]
<1>1. /\ g.active = f.active /\ g.phase = f.phase /\ g.attempts = f.attempts /\ g.optIn = f.optIn
      /\ g.followUp = f.followUp /\ g.subject = f.subject /\ g.question = f.question
      /\ g.answer = f.answer /\ g.native = f.native /\ g.restatement = f.restatement
      /\ g.evidence = (f.evidence /\ agent.transition)
  BY DEF IsFrame, IsRec, FrameFields
<1>2. Protected(g) = Protected(f)  BY <1>1 DEF Protected
<1> HIDE DEF g
<1> QED  BY <1>1, <1>2 DEF Sealable, ValidFrame, g

LEMMA ValidSealable ==
  ASSUME NEW f, IsFrame(f), ValidFrame(f)
  PROVE  Sealable(f)
BY SealableIs DEF ValidFrame

(* What sealing leaves of a frame. *)
LEMMA SealedFrameIs ==
  ASSUME ValidRevision(agent), NEW f, IsFrame(f), f.attempts \in Nat, NEW g, g = SealedFrame(f)
  PROVE  /\ IsFrame(g) /\ g.attempts \in Nat /\ (g.evidence => g.active)
         /\ g.active =>
              /\ f.active /\ g.phase = f.phase /\ g.attempts = f.attempts /\ g.optIn = f.optIn
              /\ g.followUp = f.followUp /\ g.subject = f.subject /\ g.answer = f.answer
              /\ g.native = f.native /\ g.restatement = f.restatement
              /\ g.question = f.question \/ (g.question = NoTag /\ ~agent.proof)
              /\ g.evidence => f.evidence /\ agent.transition /\ g.question = f.question
         /\ Sealable(f) => ValidFrame(g)
<1> DEFINE kept == [f EXCEPT !.question = IF agent.proof THEN @ ELSE NoTag,
                             !.evidence = @ /\ agent.transition,
                             !.progress = IF agent.progress /\ agent.v2 THEN @ ELSE {}]
           plain == [kept EXCEPT !.evidence = FALSE]
           capability == Protected(kept) \/ kept.native # NoTag \/ kept.optIn
           w == Written(agent, f)
<1>1. /\ IsFrame(kept) /\ kept.active = f.active /\ kept.phase = f.phase
      /\ kept.attempts = f.attempts /\ kept.optIn = f.optIn /\ kept.followUp = f.followUp
      /\ kept.subject = f.subject /\ kept.answer = f.answer /\ kept.native = f.native
      /\ kept.restatement = f.restatement
      /\ kept.question = IF agent.proof THEN f.question ELSE NoTag
      /\ kept.evidence = (f.evidence /\ agent.transition)
  BY DEF IsFrame, IsRec, FrameFields
<1> HIDE DEF kept
<1>2. /\ IsFrame(plain) /\ plain.active = f.active /\ plain.phase = f.phase
      /\ plain.attempts = f.attempts /\ plain.optIn = f.optIn /\ plain.followUp = f.followUp
      /\ plain.subject = f.subject /\ plain.answer = f.answer /\ plain.native = f.native
      /\ plain.restatement = f.restatement /\ plain.question = kept.question /\ ~plain.evidence
  BY <1>1 DEF IsFrame, IsRec, FrameFields
<1> HIDE DEF plain
<1>3. /\ agent.v2 => w = kept
      /\ ~agent.v2 => w = EmptyFrame \/ w = plain
  <2>1. w = IF agent.v2 THEN kept ELSE IF capability THEN EmptyFrame ELSE plain
    BY DEF Written, kept, plain
  <2> HIDE DEF w, capability
  <2> QED  BY <2>1
<1> HIDE DEF w, capability
<1>4. /\ IsFrame(EmptyFrame) /\ ~EmptyFrame.active /\ ~EmptyFrame.evidence /\ EmptyFrame.attempts = 0
  BY Frames DEF EmptyFrame
<1>5. g = w \/ g = EmptyFrame  BY DEF SealedFrame, NormalFrame, w
<1>6. g.active \/ g = EmptyFrame  BY <1>4 DEF SealedFrame, NormalFrame, w
<1>7. agent.transition => agent.proof  BY DEF ValidRevision
<1>8. ASSUME Sealable(f) PROVE ValidFrame(g)
  <2>1. ~g.active => ValidFrame(g)  BY DEF ValidFrame
  <2>2. CASE g = kept  BY ZenonT(30), <1>1, <1>7, <1>8, <2>2, SealableIs DEF ValidFrame, Protected
  <2>3. CASE g = plain  BY ZenonT(30), <1>1, <1>2, <1>8, <2>3, SealableIs DEF ValidFrame, Protected
  <2> QED  BY <1>3, <1>4, <1>5, <2>1, <2>2, <2>3
<1>9. g = kept \/ g = plain \/ g = EmptyFrame  BY <1>3, <1>5
<1>10. CASE g = kept  BY <1>1, <1>6, <1>4, <1>7, <1>8, <1>10
<1>11. CASE g = plain  BY <1>1, <1>2, <1>6, <1>4, <1>8, <1>11
<1>12. CASE g = EmptyFrame  BY <1>4, <1>8, <1>12
<1> QED  BY <1>9, <1>10, <1>11, <1>12

-----------------------------------------------------------------------------
(* What a turn seals. *)
SeedOf(s, p, sup, n) ==
  n = Carry(s, p, sup) \/ \E request, scope : n = WithCheckpoint(Carry(s, p, sup), request, scope)

LEMMA SealedIs ==
  ASSUME ValidRevision(agent), MaxStateTurns \in Nat,
         NEW s, s.turn \in Nat, s.turn < MaxStateTurns,
         NEW p, IsFrame(p), p.attempts \in Nat,
         NEW sup \in Supports, sup.companion => ~p.active,
         NEW n, SeedOf(s, p, sup, n)
  PROVE  LET x == Sealed(agent, n)
         IN  /\ x.pending = SealedFrame(p)
             /\ ValidState(x) => GoodState(x)
             /\ Sealable(p) => ValidState(x)
<1> DEFINE x == Sealed(agent, n)
           carry == Carry(s, p, sup)
<1>1. /\ IsRec(carry, StateFields) /\ carry.turn = s.turn + 1
      /\ carry.pending = p /\ carry.support = sup
  BY DEF Carry, IsRec, StateFields
<1> HIDE DEF carry
<1>2. IsRec(n, StateFields) /\ n.turn = s.turn + 1 /\ n.pending = p /\ n.support = sup
  <2>1. CASE n = carry  BY <1>1, <2>1
  <2>2. ASSUME NEW request, NEW scope, n = WithCheckpoint(carry, request, scope)
        PROVE  IsRec(n, StateFields) /\ n.turn = s.turn + 1 /\ n.pending = p /\ n.support = sup
    BY <1>1, <2>2 DEF WithCheckpoint, IsRec, StateFields
  <2> QED  BY <2>1, <2>2 DEF SeedOf, carry
<1> DEFINE g == NormalFrame(Written(agent, n.pending))
           support == IF agent.v2 THEN sup ELSE NoSupport
<1>3. IsRec(x, StateFields) /\ x.turn = s.turn + 1 /\ x.pending = g /\ x.support = support
  <2> HIDE DEF g
  <2>1. x = [n EXCEPT !.pending = g, !.support = support,
                      !.checkpoint = IF agent.v2 THEN @ ELSE NoTag]
    BY <1>2 DEF Sealed, g
  <2> HIDE DEF x, support
  <2> QED  BY <1>2, <2>1 DEF IsRec, StateFields
<1>4. g = SealedFrame(p)  BY <1>2 DEF SealedFrame
<1> HIDE DEF g, x
<1>5. NoSupport \in Supports /\ ~NoSupport.companion  BY DEF Supports, NoSupport
<1>6. /\ support \in Supports /\ IsRec(support, SupportFields) /\ ValidSupport(support)
      /\ support.companion => sup.companion
  BY <1>5 DEF Supports, ValidSupport, IsRec, SupportFields, MaxFading
<1> HIDE DEF support
<1>7. /\ IsFrame(g) /\ g.attempts \in Nat /\ (g.evidence => g.active) /\ (g.active => p.active)
      /\ Sealable(p) => ValidFrame(g)
  BY <1>4, SealedFrameIs
<1>8. x.turn \in 1..MaxStateTurns /\ x.turn \in Nat /\ x.turn <= MaxStateTurns  BY <1>3
<1>9. ValidState(x) => GoodState(x)
  BY <1>3, <1>6, <1>7, <1>8 DEF ValidState, GoodState, IsState
<1>10. Sealable(p) => ValidState(x)
  BY <1>3, <1>6, <1>7, <1>8 DEF ValidState
<1> QED  BY <1>3, <1>4, <1>9, <1>10 DEF x

(* A reply whose token holds a frame that was sealed from p.               *)
Made(r, turn, p) ==
  /\ IsRec(r, ReplyFields) /\ r.next.pending = SealedFrame(p)
  /\ r.kind = "reply" => GoodState(r.next)
  /\ r.kind = "refused" /\ Sealable(p) => ~agent.v2 /\ turn.request # 0

Quiet(r) == ~r.candidate /\ ~r.proof /\ ~r.transition

LEMMA ReplyMade ==
  ASSUME ValidRevision(agent), MaxStateTurns \in Nat,
         NEW s, s.turn \in Nat, s.turn < MaxStateTurns,
         NEW p, IsFrame(p), p.attempts \in Nat,
         NEW sup \in Supports, sup.companion => ~p.active,
         NEW n, SeedOf(s, p, sup, n),
         NEW t, NEW stage, NEW phase, NEW a, NEW k, NEW turn
  PROVE  LET r == Reply(n, t, stage, phase, a, k)
         IN  Made(r, turn, p) /\ Quiet(r) /\ r.target = t /\ r.spoken = k
<1> DEFINE r == Reply(n, t, stage, phase, a, k)
<1>1. /\ IsRec(r, ReplyFields) /\ r.next = Sealed(agent, n) /\ r.target = t /\ r.spoken = k /\ Quiet(r)
      /\ r.kind = IF ValidState(Sealed(agent, n)) THEN "reply" ELSE "refused"
  BY ReplyIs DEF Quiet
<1> HIDE DEF r
<1>2. /\ r.next.pending = SealedFrame(p)
      /\ ValidState(r.next) => GoodState(r.next)
      /\ Sealable(p) => ValidState(r.next)
  BY <1>1, SealedIs
<1>3. Made(r, turn, p)  BY <1>1, <1>2 DEF Made
<1> QED  BY <1>1, <1>3 DEF r

LEMMA PlainMade ==
  ASSUME ValidRevision(agent), MaxStateTurns \in Nat,
         NEW s, s.turn \in Nat, s.turn < MaxStateTurns,
         NEW p, IsFrame(p), p.attempts \in Nat,
         NEW sup \in Supports, sup.companion => ~p.active, NEW k, NEW turn
  PROVE  LET r == Plain(Carry(s, p, sup), k)
         IN  Made(r, turn, p) /\ Quiet(r) /\ r.target = "assistant" /\ r.spoken = k
BY ReplyMade DEF Plain, SeedOf

LEMMA CoachedMade ==
  ASSUME ValidRevision(agent), MaxStateTurns \in Nat,
         NEW s, s.turn \in Nat, s.turn < MaxStateTurns,
         NEW p, IsFrame(p), p.attempts \in Nat,
         NEW sup \in Supports, sup.companion => ~p.active,
         NEW n, SeedOf(s, p, sup, n), NEW stage, NEW d, NEW turn
  PROVE  LET r == Coached(n, stage, d)
         IN  Made(r, turn, p) /\ Quiet(r) /\ r.target = "respondent" /\ r.spoken = d.reply
BY ReplyMade DEF Coached

LEMMA CheckpointedMade ==
  ASSUME ValidRevision(agent), MaxStateTurns \in Nat,
         NEW s, s.turn \in Nat, s.turn < MaxStateTurns,
         NEW p, IsFrame(p), p.attempts \in Nat,
         NEW sup \in Supports, sup.companion => ~p.active,
         NEW turn, NEW scope, NEW stage, NEW d
  PROVE  LET r == Checkpointed(turn, Carry(s, p, sup), scope, stage, d)
         IN  Made(r, turn, p) /\ Quiet(r) /\ r.target = "respondent" /\ r.spoken = d.reply
<1> DEFINE n == Carry(s, p, sup)
           m == WithCheckpoint(n, turn.request, scope)
           plain == Coached(n, stage, d)
           full == Coached(m, stage, d)
           none == [plain EXCEPT !.kind = "refused"]
<1>1. SeedOf(s, p, sup, n) /\ SeedOf(s, p, sup, m)  BY DEF SeedOf
<1> HIDE DEF n, m
<1>0. ASSUME NEW x, SeedOf(s, p, sup, x)
      PROVE  LET r == Coached(x, stage, d)
             IN  Made(r, turn, p) /\ Quiet(r) /\ r.target = "respondent" /\ r.spoken = d.reply
  BY <1>0, CoachedMade
<1>2. Made(plain, turn, p) /\ Quiet(plain) /\ plain.target = "respondent" /\ plain.spoken = d.reply
  BY <1>0, <1>1
<1>3. Made(full, turn, p) /\ Quiet(full) /\ full.target = "respondent" /\ full.spoken = d.reply
  BY <1>0, <1>1
<1> HIDE DEF plain, full
<1>4. /\ IsRec(none, ReplyFields) /\ none.kind = "refused"
      /\ none.next = plain.next /\ none.target = plain.target /\ none.spoken = plain.spoken
      /\ none.candidate = plain.candidate /\ none.proof = plain.proof
      /\ none.transition = plain.transition
  BY <1>2 DEF Made, IsRec, ReplyFields
<1>5. ~agent.v2 /\ turn.request # 0 =>
        Made(none, turn, p) /\ Quiet(none) /\ none.target = "respondent" /\ none.spoken = d.reply
  <2> HIDE DEF none
  <2> QED  BY <1>2, <1>4 DEF Made, Quiet
<1> DEFINE r == Checkpointed(turn, n, scope, stage, d)
<1>6. \/ r = plain
      \/ r = full
      \/ ~agent.v2 /\ turn.request # 0 /\ r = none
  BY DEF Checkpointed, plain, full, m
<1>7. Made(r, turn, p) /\ Quiet(r) /\ r.target = "respondent" /\ r.spoken = d.reply
  <2> HIDE DEF r, none
  <2> QED  BY <1>2, <1>3, <1>5, <1>6
<1> QED  BY <1>7 DEF n

-----------------------------------------------------------------------------
(* What a turn does to the frame f of the token, through the frame b it    *)
(* enters with: an exercise that goes on is the same one, a prompt is for  *)
(* someone who had none, evidence is old or of what was just said.         *)
RevokedBy(ag, f) ==
  /\ f.active
  /\ \/ f.followUp
     \/ ag.v2 /\ f.phase = "expanding" /\ ~f.optIn
     \/ ag.binding /\ f.phase = "awaiting_restatement" /\ f.restatement = NoTag

SaidOfLate(claim, said) == claim # NoOne /\ Own(said) /\ Head(said.clauses) # claim

Counted(f, b, g, r) ==
  /\ b.active \/ r.target = "assistant" =>
       /\ f.active
       /\ g.attempts >= f.attempts \/ g.phase = "expanding"
       /\ f.phase = "expanding" => g.phase = "expanding"
  /\ b.active /\ r.spoken \in {"core", "reask"} =>
       f.attempts = 0 /\ f.phase # "expanding" /\ g.attempts >= 1

Evident(f, b, g, r, said) ==
  g.evidence => \/ /\ f.evidence /\ g.question = f.question /\ g.answer = f.answer
                   /\ b.active \/ r.target = "assistant"
                \/ SaidOfLate(r.claim, said) /\ g.answer = AnswerTag(r.claim)

Stays(ag, f, g) ==
  f.active /\ ~RevokedBy(ag, f) =>
    /\ f.question \in {NoTag, g.question} \/ ~ag.proof
    /\ f.answer # NoTag /\ g.phase # "expanding" /\ g.answer # NoTag => g.answer = f.answer

Follows(ag, f, b, g, r, said) ==
  g.active => Counted(f, b, g, r) /\ Evident(f, b, g, r, said) /\ Stays(ag, f, g)

Sound(ag, r, f, pre, turn, said) ==
  /\ IsRec(r, ReplyFields)
  /\ r.candidate => Persons(r, pre.pending, pre.support.companion, turn, said)
  /\ r.transition => r.candidate /\ pre.pending.evidence
  /\ r.kind = "refused" => pre.pending.optIn \/ Expands(said) \/ (~ag.v2 /\ turn.request # 0)
  /\ r.kind = "reply" =>
       GoodState(r.next) /\ Follows(ag, f, pre.pending, r.next.pending, r, said)

(* What a turn may enter with, from a token that holds the frame f.        *)
EnteredFrom(ag, f, pre) ==
  /\ IsState(pre) /\ pre.pending.attempts \in Nat /\ pre.support \in Supports
  /\ pre.support.companion => ~pre.pending.active
  /\ pre.pending.evidence => pre.pending.active
  /\ ~pre.pending.optIn => ValidFrame(pre.pending)
  /\ \/ RevokedBy(ag, f) /\ pre.pending = EmptyFrame
     \/ ~RevokedBy(ag, f) /\ pre.pending = f
     \/ ~RevokedBy(ag, f) /\ f.active /\ pre.pending = Noted(f)

Entering(s, pre) ==
  /\ ValidRevision(agent) /\ MaxStateTurns \in Nat
  /\ GoodState(s) /\ s.turn < MaxStateTurns
  /\ EnteredFrom(agent, s.pending, pre) /\ pre.turn = s.turn

LEMMA NotedIs ==
  ASSUME NEW f, IsFrame(f)
  PROVE  LET g == Noted(f)
         IN  /\ IsFrame(g) /\ g.optIn /\ g.active = f.active /\ g.phase = f.phase
             /\ g.attempts = f.attempts /\ g.followUp = f.followUp /\ g.question = f.question
             /\ g.subject = f.subject /\ g.answer = f.answer /\ g.native = f.native
             /\ g.restatement = f.restatement /\ g.evidence = f.evidence
BY DEF Noted, IsFrame, IsRec, FrameFields

LEMMA EmptyIs ==
  /\ IsFrame(EmptyFrame) /\ ~EmptyFrame.active /\ ~EmptyFrame.evidence /\ ~EmptyFrame.optIn
  /\ EmptyFrame.attempts = 0 /\ ValidFrame(EmptyFrame) /\ Sealable(EmptyFrame)
<1>1. /\ IsFrame(EmptyFrame) /\ ~EmptyFrame.active /\ ~EmptyFrame.evidence /\ ~EmptyFrame.optIn
      /\ EmptyFrame.attempts = 0
  BY Frames DEF EmptyFrame
<1> QED  BY <1>1, ValidSealable DEF ValidFrame

LEMMA SupportIs ==
  ASSUME NEW p
  PROVE  p \in Supports <=> /\ IsRec(p, SupportFields) /\ p.fading \in 0..2
                            /\ p.verified \in 0..1 /\ p.cooldown \in 0..3
                            /\ p.companion \in BOOLEAN
BY DEF Supports, IsRec, SupportFields

LEMMA OptedInIs ==
  ASSUME NEW s, IsState(s), s.support \in Supports
  PROVE  OptedIn(s).support \in Supports /\ ~OptedIn(s).support.companion
<1> DEFINE p == [s.support EXCEPT !.companion = FALSE, !.cooldown = 0]
<1>1. p \in Supports /\ ~p.companion
  <2>1. /\ IsRec(p, SupportFields) /\ p.fading = s.support.fading
        /\ p.verified = s.support.verified /\ p.cooldown = 0 /\ p.companion = FALSE
    BY SupportIs DEF IsRec, SupportFields
  <2>2. s.support.fading \in 0..2 /\ s.support.verified \in 0..1  BY SupportIs
  <2> HIDE DEF p
  <2>3. p.cooldown \in 0..3  BY <2>1
  <2>4. p.companion \in BOOLEAN  BY <2>1, Zenon
  <2> QED  BY <2>1, <2>2, <2>3, <2>4, SupportIs
<1>2. OptedIn(s).support = p  BY DEF OptedIn, IsState, IsRec, StateFields
<1> QED  BY <1>1, <1>2

LEMMA EnteredGood ==
  ASSUME NEW s, GoodState(s), NEW turn, NEW said
  PROVE  LET e == Entered(s, turn, said)
         IN  EnteredFrom(agent, s.pending, e) /\ e.turn = s.turn
<1> DEFINE e == Entered(s, turn, said)
           f == s.pending
<1>1. IsState(s) /\ IsFrame(f)  BY DEF GoodState, IsState
<1>2. /\ IsState(e) /\ e.turn = s.turn
      /\ e.support = s.support \/ (s.support.companion /\ e.support = OptedIn(s).support)
      /\ \/ Revoked(f) /\ e.pending = EmptyFrame
         \/ ~Revoked(f) /\ e.pending = f
         \/ ~Revoked(f) /\ e.pending = Noted(f) /\ f.active /\ ~e.support.companion
  BY <1>1, EnteredIs
<1> HIDE DEF e
<1>3. Revoked(f) = RevokedBy(agent, f)  BY DEF Revoked, RevokedBy
<1>4. e.support \in Supports /\ (e.support.companion => ~f.active)
  BY <1>1, <1>2, OptedInIs DEF GoodState
<1>5. EnteredFrom(agent, f, e)
  <2>1. CASE e.pending = EmptyFrame
    BY <1>2, <1>3, <1>4, <2>1, EmptyIs DEF EnteredFrom, GoodState
  <2>2. CASE e.pending = f
    BY <1>2, <1>3, <1>4, <2>2 DEF EnteredFrom, GoodState
  <2>3. CASE e.pending = Noted(f) /\ f.active /\ ~Revoked(f) /\ ~e.support.companion
    BY <1>1, <1>2, <1>3, <1>4, <2>3, NotedIs DEF EnteredFrom, GoodState
  <2> QED  BY <1>2, <2>1, <2>2, <2>3
<1> QED  BY <1>2, <1>5 DEF e

LEMMA PreIs ==
  ASSUME NEW ag, NEW f, IsFrame(f), NEW pre, EnteredFrom(ag, f, pre)
  PROVE  LET b == pre.pending
         IN  /\ IsFrame(b) /\ b.attempts \in Nat
             /\ b.active =>
                  /\ f.active /\ ~RevokedBy(ag, f) /\ ~b.followUp
                  /\ b.phase = f.phase /\ b.attempts = f.attempts /\ b.question = f.question
                  /\ b.subject = f.subject /\ b.answer = f.answer /\ b.native = f.native
                  /\ b.restatement = f.restatement /\ b.evidence = f.evidence
             /\ f.active /\ ~RevokedBy(ag, f) => b.active
<1> DEFINE b == pre.pending
<1>1. IsFrame(b) /\ b.attempts \in Nat  BY DEF EnteredFrom, IsState
<1>2. CASE b = EmptyFrame /\ RevokedBy(ag, f)  BY <1>1, <1>2, EmptyIs
<1>3. CASE b = f /\ ~RevokedBy(ag, f)  BY <1>1, <1>3 DEF RevokedBy
<1>4. CASE b = Noted(f) /\ f.active /\ ~RevokedBy(ag, f)
  BY <1>1, <1>4, NotedIs DEF RevokedBy
<1> QED  BY <1>2, <1>3, <1>4 DEF EnteredFrom

-----------------------------------------------------------------------------
(* Replies that keep a frame as it is, or none.                            *)
LEMMA KeptSound ==
  ASSUME NEW s, NEW pre, Entering(s, pre), NEW turn, NEW said,
         NEW p \in {s.pending, pre.pending, EmptyFrame},
         NEW r, Made(r, turn, p), Quiet(r), r.spoken \notin {"core", "reask"},
         r.target = "assistant" \/ p = pre.pending
  PROVE  Sound(agent, r, s.pending, pre, turn, said)
<1> DEFINE f == s.pending
           b == pre.pending
           g == r.next.pending
<1>1. /\ IsFrame(f) /\ ValidFrame(f) /\ f.attempts \in Nat
      /\ IsFrame(b) /\ b.attempts \in Nat
      /\ b.active => /\ f.active /\ ~RevokedBy(agent, f) /\ b.phase = f.phase /\ b.attempts = f.attempts
                     /\ b.question = f.question /\ b.answer = f.answer /\ b.evidence = f.evidence
      /\ f.active /\ ~RevokedBy(agent, f) => b.active
      /\ ~b.optIn => ValidFrame(b)
  BY PreIs DEF Entering, GoodState, IsState, EnteredFrom
<1>2. IsFrame(p) /\ p.attempts \in Nat  BY <1>1, EmptyIs
<1>3. ~b.optIn => Sealable(p)  BY <1>1, EmptyIs, ValidSealable
<1>4. p.active =>
        /\ f.active /\ p.phase = f.phase /\ p.attempts = f.attempts
        /\ p.question = f.question /\ p.answer = f.answer /\ p.evidence = f.evidence
  BY <1>1, EmptyIs
<1>5. g.active =>
        /\ p.active /\ g.phase = p.phase /\ g.attempts = p.attempts /\ g.answer = p.answer
        /\ g.question = p.question \/ (g.question = NoTag /\ ~agent.proof)
        /\ g.evidence => p.evidence /\ g.question = p.question
  BY <1>2, SealedFrameIs DEF Made, Entering
<1>6. /\ IsRec(r, ReplyFields) /\ (r.kind = "reply" => GoodState(r.next))
      /\ r.kind = "refused" => b.optIn \/ (~agent.v2 /\ turn.request # 0)
  BY <1>3 DEF Made
<1>7. b.active \/ r.target = "assistant" \/ ~p.active  BY EmptyIs
<1>8. ASSUME g.active PROVE Counted(f, b, g, r)
  BY <1>1, <1>4, <1>5, <1>8 DEF Counted
<1>9. ASSUME g.active PROVE Evident(f, b, g, r, said)
  BY <1>4, <1>5, <1>7, <1>9 DEF Evident
<1>10. ASSUME g.active PROVE Stays(agent, f, g)
  BY <1>4, <1>5, <1>10 DEF Stays
<1> HIDE DEF f, b, g
<1>11. Follows(agent, f, b, g, r, said)  BY <1>8, <1>9, <1>10 DEF Follows
<1> QED  BY <1>6, <1>11 DEF Sound, Quiet, f, b, g

LEMMA PlainSound ==
  ASSUME NEW s, NEW pre, Entering(s, pre), NEW turn, NEW said,
         NEW p \in {s.pending, pre.pending, EmptyFrame},
         NEW sup \in Supports, sup.companion => ~p.active,
         NEW x, x.turn = s.turn, NEW k, k \notin {"core", "reask"}
  PROVE  Sound(agent, Plain(Carry(x, p, sup), k), s.pending, pre, turn, said)
<1>1. IsFrame(p) /\ p.attempts \in Nat
  BY PreIs, EmptyIs DEF Entering, GoodState, IsState, EnteredFrom
<1> DEFINE r == Plain(Carry(x, p, sup), k)
<1>2. Made(r, turn, p) /\ Quiet(r) /\ r.target = "assistant" /\ r.spoken = k
  BY <1>1, PlainMade DEF Entering, GoodState
<1> HIDE DEF r
<1>3. Sound(agent, r, s.pending, pre, turn, said)  BY <1>2, KeptSound
<1> QED  BY <1>3 DEF r

LEMMA WithheldSound ==
  ASSUME NEW f, NEW pre, NEW turn, NEW said
  PROVE  Sound(agent, Withheld, f, pre, turn, said)
<1>1. IsRec(Plain(Unsealed, ""), ReplyFields) /\ Quiet(Plain(Unsealed, ""))
  BY ReplyIs DEF Plain, Quiet
<1>2. IsRec(Withheld, ReplyFields) /\ Quiet(Withheld) /\ Withheld.kind = "withheld"
  <2> HIDE DEF Plain
  <2> QED  BY <1>1 DEF Withheld, IsRec, ReplyFields, Quiet
<1> QED  BY <1>2 DEF Sound, Quiet

LEMMA PausedSound ==
  ASSUME NEW s, NEW pre, Entering(s, pre), NEW turn, NEW said, NEW f, NEW plan
  PROVE  Sound(agent, Paused(pre, f, turn, plan), s.pending, pre, turn, said)
<1> DEFINE scope == IF ScopeTag(pre.pending) # NoTag THEN ScopeTag(pre.pending) ELSE ScopeTag(f)
           d == Decision("blocked", "retry", "safety", f.attempts)
           r == Checkpointed(turn, Carry(pre, pre.pending, pre.support), scope, plan.stage, d)
<1>1. IsFrame(pre.pending) /\ pre.pending.attempts \in Nat
  BY DEF Entering, EnteredFrom, IsState
<1>2. d.reply = "safety"  BY DEF Decision
<1> HIDE DEF scope, d
<1>3. Made(r, turn, pre.pending) /\ Quiet(r) /\ r.spoken = "safety"
  BY <1>1, <1>2, CheckpointedMade DEF Entering, EnteredFrom, GoodState
<1> HIDE DEF r
<1>4. Sound(agent, r, s.pending, pre, turn, said)  BY <1>3, KeptSound
<1>5. r = Paused(pre, f, turn, plan)  BY DEF Paused, r, scope, d
<1> QED  BY <1>4, <1>5

LEMMA HoldSound ==
  ASSUME NEW s, NEW pre, Entering(s, pre), NEW turn, NEW said
  PROVE  Sound(agent, Hold(pre, turn), s.pending, pre, turn, said)
<1> DEFINE carry == Carry(pre, pre.pending, pre.support)
           scope == ScopeTag(pre.pending)
           n == IF turn.request # 0 /\ scope # NoTag
                THEN WithCheckpoint(carry, turn.request, scope) ELSE carry
           d == Decision("expanding", "expand", "", pre.pending.attempts)
           r == Coached(n, "awaiting_answer", d)
<1>1. IsFrame(pre.pending) /\ pre.pending.attempts \in Nat
  BY DEF Entering, EnteredFrom, IsState
<1>2. d.reply = "" /\ SeedOf(pre, pre.pending, pre.support, n)  BY DEF Decision, SeedOf
<1> HIDE DEF carry, scope, d, n
<1> DEFINE p == pre.pending
           sup == pre.support
<1>6. /\ ValidRevision(agent) /\ MaxStateTurns \in Nat
      /\ pre.turn \in Nat /\ pre.turn < MaxStateTurns
      /\ IsFrame(p) /\ p.attempts \in Nat
      /\ sup \in Supports /\ (sup.companion => ~p.active)
  BY <1>1 DEF Entering, EnteredFrom, GoodState
<1> HIDE DEF p, sup
<1>7. ASSUME NEW x, SeedOf(pre, p, sup, x)
      PROVE  LET q == Coached(x, "awaiting_answer", d)
             IN  Made(q, turn, p) /\ Quiet(q) /\ q.spoken = d.reply
  BY <1>6, <1>7, CoachedMade
<1>3. Made(r, turn, pre.pending) /\ Quiet(r) /\ r.spoken = ""
  BY <1>2, <1>7 DEF p, sup
<1> HIDE DEF r
<1>4. Sound(agent, r, s.pending, pre, turn, said)  BY <1>3, KeptSound
<1>5. r = Hold(pre, turn)  BY DEF Hold, r, n, scope, d, carry
<1> QED  BY <1>4, <1>5

(* Replies that open a scope without a model: a question, or a slot.       *)
LEMMA OpenedSound ==
  ASSUME NEW s, NEW pre, Entering(s, pre), ~pre.pending.active, NEW turn, NEW said,
         NEW p, IsFrame(p), p.attempts \in Nat, ValidFrame(p), ~p.evidence,
         NEW r, Made(r, turn, p), Quiet(r), r.target = "respondent"
  PROVE  Sound(agent, r, s.pending, pre, turn, said)
<1> DEFINE f == s.pending
           b == pre.pending
           g == r.next.pending
<1>1. ~(f.active /\ ~RevokedBy(agent, f))
  BY PreIs DEF Entering, GoodState, IsState
<1>2. ~g.evidence
  BY SealedFrameIs DEF Made, Entering
<1>3. /\ IsRec(r, ReplyFields) /\ (r.kind = "reply" => GoodState(r.next))
      /\ r.kind = "refused" => ~agent.v2 /\ turn.request # 0
  BY ValidSealable DEF Made
<1>4. Follows(agent, f, b, g, r, said)
  BY <1>1, <1>2 DEF Follows, Counted, Evident, Stays
<1> HIDE DEF f, b, g
<1> QED  BY <1>3, <1>4 DEF Sound, Quiet, f, b, g

LEMMA OpenQuestionSound ==
  ASSUME NEW s, NEW pre, Entering(s, pre), NEW turn, NEW said, OpensQuestion(pre, turn, said)
  PROVE  Sound(agent, OpenQuestion(pre, turn, said), s.pending, pre, turn, said)
<1> DEFINE p == [NewFrame EXCEPT !.question = QuestionTag(said.question),
                                 !.subject = SubjectTag(said.question)]
           sup == OptedIn(pre).support
           n == WithCheckpoint(Carry(pre, p, sup), turn.request, p.question)
           d == IF DecideQARC(Observed(TRUE, turn, TRUE, FALSE, FALSE, 0)) = "cue"
                THEN Decision(p.phase, "elicit", "opening", 0) ELSE Decision(p.phase, "none", "", 0)
           r == Coached(n, "awaiting_answer", d)
<1>1. /\ IsFrame(p) /\ p.attempts \in Nat /\ ~p.evidence /\ ValidFrame(p)
  <2>1. /\ IsFrame(p) /\ p.attempts = 0 /\ ~p.evidence /\ p.phase = "awaiting_answer"
        /\ ~p.optIn /\ ~p.followUp /\ p.native = NoTag /\ p.restatement = NoTag
        /\ p.subject = SubjectTag(said.question)
    BY ZenonT(30), Frames DEF NewFrame, EmptyFrame, IsFrame, IsRec, FrameFields
  <2>2. p.subject # NoTag  BY <2>1 DEF SubjectTag, NoTag
  <2> HIDE DEF p
  <2> QED  BY <2>1, <2>2 DEF ValidFrame, ActivePhases, MaxCoachAttempts
<1>2. ~pre.pending.active  BY DEF OpensQuestion, CanOpen
<1>3. sup \in Supports /\ ~sup.companion
  BY OptedInIs DEF Entering, EnteredFrom
<1>4. SeedOf(pre, p, sup, n)  BY DEF SeedOf
<1>5. OpenQuestion(pre, turn, said) = r  BY DEF OpenQuestion
<1>6. ValidRevision(agent) /\ MaxStateTurns \in Nat /\ pre.turn \in Nat /\ pre.turn < MaxStateTurns
  BY DEF Entering, GoodState
<1> HIDE DEF p, sup, n, d
<1>8. ASSUME NEW x, SeedOf(pre, p, sup, x)
      PROVE  LET q == Coached(x, "awaiting_answer", d)
             IN  Made(q, turn, p) /\ Quiet(q) /\ q.target = "respondent"
  BY <1>1, <1>3, <1>6, <1>8, CoachedMade
<1>7. Made(r, turn, p) /\ Quiet(r) /\ r.target = "respondent"
  BY <1>4, <1>8
<1> HIDE DEF r
<1> QED  BY <1>1, <1>2, <1>5, <1>7, OpenedSound

LEMMA OpenSlotSound ==
  ASSUME NEW s, NEW pre, Entering(s, pre), NEW turn, NEW said, OpensSlot(pre, turn, said)
  PROVE  Sound(agent, OpenSlot(pre, turn, said), s.pending, pre, turn, said)
<1> DEFINE p == [NewFrame EXCEPT !.native = NativeTag(pre.turn + 1)]
           sup == OptedIn(pre).support
           n == WithCheckpoint(Carry(pre, p, sup), turn.request, p.native)
           d == Decision(p.phase, "elicit", "opening", 0)
           r == Coached(n, "awaiting_answer", d)
<1>1. /\ IsFrame(p) /\ p.attempts \in Nat /\ ~p.evidence /\ ValidFrame(p)
  <2>1. /\ IsFrame(p) /\ p.attempts = 0 /\ ~p.evidence /\ p.phase = "awaiting_answer"
        /\ ~p.optIn /\ ~p.followUp /\ p.restatement = NoTag
        /\ p.question = NoTag /\ p.subject = NoTag /\ p.answer = NoTag
    BY ZenonT(30), Frames DEF NewFrame, EmptyFrame, IsFrame, IsRec, FrameFields
  <2> HIDE DEF p
  <2> QED  BY <2>1 DEF ValidFrame, ActivePhases, MaxCoachAttempts, Protected
<1>2. ~pre.pending.active  BY DEF OpensSlot, CanOpen
<1>3. sup \in Supports /\ ~sup.companion
  BY OptedInIs DEF Entering, EnteredFrom
<1>4. SeedOf(pre, p, sup, n)  BY DEF SeedOf
<1>5. OpenSlot(pre, turn, said) = r  BY DEF OpenSlot
<1>6. ValidRevision(agent) /\ MaxStateTurns \in Nat /\ pre.turn \in Nat /\ pre.turn < MaxStateTurns
  BY DEF Entering, GoodState
<1> HIDE DEF p, sup, n, d
<1>8. ASSUME NEW x, SeedOf(pre, p, sup, x)
      PROVE  LET q == Coached(x, "awaiting_answer", d)
             IN  Made(q, turn, p) /\ Quiet(q) /\ q.target = "respondent"
  BY <1>1, <1>3, <1>6, <1>8, CoachedMade
<1>7. Made(r, turn, p) /\ Quiet(r) /\ r.target = "respondent"
  BY <1>4, <1>8
<1> HIDE DEF r
<1> QED  BY <1>1, <1>2, <1>5, <1>7, OpenedSound

-----------------------------------------------------------------------------
(* What is left of the support of someone who is being coached.            *)
LEMMA SupportWith ==
  ASSUME NEW p \in Supports, NEW n, IsRec(n, SupportFields), n.companion = p.companion,
         n.fading \in 0..2, n.verified \in 0..1, n.cooldown \in 0..3
  PROVE  n \in Supports
BY SupportIs

LEMMA SupportPassed ==
  ASSUME NEW p \in Supports, NEW c \in 0..3
  PROVE  LET n == [p EXCEPT !.verified = 0, !.cooldown = c]
         IN  n \in Supports /\ n.companion = p.companion
<1> DEFINE n == [p EXCEPT !.verified = 0, !.cooldown = c]
<1>1. IsRec(p, SupportFields) /\ p.fading \in 0..2  BY SupportIs
<1>2. /\ IsRec(n, SupportFields) /\ n.fading = p.fading /\ n.verified = 0 /\ n.cooldown = c
      /\ n.companion = p.companion
  BY <1>1 DEF IsRec, SupportFields
<1> HIDE DEF n
<1>3. n \in Supports  BY <1>1, <1>2, SupportWith
<1> QED  BY <1>2, <1>3 DEF n

LEMMA SupportKept ==
  ASSUME NEW p \in Supports, NEW r
  PROVE  LET n == SupportAfter(p, r)
         IN  n \in Supports /\ n.companion = p.companion
<1>1. /\ IsRec(p, SupportFields) /\ p.fading \in 0..2 /\ p.verified \in 0..1
  BY SupportIs
<1>2. LET n == AfterVerifiedFirst(p) IN n \in Supports /\ n.companion = p.companion
  <2> DEFINE n == AfterVerifiedFirst(p)
             x == [p EXCEPT !.cooldown = 2, !.verified = 0]
             y == [p EXCEPT !.cooldown = 2, !.verified = 0, !.fading = @ + 1]
             z == [p EXCEPT !.cooldown = 2, !.verified = 1]
  <2>1. n = p \/ n = x \/ (p.fading # 2 /\ n = y) \/ n = z
    BY DEF AfterVerifiedFirst, MaxFading, CooldownAfterAnswer
  <2>2. /\ IsRec(x, SupportFields) /\ x.fading = p.fading /\ x.verified = 0 /\ x.cooldown = 2
        /\ x.companion = p.companion
    BY <1>1 DEF IsRec, SupportFields
  <2>3. /\ IsRec(y, SupportFields) /\ y.fading = p.fading + 1 /\ y.verified = 0
        /\ y.cooldown = 2 /\ y.companion = p.companion
    BY <1>1 DEF IsRec, SupportFields
  <2>4. /\ IsRec(z, SupportFields) /\ z.fading = p.fading /\ z.verified = 1
        /\ z.cooldown = 2 /\ z.companion = p.companion
    BY <1>1 DEF IsRec, SupportFields
  <2> HIDE DEF n, x, y, z
  <2>5. x \in Supports /\ z \in Supports  BY <1>1, <2>2, <2>4, SupportWith
  <2>6. p.fading # 2 => y \in Supports  BY <1>1, <2>3, SupportWith
  <2>7. n \in Supports /\ n.companion = p.companion
    BY <2>1, <2>2, <2>3, <2>4, <2>5, <2>6
  <2> QED  BY <2>7 DEF n
<1>3. LET n == AfterPass(p) IN n \in Supports /\ n.companion = p.companion
  <2>1. LET n == [p EXCEPT !.verified = 0, !.cooldown = 2]
        IN  n \in Supports /\ n.companion = p.companion
    <3>1. 2 \in 0..3  OBVIOUS
    <3> QED  BY <3>1, SupportPassed, Zenon
  <2> QED  BY <2>1 DEF AfterPass, CooldownAfterPass
<1>4. LET n == AfterRelease(p) IN n \in Supports /\ n.companion = p.companion
  <2> DEFINE n == AfterRelease(p)
  <2>1. /\ IsRec(n, SupportFields) /\ n.fading = Most(0, p.fading - 1) /\ n.verified = 0
        /\ n.cooldown = 3 /\ n.companion = p.companion
    BY <1>1 DEF AfterRelease, CooldownAfterRelease, IsRec, SupportFields
  <2> HIDE DEF n
  <2>2. n.fading \in 0..2  BY <1>1, <2>1 DEF Most
  <2>3. n \in Supports  BY <1>1, <2>1, <2>2, SupportWith
  <2> QED  BY <2>1, <2>3 DEF n
<1> HIDE DEF AfterVerifiedFirst, AfterPass, AfterRelease
<1> QED  BY <1>2, <1>3, <1>4 DEF SupportAfter

(* A turn of the exercise seals what it keeps, and says what it decides.   *)
Prompts == {"core", "reask"}

LEMMA ExercisedMade ==
  ASSUME NEW s, NEW pre, Entering(s, pre), ~pre.support.companion,
         NEW r, IsRec(r, RulingFields), NEW turn, NEW said, NEW plan,
         IsFrame(Retained(pre, r, said, plan)), Retained(pre, r, said, plan).attempts \in Nat
  PROVE  LET q == Exercised(pre, r, turn, said, plan)
         IN  /\ Made(q, turn, Retained(pre, r, said, plan))
             /\ q.target = "respondent" /\ q.claim = plan.claim
             /\ q.spoken \in Prompts => Latest(pre, r, said, plan).d.reply \in Prompts
<1> DEFINE kept == Retained(pre, r, said, plan)
           unbound == r.d.keep /\ ~kept.active
           last == Latest(pre, r, said, plan)
           support == IF unbound THEN pre.support ELSE SupportAfter(pre.support, r)
           scope == IF ScopeTag(kept) # NoTag THEN ScopeTag(kept) ELSE ScopeTag(r.frame)
           reply0 == Checkpointed(turn, Carry(pre, kept, support), scope, plan.stage, last.d)
           q == Proved(reply0, pre, last, turn, said, plan)
<1>1. Exercised(pre, r, turn, said, plan) = q
  BY DEF Exercised, Latest, Retained
<1>2. support \in Supports /\ ~support.companion
  BY SupportKept DEF Entering, EnteredFrom
<1>3. /\ ValidRevision(agent) /\ MaxStateTurns \in Nat
      /\ pre.turn \in Nat /\ pre.turn < MaxStateTurns
  BY DEF Entering, GoodState
<1>4. IsFrame(kept) /\ kept.attempts \in Nat  OBVIOUS
<1> HIDE DEF kept, support, scope, last
<1>5. Made(reply0, turn, kept) /\ reply0.target = "respondent" /\ reply0.spoken = last.d.reply
  BY <1>2, <1>3, <1>4, CheckpointedMade
<1> HIDE DEF reply0
<1>6. /\ IsRec(q, ReplyFields) /\ q.next = reply0.next /\ q.kind = reply0.kind
      /\ q.target = reply0.target /\ q.claim = plan.claim
      /\ q.spoken \in {"", reply0.spoken}
  <2>1. IsRec(reply0, ReplyFields)  BY <1>5 DEF Made
  <2> HIDE DEF Candidate, CameLate
  <2> QED  BY <2>1 DEF Proved, IsRec, ReplyFields
<1> HIDE DEF q
<1>7. Made(q, turn, kept)  BY <1>5, <1>6 DEF Made
<1>8. q.spoken \in Prompts => reply0.spoken \in Prompts
  <2>1. "" \notin Prompts  BY DEF Prompts
  <2> QED  BY <1>6, <2>1
<1> QED  BY <1>1, <1>5, <1>6, <1>7, <1>8 DEF kept, last

(* What is kept of an exercise is its frame, in the phase that was decided. *)
KeptPhase(pre, d) ==
  IF d.phase \in ActivePhases THEN d.phase
  ELSE IF pre.pending.active THEN pre.pending.phase
  ELSE "awaiting_answer"

LEMMA KeptIs ==
  ASSUME NEW pre, NEW r, IsRec(r, RulingFields), IsFrame(r.frame), NEW said, NEW plan
  PROVE  LET f == r.frame
             phase == KeptPhase(pre, r.d)
             k == Kept(pre, r, said, plan)
         IN  \/ k = EmptyFrame
             \/ /\ IsFrame(k) /\ k.active /\ k.phase = phase /\ k.attempts = r.d.attempts
                /\ k.followUp = f.followUp /\ k.optIn = f.optIn
                /\ k.question = f.question /\ k.subject = f.subject
                /\ k.answer = IF phase = "expanding" THEN NoTag ELSE f.answer
                /\ k.evidence = r.evidence
                /\ k.native = IF phase = "awaiting_restatement" /\ f.native # NoTag
                              THEN NoTag ELSE f.native
                /\ k.restatement # NoTag => phase = "awaiting_restatement"
<1> DEFINE f == r.frame
           phase == KeptPhase(pre, r.d)
           exchanged == phase = "awaiting_restatement" /\ f.native # NoTag
           stored == [f EXCEPT !.evidence = r.evidence,
                               !.restatement = IF phase = "expanding" THEN NoTag ELSE @,
                               !.answer = IF phase = "expanding" THEN NoTag ELSE @,
                               !.native = IF exchanged THEN NoTag ELSE @]
           binds == /\ agent.binding \/ exchanged
                    /\ phase = "awaiting_restatement" /\ stored.restatement = NoTag
           bound == IF binds THEN [stored EXCEPT !.restatement = RestatementTag(plan.claim)]
                    ELSE stored
           next == WithControl(bound, phase, r.d.attempts)
           k == Kept(pre, r, said, plan)
           Shape(x) == /\ IsFrame(x) /\ x.followUp = f.followUp /\ x.optIn = f.optIn
                       /\ x.question = f.question /\ x.subject = f.subject
                       /\ x.answer = IF phase = "expanding" THEN NoTag ELSE f.answer
                       /\ x.evidence = r.evidence
                       /\ x.native = IF exchanged THEN NoTag ELSE f.native
           Whole(x) == /\ Shape(x) /\ x.active /\ x.phase = phase /\ x.attempts = r.d.attempts
                       /\ x.restatement # NoTag => phase = "awaiting_restatement"
<1>1. k = IF binds /\ ~Fingerprinted(plan, said) THEN EmptyFrame
          ELSE IF agent.progress THEN [next EXCEPT !.progress = ProgressFor(f, next, r.posterior)]
          ELSE next
  BY DEF Kept, KeptPhase
<1> HIDE DEF k
<1>2. Shape(stored)
  <2> HIDE DEF phase, exchanged
  <2> QED  BY DEF IsFrame, IsRec, FrameFields
<1> HIDE DEF stored, exchanged, phase
<1>3. Shape(bound)
  <2>1. Shape([stored EXCEPT !.restatement = RestatementTag(plan.claim)])
    BY <1>2 DEF IsFrame, IsRec, FrameFields
  <2> HIDE DEF binds, Shape
  <2> QED  BY <1>2, <2>1
<1> HIDE DEF bound, binds
<1>4. Whole(next)
  <2> DEFINE x == [bound EXCEPT !.active = TRUE, !.phase = phase, !.attempts = r.d.attempts,
                       !.restatement = IF phase = "awaiting_restatement" THEN @ ELSE NoTag,
                       !.answer = IF phase = "expanding" THEN NoTag ELSE @]
  <2>1. Whole(x)  BY <1>3 DEF IsFrame, IsRec, FrameFields
  <2>2. next = x \/ next = [x EXCEPT !.progress = {}]  BY DEF WithControl
  <2> HIDE DEF x, next
  <2>3. Whole([x EXCEPT !.progress = {}])
    BY <2>1 DEF IsFrame, IsRec, FrameFields
  <2> HIDE DEF Whole
  <2> QED  BY <2>1, <2>2, <2>3
<1> HIDE DEF next
<1>5. ASSUME NEW p PROVE Whole([next EXCEPT !.progress = p])
  BY <1>4 DEF IsFrame, IsRec, FrameFields
<1> HIDE DEF Whole
<1>6. k = EmptyFrame \/ Whole(k)  BY <1>1, <1>4, <1>5
<1> QED  BY <1>6 DEF Whole, Shape, k, phase, exchanged

-----------------------------------------------------------------------------
(* What the policies may decide: a prompt is for someone who was not yet   *)
(* prompted, no decision forgets a prompt, and none enters an expansion.   *)
LEMMA DecisionIs ==
  ASSUME NEW phase, NEW action, NEW words, NEW attempts
  PROVE  LET d == Decision(phase, action, words, attempts)
         IN  /\ d.phase = phase /\ d.action = action /\ d.reply = words
             /\ d.attempts = attempts /\ d.keep /\ ~d.first
BY DEF Decision

LEMMA ReleaseIs ==
  ASSUME NEW attempts
  PROVE  LET d == ReleaseDecision(attempts)
         IN  /\ d.action = "release" /\ d.reply = "release" /\ ~d.keep /\ ~d.first
             /\ d.reply \notin Prompts
BY DEF Decision, ReleaseDecision, Prompts

LEMMA CompletedIs ==
  ASSUME NEW words, NEW attempts, NEW first
  PROVE  LET d == Completed(words, attempts, first)
         IN  d.action = "complete" /\ d.reply = words /\ ~d.keep
BY DEF Decision, Completed

LEMMA PromptIs ==
  ASSUME NEW phase \in ActivePhases, NEW attempts
  PROVE  LET d == Prompt(phase, attempts)
         IN  /\ d.phase = phase /\ d.attempts = attempts /\ d.keep /\ ~d.first
             /\ d.reply \in Prompts => phase # "expanding"
             /\ d.action \in {"elicit", "restate", "expand"}
             /\ d.action = "restate" => phase = "awaiting_restatement"
<1> HIDE DEF Decision
<1>1. CASE phase = "expanding"  BY <1>1, DecisionIs DEF Prompt, Prompts
<1>2. CASE phase = "awaiting_restatement"  BY <1>2, DecisionIs DEF Prompt, Prompts
<1>3. CASE phase = "awaiting_answer"  BY <1>3, DecisionIs DEF Prompt, Prompts
<1> QED  BY <1>1, <1>2, <1>3 DEF ActivePhases

Guided(d, phase, attempts, counted) ==
  /\ d.keep => /\ d.attempts \in Nat /\ d.attempts <= 2 /\ d.attempts >= attempts
               /\ d.phase = "expanding" => phase = "expanding"
  /\ counted /\ d.reply \in Prompts =>
       attempts = 0 /\ phase # "expanding" /\ d.attempts >= 1

(* QARC speaks again to nobody it was asked for before.                    *)
LEMMA InterventionIs ==
  ASSUME NEW phase \in ActivePhases, NEW attempts \in 0..2, NEW turn, NEW substantive,
         NEW hesitation, hesitation = TRUE \/ substantive = TRUE
  PROVE  LET d == Intervention(TRUE, phase, attempts, turn, substantive, hesitation)
         IN  \/ d = ReleaseDecision(2)
             \/ \E k : k \notin Prompts /\ d = Decision(phase, "none", k, attempts)
             \/ attempts = 0 /\ d = Prompt(phase, 1)
<1> DEFINE o == Observed(TRUE, turn, FALSE, substantive, hesitation, attempts)
           a == DecideQARC(o)
           d == Intervention(TRUE, phase, attempts, turn, substantive, hesitation)
<1>1. d = Acted(a, phase, attempts)
  <2>1. (IF phase \in {"awaiting_restatement", "expanding", "blocked"} THEN phase
         ELSE "awaiting_answer") = phase
    BY DEF ActivePhases
  <2> QED  BY <2>1 DEF Intervention
<1>2. /\ o.new = FALSE /\ o.attempts = attempts /\ o.hesitation = hesitation
      /\ o.substantive = substantive /\ o.known = TRUE
  BY DEF Observed
<1>3. attempts = 1 => a = "wait"
  <2> SUFFICES ASSUME attempts = 1 PROVE a = "wait"  OBVIOUS
  <2>1. CASE hesitation = TRUE
    <3> HIDE DEF o
    <3> QED  BY <1>2, <2>1 DEF DecideQARC
  <2>2. CASE substantive = TRUE
    <3>1. (CHOOSE x \in Actions: <<o.new, o.substantive, o.attempts, x>> \in Chosen) = "wait"
      BY <1>2, <2>2, OnceAsked
    <3> HIDE DEF o
    <3>2. ~(o.attempts >= MaxCoachAttempts)  BY <1>2 DEF MaxCoachAttempts
    <3> QED  BY <1>2, <3>1, <3>2 DEF DecideQARC
  <2> QED  BY <2>1, <2>2
<1>4. attempts = 2 => a \in {"wait", "release"}
  <2> HIDE DEF o
  <2> QED  BY <1>2 DEF DecideQARC, MaxCoachAttempts
<1> HIDE DEF a, d
<1>5. a = "release" => d = ReleaseDecision(2)
  BY <1>1 DEF Acted, MaxCoachAttempts
<1>6. a \in {"cue", "neutral"} => attempts = 0 /\ d = Prompt(phase, 1)
  <2>1. a \in {"cue", "neutral"} => attempts = 0  BY <1>3, <1>4
  <2>2. attempts = 0 => Least(attempts + 1, MaxCoachAttempts) = 1
    BY DEF Least, MaxCoachAttempts
  <2> QED  BY <1>1, <2>1, <2>2 DEF Acted
<1>7. a \notin {"release", "cue", "neutral"} =>
        \E k : k \notin Prompts /\ d = Decision(phase, "none", k, attempts)
  <2>1. a \notin {"release", "cue", "neutral"} => d = Decision(phase, "none", "", attempts)
    BY <1>1 DEF Acted
  <2>2. "" \notin Prompts  BY DEF Prompts
  <2> QED  BY <2>1, <2>2, Zenon
<1>8. \/ d = ReleaseDecision(2)
      \/ \E k : k \notin Prompts /\ d = Decision(phase, "none", k, attempts)
      \/ attempts = 0 /\ d = Prompt(phase, 1)
  BY <1>5, <1>6, <1>7
<1> QED  BY <1>8 DEF d

(* A decision that stays in the phase.                                     *)
Suited(d, phase, attempts) ==
  /\ \A counted : Guided(d, phase, attempts, counted)
  /\ d.keep => d.phase = phase
  /\ d.action # "complete"
  /\ d.action = "restate" => phase = "awaiting_restatement"

LEMMA InterventionSuited ==
  ASSUME NEW phase \in ActivePhases, NEW attempts \in 0..2, NEW turn, NEW substantive,
         NEW hesitation, hesitation = TRUE \/ substantive = TRUE
  PROVE  Suited(Intervention(TRUE, phase, attempts, turn, substantive, hesitation), phase, attempts)
<1> DEFINE d == Intervention(TRUE, phase, attempts, turn, substantive, hesitation)
<1>1. \/ d = ReleaseDecision(2)
      \/ \E k : k \notin Prompts /\ d = Decision(phase, "none", k, attempts)
      \/ attempts = 0 /\ d = Prompt(phase, 1)
  BY InterventionIs
<1>2. Suited(ReleaseDecision(2), phase, attempts)  BY ReleaseIs DEF Guided, Suited
<1>3. ASSUME NEW k, k \notin Prompts PROVE Suited(Decision(phase, "none", k, attempts), phase, attempts)
  BY <1>3, DecisionIs DEF Guided, Suited
<1>4. attempts = 0 => Suited(Prompt(phase, 1), phase, attempts)  BY PromptIs DEF Guided, Suited
<1> HIDE DEF d
<1>5. Suited(d, phase, attempts)  BY <1>1, <1>2, <1>3, <1>4
<1> QED  BY <1>5 DEF d

Awaits(r, f, counted) ==
  /\ Guided(r.d, f.phase, f.attempts, counted)
  /\ r.d.keep => r.d.phase = f.phase
  /\ r.d.action # "complete" /\ r.evidence = f.evidence

LEMMA AwaitingGuided ==
  ASSUME NEW cur, NEW f, f.phase \in ActivePhases, f.attempts \in 0..2, NEW turn, NEW said,
         NEW r \in AwaitingRulings(cur, f, turn, said)
  PROVE  Awaits(r, f, cur.pending.active)
<1> DEFINE active == cur.pending.active
           x == CoachPrompt(TRUE, f.phase, f.attempts, turn, Substantive(said))
           y == HoldForHesitation(f.phase, f.attempts)
           z == GuideAwaitingInPhase(f.phase, f.attempts, active)
           Fine(d) == /\ Guided(d, f.phase, f.attempts, cur.pending.active)
                      /\ d.keep => d.phase = f.phase
                      /\ d.action # "complete"
<1>1. r.evidence = f.evidence /\ (r.d = x \/ r.d = y \/ r.d = z)
  <2> DEFINE d == IF Authorised(f, turn) THEN x
                  ELSE IF active /\ ~Substantive(said) THEN y ELSE z
  <2>1. r = Ruled(f, d, FALSE, f.evidence, f.progress)  BY DEF AwaitingRulings
  <2> HIDE DEF x, y, z
  <2>2. d = x \/ d = y \/ d = z  OBVIOUS
  <2> HIDE DEF d
  <2>3. r.evidence = f.evidence /\ r.d = d  BY <2>1 DEF Ruled
  <2> QED  BY <2>2, <2>3
<1>2. Fine(x)
  <2> DEFINE sub == Substantive(said)
             hes == ~Substantive(said)
  <2>1. hes = TRUE \/ sub = TRUE  BY DEF Substantive
  <2>2. x = Intervention(TRUE, f.phase, f.attempts, turn, sub, hes)  BY DEF CoachPrompt
  <2> HIDE DEF sub, hes, x, Fine
  <2>3. Suited(x, f.phase, f.attempts)  BY <2>1, <2>2, InterventionSuited, Zenon
  <2> QED  BY <2>3 DEF Suited, Fine
<1>3. Fine(y)
  <2>1. \E k : k \notin Prompts /\ y = Decision(f.phase, ActionOf(f.phase), k, f.attempts)
    <3>1. y = Decision(f.phase, ActionOf(f.phase), "", f.attempts)
      BY DEF HoldForHesitation, ActivePhases
    <3>2. "" \notin Prompts  BY DEF Prompts
    <3> QED  BY <3>1, <3>2, Zenon
  <2>2. ActionOf(f.phase) # "complete"  BY DEF ActionOf, ActivePhases
  <2> HIDE DEF y
  <2>3. PICK k : k \notin Prompts /\ y = Decision(f.phase, ActionOf(f.phase), k, f.attempts)
    BY <2>1
  <2>4. /\ y.phase = f.phase /\ y.action # "complete" /\ y.reply \notin Prompts
        /\ y.attempts = f.attempts /\ y.keep
    BY <2>2, <2>3, DecisionIs
  <2> QED  BY <2>4 DEF Guided
<1>4. Fine(z)
  <2>1. CASE active /\ f.attempts >= 1
    <3>1. z = ReleaseDecision(2)  BY <2>1 DEF GuideAwaitingInPhase, MaxCoachAttempts
    <3> HIDE DEF z
    <3> QED  BY <3>1, ReleaseIs DEF Guided
  <2>2. CASE active /\ ~(f.attempts >= 1)
    <3>1. z = Prompt(f.phase, 1) /\ f.attempts = 0
      BY <2>2 DEF GuideAwaitingInPhase, MaxCoachAttempts
    <3> HIDE DEF z
    <3> QED  BY <3>1, PromptIs DEF Guided
  <2>3. CASE ~active
    <3>1. z = Prompt(f.phase, f.attempts)  BY <2>3 DEF GuideAwaitingInPhase
    <3> HIDE DEF z
    <3> QED  BY <2>3, <3>1, PromptIs DEF Guided
  <2> QED  BY <2>1, <2>2, <2>3
<1> HIDE DEF x, y, z
<1> QED  BY <1>1, <1>2, <1>3, <1>4 DEF Awaits

Asking == {"awaiting_answer", "awaiting_restatement"}

LEMMA AllowedIs ==
  ASSUME NEW o, o.phase \in Asking, NEW a \in AllowedActions(o)
  PROVE  /\ a \in {"release", "complete", "wait", "restate", "elicit"}
         /\ a \in {"elicit", "restate"} => ~(o.attempts >= 1)
<1> DEFINE e == EvidenceOf(o)
           late == o.oneShot \/ o.phase = "expanding"
           named == HasTarget(o.gate) /\ HasTarget(o.critic)
<1>1. o.phase # "complete" /\ o.phase # "expanding"  BY DEF Asking
<1> HIDE DEF e
<1>2. \/ a \in {"release", "complete", "wait"}
      \/ ~(o.attempts >= 1) /\ a \in {"wait", "restate", "elicit"}
  BY <1>1 DEF AllowedActions, e
<1> QED  BY <1>2

LEMMA PlanGuided ==
  ASSUME NEW o, o.phase \in Asking, o.attempts \in 0..2, NEW abstained,
         NEW d \in PlanAnswerSupport(o, abstained)
  PROVE  /\ \A counted : Guided(d, o.phase, o.attempts, counted)
         /\ d.action \in {"elicit", "restate", "expand"} => d.phase \in Asking
<1> DEFINE late == EvidenceOf(o) = "late" /\ o.phase # "complete" /\ o.phase # "expanding"
           answered == IF late THEN "late" ELSE CompletionReply(o.phase, abstained)
           first == EvidenceOf(o) = "first" /\ o.phase # "expanding"
           Fine(x) == /\ \A counted : Guided(x, o.phase, o.attempts, counted)
                      /\ x.action \in {"elicit", "restate", "expand"} => x.phase \in Asking
<1>1. PICK a \in AllowedActions(o) : d = Rendered(o, a, abstained)
  BY DEF PlanAnswerSupport
<1>2. /\ a \in {"release", "complete", "wait", "restate", "elicit"}
      /\ a \in {"elicit", "restate"} => o.attempts = 0
  BY <1>1, AllowedIs
<1>3. CASE a = "complete"
  <2>1. d = Completed(answered, NextAttempts(a, o.attempts), first)
    BY <1>1, <1>3 DEF Rendered
  <2>2. answered \notin Prompts  BY DEF CompletionReply, Prompts
  <2> HIDE DEF answered, first
  <2> QED  BY <2>1, <2>2, CompletedIs DEF Guided
<1>4. CASE a = "release"
  <2>1. d = ReleaseDecision(NextAttempts(a, o.attempts))  BY <1>1, <1>4 DEF Rendered
  <2> QED  BY <2>1, ReleaseIs DEF Guided
<1>5. CASE a = "restate"
  <2>1. d = Decision("awaiting_restatement", "restate", "reask", NextAttempts(a, o.attempts))
    BY <1>1, <1>5 DEF Rendered
  <2>2. NextAttempts(a, o.attempts) = 1 /\ o.attempts = 0
    BY <1>2, <1>5 DEF NextAttempts, MaxCoachAttempts
  <2>3. /\ d.phase = "awaiting_restatement" /\ d.attempts = 1
    BY <2>1, <2>2, DecisionIs
  <2> QED  BY <2>2, <2>3 DEF Guided, Asking
<1>6. CASE a = "elicit"
  <2>1. d = Prompt("awaiting_answer", NextAttempts(a, o.attempts))
    BY <1>1, <1>6 DEF Rendered, Asking
  <2>2. NextAttempts(a, o.attempts) = 1 /\ o.attempts = 0
    BY <1>2, <1>6 DEF NextAttempts, MaxCoachAttempts
  <2>3. d.phase = "awaiting_answer" /\ d.attempts = 1
    BY <2>1, <2>2, PromptIs DEF ActivePhases
  <2> QED  BY <2>2, <2>3 DEF Guided, Asking
<1>7. CASE a = "wait"
  <2>1. \E k : k \notin Prompts /\ d = Decision(o.phase, "none", k, o.attempts)
    <3>1. d = Decision(o.phase, "none", "", NextAttempts(a, o.attempts))
      BY <1>1, <1>7 DEF Rendered, Asking, Phases
    <3>2. NextAttempts(a, o.attempts) = o.attempts  BY <1>7 DEF NextAttempts
    <3>3. "" \notin Prompts  BY DEF Prompts
    <3> QED  BY <3>1, <3>2, <3>3, Zenon
  <2>2. PICK k : k \notin Prompts /\ d = Decision(o.phase, "none", k, o.attempts)
    BY <2>1
  <2>3. /\ d.phase = o.phase /\ d.action = "none" /\ d.reply \notin Prompts
        /\ d.attempts = o.attempts
    BY <2>2, DecisionIs
  <2> QED  BY <2>3 DEF Guided
<1> QED  BY <1>2, <1>3, <1>4, <1>5, <1>6, <1>7

LEMMA PromptedGuided ==
  ASSUME NEW phase \in Asking, NEW attempts \in 0..2, NEW turn, NEW to \in Asking
  PROVE  \A counted : Guided(Intervention(TRUE, to, attempts, turn, TRUE, FALSE), phase, attempts, counted)
<1> DEFINE d == Intervention(TRUE, to, attempts, turn, TRUE, FALSE)
<1>1. to \in ActivePhases /\ to # "expanding" /\ phase # "expanding"
  BY DEF Asking, ActivePhases
<1>2. Suited(d, to, attempts)  BY <1>1, InterventionSuited, Zenon
<1> HIDE DEF d
<1>3. \A counted : Guided(d, phase, attempts, counted)
  BY <1>1, <1>2 DEF Suited, Guided
<1> QED  BY <1>3 DEF d

(* One of the decisions of the policy without progress. *)
OfGuide(d, attempts) ==
  \/ \E k, first : k \notin Prompts /\ d = Completed(k, attempts, first)
  \/ d = ReleaseDecision(2)
  \/ attempts = 0 /\ \E p \in Asking : d = Prompt(p, 1)
  \/ attempts = 0 /\ d = Decision("blocked", "retry", "retry", 1)

LEMMA OfGuideGuided ==
  ASSUME NEW phase \in Asking, NEW attempts \in 0..2, NEW d, OfGuide(d, attempts)
  PROVE  \A counted : Guided(d, phase, attempts, counted)
<1>1. phase # "expanding" /\ "retry" \notin Prompts  BY DEF Asking, Prompts
<1>2. ASSUME NEW k, k \notin Prompts, NEW first, d = Completed(k, attempts, first)
      PROVE  \A counted : Guided(d, phase, attempts, counted)
  BY <1>2, CompletedIs DEF Guided
<1>3. CASE d = ReleaseDecision(2)  BY <1>3, ReleaseIs DEF Guided
<1>4. ASSUME attempts = 0, NEW p \in Asking, d = Prompt(p, 1)
      PROVE  \A counted : Guided(d, phase, attempts, counted)
  <2>1. p \in ActivePhases /\ p # "expanding"  BY DEF Asking, ActivePhases
  <2>2. d.phase = p /\ d.attempts = 1  BY <1>4, <2>1, PromptIs
  <2> QED  BY <1>1, <1>4, <2>1, <2>2 DEF Guided
<1>5. CASE attempts = 0 /\ d = Decision("blocked", "retry", "retry", 1)
  <2>1. d.phase = "blocked" /\ d.attempts = 1 /\ d.reply = "retry"
    BY <1>5, DecisionIs
  <2> QED  BY <1>1, <1>5, <2>1 DEF Guided
<1> QED  BY <1>2, <1>3, <1>4, <1>5 DEF OfGuide

LEMMA GuideGuided ==
  ASSUME NEW phase \in Asking, NEW attempts \in 0..2, NEW g, NEW e, NEW abstained,
         NEW oneShot, NEW restatement
  PROVE  OfGuide(GuideAttempt(g, e, phase, attempts, TRUE, abstained, oneShot, restatement), attempts)
<1> DEFINE answered == IF oneShot THEN "continuation" ELSE CompletionReply(phase, abstained)
           whole == Completed(answered, attempts, phase # "expanding")
           late == Completed("late", attempts, FALSE)
           d == GuideAttempt(g, e, phase, attempts, TRUE, abstained, oneShot, restatement)
<1>1. phase # "expanding"  BY DEF Asking
<1>2. attempts + 1 >= MaxCoachAttempts \/ (attempts = 0 /\ attempts + 1 = 1)
  BY DEF MaxCoachAttempts
<1>3. OfGuide(whole, attempts) /\ OfGuide(late, attempts)
  <2>1. answered \notin Prompts /\ "late" \notin Prompts  BY DEF CompletionReply, Prompts
  <2> HIDE DEF answered
  <2> QED  BY <2>1, Zenon DEF OfGuide
<1>4. OfGuide(ReleaseDecision(MaxCoachAttempts), attempts)  BY DEF OfGuide, MaxCoachAttempts
<1>5. attempts = 0 => /\ OfGuide(Prompt("awaiting_answer", 1), attempts)
                      /\ OfGuide(Prompt("awaiting_restatement", 1), attempts)
                      /\ OfGuide(Decision("blocked", "retry", "retry", 1), attempts)
  BY DEF OfGuide, Asking
<1>6. \/ d = whole \/ d = late
      \/ d = ReleaseDecision(MaxCoachAttempts)
      \/ ~(attempts + 1 >= MaxCoachAttempts) /\ d \in {Prompt("awaiting_answer", attempts + 1),
            Prompt("awaiting_restatement", attempts + 1), Decision("blocked", "retry", "retry", attempts + 1)}
  BY <1>1 DEF GuideAttempt
<1> HIDE DEF d, whole, late
<1>7. OfGuide(d, attempts)  BY <1>2, <1>3, <1>4, <1>5, <1>6
<1> QED  BY <1>7 DEF d

-----------------------------------------------------------------------------
(* The frame an attempt is judged against is the frame of the exercise,    *)
(* with the first answer to a question that had none.                      *)
SameExercise(x, f) ==
  /\ IsFrame(x) /\ x.active = f.active /\ x.phase = f.phase /\ x.attempts = f.attempts
  /\ x.followUp = f.followUp /\ x.optIn = f.optIn /\ x.question = f.question
  /\ x.subject = f.subject /\ x.native = f.native /\ x.restatement = f.restatement
  /\ x.evidence = f.evidence

Answering(x, f) ==
  /\ SameExercise(x, f)
  /\ x.answer = f.answer \/ (f.answer = NoTag /\ f.subject # NoTag)

LEMMA AttemptFrame ==
  ASSUME NEW pre, NEW frame, IsFrame(frame), pre.pending.active => frame = pre.pending,
         NEW plan, NEW said, NEW critic
  PROVE  Answering(Attempt(pre, frame, plan, said, critic).frame, frame)
<1> DEFINE bound == BindFirst(frame, plan, said)
           a == Attempt(pre, frame, plan, said, critic)
<1>1. SameExercise(frame, frame)  BY DEF SameExercise
<1>2. /\ SameExercise(bound, frame)
      /\ bound.answer = frame.answer \/ (frame.answer = NoTag /\ frame.subject # NoTag)
  <2> DEFINE x == [frame EXCEPT !.answer = AnswerTag(plan.claim)]
  <2>1. SameExercise(x, frame)  BY DEF SameExercise, IsFrame, IsRec, FrameFields
  <2>2. bound = frame \/ (bound = x /\ frame.answer = NoTag /\ frame.subject # NoTag)
    BY DEF BindFirst
  <2> HIDE DEF x, bound
  <2> QED  BY <1>1, <2>1, <2>2
<1> HIDE DEF bound
<1>3. a.frame = bound \/ a.frame = frame
  <2>1. a.frame = IF Protected(frame) /\ pre.pending.active
                  THEN IF Protected(frame) /\ pre.pending.active => Continues(bound, plan, said)
                       THEN bound ELSE pre.pending
                  ELSE frame
    BY DEF Attempt, bound
  <2> HIDE DEF a
  <2> QED  BY <2>1
<1> HIDE DEF a
<1>4. /\ SameExercise(a.frame, frame)
      /\ a.frame.answer = frame.answer \/ (frame.answer = NoTag /\ frame.subject # NoTag)
  BY <1>1, <1>2, <1>3
<1> QED  BY <1>4 DEF a, Answering

(* Evidence of a late answer is of an answer that came late.               *)
LEMMA LaterIs ==
  ASSUME NEW f, Protected(f), NEW plan, NEW said, NEW ambiguous,
         GateSignal(GateOf(f, plan, said, ambiguous)) = "later"
  PROVE  SaidOfLate(plan.claim, said)
<1> DEFINE at == Position(plan, said)
           found == IF Own(said) THEN at ELSE "absent"
           is(outcome, issue) == [outcome |-> outcome, covered |-> plan.covered, original |-> at,
                                  satisfied |-> outcome = "keep", issues |-> issue]
           gate == IF ambiguous THEN is("clarify", {"ambiguous_question"})
                   ELSE IF ~plan.covered THEN is("clarify", {"required_slot_missing"})
                   ELSE IF at = "first" THEN is("keep", {})
                   ELSE is("clarify", {"reconstruction_needed"})
           g == GateOf(f, plan, said, ambiguous)
<1>1. g.original = "later"  BY DEF GateSignal
<1>2. g = IF Protected(f) /\ found # "first"
          THEN [gate EXCEPT !.original = found, !.satisfied = FALSE, !.outcome = "clarify",
                            !.covered = @ /\ found # "absent"]
          ELSE gate
  BY DEF GateOf
<1>3. gate.original = at /\ "original" \in DOMAIN gate
  <2>1. \A outcome, issue : is(outcome, issue).original = at /\ "original" \in DOMAIN is(outcome, issue)
    OBVIOUS
  <2> HIDE DEF is
  <2> QED  BY <2>1
<1> HIDE DEF gate, g
<1>4. found = "later"
  <2>1. CASE found # "first"  BY <1>1, <1>2, <1>3, <2>1
  <2>2. CASE found = "first"  BY <1>1, <1>2, <1>3, <2>2
  <2> QED  BY <2>1, <2>2
<1>5. Own(said) /\ at = "later"  BY <1>4
<1> QED  BY <1>5 DEF Position, SaidOfLate

LEMMA LateIs ==
  ASSUME NEW pre, NEW frame, IsFrame(frame), pre.pending.active => frame = pre.pending,
         NEW plan, NEW said, NEW critic, NEW d,
         LateEvidence(Attempt(pre, frame, plan, said, critic).frame, d,
                      Attempt(pre, frame, plan, said, critic).gate, critic),
         ~pre.pending.active => frame.answer \in {NoTag, AnswerTag(plan.claim)}
  PROVE  LET f == Attempt(pre, frame, plan, said, critic).frame
         IN  /\ SaidOfLate(plan.claim, said)
             /\ f.answer = AnswerTag(plan.claim)
             /\ NoTag \notin {f.question, f.subject, f.answer} /\ ~f.followUp
             /\ d.phase = "awaiting_restatement" /\ d.action = "restate"
<1> DEFINE a == Attempt(pre, frame, plan, said, critic)
<1>1. /\ NoTag \notin {a.frame.question, a.frame.subject, a.frame.answer} /\ ~a.frame.followUp
      /\ d.phase = "awaiting_restatement" /\ d.action = "restate"
      /\ GateSignal(a.gate) = "later"
  BY DEF LateEvidence
<1>2. a.gate = IF ~a.ok \/ (~Protected(frame) /\ ~RestatementMatches(a.frame, plan, said))
               THEN FailedContinuity ELSE GateOf(a.frame, plan, said, critic.ambiguous)
  BY DEF Attempt
<1>3. SameExercise(a.frame, frame)  BY AttemptFrame DEF Answering
<1>4. /\ ~(Protected(frame) /\ pre.pending.active) => a.frame = frame
      /\ Protected(frame) /\ pre.pending.active /\ a.ok => a.frame.answer = AnswerTag(plan.claim)
  BY AttemptIs
<1> HIDE DEF a
<1>5. GateSignal(FailedContinuity) = "rejected"  BY DEF GateSignal, FailedContinuity
<1>6. a.ok /\ a.gate = GateOf(a.frame, plan, said, critic.ambiguous)
  BY <1>1, <1>2, <1>5
<1>7. Protected(a.frame)  BY <1>1 DEF Protected
<1>8. SaidOfLate(plan.claim, said)  BY <1>1, <1>6, <1>7, LaterIs
<1>9. Protected(frame)  BY <1>1, <1>3 DEF Protected, SameExercise
<1>10. a.frame.answer = AnswerTag(plan.claim)  BY <1>1, <1>4, <1>6, <1>9
<1> QED  BY <1>1, <1>8, <1>10 DEF a

Attempted(r, a, critic) ==
  /\ \A counted : Guided(r.d, a.frame.phase, a.frame.attempts, counted)
  /\ IF agent.transition THEN r.evidence = LateEvidence(a.frame, r.d, a.gate, critic)
     ELSE r.evidence = a.frame.evidence

LEMMA RulingGuided ==
  ASSUME NEW pre, NEW frame, NEW turn, NEW said, NEW plan, NEW critic,
         Attempt(pre, frame, plan, said, critic).frame.phase \in Asking,
         Attempt(pre, frame, plan, said, critic).frame.attempts \in 0..2,
         NEW r \in AttemptRulings(pre, frame, turn, said, plan, critic)
  PROVE  Attempted(r, Attempt(pre, frame, plan, said, critic), critic)
<1> DEFINE a == Attempt(pre, frame, plan, said, critic)
           f == a.frame
           o == [gate |-> GateSignal(a.gate), critic |-> CriticSignal(critic), phase |-> f.phase,
                 attempts |-> f.attempts, oneShot |-> f.followUp, hesitation |-> FALSE,
                 available |-> TRUE]
           x == GuideAttempt(a.gate, critic, f.phase, f.attempts, TRUE, plan.abstain,
                             f.followUp, agent.binding)
           decisions == IF Authorised(f, turn) THEN CoachAttempt(TRUE, turn, plan.abstain, o)
                        ELSE IF agent.retrieval THEN PlanAnswerSupport(o, plan.abstain)
                        ELSE {x}
           late(d) == LateEvidence(f, d, a.gate, critic)
           evidence(d) == IF agent.transition THEN late(d) ELSE f.evidence
           posterior == IF agent.retrieval THEN f.progress \cup {Scope(f)} ELSE f.progress
           Fine(d) == \A counted : Guided(d, f.phase, f.attempts, counted)
<1>0. f.phase \in Asking /\ f.attempts \in 0..2  OBVIOUS
<1>1. AttemptRulings(pre, frame, turn, said, plan, critic) =
        {Ruled(f, d, a.ok, evidence(d), posterior) : d \in decisions}
  BY DEF AttemptRulings
<1>2. o.phase = f.phase /\ o.attempts = f.attempts  OBVIOUS
<1>3. Fine(x)
  <2>1. OfGuide(x, f.attempts)  BY GuideGuided, Zenon
  <2> HIDE DEF x, a
  <2> QED  BY <1>0, <2>1, OfGuideGuided
<1> HIDE DEF a, o, x, evidence, posterior
<1>4. \A d \in PlanAnswerSupport(o, plan.abstain) :
        Fine(d) /\ (d.action \in {"elicit", "restate", "expand"} => d.phase \in Asking)
  BY <1>0, <1>2, PlanGuided
<1>5. \A d \in CoachAttempt(TRUE, turn, plan.abstain, o) : Fine(d)
  <2> TAKE d \in CoachAttempt(TRUE, turn, plan.abstain, o)
  <2>1. PICK e \in PlanAnswerSupport(o, plan.abstain) :
          d = IF e.action \in {"elicit", "restate", "expand"}
              THEN Intervention(TRUE, e.phase, f.attempts, turn, TRUE, FALSE) ELSE e
    BY <1>2 DEF CoachAttempt
  <2>2. CASE e.action \in {"elicit", "restate", "expand"}
    <3>1. e.phase \in Asking  BY <1>4, <2>2
    <3>3. \A counted : Guided(Intervention(TRUE, e.phase, f.attempts, turn, TRUE, FALSE),
                              f.phase, f.attempts, counted)
      BY <1>0, <3>1, PromptedGuided, Zenon
    <3> QED  BY <2>1, <2>2, <3>3
  <2>3. CASE e.action \notin {"elicit", "restate", "expand"}  BY <1>4, <2>1, <2>3
  <2> QED  BY <2>2, <2>3
<1>6. \A d \in decisions : Fine(d)  BY <1>3, <1>4, <1>5
<1> HIDE DEF decisions
<1>7. PICK d \in decisions : r = Ruled(f, d, a.ok, evidence(d), posterior)  BY <1>1
<1>8. r.d = d /\ r.evidence = evidence(d)  BY <1>7 DEF Ruled
<1>9. Fine(r.d) /\ r.evidence = evidence(r.d)  BY <1>6, <1>8
<1> HIDE DEF Fine
<1>10. IF agent.transition THEN r.evidence = late(r.d) ELSE r.evidence = f.evidence
  BY <1>9 DEF evidence
<1> QED  BY <1>9, <1>10 DEF Fine, a, Attempted

LEMMA SettledCases ==
  ASSUME NEW pre, NEW r, IsRec(r, RulingFields), ~r.frame.followUp, NEW said, NEW plan
  PROVE  LET u == Settled(pre, r, said, plan)
         IN  /\ IsRec(u, RulingFields) /\ u.frame = r.frame /\ u.evidence = r.evidence
             /\ \/ u.d = r.d /\ (r.frame.phase = "expanding" => ~Substantive(said))
                \/ /\ u.d = BeginExpansion /\ r.frame.optIn /\ r.frame.phase # "expanding"
                   /\ r.d.action = "complete"
                \/ ~u.d.keep
<1> DEFINE f == r.frame
           completed == CompleteExpansion(plan.abstain)
           release == ReleaseDecision(MaxCoachAttempts)
           ended == IF f.phase = "expanding" /\ Substantive(said) THEN completed ELSE r.d
           begun == IF /\ f.phase # "expanding" /\ f.optIn /\ ~f.followUp
                       /\ ended.action = "complete" /\ ended.first /\ ~plan.abstain
                    THEN BeginExpansion ELSE ended
           unbound == ~pre.pending.active /\ f.subject = NoTag /\ f.answer = NoTag
           d == IF unbound /\ begun.keep THEN release ELSE begun
           u == Settled(pre, r, said, plan)
<1>1. u = [r EXCEPT !.d = d]  BY DEF Settled
<1>2. ~completed.keep /\ ~release.keep
  BY CompletedIs, ReleaseIs DEF CompleteExpansion
<1> HIDE DEF completed, release, unbound
<1>3. \/ d = r.d /\ (f.phase = "expanding" => ~Substantive(said))
      \/ d = BeginExpansion /\ f.optIn /\ f.phase # "expanding" /\ r.d.action = "complete"
      \/ ~d.keep
  BY <1>2
<1> HIDE DEF d
<1>4. IsRec(u, RulingFields) /\ u.frame = r.frame /\ u.evidence = r.evidence /\ u.d = d
  BY <1>1 DEF IsRec, RulingFields
<1> QED  BY <1>3, <1>4

-----------------------------------------------------------------------------
(* What is kept of an exercise can be sealed, and is the same exercise.    *)
Judged(pre, f) ==
  /\ IsFrame(f) /\ f.phase \in ActivePhases /\ f.attempts \in 0..2 /\ ~f.followUp
  /\ f.question # NoTag => f.subject # NoTag
  /\ f.native # NoTag => f.phase = "awaiting_answer" /\ ~Protected(f)
  /\ IF pre.pending.active THEN pre.pending.phase = f.phase ELSE f.phase = "awaiting_answer"

Evidenced(r) ==
  r.evidence /\ agent.transition =>
    /\ NoTag \notin {r.frame.question, r.frame.subject, r.frame.answer}
    /\ r.d.action # "complete" /\ r.frame.phase # "expanding"
    /\ r.d.keep => r.d.phase = "awaiting_restatement"

Decided(pre, r, said) ==
  \/ r.frame.phase = "expanding" /\ Substantive(said)
  \/ /\ Guided(r.d, r.frame.phase, r.frame.attempts, pre.pending.active)
     /\ r.frame.phase = "expanding" /\ r.d.keep => r.d.phase = "expanding"
     /\ Evidenced(r)

Continued(pre, k, r, d) ==
  /\ k.question = r.frame.question
  /\ k.answer = (IF k.phase = "expanding" THEN NoTag ELSE r.frame.answer)
  /\ k.evidence = r.evidence
  /\ r.evidence /\ agent.transition => k.phase # "expanding"
  /\ k.attempts >= r.frame.attempts \/ k.phase = "expanding"
  /\ r.frame.phase = "expanding" => k.phase = "expanding"
  /\ pre.pending.active /\ d.reply \in Prompts =>
       r.frame.attempts = 0 /\ r.frame.phase # "expanding" /\ k.attempts >= 1

LEMMA ExerciseKept ==
  ASSUME NEW pre, NEW r, IsRec(r, RulingFields), NEW said, NEW plan,
         Judged(pre, r.frame), Decided(pre, r, said)
  PROVE  LET u == Settled(pre, r, said, plan)
             k == Retained(pre, u, said, plan)
         IN  /\ IsFrame(k) /\ k.attempts \in Nat
             /\ ~r.frame.optIn => Sealable(k)
             /\ k.active => Continued(pre, k, r, Latest(pre, u, said, plan).d)
<1> DEFINE u == Settled(pre, r, said, plan)
           k == Retained(pre, u, said, plan)
           l == Latest(pre, u, said, plan)
           f == r.frame
           phase == KeptPhase(pre, u.d)
<1>1. /\ IsRec(u, RulingFields) /\ u.frame = f /\ u.evidence = r.evidence
      /\ \/ u.d = r.d /\ (f.phase = "expanding" => ~Substantive(said))
         \/ u.d = BeginExpansion /\ f.optIn /\ f.phase # "expanding" /\ r.d.action = "complete"
         \/ ~u.d.keep
  BY SettledCases DEF Judged
<1> HIDE DEF u
<1>2. CASE ~u.d.keep \/ k = EmptyFrame
  <2>1. k = EmptyFrame  BY <1>2 DEF Retained
  <2> HIDE DEF k
  <2>2. IsFrame(k) /\ k.attempts \in Nat /\ Sealable(k) /\ ~k.active  BY <2>1, EmptyIs
  <2> QED  BY <2>2 DEF k, u
<1>3. CASE u.d.keep /\ k # EmptyFrame
  <2>1. k = Kept(pre, u, said, plan)  BY <1>3 DEF Retained
  <2>2. /\ IsFrame(k) /\ k.active /\ k.phase = phase /\ k.attempts = u.d.attempts
        /\ k.followUp = f.followUp /\ k.optIn = f.optIn
        /\ k.question = f.question /\ k.subject = f.subject
        /\ k.answer = (IF phase = "expanding" THEN NoTag ELSE f.answer)
        /\ k.evidence = r.evidence
        /\ k.native = (IF phase = "awaiting_restatement" /\ f.native # NoTag
                       THEN NoTag ELSE f.native)
        /\ k.restatement # NoTag => phase = "awaiting_restatement"
    <3> HIDE DEF k, phase, f
    <3>1. IsFrame(u.frame)  BY <1>1 DEF Judged, f
    <3> QED  BY <1>1, <1>3, <2>1, <3>1, KeptIs DEF phase
  <2>3. l.d = u.d
    <3>1. l = u  BY <2>2 DEF Latest
    <3> QED  BY <3>1
  <2> HIDE DEF k, l
  <2>4. /\ phase \in ActivePhases
        /\ u.d.phase \in ActivePhases => phase = u.d.phase
        /\ u.d.phase \notin ActivePhases => phase = f.phase
    BY DEF KeptPhase, Judged, ActivePhases
  <2> HIDE DEF phase
  <2>5. CASE u.d = r.d /\ (f.phase = "expanding" => ~Substantive(said))
    <3>1. /\ r.d.attempts \in Nat /\ r.d.attempts <= 2 /\ r.d.attempts >= f.attempts
          /\ r.d.phase = "expanding" => f.phase = "expanding"
          /\ f.phase = "expanding" => r.d.phase = "expanding"
          /\ pre.pending.active /\ r.d.reply \in Prompts =>
               f.attempts = 0 /\ f.phase # "expanding" /\ r.d.attempts >= 1
      BY <1>3, <2>5 DEF Decided, Guided
    <3>2. f.phase = "expanding" <=> phase = "expanding"
      BY <2>4, <2>5, <3>1 DEF ActivePhases
    <3>3. r.evidence /\ agent.transition =>
            /\ NoTag \notin {f.question, f.subject, f.answer}
            /\ f.phase # "expanding" /\ phase = "awaiting_restatement"
      BY <1>3, <2>4, <2>5 DEF Decided, Evidenced, ActivePhases
    <3>4. Continued(pre, k, r, l.d)
      BY <2>2, <2>3, <2>5, <3>1, <3>2, <3>3 DEF Continued
    <3>5. ASSUME ~f.optIn PROVE Sealable(k)
      <4>1. f.native # NoTag => phase # "expanding" /\ ~Protected(f)
        BY <3>2 DEF Judged
      <4>2. k.native # NoTag => phase = "awaiting_answer" /\ k.restatement = NoTag /\ ~Protected(k)
        BY <2>2, <2>4, <4>1 DEF ActivePhases, Protected
      <4>3. k.attempts <= MaxCoachAttempts  BY <2>2, <2>5, <3>1 DEF MaxCoachAttempts
      <4>4. k.question # NoTag => k.subject # NoTag  BY <2>2 DEF Judged
      <4>5. ~k.followUp /\ ~k.optIn  BY <2>2, <3>5 DEF Judged
      <4> QED  BY <2>2, <2>4, <3>3, <4>2, <4>3, <4>4, <4>5, SealableIs
    <3>6. k.attempts \in Nat  BY <2>2, <2>5, <3>1
    <3> QED  BY <2>2, <3>4, <3>5, <3>6 DEF k, l, u
  <2>6. CASE /\ u.d = BeginExpansion /\ f.optIn /\ f.phase # "expanding"
             /\ r.d.action = "complete"
    <3>1. u.d.phase = "expanding" /\ u.d.attempts = 0 /\ u.d.reply \notin Prompts
      BY <2>6 DEF BeginExpansion, Prompt, Decision, Prompts
    <3>2. phase = "expanding"  BY <2>4, <3>1 DEF ActivePhases
    <3>3. ~(r.evidence /\ agent.transition)  BY <2>6 DEF Decided, Evidenced
    <3>4. Continued(pre, k, r, l.d)
      BY <2>2, <2>3, <3>1, <3>2, <3>3 DEF Continued
    <3>5. k.attempts \in Nat  BY <2>2, <3>1
    <3> QED  BY <2>2, <2>6, <3>4, <3>5 DEF k, l, u
  <2> QED  BY <1>1, <1>3, <2>5, <2>6
<1> QED  BY <1>2, <1>3

-----------------------------------------------------------------------------
(* One turn of the exercise. *)
LEMMA PlanFrameOf ==
  ASSUME NEW plan, NEW said
  PROVE  LET f == PlanFrame(plan, said)
         IN  /\ IsFrame(f) /\ f.active /\ f.phase = "awaiting_answer" /\ f.attempts = 0
             /\ ~f.followUp /\ ~f.evidence /\ f.native = NoTag
             /\ f.optIn => Expands(said)
             /\ f.answer \in {NoTag, AnswerTag(plan.claim)}
<1> DEFINE reported == agent.v2 /\ said.question # 0
           subject == IF reported THEN SubjectTag(said.question) ELSE NoTag
           question == IF reported /\ agent.proof /\ plan.matches THEN QuestionTag(said.question) ELSE NoTag
           answer == IF reported /\ plan.stage = "restructure" /\ AnswerBound(plan, said)
                     THEN AnswerTag(plan.claim) ELSE NoTag
           optIn == reported /\ Expands(said)
<1>1. PlanFrame(plan, said) = [NewFrame EXCEPT !.subject = subject, !.question = question,
                                              !.answer = answer, !.optIn = optIn]
  BY DEF PlanFrame
<1>2. (optIn => Expands(said)) /\ answer \in {NoTag, AnswerTag(plan.claim)}  OBVIOUS
<1>3. /\ IsFrame(NewFrame) /\ NewFrame.active /\ NewFrame.phase = "awaiting_answer"
      /\ NewFrame.attempts = 0 /\ ~NewFrame.followUp /\ ~NewFrame.evidence
      /\ NewFrame.native = NoTag
  BY Frames DEF NewFrame, EmptyFrame
<1> HIDE DEF subject, question, answer, optIn
<1> QED  BY <1>1, <1>2, <1>3 DEF IsFrame, IsRec, FrameFields

(* The frame of the exercise: the one the turn was entered with, or a new  *)
(* one for what the person asked.                                          *)
LEMMA ExerciseFrame ==
  ASSUME NEW s, NEW pre, Entering(s, pre), NEW turn, NEW said, NEW plan, NEW frame,
         frame = IF pre.pending.active THEN pre.pending ELSE PlanFrame(plan, said),
         ~pre.pending.active => ValidFrame(frame)
  PROVE  /\ Judged(pre, frame) /\ frame.active
         /\ frame.optIn => pre.pending.optIn \/ Expands(said)
         /\ frame.evidence => /\ pre.pending.active /\ frame.phase = "awaiting_restatement"
                              /\ NoTag \notin {frame.question, frame.subject, frame.answer}
         /\ ~pre.pending.active => frame.answer \in {NoTag, AnswerTag(plan.claim)}
<1> DEFINE f == s.pending
           b == pre.pending
<1>1. CASE ~b.active
  <2>1. frame = PlanFrame(plan, said) /\ ValidFrame(frame)  BY <1>1
  <2> HIDE DEF b
  <2>2. /\ IsFrame(frame) /\ frame.active /\ frame.phase = "awaiting_answer"
        /\ frame.attempts = 0 /\ ~frame.followUp /\ ~frame.evidence /\ frame.native = NoTag
        /\ frame.optIn => Expands(said)
        /\ frame.answer \in {NoTag, AnswerTag(plan.claim)}
    BY <2>1, PlanFrameOf
  <2>3. frame.question # NoTag => frame.subject # NoTag  BY <2>1, <2>2 DEF ValidFrame
  <2>4. frame.attempts \in 0..2  BY <2>2
  <2> QED  BY <1>1, <2>2, <2>3, <2>4 DEF Judged, ActivePhases, b
<1>2. CASE b.active
  <2>1. /\ frame = b /\ IsFrame(b) /\ f.active /\ ~RevokedBy(agent, f) /\ ~b.followUp
        /\ b.phase = f.phase /\ b.attempts = f.attempts /\ b.question = f.question
        /\ b.subject = f.subject /\ b.answer = f.answer /\ b.native = f.native
        /\ b.evidence = f.evidence
    <3>1. IsFrame(f) /\ EnteredFrom(agent, f, pre)  BY DEF Entering, GoodState, IsState
    <3>2. frame = b  BY <1>2
    <3> HIDE DEF f
    <3> QED  BY <1>2, <3>1, <3>2, PreIs
  <2>2. ValidFrame(f) /\ f.attempts \in Nat  BY DEF Entering, GoodState
  <2> HIDE DEF b, f
  <2>3. /\ b.phase \in ActivePhases /\ b.attempts <= 2
        /\ b.question # NoTag => b.subject # NoTag
        /\ b.native # NoTag => b.phase = "awaiting_answer" /\ ~Protected(f)
        /\ b.evidence => /\ b.phase = "awaiting_restatement"
                         /\ NoTag \notin {b.question, b.subject, b.answer}
    BY <2>1, <2>2 DEF ValidFrame, MaxCoachAttempts
  <2>4. Protected(f) = Protected(b)  BY <2>1 DEF Protected
  <2>5. b.attempts \in 0..2  BY <2>1, <2>2, <2>3
  <2>6. Judged(pre, b)  BY <1>2, <2>1, <2>3, <2>4, <2>5 DEF Judged, b
  <2>7. b = pre.pending /\ (b.active <=> pre.pending.active)  BY DEF b
  <2> QED  BY <1>2, <2>1, <2>3, <2>6, <2>7
<1> QED  BY <1>1, <1>2

(* What a turn of the exercise is judged by, and the answer bound to it.   *)
Judgement(agt, pre, frame, said, plan, r) ==
  /\ IsRec(r, RulingFields) /\ Judged(pre, r.frame) /\ Decided(pre, r, said)
  /\ SameExercise(r.frame, frame)
  /\ r.frame.answer = frame.answer \/ frame.answer = NoTag
  /\ r.evidence /\ agt.transition /\ ~(r.frame.phase = "expanding" /\ Substantive(said)) =>
       \/ frame.evidence /\ r.frame.answer = frame.answer
       \/ SaidOfLate(plan.claim, said) /\ r.frame.answer = AnswerTag(plan.claim)

LEMMA SameIs ==
  ASSUME NEW pre, NEW f, Judged(pre, f), NEW x, SameExercise(x, f),
         x.answer = f.answer \/ (f.answer = NoTag /\ f.subject # NoTag)
  PROVE  Judged(pre, x)
<1>1. ~Protected(f) => ~Protected(x)  BY DEF SameExercise, Protected
<1> QED  BY <1>1 DEF Judged, SameExercise

LEMMA AwaitingJudged ==
  ASSUME NEW s, NEW pre, Entering(s, pre), NEW turn, NEW said, NEW plan, NEW frame,
         frame = IF pre.pending.active THEN pre.pending ELSE PlanFrame(plan, said),
         ~pre.pending.active => ValidFrame(frame),
         NEW cur, cur.pending = pre.pending,
         NEW r \in AwaitingRulings(cur, frame, turn, said)
  PROVE  Judgement(agent, pre, frame, said, plan, r)
<1>1. /\ Judged(pre, frame)
      /\ frame.evidence => /\ frame.phase = "awaiting_restatement"
                           /\ NoTag \notin {frame.question, frame.subject, frame.answer}
  BY ExerciseFrame
<1>2. IsRec(r, RulingFields) /\ r.frame = frame  BY AwaitingIs
<1>3. /\ Guided(r.d, frame.phase, frame.attempts, pre.pending.active)
      /\ r.d.keep => r.d.phase = frame.phase
      /\ r.d.action # "complete" /\ r.evidence = frame.evidence
  <2>1. frame.phase \in ActivePhases /\ frame.attempts \in 0..2  BY <1>1 DEF Judged
  <2>2. Awaits(r, frame, cur.pending.active)  BY <2>1, AwaitingGuided
  <2> QED  BY <2>2 DEF Awaits
<1>4. SameExercise(frame, frame)  BY <1>1 DEF SameExercise, Judged
<1>5. Evidenced(r)  BY <1>1, <1>2, <1>3 DEF Evidenced
<1>6. Decided(pre, r, said)  BY <1>2, <1>3, <1>5 DEF Decided
<1> QED  BY <1>1, <1>2, <1>3, <1>4, <1>6 DEF Judgement

LEMMA AttemptJudged ==
  ASSUME NEW s, NEW pre, Entering(s, pre), NEW turn, NEW said, NEW plan, NEW frame,
         frame = IF pre.pending.active THEN pre.pending ELSE PlanFrame(plan, said),
         ~pre.pending.active => ValidFrame(frame),
         said.clauses # <<>>, NEW critic,
         NEW r \in AttemptRulings(pre, frame, turn, said, plan, critic)
  PROVE  Judgement(agent, pre, frame, said, plan, r)
<1> DEFINE a == Attempt(pre, frame, plan, said, critic)
<1>1. /\ Judged(pre, frame)
      /\ frame.evidence => /\ frame.phase = "awaiting_restatement"
                           /\ NoTag \notin {frame.question, frame.subject, frame.answer}
      /\ ~pre.pending.active => frame.answer \in {NoTag, AnswerTag(plan.claim)}
  BY ExerciseFrame
<1>2. IsRec(r, RulingFields) /\ r.frame = a.frame  BY RulingIs
<1>3. IsFrame(frame) /\ (pre.pending.active => frame = pre.pending)  BY <1>1 DEF Judged
<1>4. /\ SameExercise(a.frame, frame)
      /\ a.frame.answer = frame.answer \/ (frame.answer = NoTag /\ frame.subject # NoTag)
  <2>1. Answering(a.frame, frame)  BY <1>3, AttemptFrame
  <2> HIDE DEF a
  <2> QED  BY <2>1 DEF Answering
<1>5. a.frame.phase \in Asking =>
        /\ \A counted : Guided(r.d, a.frame.phase, a.frame.attempts, counted)
        /\ agent.transition /\ r.evidence =>
             /\ SaidOfLate(plan.claim, said)
             /\ a.frame.answer = AnswerTag(plan.claim)
             /\ NoTag \notin {a.frame.question, a.frame.subject, a.frame.answer}
             /\ r.d.phase = "awaiting_restatement" /\ r.d.action = "restate"
  <2> SUFFICES ASSUME a.frame.phase \in Asking
      PROVE  /\ \A counted : Guided(r.d, a.frame.phase, a.frame.attempts, counted)
             /\ agent.transition /\ r.evidence =>
                  /\ SaidOfLate(plan.claim, said)
                  /\ a.frame.answer = AnswerTag(plan.claim)
                  /\ NoTag \notin {a.frame.question, a.frame.subject, a.frame.answer}
                  /\ r.d.phase = "awaiting_restatement" /\ r.d.action = "restate"
    OBVIOUS
  <2>1. a.frame.attempts \in 0..2
    <3> HIDE DEF a
    <3> QED  BY <1>1, <1>4 DEF SameExercise, Judged
  <2>2. /\ \A counted : Guided(r.d, a.frame.phase, a.frame.attempts, counted)
        /\ IF agent.transition THEN r.evidence = LateEvidence(a.frame, r.d, a.gate, critic)
           ELSE r.evidence = a.frame.evidence
    <3>1. Attempted(r, a, critic)  BY <2>1, RulingGuided
    <3> HIDE DEF a
    <3> QED  BY <3>1 DEF Attempted
  <2>3. ASSUME LateEvidence(a.frame, r.d, a.gate, critic)
        PROVE  /\ SaidOfLate(plan.claim, said)
               /\ a.frame.answer = AnswerTag(plan.claim)
               /\ NoTag \notin {a.frame.question, a.frame.subject, a.frame.answer}
               /\ r.d.phase = "awaiting_restatement" /\ r.d.action = "restate"
    BY <1>1, <1>3, <2>3, LateIs
  <2> HIDE DEF a
  <2> QED  BY <2>2, <2>3
<1> HIDE DEF a
<1>6. Judged(pre, a.frame)  BY <1>1, <1>4, SameIs
<1>7. Decided(pre, r, said)
  <2>1. CASE a.frame.phase = "expanding"
    <3>1. Substantive(said)  BY DEF Substantive
    <3> QED  BY <1>2, <2>1, <3>1 DEF Decided
  <2>2. CASE a.frame.phase \in Asking
    <3>1. a.frame.phase # "expanding"  BY <2>2 DEF Asking
    <3>2. Evidenced(r)  BY <1>2, <1>5, <2>2, <3>1 DEF Evidenced
    <3> QED  BY <1>2, <1>5, <2>2, <3>1, <3>2 DEF Decided
  <2> QED  BY <1>6, <2>1, <2>2 DEF Judged, ActivePhases, Asking
<1>8. ASSUME r.evidence, agent.transition, ~(a.frame.phase = "expanding" /\ Substantive(said))
      PROVE  SaidOfLate(plan.claim, said) /\ a.frame.answer = AnswerTag(plan.claim)
  <2>1. Substantive(said)  BY DEF Substantive
  <2>2. a.frame.phase \in Asking  BY <1>6, <1>8, <2>1 DEF Judged, ActivePhases, Asking
  <2> QED  BY <1>5, <1>8, <2>2
<1> QED  BY <1>2, <1>4, <1>6, <1>7, <1>8 DEF Judgement

(* An exercise that goes on, in a token that was sealed from what is kept. *)
LEMMA ExerciseFollows ==
  ASSUME NEW s, NEW pre, Entering(s, pre), NEW said, NEW plan, NEW frame,
         frame = IF pre.pending.active THEN pre.pending ELSE PlanFrame(plan, said),
         ~pre.pending.active => ValidFrame(frame),
         NEW r, Judgement(agent, pre, frame, said, plan, r),
         NEW k, IsFrame(k), k.attempts \in Nat,
         NEW d, k.active => Continued(pre, k, r, d),
         r.frame.phase = "expanding" /\ Substantive(said) => ~k.active,
         NEW q, q.next.pending = SealedFrame(k), q.target = "respondent", q.claim = plan.claim,
         q.spoken \in Prompts => d.reply \in Prompts
  PROVE  Follows(agent, s.pending, pre.pending, q.next.pending, q, said)
<1> DEFINE f == s.pending
           b == pre.pending
           g == q.next.pending
<1>1. /\ ValidRevision(agent)
      /\ b.active =>
           /\ f.active /\ b.phase = f.phase /\ b.attempts = f.attempts
           /\ b.question = f.question /\ b.answer = f.answer /\ b.evidence = f.evidence
      /\ f.active /\ ~RevokedBy(agent, f) => b.active
  BY PreIs DEF Entering, GoodState, IsState
<1>2. g.active =>
        /\ k.active /\ g.phase = k.phase /\ g.attempts = k.attempts /\ g.answer = k.answer
        /\ g.question = k.question \/ (g.question = NoTag /\ ~agent.proof)
        /\ g.evidence => k.evidence /\ agent.transition /\ g.question = k.question
  BY <1>1, SealedFrameIs
<1>3. /\ SameExercise(r.frame, frame)
      /\ r.frame.answer = frame.answer \/ frame.answer = NoTag
      /\ r.evidence /\ agent.transition /\ ~(r.frame.phase = "expanding" /\ Substantive(said)) =>
           \/ frame.evidence /\ r.frame.answer = frame.answer
           \/ SaidOfLate(plan.claim, said) /\ r.frame.answer = AnswerTag(plan.claim)
  BY DEF Judgement
<1>4. (frame.evidence => b.active) /\ (b.active => frame = b)  BY ExerciseFrame
<1>5. /\ r.frame.question = frame.question /\ r.frame.phase = frame.phase
      /\ r.frame.attempts = frame.attempts
  BY <1>3 DEF SameExercise
<1>6. k.active =>
        /\ k.question = frame.question
        /\ k.phase # "expanding" => k.answer = r.frame.answer
        /\ k.evidence = r.evidence
        /\ r.evidence /\ agent.transition => k.phase # "expanding"
        /\ k.attempts >= frame.attempts \/ k.phase = "expanding"
        /\ frame.phase = "expanding" => k.phase = "expanding"
        /\ b.active /\ q.spoken \in Prompts =>
             frame.attempts = 0 /\ frame.phase # "expanding" /\ k.attempts >= 1
  BY <1>5 DEF Continued
<1> HIDE DEF f, b, g
<1>7. ASSUME g.active PROVE Counted(f, b, g, q)
  <2>1. /\ b.active => /\ f.active
                       /\ g.attempts >= f.attempts \/ g.phase = "expanding"
                       /\ f.phase = "expanding" => g.phase = "expanding"
        /\ b.active /\ q.spoken \in Prompts =>
             f.attempts = 0 /\ f.phase # "expanding" /\ g.attempts >= 1
    BY <1>1, <1>2, <1>4, <1>6, <1>7
  <2> QED  BY <2>1 DEF Counted, Prompts
<1>8. ASSUME g.active PROVE Evident(f, b, g, q, said)
  <2> SUFFICES ASSUME g.evidence PROVE Evident(f, b, g, q, said)  BY DEF Evident
  <2>1. r.evidence /\ agent.transition /\ g.question = frame.question /\ g.answer = r.frame.answer
    BY <1>2, <1>6, <1>8
  <2>2. ~(r.frame.phase = "expanding" /\ Substantive(said))  BY <1>2, <1>8
  <2>3. CASE frame.evidence /\ r.frame.answer = frame.answer
    BY <1>1, <1>4, <2>1, <2>3 DEF Evident
  <2>4. CASE SaidOfLate(plan.claim, said) /\ r.frame.answer = AnswerTag(plan.claim)
    BY <2>1, <2>4 DEF Evident
  <2> QED  BY <1>3, <2>1, <2>2, <2>3, <2>4
<1>9. ASSUME g.active PROVE Stays(agent, f, g)
  BY <1>1, <1>2, <1>3, <1>4, <1>6, <1>9 DEF Stays
<1> QED  BY <1>7, <1>8, <1>9 DEF Follows, f, b, g

LEMMA ExercisedSound ==
  ASSUME NEW s, NEW pre, Entering(s, pre), NEW cur, IsState(cur), NEW turn, NEW said, NEW plan,
         cur.pending = pre.pending \/ (cur.pending = EmptyFrame /\ Recovers(said)),
         cur.support.companion = pre.support.companion, RespondentAllowed(cur, turn, said),
         NEW frame, frame = IF cur.pending.active THEN cur.pending ELSE PlanFrame(plan, said),
         ~cur.pending.active => ValidFrame(frame), NEW critic,
         NEW r, \/ said.clauses # <<>> /\ r \in AttemptRulings(pre, frame, turn, said, plan, critic)
                \/ r \in AwaitingRulings(cur, frame, turn, said)
  PROVE  Sound(agent, Exercised(pre, Settled(pre, r, said, plan), turn, said, plan),
               s.pending, pre, turn, said)
<1> DEFINE u == Settled(pre, r, said, plan)
           k == Retained(pre, u, said, plan)
           d == Latest(pre, u, said, plan).d
           q == Exercised(pre, u, turn, said, plan)
<1>1. cur.pending = pre.pending
  <2>1. EmptyFrame.active = FALSE  BY EmptyIs
  <2> QED  BY <2>1 DEF RespondentAllowed, OptIn, Recovers
<1>2. /\ frame = IF pre.pending.active THEN pre.pending ELSE PlanFrame(plan, said)
      /\ ~pre.pending.active => ValidFrame(frame)
  BY <1>1
<1>3. Judgement(agent, pre, frame, said, plan, r)
  <2>1. CASE said.clauses # <<>> /\ r \in AttemptRulings(pre, frame, turn, said, plan, critic)
    BY <1>2, <2>1, AttemptJudged
  <2>2. CASE r \in AwaitingRulings(cur, frame, turn, said)
    BY <1>1, <1>2, <2>2, AwaitingJudged
  <2> QED  BY <2>1, <2>2
<1>4. frame.optIn => pre.pending.optIn \/ Expands(said)  BY <1>2, ExerciseFrame
<1>5. /\ IsRec(r, RulingFields) /\ Judged(pre, r.frame) /\ Decided(pre, r, said)
      /\ r.frame.optIn = frame.optIn /\ ~r.frame.followUp
  BY <1>3 DEF Judgement, SameExercise, Judged
<1>6. /\ IsRec(u, RulingFields)
      /\ r.frame.phase = "expanding" /\ Substantive(said) => ~u.d.keep
  BY <1>5, SettledCases
<1>7. /\ IsFrame(k) /\ k.attempts \in Nat
      /\ ~r.frame.optIn => Sealable(k)
      /\ k.active => Continued(pre, k, r, d)
  BY <1>5, ExerciseKept
<1>8. r.frame.phase = "expanding" /\ Substantive(said) => ~k.active
  <2> HIDE DEF u
  <2> QED  BY <1>6, EmptyIs DEF Retained
<1>9. ~pre.support.companion  BY DEF RespondentAllowed
<1>10. /\ Made(q, turn, k) /\ q.target = "respondent" /\ q.claim = plan.claim
       /\ q.spoken \in Prompts => d.reply \in Prompts
       /\ q.transition => q.proof /\ CameLate(pre, Latest(pre, u, said, plan))
       /\ q.proof => q.candidate
  <2> HIDE DEF u
  <2>1. IsFrame(Retained(pre, u, said, plan)) /\ Retained(pre, u, said, plan).attempts \in Nat
    BY <1>7
  <2> QED  BY <1>6, <1>9, <2>1, ExercisedMade, ExercisedIs
<1>11. q.candidate => Persons(q, pre.pending, pre.support.companion, turn, said)
  <2>1. IsState(pre)  BY DEF Entering, EnteredFrom
  <2> QED  BY <2>1, ExercisePersons
<1> HIDE DEF q, k, d, u
<1>12. q.next.pending = SealedFrame(k)  BY <1>10 DEF Made
<1>13. Follows(agent, s.pending, pre.pending, q.next.pending, q, said)
  BY <1>2, <1>3, <1>7, <1>8, <1>10, <1>12, ExerciseFollows
<1>14. q.transition => q.candidate /\ pre.pending.evidence
  BY <1>10 DEF CameLate
<1>15. q.kind = "refused" =>
         pre.pending.optIn \/ Expands(said) \/ (~agent.v2 /\ turn.request # 0)
  BY <1>4, <1>5, <1>7, <1>10 DEF Made
<1>16. IsRec(q, ReplyFields) /\ (q.kind = "reply" => GoodState(q.next))  BY <1>10 DEF Made
<1>17. Sound(agent, q, s.pending, pre, turn, said)
  BY <1>11, <1>13, <1>14, <1>15, <1>16 DEF Sound
<1> QED  BY <1>17 DEF q, u

-----------------------------------------------------------------------------
(* The replies of a turn. *)
LEMMA SupportCooled ==
  ASSUME NEW p \in Supports
  PROVE  /\ Cooled(p) \in Supports /\ Cooled(p).companion = p.companion
         /\ AtLeastOne(p) \in Supports /\ AtLeastOne(p).companion = p.companion
         /\ AfterPass(p) \in Supports /\ AfterPass(p).companion = p.companion
         /\ [p EXCEPT !.cooldown = CooldownAfterPass] \in Supports
         /\ [p EXCEPT !.cooldown = CooldownAfterPass].companion = p.companion
<1>1. /\ IsRec(p, SupportFields) /\ p.fading \in 0..2 /\ p.verified \in 0..1
      /\ p.cooldown \in 0..3
  BY SupportIs
<1>2. ASSUME NEW c \in 0..3
      PROVE  LET n == [p EXCEPT !.cooldown = c] IN n \in Supports /\ n.companion = p.companion
  <2> DEFINE n == [p EXCEPT !.cooldown = c]
  <2>1. /\ IsRec(n, SupportFields) /\ n.fading = p.fading /\ n.verified = p.verified
        /\ n.cooldown = c /\ n.companion = p.companion
    BY <1>1 DEF IsRec, SupportFields
  <2> HIDE DEF n
  <2>2. n \in Supports  BY <1>1, <2>1, SupportWith
  <2> QED  BY <2>1, <2>2 DEF n
<1>3. Most(0, p.cooldown - 1) \in 0..3 /\ Most(1, p.cooldown) \in 0..3 /\ 2 \in 0..3
  BY <1>1 DEF Most
<1>4. Cooled(p) \in Supports /\ Cooled(p).companion = p.companion
  <2> DEFINE c == Most(0, p.cooldown - 1)
  <2>1. Cooled(p) = [p EXCEPT !.cooldown = c]  BY DEF Cooled
  <2>2. c \in 0..3  BY <1>3
  <2> HIDE DEF c
  <2> QED  BY <1>2, <2>1, <2>2
<1>5. AtLeastOne(p) \in Supports /\ AtLeastOne(p).companion = p.companion
  <2> DEFINE c == Most(1, p.cooldown)
  <2>1. AtLeastOne(p) = [p EXCEPT !.cooldown = c]  BY DEF AtLeastOne
  <2>2. c \in 0..3  BY <1>3
  <2> HIDE DEF c
  <2> QED  BY <1>2, <2>1, <2>2
<1>6. AfterPass(p) \in Supports /\ AfterPass(p).companion = p.companion
  <2>1. LET n == [p EXCEPT !.verified = 0, !.cooldown = 2]
        IN  n \in Supports /\ n.companion = p.companion
    BY <1>3, SupportPassed, Zenon
  <2> QED  BY <2>1 DEF AfterPass, CooldownAfterPass
<1>7. LET n == [p EXCEPT !.cooldown = 2] IN n \in Supports /\ n.companion = p.companion
  BY <1>2, <1>3, Zenon
<1> QED  BY <1>4, <1>5, <1>6, <1>7 DEF CooldownAfterPass

LEMMA OptedOut ==
  ASSUME NEW p \in Supports, NEW companionOnly
  PROVE  AfterOptOut(p, companionOnly) \in Supports
<1> DEFINE n == [p EXCEPT !.companion = TRUE, !.verified = 0, !.cooldown = 3]
<1>1. IsRec(p, SupportFields) /\ p.fading \in 0..2  BY SupportIs
<1>2. /\ IsRec(n, SupportFields) /\ n.fading = p.fading /\ n.verified = 0
      /\ n.cooldown = 3 /\ n.companion = TRUE
  BY <1>1 DEF IsRec, SupportFields
<1>3. AfterOptOut(p, companionOnly) = n \/ AfterOptOut(p, companionOnly) = AfterPass(p)
  BY DEF AfterOptOut
<1> HIDE DEF n
<1>4. n.companion \in BOOLEAN  BY <1>2, Zenon
<1>5. n.verified \in 0..1 /\ n.cooldown \in 0..3 /\ n.fading \in 0..2  BY <1>1, <1>2
<1>6. n \in Supports  BY <1>2, <1>4, <1>5, SupportIs
<1> QED  BY <1>3, <1>6, SupportCooled

(* A state the models are asked with: the one the turn was entered with,   *)
(* or one whose frame is set aside for a change of topic.                  *)
Going(s, pre, cur, said) ==
  /\ IsState(cur) /\ cur.turn = s.turn /\ cur.support \in Supports
  /\ cur.support.companion = pre.support.companion
  /\ cur.pending = pre.pending \/ (cur.pending = EmptyFrame /\ Recovers(said))

LEMMA GoingIs ==
  ASSUME NEW s, NEW pre, Entering(s, pre), NEW said, NEW cur, Going(s, pre, cur, said)
  PROVE  /\ cur.pending \in {s.pending, pre.pending, EmptyFrame}
         /\ cur.support.companion => ~cur.pending.active
BY EmptyIs DEF Going, Entering, EnteredFrom

LEMMA PreGoing ==
  ASSUME NEW s, NEW pre, Entering(s, pre), NEW said
  PROVE  Going(s, pre, pre, said)
BY DEF Going, Entering, EnteredFrom

LEMMA UnavailableSound ==
  ASSUME NEW s, NEW pre, Entering(s, pre), NEW turn, NEW said, NEW cur, Going(s, pre, cur, said)
  PROVE  Sound(agent, Unavailable(cur), s.pending, pre, turn, said)
<1>1. /\ cur.pending \in {s.pending, pre.pending, EmptyFrame}
      /\ cur.support.companion => ~cur.pending.active
      /\ cur.support \in Supports /\ cur.turn = s.turn
  BY GoingIs DEF Going
<1>2. "notice" \notin {"core", "reask"}  OBVIOUS
<1> QED  BY <1>1, <1>2, PlainSound DEF Unavailable

LEMMA ClarifiedSound ==
  ASSUME NEW s, NEW pre, Entering(s, pre), NEW turn, NEW said, NEW cur, Going(s, pre, cur, said)
  PROVE  Sound(agent, Clarified(cur), s.pending, pre, turn, said)
<1> DEFINE listens == cur.support.companion \/ cur.support.cooldown > 0
           sup == IF listens THEN Cooled(cur.support) ELSE AtLeastOne(cur.support)
           k == IF listens THEN "listen" ELSE "question"
<1>1. /\ cur.pending \in {s.pending, pre.pending, EmptyFrame}
      /\ cur.support.companion => ~cur.pending.active
      /\ cur.support \in Supports /\ cur.turn = s.turn
  BY GoingIs DEF Going
<1>2. sup \in Supports /\ sup.companion = cur.support.companion  BY <1>1, SupportCooled
<1>3. k \notin {"core", "reask"}  OBVIOUS
<1>4. Clarified(cur) = Plain(Carry(cur, cur.pending, sup), k)  BY DEF Clarified
<1> HIDE DEF sup, k
<1> QED  BY <1>1, <1>2, <1>3, <1>4, PlainSound

LEMMA OverheardSound ==
  ASSUME NEW s, NEW pre, Entering(s, pre), NEW turn, NEW said, NEW r \in Overheard(pre)
  PROVE  Sound(agent, r, s.pending, pre, turn, said)
<1>1. PICK k \in {"", "assistant"} : r = Plain(Carry(pre, pre.pending, pre.support), k)
  BY DEF Overheard
<1>2. k \notin {"core", "reask"}  OBVIOUS
<1>3. /\ pre.support \in Supports /\ pre.turn = s.turn
      /\ pre.support.companion => ~pre.pending.active
  BY DEF Entering, EnteredFrom
<1> QED  BY <1>1, <1>2, <1>3, PlainSound

LEMMA ConversedSound ==
  ASSUME NEW s, NEW pre, Entering(s, pre), NEW followUp, NEW turn, NEW said, NEW plan,
         NEW r \in Conversed(pre, followUp, turn, plan)
  PROVE  Sound(agent, r, s.pending, pre, turn, said)
<1> DEFINE base == IF pre.pending.active /\ pre.pending.phase # "expanding"
                   THEN AfterPass(pre.support) ELSE pre.support
           asked == IF ~base.companion /\ base.fading < MaxFading /\ plan.research = "none"
                    THEN {base, [base EXCEPT !.cooldown = CooldownAfterPass]} ELSE {base}
           supports == IF followUp THEN {AtLeastOne(base)}
                       ELSE IF base.cooldown > 0 THEN {Cooled(base)}
                       ELSE asked
<1>1. /\ pre.support \in Supports /\ pre.turn = s.turn
      /\ pre.support.companion => ~pre.pending.active
  BY DEF Entering, EnteredFrom
<1>2. r \in (IF plan.urgent THEN {Plain(Carry(pre, pre.pending, pre.support), "safety")}
             ELSE {Plain(Carry(pre, EmptyFrame, p), "assistant") : p \in supports})
  BY DEF Conversed
<1>3. base \in Supports  BY <1>1, SupportCooled
<1> HIDE DEF base
<1>4. \A p \in supports : p \in Supports  BY <1>3, SupportCooled
<1> HIDE DEF supports
<1>5. CASE r = Plain(Carry(pre, pre.pending, pre.support), "safety")
  <2>1. "safety" \notin {"core", "reask"}  OBVIOUS
  <2> QED  BY <1>1, <1>5, <2>1, PlainSound
<1>6. ASSUME NEW p \in supports, r = Plain(Carry(pre, EmptyFrame, p), "assistant")
      PROVE  Sound(agent, r, s.pending, pre, turn, said)
  <2>1. "assistant" \notin {"core", "reask"} /\ ~EmptyFrame.active  BY EmptyIs
  <2> QED  BY <1>1, <1>4, <1>6, <2>1, PlainSound
<1> QED  BY <1>2, <1>5, <1>6

LEMMA PlanIs ==
  ASSUME NEW said \in Sayings, NEW plan \in PlansFor[said], plan.stage = "restructure"
  PROVE  said.clauses # <<>>
BY DEF PlansFor

(* A ruling a turn of the exercise may end with, on a frame it goes on     *)
(* with or one that a plan opens.                                          *)
RuledOn(cur, frame, said, plan) ==
  /\ frame = IF cur.pending.active THEN cur.pending ELSE PlanFrame(plan, said)
  /\ ~cur.pending.active => ValidFrame(frame)

MayRule(pre, cur, frame, turn, said, plan, critic, r) ==
  \/ said.clauses # <<>> /\ r \in AttemptRulings(pre, frame, turn, said, plan, critic)
  \/ r \in AwaitingRulings(cur, frame, turn, said)

LEMMA RuledSound ==
  ASSUME NEW s, NEW pre, Entering(s, pre), NEW turn, NEW said, NEW cur, Going(s, pre, cur, said),
         NEW plan, RespondentAllowed(cur, turn, said), NEW frame, RuledOn(cur, frame, said, plan),
         NEW critic, NEW r, MayRule(pre, cur, frame, turn, said, plan, critic, r)
  PROVE  Sound(agent, Exercised(pre, Settled(pre, r, said, plan), turn, said, plan),
               s.pending, pre, turn, said)
<1>1. /\ IsState(cur)
      /\ cur.pending = pre.pending \/ (cur.pending = EmptyFrame /\ Recovers(said))
      /\ cur.support.companion = pre.support.companion
  BY DEF Going
<1>2. /\ frame = IF cur.pending.active THEN cur.pending ELSE PlanFrame(plan, said)
      /\ ~cur.pending.active => ValidFrame(frame)
  BY DEF RuledOn
<1>3. \/ said.clauses # <<>> /\ r \in AttemptRulings(pre, frame, turn, said, plan, critic)
      \/ r \in AwaitingRulings(cur, frame, turn, said)
  BY DEF MayRule
<1> QED  BY <1>1, <1>2, <1>3, ExercisedSound

LEMMA CoachingSound ==
  ASSUME NEW s, NEW pre, Entering(s, pre), NEW turn, NEW said, NEW cur, Going(s, pre, cur, said),
         NEW plan, plan.stage = "restructure" => said.clauses # <<>>,
         RespondentAllowed(cur, turn, said), NEW q \in Coaching(pre, cur, turn, said, plan)
  PROVE  Sound(agent, q, s.pending, pre, turn, said)
<1> DEFINE f == IF cur.pending.active THEN cur.pending ELSE PlanFrame(plan, said)
           critics == IF plan.stage = "restructure" THEN Assessments ELSE {NoCritic}
           rulings == IF plan.stage = "restructure"
                      THEN UNION {AttemptRulings(pre, f, turn, said, plan, c) : c \in critics}
                      ELSE AwaitingRulings(cur, f, turn, said)
           exercised(r) == Exercised(pre, Settled(pre, r, said, plan), turn, said, plan)
<1>1. \/ q = Unavailable(pre)
      \/ q = Clarified(pre)
      \/ q = Paused(pre, f, turn, plan)
      \/ /\ ~cur.pending.active => ValidFrame(f)
         /\ \E r \in rulings : q = exercised(r)
  BY DEF Coaching
<1>3. ASSUME ~cur.pending.active => ValidFrame(f), NEW r \in rulings
      PROVE  Sound(agent, exercised(r), s.pending, pre, turn, said)
  <2>1. RuledOn(cur, f, said, plan)  BY <1>3 DEF RuledOn
  <2>2. PICK c : MayRule(pre, cur, f, turn, said, plan, c, r)  BY <1>3 DEF MayRule
  <2> HIDE DEF f, rulings, critics
  <2> QED  BY <2>1, <2>2, RuledSound
<1> HIDE DEF f, rulings, exercised
<1> QED  BY <1>1, <1>3, PreGoing, UnavailableSound, ClarifiedSound, PausedSound

LEMMA AnsweredSound ==
  ASSUME NEW s, NEW pre, Entering(s, pre), NEW turn, NEW said, NEW cur, Going(s, pre, cur, said),
         NEW followUp, NEW plan, plan.stage = "restructure" => said.clauses # <<>>,
         ValidPlan(cur, turn, said, plan),
         NEW q \in Answered(pre, cur, followUp, turn, said, plan)
  PROVE  Sound(agent, q, s.pending, pre, turn, said)
<1> DEFINE strict == [plan EXCEPT !.research = IF turn.strict THEN "none" ELSE @]
<1>1. \/ q \in Overheard(pre)
      \/ q = Clarified(cur)
      \/ q = Withheld
      \/ q = Unavailable(pre)
      \/ plan.target = "respondent" /\ q \in Coaching(pre, cur, turn, said, plan)
      \/ q \in Conversed(pre, followUp, turn, strict)
  BY DEF Answered
<1>2. plan.target = "respondent" => RespondentAllowed(cur, turn, said)  BY DEF ValidPlan
<1> HIDE DEF strict
<1>3. CASE q \in Overheard(pre)  BY <1>3, OverheardSound
<1>4. CASE q = Clarified(cur)  BY <1>4, ClarifiedSound
<1>5. CASE q = Withheld  BY <1>5, WithheldSound
<1>6. CASE q = Unavailable(pre)  BY <1>6, PreGoing, UnavailableSound
<1>7. CASE plan.target = "respondent" /\ q \in Coaching(pre, cur, turn, said, plan)
  BY <1>2, <1>7, CoachingSound
<1>8. CASE q \in Conversed(pre, followUp, turn, strict)  BY <1>8, ConversedSound
<1> QED  BY <1>1, <1>3, <1>4, <1>5, <1>6, <1>7, <1>8

LEMMA LocalSound ==
  ASSUME NEW s, NEW turn, NEW said, Entering(s, Entered(s, turn, said)),
         LocalReply(s, turn, said) # Idle
  PROVE  Sound(agent, LocalReply(s, turn, said), s.pending, Entered(s, turn, said), turn, said)
<1> DEFINE e == Entered(s, turn, said)
           followUp == s.pending.active /\ s.pending.followUp
           only == said.control = "companion"
           sup == IF followUp THEN AtLeastOne(e.support) ELSE e.support
           q == LocalReply(s, turn, said)
<1>1. \/ q = Plain(Carry(s, s.pending, s.support), "control")
      \/ q = Plain(Carry(s, EmptyFrame, AfterOptOut(s.support, only)), "control")
      \/ q = Plain(Carry(s, EmptyFrame, OptedIn(s).support), "control")
      \/ q = Plain(Carry(e, e.pending, e.support), "control")
      \/ q = Hold(e, turn)
      \/ q = Plain(Carry(e, EmptyFrame, e.support), "greeting")
      \/ q = Plain(Carry(e, EmptyFrame, sup), "topic")
      \/ OpensQuestion(e, turn, said) /\ q = OpenQuestion(e, turn, said)
      \/ OpensSlot(e, turn, said) /\ q = OpenSlot(e, turn, said)
  <2> HIDE DEF e, followUp
  <2> QED  BY DEF LocalReply, e, followUp
<1>2. /\ "control" \notin {"core", "reask"} /\ "greeting" \notin {"core", "reask"}
      /\ "topic" \notin {"core", "reask"}
  OBVIOUS
<1> HIDE DEF e, only, q, followUp
<1>3. Entering(s, e)  BY DEF e
<1>4. /\ s.support \in Supports /\ (s.support.companion => ~s.pending.active)
      /\ IsState(s) /\ e.support \in Supports /\ e.turn = s.turn
      /\ e.support.companion => ~e.pending.active
  BY <1>3 DEF Entering, EnteredFrom, GoodState
<1>5. /\ OptedIn(s).support \in Supports /\ AfterOptOut(s.support, only) \in Supports
      /\ sup \in Supports
  BY <1>4, OptedInIs, OptedOut, SupportCooled
<1> HIDE DEF sup
<1>6. ~EmptyFrame.active  BY EmptyIs
<1>7. ASSUME NEW p \in {s.pending, e.pending, EmptyFrame},
             NEW u \in Supports, u.companion => ~p.active, NEW x \in {s, e},
             NEW k, k \notin {"core", "reask"}
      PROVE  Sound(agent, Plain(Carry(x, p, u), k), s.pending, e, turn, said)
  <2>1. x.turn = s.turn  BY <1>4
  <2> QED  BY <1>3, <1>7, <2>1, PlainSound
<1>8. ASSUME q = Hold(e, turn) PROVE Sound(agent, q, s.pending, e, turn, said)
  BY <1>3, <1>8, HoldSound
<1>9. ASSUME OpensQuestion(e, turn, said), q = OpenQuestion(e, turn, said)
      PROVE  Sound(agent, q, s.pending, e, turn, said)
  BY <1>3, <1>9, OpenQuestionSound
<1>10. ASSUME OpensSlot(e, turn, said), q = OpenSlot(e, turn, said)
      PROVE  Sound(agent, q, s.pending, e, turn, said)
  BY <1>3, <1>10, OpenSlotSound
<1> DEFINE S(r) == Sound(agent, r, s.pending, e, turn, said)
<1>11. /\ S(Plain(Carry(s, s.pending, s.support), "control"))
       /\ S(Plain(Carry(s, EmptyFrame, AfterOptOut(s.support, only)), "control"))
       /\ S(Plain(Carry(s, EmptyFrame, OptedIn(s).support), "control"))
       /\ S(Plain(Carry(e, e.pending, e.support), "control"))
       /\ S(Plain(Carry(e, EmptyFrame, e.support), "greeting"))
       /\ S(Plain(Carry(e, EmptyFrame, sup), "topic"))
  BY <1>2, <1>4, <1>5, <1>6, <1>7
<1>12. S(q)  BY <1>1, <1>8, <1>9, <1>10, <1>11
<1> QED  BY <1>12 DEF q, e

LEMMA ModelSound ==
  ASSUME NEW s, NEW turn, NEW said \in Sayings, Entering(s, Entered(s, turn, said)),
         NEW q \in ModelReplies(s, turn, said)
  PROVE  Sound(agent, q, s.pending, Entered(s, turn, said), turn, said)
<1> DEFINE pre == Entered(s, turn, said)
           followUp == s.pending.active /\ s.pending.followUp
           cur == IF followUp THEN [pre EXCEPT !.support = AtLeastOne(@)] ELSE pre
           free == [cur EXCEPT !.pending = EmptyFrame]
           plans(state) == {<<state, p>> : p \in {x \in PlansFor[said] : ValidPlan(state, turn, said, x)}}
           replan(p) == Replans(pre, turn, said) /\ p.stage = "awaiting_answer"
           first == plans(cur)
           again == \E sp \in first : replan(sp[2])
<1> HIDE DEF pre, followUp
<1>1. Entering(s, pre)  BY DEF pre
<1>2. Going(s, pre, cur, said)
  <2>1. Going(s, pre, pre, said)  BY <1>1, PreGoing
  <2>2. AtLeastOne(pre.support) \in Supports /\ AtLeastOne(pre.support).companion = pre.support.companion
    BY <2>1, SupportCooled DEF Going
  <2>3. IsRec(AtLeastOne(pre.support), SupportFields)  BY <2>2, SupportIs
  <2> DEFINE n == [pre EXCEPT !.support = AtLeastOne(@)]
  <2>4. /\ IsState(n) /\ n.turn = pre.turn /\ n.pending = pre.pending
        /\ n.support = AtLeastOne(pre.support)
    <3> HIDE DEF AtLeastOne
    <3> QED  BY <2>1, <2>3 DEF Going, IsState, IsRec, StateFields
  <2> HIDE DEF n
  <2>5. Going(s, pre, n, said)  BY <2>1, <2>2, <2>4 DEF Going
  <2> QED  BY <2>1, <2>5 DEF n
<1> HIDE DEF cur
<1>3. Recovers(said) => Going(s, pre, free, said)
  <2>1. /\ IsState(free) /\ free.turn = cur.turn /\ free.pending = EmptyFrame
        /\ free.support = cur.support
    BY <1>2, EmptyIs DEF Going, IsState, IsRec, StateFields
  <2> HIDE DEF free
  <2> QED  BY <1>2, <2>1 DEF Going
<1>4. again => Recovers(said)  BY DEF Replans
<1> HIDE DEF free
<1>5. ASSUME NEW state, Going(s, pre, state, said), NEW sp \in plans(state),
             NEW r \in Answered(pre, sp[1], followUp, turn, said, sp[2])
      PROVE  Sound(agent, r, s.pending, pre, turn, said)
  <2>1. PICK p \in PlansFor[said] : sp = <<state, p>> /\ ValidPlan(state, turn, said, p)
    BY <1>5
  <2>2. p.stage = "restructure" => said.clauses # <<>>  BY PlanIs
  <2>3. r \in Answered(pre, state, followUp, turn, said, p)  BY <1>5, <2>1
  <2> QED  BY <1>1, <1>5, <2>1, <2>2, <2>3, AnsweredSound
<1>6. \/ q = Unavailable(cur)
      \/ q = Clarified(pre)
      \/ \E sp \in plans(cur) : q \in Answered(pre, sp[1], followUp, turn, said, sp[2])
      \/ again /\ \E sp \in plans(free) : q \in Answered(pre, sp[1], followUp, turn, said, sp[2])
  <2> HIDE DEF plans, replan, again, Unavailable, Clarified, Answered
  <2>1. q \in {Unavailable(cur)}
          \cup (IF again THEN {Clarified(pre)} ELSE {})
          \cup UNION {Answered(pre, sp[1], followUp, turn, said, sp[2]) :
                        sp \in {fp \in first : replan(fp[2]) => fp[2].research = "none"}
                               \cup (IF again THEN plans(free) ELSE {})}
    BY DEF ModelReplies, pre, followUp, cur, free, plans, replan, again
  <2> QED  BY <2>1
<1> HIDE DEF plans, again
<1>7. Sound(agent, q, s.pending, pre, turn, said)
  <2>1. CASE q = Unavailable(cur)  BY <1>1, <1>2, <2>1, UnavailableSound
  <2>2. CASE q = Clarified(pre)  BY <1>1, <2>2, PreGoing, ClarifiedSound
  <2>3. CASE \E sp \in plans(cur) : q \in Answered(pre, sp[1], followUp, turn, said, sp[2])
    BY <1>2, <1>5, <2>3
  <2>4. CASE /\ again
             /\ \E sp \in plans(free) : q \in Answered(pre, sp[1], followUp, turn, said, sp[2])
    BY <1>3, <1>4, <1>5, <2>4
  <2> QED  BY <1>6, <2>1, <2>2, <2>3, <2>4
<1> QED  BY <1>7 DEF pre

LEMMA RepliesSound ==
  ASSUME ValidRevision(agent), MaxStateTurns \in Nat, NEW s, GoodState(s), s.turn < MaxStateTurns,
         NEW turn, NEW said \in Sayings, NEW q \in RepliesTo(s, turn, said)
  PROVE  /\ EnteredFrom(agent, s.pending, Entered(s, turn, said))
         /\ Sound(agent, q, s.pending, Entered(s, turn, said), turn, said)
<1>1. Entering(s, Entered(s, turn, said))  BY EnteredGood DEF Entering
<1>2. \/ LocalReply(s, turn, said) # Idle /\ q = LocalReply(s, turn, said)
      \/ q \in ModelReplies(s, turn, said)
  BY DEF RepliesTo
<1>3. CASE LocalReply(s, turn, said) # Idle /\ q = LocalReply(s, turn, said)
  BY <1>1, <1>3, LocalSound DEF Entering
<1>4. CASE q \in ModelReplies(s, turn, said)
  BY <1>1, <1>4, ModelSound DEF Entering
<1> QED  BY <1>2, <1>3, <1>4

-----------------------------------------------------------------------------
(* The inductive invariant: the token is one the codec may have sealed,    *)
(* what was asked and what was heard late is accounted for in it, and the  *)
(* reply under way is a sound one for it.                                  *)
AskedOnce(f, h) ==
  /\ h.asked \in 0..1
  /\ h.asked = 1 /\ f.active => f.attempts >= 1 \/ f.phase = "expanding"

HeardLate(f, h) ==
  f.evidence => \A c : f.answer = AnswerTag(c) => <<f.question, c>> \in h.late

Underway(ag, s, r) ==
  /\ Sound(ag, r, s.pending, r.basis.pre, r.basis.turn, r.basis.said)
  /\ EnteredFrom(ag, s.pending, r.basis.pre)

CoachInv ==
  /\ agent \in Revisions
  /\ GoodState(token)
  /\ AskedOnce(token.pending, heard)
  /\ HeardLate(token.pending, heard)
  /\ reply # Idle => Underway(agent, token, reply)

LEMMA LegacyGood ==
  ASSUME NEW s \in {Unsealed} \cup Legacy
  PROVE  GoodState(s) /\ ~s.pending.evidence
<1>1. CoachingAssumption /\ MaxStateTurns \in Nat
  BY MCAssumption DEF CoachingAssumption
<1>2. CASE s = Unsealed
  <2>1. /\ IsRec(s, StateFields) /\ s.turn = 0 /\ s.pending = EmptyFrame /\ s.support = NoSupport
    BY <1>2 DEF Unsealed, IsRec, StateFields
  <2>2. IsRec(NoSupport, SupportFields) /\ NoSupport \in Supports /\ ~NoSupport.companion
    BY DEF NoSupport, IsRec, SupportFields, Supports
  <2> QED  BY <1>1, <2>1, <2>2, EmptyIs DEF GoodState, IsState
<1>3. CASE s \in Legacy
  <2>1. ValidState(s) /\ TokenShape(s) /\ ~s.pending.evidence
    BY <1>1, <1>3 DEF CoachingAssumption
  <2>2. DOMAIN Unsealed = StateFields /\ DOMAIN EmptyFrame = FrameFields
    BY DEF Unsealed, EmptyFrame, StateFields, FrameFields
  <2>3. IsRec(s, StateFields) /\ IsFrame(s.pending)
    BY <2>1, <2>2 DEF TokenShape, IsRec, IsFrame
  <2>4. /\ s.turn \in Nat /\ s.turn <= MaxStateTurns
        /\ ValidFrame(s.pending) /\ s.pending.attempts \in Nat
        /\ s.support.companion => ~s.pending.active
    BY <1>1, <2>1 DEF TokenShape, ValidState
  <2>5. s.support \in [fading: Nat, verified: Nat, cooldown: Nat, companion: BOOLEAN]
    BY <2>1 DEF TokenShape
  <2>6. s.support.fading <= 2 /\ s.support.verified < 2 /\ s.support.cooldown <= 3
    BY <2>1 DEF ValidState, ValidSupport, MaxFading
  <2>7. IsRec(s.support, SupportFields) /\ s.support \in Supports
    BY <2>5, <2>6 DEF Supports, IsRec, SupportFields
  <2> QED  BY <2>1, <2>3, <2>4, <2>7 DEF GoodState, IsState
<1> QED  BY <1>2, <1>3

(* A turn notes what it is about; a handoff presents the next turn.        *)
LEMMA BasisKept ==
  ASSUME NEW ag, NEW r, NEW f, NEW pre, NEW turn, NEW said,
         Sound(ag, r, f, pre, turn, said), NEW basis
  PROVE  LET q == [r EXCEPT !.basis = basis]
         IN  Sound(ag, q, f, pre, turn, said) /\ q.basis = basis
<1> DEFINE q == [r EXCEPT !.basis = basis]
<1>1. IsRec(r, ReplyFields)  BY DEF Sound
<1>2. /\ IsRec(q, ReplyFields) /\ q.basis = basis
      /\ q.kind = r.kind /\ q.next = r.next /\ q.target = r.target /\ q.spoken = r.spoken
      /\ q.proof = r.proof /\ q.candidate = r.candidate /\ q.transition = r.transition
      /\ q.claim = r.claim
  BY <1>1 DEF IsRec, ReplyFields
<1> HIDE DEF q
<1>3. Sound(ag, q, f, pre, turn, said)
  BY <1>2 DEF Sound, Persons, Follows, Counted, Evident
<1> QED  BY <1>2, <1>3 DEF q

LEMMA PresentedGood ==
  ASSUME GoodState(token), MaxStateTurns \in Nat, NEW turn, Presented(turn).turn < MaxStateTurns
  PROVE  GoodState(Presented(turn)) /\ Presented(turn).pending = token.pending
<1>1. CASE Presented(turn) = token  BY <1>1
<1>2. CASE Presented(turn) = Advanced(token)
  <2> DEFINE s == [token EXCEPT !.turn = @ + 1]
  <2>1. s = Presented(turn)  BY <1>2 DEF Advanced
  <2>2. /\ IsState(s) /\ s.turn = token.turn + 1 /\ s.pending = token.pending
        /\ s.support = token.support
    BY DEF GoodState, IsState, IsRec, StateFields
  <2> HIDE DEF s
  <2>3. s.turn \in Nat /\ s.turn <= MaxStateTurns  BY <2>1, <2>2 DEF GoodState
  <2>4. GoodState(s)  BY <2>2, <2>3 DEF GoodState
  <2> QED  BY <2>1, <2>2, <2>4
<1> QED  BY <1>1, <1>2 DEF Presented, PreparedNative

LEMMA CoachInit == Init => CoachInv
<1> SUFFICES ASSUME Init PROVE CoachInv
  OBVIOUS
<1>1. /\ agent \in Revisions /\ token \in {Unsealed} \cup Legacy /\ reply = Idle
      /\ heard = [asked |-> Least(1, token.pending.attempts), late |-> {}]
  BY DEF Init
<1>2. GoodState(token) /\ ~token.pending.evidence  BY <1>1, LegacyGood
<1>3. token.pending.attempts \in Nat  BY <1>2 DEF GoodState
<1>4. heard.asked = Least(1, token.pending.attempts)  BY <1>1
<1>5. AskedOnce(token.pending, heard)  BY <1>3, <1>4 DEF AskedOnce, Least
<1> QED  BY <1>1, <1>2, <1>5 DEF CoachInv, HeardLate

LEMMA AnswerKeeps ==
  ASSUME CoachInv, Answer
  PROVE  CoachInv'
<1>1. PICK turn \in Turns, said \in Sayings :
        LET s == Presented(turn)
        IN  /\ s.turn < MaxStateTurns
            /\ \E r \in RepliesTo(s, turn, said) :
                 reply' = [r EXCEPT !.basis = [turn |-> turn, said |-> said,
                                               pre |-> Entered(s, turn, said)]]
  BY DEF Answer
<1> DEFINE s == Presented(turn)
           pre == Entered(s, turn, said)
           basis == [turn |-> turn, said |-> said, pre |-> pre]
<1>2. s.turn < MaxStateTurns  BY <1>1
<1>3. PICK r \in RepliesTo(s, turn, said) : reply' = [r EXCEPT !.basis = basis]
  BY <1>1
<1>4. ValidRevision(agent) /\ MaxStateTurns \in Nat
  BY MCAssumption DEF CoachingAssumption, CoachInv
<1>5. GoodState(s) /\ s.pending = token.pending  BY <1>2, <1>4, PresentedGood DEF CoachInv
<1> HIDE DEF s
<1>6. Sound(agent, r, s.pending, pre, turn, said) /\ EnteredFrom(agent, s.pending, pre)
  BY <1>2, <1>3, <1>4, <1>5, RepliesSound
<1>7. basis.turn = turn /\ basis.said = said /\ basis.pre = pre  OBVIOUS
<1> HIDE DEF pre, basis
<1>8. Sound(agent, reply', s.pending, pre, turn, said) /\ (reply').basis = basis
  BY <1>3, <1>6, BasisKept
<1>9. Underway(agent, token, reply')  BY <1>5, <1>6, <1>7, <1>8 DEF Underway
<1>10. UNCHANGED <<agent, token, heard>>  BY DEF Answer
<1> QED  BY <1>9, <1>10 DEF CoachInv

(* What is heard with a reply that is taken. *)
LEMMA DeliverKeeps ==
  ASSUME CoachInv, Deliver
  PROVE  CoachInv' /\ (token'.pending.active => Stays(agent, token.pending, token'.pending))
<1> DEFINE f == token.pending
           b == reply.basis.pre.pending
           g == reply.next.pending
           n == [reply.next EXCEPT !.checkpoint = NoTag]
           known == IF GoesOn(reply) \/ reply.target = "assistant" THEN heard
                    ELSE [asked |-> 0, late |-> {}]
           asked == known.asked + IF Reasked(reply) THEN 1 ELSE 0
           late == known.late \cup
                     IF SaidLater(reply) THEN {<<token'.pending.question, reply.claim>>} ELSE {}
<1>1. /\ reply # Idle /\ reply.kind = "reply" /\ token' = n /\ reply' = Idle
      /\ heard' = [asked |-> asked, late |-> late] /\ agent' = agent
  BY DEF Deliver, Delivered
<1>2. /\ GoodState(reply.next)
      /\ Follows(agent, f, b, g, reply, reply.basis.said)
  BY <1>1 DEF CoachInv, Underway, Sound
<1>3. GoodState(n) /\ n.pending = g
  <2>1. /\ IsState(n) /\ n.turn = reply.next.turn /\ n.pending = g
        /\ n.support = reply.next.support
    BY <1>2 DEF GoodState, IsState, IsRec, StateFields
  <2> HIDE DEF n
  <2> QED  BY <1>2, <2>1 DEF GoodState
<1>4. g.evidence => g.active  BY <1>2 DEF GoodState
<1>5. heard'.asked = asked /\ heard'.late = late  BY <1>1
<1>6. token'.pending = g  BY <1>1, <1>3
<1>7. /\ GoesOn(reply) = (b.active /\ g.active)
      /\ Reasked(reply) = (GoesOn(reply) /\ reply.spoken \in {"core", "reask"})
      /\ SaidLater(reply) = SaidOfLate(reply.claim, reply.basis.said)
  BY DEF GoesOn, Reasked, SaidLater, SaidOfLate
<1>8. AskedOnce(f, heard) /\ HeardLate(f, heard)  BY DEF CoachInv
<1>9. /\ GoesOn(reply) \/ reply.target = "assistant" => known = heard
      /\ known = heard \/ (known.asked = 0 /\ known.late = {})
  OBVIOUS
<1> HIDE DEF f, b, g, n, known
<1>10. AskedOnce(g, heard')
  <2>1. CASE g.active
    <3>1. Counted(f, b, g, reply)  BY <1>2, <2>1 DEF Follows
    <3>2. CASE Reasked(reply)
      <4>1. b.active /\ known = heard /\ asked = known.asked + 1  BY <1>7, <1>9, <3>2
      <4>2. f.active /\ f.attempts = 0 /\ f.phase # "expanding" /\ g.attempts >= 1
        BY <1>7, <3>1, <3>2, <4>1 DEF Counted
      <4>3. heard.asked = 0  BY <1>8, <4>2 DEF AskedOnce
      <4> QED  BY <1>5, <4>1, <4>2, <4>3 DEF AskedOnce
    <3>3. CASE ~Reasked(reply)
      <4>1. asked = known.asked + 0  BY <3>3
      <4>2. CASE b.active \/ reply.target = "assistant"
        <5>1. known = heard  BY <1>7, <1>9, <2>1, <4>2
        <5>2. /\ f.active
              /\ g.attempts >= f.attempts \/ g.phase = "expanding"
              /\ f.phase = "expanding" => g.phase = "expanding"
          BY <3>1, <4>2 DEF Counted
        <5>3. f.attempts \in Nat /\ g.attempts \in Nat
          BY <1>3 DEF CoachInv, GoodState, f
        <5> QED  BY <1>5, <1>8, <4>1, <5>1, <5>2, <5>3 DEF AskedOnce
      <4>3. CASE ~(b.active \/ reply.target = "assistant")
        <5>1. known.asked = 0  BY <1>7, <4>3 DEF known
        <5> QED  BY <1>5, <4>1, <5>1 DEF AskedOnce
      <4> QED  BY <4>2, <4>3
    <3> QED  BY <3>2, <3>3
  <2>2. CASE ~g.active
    <3>1. asked = known.asked + 0  BY <1>7, <2>2
    <3> QED  BY <1>5, <1>8, <1>9, <2>2, <3>1 DEF AskedOnce
  <2> QED  BY <2>1, <2>2
<1>11. HeardLate(g, heard')
  <2> SUFFICES ASSUME g.evidence, NEW c, g.answer = AnswerTag(c)
               PROVE  <<g.question, c>> \in late
    BY <1>5 DEF HeardLate
  <2>1. Evident(f, b, g, reply, reply.basis.said)  BY <1>2, <1>4 DEF Follows
  <2>2. CASE /\ f.evidence /\ g.question = f.question /\ g.answer = f.answer
             /\ b.active \/ reply.target = "assistant"
    <3>1. known = heard  BY <1>4, <1>7, <1>9, <2>2
    <3>2. <<f.question, c>> \in heard.late  BY <1>8, <2>2 DEF HeardLate
    <3> QED  BY <2>2, <3>1, <3>2
  <2>3. CASE SaidOfLate(reply.claim, reply.basis.said) /\ g.answer = AnswerTag(reply.claim)
    <3>1. c = reply.claim  BY <2>3 DEF AnswerTag
    <3> QED  BY <1>6, <1>7, <2>3, <3>1
  <2> QED  BY <2>1, <2>2, <2>3 DEF Evident
<1>12. g.active => Stays(agent, f, g)
  BY <1>2 DEF Follows
<1>13. CoachInv'
  <2>1. (GoodState(token))' /\ (AskedOnce(token.pending, heard))' /\ (HeardLate(token.pending, heard))'
    BY <1>1, <1>3, <1>6, <1>10, <1>11
  <2> QED  BY <1>1, <2>1 DEF CoachInv
<1> QED  BY <1>6, <1>12, <1>13 DEF f

LEMMA ExchangeKeeps ==
  ASSUME CoachInv, NativeExchange
  PROVE  CoachInv'
<1> DEFINE n == [token EXCEPT !.turn = @ + 1]
<1>1. /\ token' = n /\ token.turn < MaxStateTurns /\ reply = Idle
      /\ UNCHANGED <<agent, reply, heard>>
  BY DEF NativeExchange, Advanced
<1>2. GoodState(token) /\ MaxStateTurns \in Nat
  BY MCAssumption DEF CoachInv, CoachingAssumption
<1>3. /\ IsState(n) /\ n.turn = token.turn + 1 /\ n.pending = token.pending
      /\ n.support = token.support
  BY <1>2 DEF GoodState, IsState, IsRec, StateFields
<1> HIDE DEF n
<1>4. GoodState(n)  BY <1>1, <1>2, <1>3 DEF GoodState
<1>5. (GoodState(token))' /\ token'.pending = token.pending  BY <1>1, <1>3, <1>4
<1> QED  BY <1>1, <1>5 DEF CoachInv

LEMMA CoachNext == CoachInv /\ [Next]_vars => CoachInv'
<1> SUFFICES ASSUME CoachInv, [Next]_vars PROVE CoachInv'
  OBVIOUS
<1>1. CASE Answer  BY <1>1, AnswerKeeps
<1>2. CASE Deliver  BY <1>2, DeliverKeeps
<1>3. CASE Lose  BY <1>3 DEF Lose, CoachInv
<1>4. CASE NativeExchange  BY <1>4, ExchangeKeeps
<1>5. CASE Deploy  BY <1>5 DEF Deploy, CoachInv
<1>6. CASE UNCHANGED vars  BY <1>6 DEF vars, CoachInv
<1> QED  BY <1>1, <1>2, <1>3, <1>4, <1>5, <1>6 DEF Next

LEMMA CoachAlways == Spec => []CoachInv
<1> QED  BY CoachInit, CoachNext, PTL DEF Spec

-----------------------------------------------------------------------------
(* An answer-first proof is the person's own: their words, the clause they *)
(* said first, the question and the answer the exercise is bound to; and   *)
(* the proof of a move is for an answer that was heard later in the same   *)
(* scope.  For any plans, critics, lost turns, handoffs and revisions.     *)
THEOREM ProofsAreTheirs == Spec => []ProofsHold
<1>1. CoachInv => ProofIsPersons
  <2> SUFFICES ASSUME CoachInv, reply # Idle, reply.candidate
               PROVE  Persons(reply, Given.pre.pending, Given.pre.support.companion,
                              Given.turn, Given.said)
    BY DEF ProofIsPersons, Persons
  <2> QED  BY DEF CoachInv, Underway, Sound, Given
<1>2. CoachInv => TransitionIsMove
  <2> SUFFICES ASSUME CoachInv, reply # Idle, reply.transition
               PROVE  <<reply.basis.pre.pending.question, reply.claim>> \in heard.late
    BY DEF TransitionIsMove, Given
  <2> DEFINE f == token.pending
             b == reply.basis.pre.pending
  <2>1. /\ Persons(reply, b, reply.basis.pre.support.companion, reply.basis.turn, reply.basis.said)
        /\ b.evidence /\ EnteredFrom(agent, f, reply.basis.pre)
    BY DEF CoachInv, Underway, Sound
  <2>2. IsFrame(f) /\ ValidFrame(f) /\ HeardLate(f, heard)
    BY DEF CoachInv, GoodState, IsState
  <2>3. b.active  BY <2>1 DEF EnteredFrom
  <2> HIDE DEF f
  <2>4. f.active /\ b.question = f.question /\ b.answer = f.answer /\ f.evidence
    <3>1. ASSUME NEW pre, EnteredFrom(agent, f, pre), pre.pending.active
          PROVE  /\ f.active /\ pre.pending.question = f.question
                 /\ pre.pending.answer = f.answer /\ pre.pending.evidence = f.evidence
      BY <2>2, <3>1, PreIs
    <3>2. f.active /\ b.question = f.question /\ b.answer = f.answer /\ b.evidence = f.evidence
      BY <2>1, <2>3, <3>1
    <3> QED  BY <2>1, <3>2, Zenon
  <2>5. f.answer = AnswerTag(reply.claim)
    BY <2>1, <2>2, <2>3, <2>4 DEF Persons, ValidFrame
  <2> QED  BY <2>2, <2>4, <2>5 DEF HeardLate
<1> QED  BY <1>1, <1>2, CoachAlways, PTL DEF ProofsHold

(* Whoever serves the turn, whatever is lost, repeated or handed off: in   *)
(* one scope a person is asked again at most once.                         *)
THEOREM AskedAtMostOnce == Spec => []ReaskedOnce
<1>1. CoachInv => ReaskedOnce  BY DEF CoachInv, AskedOnce, ReaskedOnce
<1> QED  BY <1>1, CoachAlways, PTL

(* A turn whose exercise has no expansion asked for seals a token that the *)
(* next one opens, but for a checkpoint of a revision without state v2.    *)
THEOREM SealedIsRead == Spec => []SealsWhatItReads
<1>1. CoachInv => SealsWhatItReads
  BY DEF CoachInv, Underway, Sound, SealsWhatItReads, Given
<1> QED  BY <1>1, CoachAlways, PTL

(* The question of a scope and the answer bound to it stay until the scope *)
(* ends: every step that delivers a reply keeps them.                      *)
THEOREM ScopeIsKept == Spec => ScopeStays
<1> DEFINE A == LET f == token.pending
                    g == token'.pending
                IN  reply # Idle /\ f.active /\ g.active /\ ~Revoked(f) =>
                      /\ f.question \in {NoTag, g.question} \/ ~agent.proof
                      /\ f.answer # NoTag /\ g.phase # "expanding" /\ g.answer # NoTag
                           => g.answer = f.answer
<1>1. CoachInv /\ [Next]_vars => [A]_token
  <2> SUFFICES ASSUME CoachInv, Next, token' # token PROVE A
    BY DEF vars
  <2>1. CASE Deliver
    <3>1. token'.pending.active => Stays(agent, token.pending, token'.pending)
      BY <2>1, DeliverKeeps
    <3> QED  BY <3>1 DEF Stays, Revoked, RevokedBy
  <2>2. CASE NativeExchange  BY <2>2 DEF NativeExchange
  <2> QED  BY <2>1, <2>2 DEF Next, Answer, Lose, Deploy
<1> QED  BY <1>1, CoachAlways, PTL DEF Spec, ScopeStays
=============================================================================
