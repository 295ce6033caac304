----------------------------- MODULE GuestTrial -----------------------------
(***************************************************************************)
(* The ledger of guest trials (internal/guesttrial): a guest answers one   *)
(* question, may ask for help once, may stop, and an independent verifier  *)
(* judges the answer outside the store's transaction.  Callers of Begin,   *)
(* Read, Update and Evaluate run concurrently; each samples the clock      *)
(* before it enters the store.                                             *)
(***************************************************************************)
EXTENDS Integers, FiniteSets

CONSTANTS
  Callers, Trials,   \* calls in flight; document keys, each drawn once
  NoTrial,
  Capacity,          \* of MemoryStore
  TTL, MaxTime       \* bound: the clock stops at MaxTime

GuestTrialAssumption ==
  /\ NoTrial \notin Trials /\ IsFiniteSet(Trials)
  /\ Capacity \in Nat \ {0} /\ TTL \in Nat \ {0} /\ MaxTime \in Nat

VARIABLES
  now,      \* the clock
  store,    \* key -> record, or Absent
  call,     \* what each caller is doing
  told      \* the records returned to callers

vars == <<now, store, call, told>>

Statuses == {"pending", "stopped", "answer_first", "unverified"}
Events == {"help", "stop", "completeVerified", "completeUnverified"}
Times == 0..MaxTime

Absent == [generation |-> 0]
Records == [generation : 1..4, assisted : BOOLEAN, status : Statuses,
            created : Times, expires : 0..(MaxTime + TTL)]

Count(holds) == IF holds THEN 1 ELSE 0

(* Record.validate: the generation counts the changes, the lifetime is TTL. *)
Valid(r) ==
  /\ r.generation = 1 + Count(r.assisted) + Count(r.status # "pending")
  /\ r.expires = r.created + TTL

Idle == [pc |-> "idle", trial |-> NoTrial, generation |-> 0, event |-> "none",
         at |-> 0, snapshot |-> Absent]

Calls == [pc : {"idle", "create", "apply", "read", "verify"},
          trial : Trials \union {NoTrial}, generation : 0..4,
          event : Events \union {"none"}, at : Times, snapshot : Records \union {Absent}]

Present == {t \in Trials : store[t] # Absent}

TypeOK ==
  /\ now \in Times
  /\ store \in [Trials -> Records \union {Absent}]
  /\ \A t \in Present : Valid(store[t])
  /\ Cardinality(Present) <= Capacity
  /\ call \in [Callers -> Calls]
  /\ told \subseteq [trial : Trials, record : Records]
-----------------------------------------------------------------------------
Init ==
  /\ now = 0 /\ store = [t \in Trials |-> Absent]
  /\ call = [c \in Callers |-> Idle] /\ told = {}

Tick == now < MaxTime /\ now' = now + 1 /\ UNCHANGED <<store, call, told>>

(* Ended: ctx.Err, an error of the store, or the reply.                    *)
Ended(c) == call' = [call EXCEPT ![c] = Idle]
Tell(t, r) == told' = told \union {[trial |-> t, record |-> r]}
Enter(c, pc, t, g, e) ==
  /\ call[c] = Idle
  /\ call' = [call EXCEPT ![c] = [Idle EXCEPT !.pc = pc, !.trial = t, !.generation = g,
                                              !.event = e, !.at = now]]
  /\ UNCHANGED <<now, store, told>>

(* A caller that was cancelled, or whose transaction was rolled back.      *)
Fails(c) == call[c] # Idle /\ Ended(c) /\ UNCHANGED <<now, store, told>>

Drawn(t) == store[t] # Absent \/ \E c \in Callers : call[c].trial = t
                              \/ \E m \in told : m.trial = t

Begin(c) == \E t \in Trials : ~Drawn(t) /\ Enter(c, "create", t, 0, "none")

New(at) == [generation |-> 1, assisted |-> FALSE, status |-> "pending",
            created |-> at, expires |-> at + TTL]

Purgeable(r, at) == r.expires <= at

Full(n) == n >= Capacity

(* Create: expired records make room.                                      *)
Create(c) ==
  /\ call[c].pc = "create"
  /\ LET at == call[c].at
         t  == call[c].trial
         left == {k \in Present : ~Purgeable(store[k], at)}
         kept == [k \in Trials |-> IF k \in left THEN store[k] ELSE Absent]
     IN IF Full(Cardinality(left))
        THEN store' = kept /\ UNCHANGED told
        ELSE store' = [kept EXCEPT ![t] = New(at)] /\ Tell(t, New(at))
  /\ Ended(c) /\ UNCHANGED now

(* current: the record as the caller's clock sees it.                      *)
Current(r, at) == r # Absent /\ Valid(r) /\ r.created <= at /\ at < r.expires

Read(c, t) == Enter(c, "read", t, 0, "none")

ReadReturns(c) ==
  /\ call[c].pc = "read" /\ call[c].generation = 0
  /\ LET r == store[call[c].trial] IN
       IF Current(r, call[c].at) THEN Tell(call[c].trial, r) ELSE UNCHANGED told
  /\ Ended(c) /\ UNCHANGED <<now, store>>

Update(c, t, g) == \E e \in {"help", "stop"} : Enter(c, "apply", t, g, e)

(* Mutant: the transition looks at the generation only.                    *)
AcceptsGeneration(r, g, e) == g = r.generation /\ (e = "help" => ~r.assisted)

(* Mutant: the transition looks at the status only.                        *)
AcceptsPending(r, g, e) == r.status = "pending" /\ (e = "help" => ~r.assisted)

Accepts(r, g, e) ==
  g = r.generation /\ r.status = "pending" /\ (e = "help" => ~r.assisted)

Outcome == [stop |-> "stopped", completeVerified |-> "answer_first",
            completeUnverified |-> "unverified"]

(* transition: help once, or one of three ends.                            *)
Changed(r, e) ==
  [r EXCEPT !.generation = r.generation + 1,
            !.assisted = @ \/ e = "help",
            !.status = IF e = "help" THEN @ ELSE Outcome[e]]

(* The changed record is validated again before it is written.             *)
Allowed(r, g, e, at) == Current(r, at) /\ Accepts(r, g, e) /\ Valid(Changed(r, e))

(* The reply of a committed transaction may be lost on its way back.       *)
Apply(c) ==
  /\ call[c].pc = "apply"
  /\ LET t == call[c].trial
         r == store[t]
         e == call[c].event
     IN IF Allowed(r, call[c].generation, e, call[c].at)
        THEN /\ store' = [store EXCEPT ![t] = Changed(r, e)]
             /\ Tell(t, Changed(r, e)) \/ UNCHANGED told
        ELSE UNCHANGED <<store, told>>
  /\ Ended(c) /\ UNCHANGED now

(* Mutant: a locally computed result is returned although the transaction  *)
(* failed.                                                                 *)
RollbackTold(c) ==
  /\ call[c].pc = "apply"
  /\ LET r == store[call[c].trial] IN
       IF Allowed(r, call[c].generation, call[c].event, call[c].at)
       THEN Tell(call[c].trial, Changed(r, call[c].event)) ELSE UNCHANGED told
  /\ Ended(c) /\ UNCHANGED <<now, store>>

(* The transaction of an Apply fails: nothing was written.                 *)
Rollback(c) == call[c].pc = "apply" /\ Ended(c) /\ UNCHANGED <<now, store, told>>

Evaluate(c, t, g) == Enter(c, "read", t, g, "none")

EvaluateReads(c) ==
  /\ call[c].pc = "read" /\ call[c].generation # 0
  /\ LET r == store[call[c].trial] IN
       IF Current(r, call[c].at) /\ r.status = "pending" /\ r.generation = call[c].generation
       THEN call' = [call EXCEPT ![c].pc = "verify", ![c].snapshot = r]
       ELSE Ended(c)
  /\ UNCHANGED <<now, store, told>>

(* The verifier answers, outside the transaction, and the clock is read    *)
(* again; its failure is Fails and says nothing about the answer.          *)
Verified(c) ==
  /\ call[c].pc = "verify"
  /\ \E e \in {"completeVerified", "completeUnverified"} :
       call' = [call EXCEPT ![c].pc = "apply", ![c].event = e, ![c].at = now]
  /\ UNCHANGED <<now, store, told>>

Next ==
  \/ Tick
  \/ \E c \in Callers :
       \/ Begin(c) \/ Create(c) \/ ReadReturns(c) \/ Apply(c) \/ Rollback(c)
       \/ EvaluateReads(c) \/ Verified(c) \/ Fails(c)
       \/ \E t \in Trials : Read(c, t) \/ \E g \in 1..2 : Update(c, t, g) \/ Evaluate(c, t, g)

Spec == Init /\ [][Next]_vars
-----------------------------------------------------------------------------
(* Properties.                                                             *)

(* A verdict is published only over the very record the verifier judged:   *)
(* help or a stop that came during the verification voids it.              *)
VerdictForSnapshot ==
  [][\A c \in Callers, t \in Trials :
       /\ call[c].trial = t /\ call[c].event \in {"completeVerified", "completeUnverified"}
       /\ store'[t] # store[t] /\ call'[c] = Idle /\ call[c] # Idle
       => store[t] = call[c].snapshot]_vars

(* What a caller was told is in the ledger, or was overtaken by a later    *)
(* generation that kept the help that was given.                           *)
ToldStands ==
  \A m \in told :
    LET r == store[m.trial] IN
      \/ r = Absent \/ r = m.record
      \/ /\ m.record.status = "pending" /\ r.generation > m.record.generation
         /\ r.expires = m.record.expires /\ (m.record.assisted => r.assisted)
=============================================================================
