----------------------------- MODULE LongMemory -----------------------------
(***************************************************************************)
(* Long-term conversation memory of one principal (internal/longmemory):   *)
(* a consent with a generation, one encrypted record, single-use context   *)
(* capabilities, and the dispatcher that saves a record in the background  *)
(* after a reply.  Store operations are transactions; everything a worker  *)
(* does between two of them interleaves with consent changes and Close.    *)
(***************************************************************************)
EXTENDS Integers, Sequences, FiniteSets

CONSTANTS
  Workers, Senders,  \* dispatcher workers; replies that enqueue a state token
  Capacity,          \* of the job queue
  Capabilities,      \* 128-bit capability IDs
  MaxGeneration      \* bound: consent changes

LongMemoryAssumption ==
  /\ Capacity \in Nat \ {0} /\ MaxGeneration \in Nat
  /\ IsFiniteSet(Capabilities)

VARIABLES
  consent,    \* enabled, generation
  record,     \* the stored record: its generation and the job it came from
  issued,     \* capability -> generation, 0 when not issued
  uses,       \* tombstones of consumed capabilities
  sessions,   \* session contexts handed out: capability and generation
  sender,     \* Enqueue: NotCopying, or the generation when it copied its token
  jobs,       \* queued jobs, each the generation at which it was copied
  closed, cancelled,
  worker      \* pc, job, and the generation Status returned

consentVars == <<consent, record>>
contextVars == <<issued, uses, sessions>>
queueVars == <<sender, jobs, closed, cancelled>>
vars == <<consentVars, contextVars, queueVars, worker>>

Generations == 0..MaxGeneration
NotCopying == -1
NoRecord == [generation |-> 0, from |-> 0]
Rest == [pc |-> "idle", job |-> 0, generation |-> 0]

TypeOK ==
  /\ consent \in [enabled : BOOLEAN, generation : Generations]
  /\ record \in [generation : Generations, from : Generations]
  /\ issued \in [Capabilities -> Generations] /\ uses \subseteq Capabilities
  /\ sessions \in Seq(Capabilities)
  /\ sender \in [Senders -> Generations \union {NotCopying}]
  /\ jobs \in Seq(Generations) /\ Len(jobs) <= Capacity
  /\ {closed, cancelled} \subseteq BOOLEAN
  /\ worker \in [Workers -> [pc : {"idle", "status", "candidate", "save", "gone"},
                             job : Generations, generation : Generations]]
-----------------------------------------------------------------------------
Init ==
  /\ consent = [enabled |-> FALSE, generation |-> 0] /\ record = NoRecord
  /\ issued = [c \in Capabilities |-> 0] /\ uses = {} /\ sessions = << >>
  /\ sender = [s \in Senders |-> NotCopying] /\ jobs = << >>
  /\ closed = FALSE /\ cancelled = FALSE
  /\ worker = [w \in Workers |-> Rest]

Enable ==
  /\ ~consent.enabled /\ consent.generation < MaxGeneration
  /\ consent' = [enabled |-> TRUE, generation |-> consent.generation + 1]
  /\ record' = NoRecord
  /\ UNCHANGED <<contextVars, queueVars, worker>>

AfterDisable == consent.generation + 1

DisableAndDelete ==
  /\ AfterDisable <= MaxGeneration
  /\ consent' = [enabled |-> FALSE, generation |-> AfterDisable]
  /\ record' = NoRecord
  /\ UNCHANGED <<contextVars, queueVars, worker>>

(* The record's lifetime ends.                                             *)
Expire ==
  /\ record # NoRecord /\ record' = NoRecord
  /\ UNCHANGED <<consent, contextVars, queueVars, worker>>
-----------------------------------------------------------------------------
(* Context capabilities.                                                   *)

(* GetCurrent reads consent and record in one transaction.                 *)
BeginContext(c) ==
  /\ issued[c] = 0 /\ consent.enabled /\ record # NoRecord
  /\ record.generation = consent.generation
  /\ issued' = [issued EXCEPT ![c] = consent.generation]
  /\ UNCHANGED <<consentVars, uses, sessions, queueVars, worker>>

(* Mutant: the consent is looked up but the tombstone is not.              *)
RedeemableAgain(c) == consent.enabled /\ consent.generation = issued[c]

(* ConsumeCapability: consent, generation and tombstone in one transaction. *)
Redeemable(c) ==
  consent.enabled /\ consent.generation = issued[c] /\ c \notin uses

(* The reply may be lost after the transaction.                            *)
ConsumeContext(c) ==
  /\ issued[c] # 0 /\ Len(sessions) < 2 * Cardinality(Capabilities)
  /\ Redeemable(c) /\ uses' = uses \union {c}
  /\ sessions' = Append(sessions, c) \/ UNCHANGED sessions
  /\ UNCHANGED <<consentVars, issued, queueVars, worker>>
-----------------------------------------------------------------------------
(* The dispatcher.                                                         *)

(* Enqueue copies the token unless the dispatcher is closed.               *)
Copy(s) ==
  /\ sender[s] = NotCopying /\ ~closed
  /\ sender' = [sender EXCEPT ![s] = consent.generation]
  /\ UNCHANGED <<consentVars, contextVars, jobs, closed, cancelled, worker>>

Admits == ~closed /\ Len(jobs) < Capacity

(* admit, under the admission lock: into the queue, or wiped.              *)
Admit(s) ==
  /\ sender[s] # NotCopying /\ sender' = [sender EXCEPT ![s] = NotCopying]
  /\ jobs' = IF Admits THEN Append(jobs, sender[s]) ELSE jobs
  /\ UNCHANGED <<consentVars, contextVars, closed, cancelled, worker>>

Close ==
  /\ ~closed /\ closed' = TRUE
  /\ UNCHANGED <<consentVars, contextVars, sender, jobs, cancelled, worker>>

(* Mutant: the workers notice a closed dispatcher only by its empty queue. *)
CancelForgotten ==
  /\ closed /\ ~cancelled /\ (\E s \in Senders : sender[s] # NotCopying) /\ cancelled' = TRUE
  /\ UNCHANGED <<consentVars, contextVars, sender, jobs, closed, worker>>

CancelWorkers ==
  /\ closed /\ ~cancelled /\ cancelled' = TRUE
  /\ UNCHANGED <<consentVars, contextVars, sender, jobs, closed, worker>>

Goes(w, state) == worker' = [worker EXCEPT ![w] = state]

Take(w) ==
  /\ worker[w].pc = "idle" /\ jobs # << >>
  /\ jobs' = Tail(jobs) /\ Goes(w, [Rest EXCEPT !.pc = "status", !.job = Head(jobs)])
  /\ UNCHANGED <<consentVars, contextVars, sender, closed, cancelled>>

(* zeroPending, then the worker returns.                                   *)
Stop(w) ==
  /\ worker[w].pc = "idle" /\ cancelled
  /\ Goes(w, [Rest EXCEPT !.pc = "gone"]) /\ jobs' = << >>
  /\ UNCHANGED <<consentVars, contextVars, sender, closed, cancelled>>

(* Expired, cancelled, nothing to save, an invalid token, a panic.         *)
Drop(w) ==
  /\ worker[w].pc \in {"status", "candidate", "save"} /\ Goes(w, Rest)
  /\ UNCHANGED <<consentVars, contextVars, queueVars>>

ReadStatus(w) ==
  /\ worker[w].pc = "status" /\ ~cancelled
  /\ Goes(w, IF consent.enabled
             THEN [worker[w] EXCEPT !.pc = "candidate", !.generation = consent.generation]
             ELSE Rest)
  /\ UNCHANGED <<consentVars, contextVars, queueVars>>

MakeCandidate(w) ==
  /\ worker[w].pc = "candidate" /\ Goes(w, [worker[w] EXCEPT !.pc = "save"])
  /\ UNCHANGED <<consentVars, contextVars, queueVars>>

(* Mutant: consent is checked again, its generation is not.                *)
SavableAnyGeneration(g) == consent.enabled

Savable(g) == consent.enabled /\ consent.generation = g

(* Manager.Save and Store.Put.                                             *)
Save(w) ==
  /\ worker[w].pc = "save" /\ Goes(w, Rest)
  /\ record' = IF Savable(worker[w].generation)
               THEN [generation |-> worker[w].generation, from |-> worker[w].job]
               ELSE record
  /\ UNCHANGED <<consent, contextVars, queueVars>>

Process(w) == Drop(w) \/ ReadStatus(w) \/ MakeCandidate(w) \/ Save(w)

Next ==
  \/ Enable \/ DisableAndDelete \/ Expire \/ Close \/ CancelWorkers
  \/ \E c \in Capabilities : BeginContext(c) \/ ConsumeContext(c)
  \/ \E s \in Senders : Copy(s) \/ Admit(s)
  \/ \E w \in Workers : Take(w) \/ Process(w) \/ Stop(w)

Spec == Init /\ [][Next]_vars

(* The dispatcher's goroutines run; its source and store return.           *)
Fairness ==
  /\ WF_vars(CancelWorkers)
  /\ \A w \in Workers : WF_vars(Take(w)) /\ WF_vars(Process(w)) /\ WF_vars(Stop(w))

FairSpec == Spec /\ Fairness
-----------------------------------------------------------------------------
(* Properties.                                                             *)

(* A stored record belongs to the consent in force: a delayed save cannot  *)
(* revive what an opt-out has deleted, although the worker read the        *)
(* consent before it prepared the record.                                  *)
RecordOfConsent ==
  record # NoRecord => consent.enabled /\ record.generation = consent.generation

(* A capability becomes a session context at most once, even when the      *)
(* reply of the first consumption was lost.                                *)
SingleUse ==
  \A i, j \in 1..Len(sessions) : sessions[i] = sessions[j] => i = j

(* When every worker has returned no state token is left in the queue, and *)
(* no reply that was already copying one adds it later.                    *)
Drained == (\A w \in Workers : worker[w].pc = "gone") => jobs = << >>

(* Close ends: the workers return whatever they were doing.                *)
CloseEnds == closed ~> \A w \in Workers : worker[w].pc = "gone"

(* What was said before an opt-out is not remembered after it.  The job    *)
(* carries no generation: its worker reads the consent when it starts.     *)
ForgottenStaysForgotten ==
  record # NoRecord /\ record.from > 0 => record.from >= record.generation - 1
=============================================================================
