------------------------------ MODULE StoreProofs ------------------------------
(***************************************************************************)
(* The stores that decide who may do what, for any number of callers and   *)
(* any bound: the lease of a live connection, the long-term memory, the    *)
(* execution leases and the ledger of guest trials, the parts of MCStores, *)
(* and the request quotas, which no run repeats (Quota, an instance with   *)
(* variables of its own).  They share nothing, so each is treated alone,   *)
(* with an invariant and a step lemma for its operations.                  *)
(***************************************************************************)
EXTENDS MCStores, Integers, Sequences, FiniteSets, FiniteSetTheorems, TLAPS

CONSTANTS Requests, Users, App, UserOf, PerMinute, PerDay, MinutesPerDay
VARIABLES rl_now, rl_at, rl_check, rl_answer, rl_counter, rl_charged

Quota == INSTANCE RateLimit WITH
    now <- rl_now, at <- rl_at, check <- rl_check, answer <- rl_answer, counter <- rl_counter,
    charged <- rl_charged

-----------------------------------------------------------------------------
(* The lease of a live connection: whoever is served holds the document,   *)
(* and pipelines of one user overlap only past a TTL.  Both follow from    *)
(* one inductive invariant: a served connection's own lease is in the      *)
(* document, it was asked for after its clock had started, and its clock   *)
(* has not run out.                                                        *)

Typed ==
  /\ now \in Nat
  /\ conn \in [Conns -> {"idle", "done"} \union Active \union Ending]
  /\ opened \in [Conns -> Nat]
  /\ asked \in [Conns -> Nat]
  /\ doc \in [holder : Conns \union {None}, expires : Nat]
  /\ late \subseteq Conns
  /\ pipe \in [Conns -> {"none", "running", "ended"}]

(* The lease of connection c is the one in the document.                   *)
Holds(c) == doc.holder = c /\ doc.expires = Expiry(asked[c])

(* A connection that lives has time left, and asked within its lifetime.   *)
InTime(c) ==
  conn[c] \in Active \union Ending => opened[c] <= now /\ now <= opened[c] + ConnTimeout

Asked(c) ==
  conn[c] \in Leased \union {"acquiring"} => opened[c] <= asked[c] /\ asked[c] <= now

(* A pipeline left behind is covered by its lease until that has expired.  *)
Covered(c) == pipe[c] = "running" => Holds(c) \/ Expiry(asked[c]) <= now

(* Before a connection is served it has no pipeline.                       *)
Fresh(c) == conn[c] \in {"idle", "handshake", "guarded", "acquiring"} => pipe[c] = "none"

(* A pending release is that of a connection that is over, and whose       *)
(* pipeline has ended.                                                     *)
LateIsOver(c) == c \in late => conn[c] = "done" /\ pipe[c] # "running"

(* What is known of one connection.                                        *)
Known(c) ==
  /\ InTime(c) /\ Asked(c) /\ Covered(c) /\ Fresh(c) /\ LateIsOver(c)
  /\ conn[c] \in Leased => Holds(c)
  /\ conn[c] = "releasing" => pipe[c] # "running"

LeaseInv == Typed /\ \A c \in Conns : Known(c)

(* The handshake gate touches no lease.                                    *)
LEMMA OpenStep == ASSUME LeaseInv, NEW c \in Conns, Open(c) PROVE LeaseInv'
<1> USE AdmissionAssumption DEF LeaseInv, Open, Goto
<1>1. Typed'  BY DEF Typed, Active, Ending, Expiry
<1>2. ASSUME NEW d \in Conns PROVE Known(d)'
  BY DEF Typed, Known, InTime, Asked, Covered, Fresh, LateIsOver, Holds,
         Leased, Active, Ending, Expiry
<1> QED  BY <1>1, <1>2

(* Giving the slot back touches no lease.                                  *)
LEMMA AuthenticateStep == ASSUME LeaseInv, NEW c \in Conns, Authenticate(c) PROVE LeaseInv'
<1> USE AdmissionAssumption DEF LeaseInv, Authenticate, Goto
<1>1. Typed'  BY DEF Typed, Active, Ending, Expiry
<1>2. ASSUME NEW d \in Conns PROVE Known(d)'
  BY DEF Typed, Known, InTime, Asked, Covered, Fresh, LateIsOver, Holds,
         Leased, Active, Ending, Expiry
<1> QED  BY <1>1, <1>2

(* A connection that is refused never had a lease.                         *)
LEMMA RefuseStep == ASSUME LeaseInv, NEW c \in Conns, Refuse(c) PROVE LeaseInv'
<1> USE AdmissionAssumption DEF LeaseInv, Refuse, Goto
<1>1. Typed'  BY DEF Typed, Active, Ending, Expiry
<1>2. ASSUME NEW d \in Conns PROVE Known(d)'
  BY DEF Typed, Known, InTime, Asked, Covered, Fresh, LateIsOver, Holds,
         Leased, Active, Ending, Expiry
<1> QED  BY <1>1, <1>2

(* The time given to Acquire is the present one.                           *)
LEMMA AcquireStartStep == ASSUME LeaseInv, NEW c \in Conns, AcquireStart(c) PROVE LeaseInv'
<1> USE AdmissionAssumption DEF LeaseInv, AcquireStart, Goto
<1>1. Typed'  BY DEF Typed, Active, Ending, Expiry
<1>2. ASSUME NEW d \in Conns PROVE Known(d)'
  BY DEF Typed, Known, InTime, Asked, Covered, Fresh, LateIsOver, Holds,
         Leased, Active, Ending, Expiry
<1> QED  BY <1>1, <1>2

(* A document is replaced only when no connection can still be served with it. *)
LEMMA AcquireCommitsStep == ASSUME LeaseInv, NEW c \in Conns, AcquireCommits(c) PROVE LeaseInv'
<1> USE AdmissionAssumption DEF LeaseInv, AcquireCommits, Goto, Free
<1>1. Typed'  BY DEF Typed, Active, Ending, Expiry
<1>2. ASSUME NEW d \in Conns PROVE Known(d)'
  <2>1. CASE ~Free(asked[c])
    BY <2>1 DEF Typed, Known, InTime, Asked, Covered, Fresh, LateIsOver, Holds,
         Leased, Active, Ending, Expiry
  <2>2. CASE Free(asked[c])
    <3>1. asked[c] <= now /\ conn[c] \notin Leased
      BY DEF Known, Asked, Leased
    <3>2. \A e \in Conns : conn[e] \notin Leased
      <4> SUFFICES ASSUME NEW e \in Conns, conn[e] \in Leased PROVE FALSE
        OBVIOUS
      <4>1. doc.holder # None /\ doc.expires = asked[e] + ConnTimeout + 1
        BY DEF Known, Holds, Expiry
      <4>2. opened[e] <= asked[e] /\ now <= opened[e] + ConnTimeout
        BY DEF Known, Asked, InTime, Leased, Active, Ending
      <4> QED  BY <2>2, <3>1, <4>1, <4>2 DEF Typed
    <3>3. doc' = [holder |-> c, expires |-> Expiry(asked[c])] /\ conn' = [conn EXCEPT ![c] = "leased"]
      BY <2>2
    <3>4. Covered(d)'
      BY <2>2, <3>1, <3>3 DEF Typed, Known, Covered, Holds, Expiry, Fresh
    <3>5. (conn[d] \in Leased => Holds(d))'
      BY <3>2, <3>3 DEF Typed, Holds, Expiry
    <3>6. InTime(d)' /\ Asked(d)' /\ Fresh(d)' /\ LateIsOver(d)' /\ (conn[d] = "releasing" => pipe[d] # "running")'
      BY <3>3 DEF Typed, Known, InTime, Asked, Fresh, LateIsOver, Leased, Active, Ending
    <3> QED  BY <3>4, <3>5, <3>6 DEF Known
  <2> QED  BY <2>1, <2>2
<1> QED  BY <1>1, <1>2

(* A lost acquisition replaces only an expired document, too.              *)
LEMMA AcquireTimesOutStep == ASSUME LeaseInv, NEW c \in Conns, AcquireTimesOut(c) PROVE LeaseInv'
<1> USE AdmissionAssumption DEF LeaseInv, AcquireTimesOut, Goto, Free
<1>1. Typed'  BY DEF Typed, Active, Ending, Expiry
<1>2. ASSUME NEW d \in Conns PROVE Known(d)'
  BY DEF Typed, Known, InTime, Asked, Covered, Fresh, LateIsOver, Holds,
         Leased, Active, Ending, Expiry
<1> QED  BY <1>1, <1>2

(* The preparation leaves the lease alone.                                 *)
LEMMA PrepareStep == ASSUME LeaseInv, NEW c \in Conns, Prepare(c) PROVE LeaseInv'
<1> USE AdmissionAssumption DEF LeaseInv, Prepare, Goto
<1>1. Typed'  BY DEF Typed, Active, Ending, Expiry
<1>2. ASSUME NEW d \in Conns PROVE Known(d)'
  BY DEF Typed, Known, InTime, Asked, Covered, Fresh, LateIsOver, Holds,
         Leased, Active, Ending, Expiry
<1> QED  BY <1>1, <1>2

(* A pipeline starts under its own lease.                                  *)
LEMMA ServeStep == ASSUME LeaseInv, NEW c \in Conns, Serve(c) PROVE LeaseInv'
<1> USE AdmissionAssumption DEF LeaseInv, Serve, Goto
<1>1. Typed'  BY DEF Typed, Active, Ending, Expiry
<1>2. ASSUME NEW d \in Conns PROVE Known(d)'
  BY DEF Typed, Known, InTime, Asked, Covered, Fresh, LateIsOver, Holds,
         Leased, Active, Ending, Expiry
<1> QED  BY <1>1, <1>2

(* A pipeline that ends needs no cover.                                    *)
LEMMA PipelineEndsStep == ASSUME LeaseInv, NEW c \in Conns, PipelineEnds(c) PROVE LeaseInv'
<1> USE AdmissionAssumption DEF LeaseInv, PipelineEnds, Goto
<1>1. Typed'  BY DEF Typed, Active, Ending, Expiry
<1>2. ASSUME NEW d \in Conns PROVE Known(d)'
  BY DEF Typed, Known, InTime, Asked, Covered, Fresh, LateIsOver, Holds,
         Leased, Active, Ending, Expiry
<1> QED  BY <1>1, <1>2

(* The cleanup starts under the lease.                                     *)
LEMMA HandlerReturnsStep == ASSUME LeaseInv, NEW c \in Conns, HandlerReturns(c) PROVE LeaseInv'
<1> USE AdmissionAssumption DEF LeaseInv, HandlerReturns, Goto
<1>1. Typed'  BY DEF Typed, Active, Ending, Expiry
<1>2. ASSUME NEW d \in Conns PROVE Known(d)'
  BY DEF Typed, Known, InTime, Asked, Covered, Fresh, LateIsOver, Holds,
         Leased, Active, Ending, Expiry
<1> QED  BY <1>1, <1>2

(* The cleanup goes on under the lease.                                    *)
LEMMA CancelPreparedStep == ASSUME LeaseInv, NEW c \in Conns, CancelPrepared(c) PROVE LeaseInv'
<1> USE AdmissionAssumption DEF LeaseInv, CancelPrepared, Goto
<1>1. Typed'  BY DEF Typed, Active, Ending, Expiry
<1>2. ASSUME NEW d \in Conns PROVE Known(d)'
  BY DEF Typed, Known, InTime, Asked, Covered, Fresh, LateIsOver, Holds,
         Leased, Active, Ending, Expiry
<1> QED  BY <1>1, <1>2

(* Only a pipeline that ended lets the lease go; the other keeps it.       *)
LEMMA JoinStep == ASSUME LeaseInv, NEW c \in Conns, Join(c) PROVE LeaseInv'
<1> USE AdmissionAssumption DEF LeaseInv, Join, Goto
<1>1. Typed'  BY DEF Typed, Active, Ending, Expiry
<1>2. ASSUME NEW d \in Conns PROVE Known(d)'
  BY DEF Typed, Known, InTime, Asked, Covered, Fresh, LateIsOver, Holds,
         Leased, Active, Ending, Expiry
<1> QED  BY <1>1, <1>2

(* A release takes away nobody else's document.                            *)
LEMMA ReleaseStep == ASSUME LeaseInv, NEW c \in Conns, Release(c) PROVE LeaseInv'
<1> USE AdmissionAssumption DEF LeaseInv, Release, Goto, Released, NoLease
<1>1. Typed'  BY DEF Typed, Active, Ending, Expiry
<1>2. ASSUME NEW d \in Conns PROVE Known(d)'
  BY DEF Typed, Known, InTime, Asked, Covered, Fresh, LateIsOver, Holds,
         Leased, Active, Ending, Expiry
<1> QED  BY <1>1, <1>2

(* Nor does one that commits late.                                         *)
LEMMA LateReleaseStep == ASSUME LeaseInv, NEW c \in Conns, LateRelease(c) PROVE LeaseInv'
<1> USE AdmissionAssumption DEF LeaseInv, LateRelease, Released, NoLease
<1>1. Typed'  BY DEF Typed, Active, Ending, Expiry
<1>2. ASSUME NEW d \in Conns PROVE Known(d)'
  BY DEF Typed, Known, InTime, Asked, Covered, Fresh, LateIsOver, Holds,
         Leased, Active, Ending, Expiry
<1> QED  BY <1>1, <1>2

(* The crash leaves the document as it is and ends every pipeline.         *)
LEMMA CrashStep == ASSUME LeaseInv, Crash PROVE LeaseInv'
<1> USE AdmissionAssumption DEF LeaseInv, Crash
<1>1. Typed'  BY DEF Typed, Active, Ending, Expiry
<1>2. ASSUME NEW d \in Conns PROVE Known(d)'
  BY DEF Typed, Known, InTime, Asked, Covered, Fresh, LateIsOver, Holds,
         Leased, Active, Ending, Expiry
<1> QED  BY <1>1, <1>2

(* The clock waits for the handlers whose time is up.                      *)
LEMMA TickStep == ASSUME LeaseInv, Tick PROVE LeaseInv'
<1> USE AdmissionAssumption DEF LeaseInv, Tick
<1>1. Typed'  BY DEF Typed, Active, Ending, Expiry
<1>2. ASSUME NEW d \in Conns PROVE Known(d)'
  BY DEF Typed, Known, InTime, Asked, Covered, Fresh, LateIsOver, Holds,
         Leased, Active, Ending, Expiry
<1> QED  BY <1>1, <1>2

(* The lease invariant holds in every reachable state.                     *)
THEOREM LeaseAlways == Spec => []LeaseInv
<1>1. Init => LeaseInv
  BY AdmissionAssumption
     DEF Init, NoLease, LeaseInv, Typed, Known, InTime, Asked, Covered, Fresh, LateIsOver, Leased,
         Active, Ending
<1>2. LeaseInv /\ [Next]_vars => LeaseInv'
  <2> SUFFICES ASSUME LeaseInv, [Next]_vars PROVE LeaseInv'  OBVIOUS
  <2>1. CASE UNCHANGED vars
    BY <2>1 DEF vars, LeaseInv, Typed, Known, InTime, Asked, Covered, Fresh, LateIsOver, Holds
  <2>2. ASSUME NEW c \in Conns, Open(c) PROVE LeaseInv'  BY <2>2, OpenStep
  <2>3. ASSUME NEW c \in Conns, Authenticate(c) PROVE LeaseInv'  BY <2>3, AuthenticateStep
  <2>4. ASSUME NEW c \in Conns, Refuse(c) PROVE LeaseInv'  BY <2>4, RefuseStep
  <2>5. ASSUME NEW c \in Conns, AcquireStart(c) PROVE LeaseInv'  BY <2>5, AcquireStartStep
  <2>6. ASSUME NEW c \in Conns, AcquireCommits(c) PROVE LeaseInv'  BY <2>6, AcquireCommitsStep
  <2>7. ASSUME NEW c \in Conns, AcquireTimesOut(c) PROVE LeaseInv'  BY <2>7, AcquireTimesOutStep
  <2>8. ASSUME NEW c \in Conns, Prepare(c) PROVE LeaseInv'  BY <2>8, PrepareStep
  <2>9. ASSUME NEW c \in Conns, Serve(c) PROVE LeaseInv'  BY <2>9, ServeStep
  <2>10. ASSUME NEW c \in Conns, PipelineEnds(c) PROVE LeaseInv'  BY <2>10, PipelineEndsStep
  <2>11. ASSUME NEW c \in Conns, HandlerReturns(c) PROVE LeaseInv'  BY <2>11, HandlerReturnsStep
  <2>12. ASSUME NEW c \in Conns, CancelPrepared(c) PROVE LeaseInv'  BY <2>12, CancelPreparedStep
  <2>13. ASSUME NEW c \in Conns, Join(c) PROVE LeaseInv'  BY <2>13, JoinStep
  <2>14. ASSUME NEW c \in Conns, Release(c) PROVE LeaseInv'  BY <2>14, ReleaseStep
  <2>15. ASSUME NEW c \in Conns, LateRelease(c) PROVE LeaseInv'  BY <2>15, LateReleaseStep
  <2>16. CASE Crash  BY <2>16, CrashStep
  <2>17. CASE Tick  BY <2>17, TickStep
  <2> QED
    BY <2>1, <2>2, <2>3, <2>4, <2>5, <2>6, <2>7, <2>8, <2>9,
       <2>10, <2>11, <2>12, <2>13, <2>14, <2>15, <2>16, <2>17 DEF Next
<1> QED  BY <1>1, <1>2, PTL DEF Spec

(* Whoever is served holds the lease document, and nobody else can be      *)
(* served: for any number of connections and any deadline.                 *)
THEOREM LeaseIsHoldersAlways == Spec => []LeaseIsHolders
<1>1. LeaseInv => LeaseIsHolders  BY DEF LeaseInv, Known, Holds, LeaseIsHolders
<1> QED  BY <1>1, LeaseAlways, PTL

(* Two pipelines of a user run together only past the TTL of one of them.  *)
THEOREM OverlapOnlyPastTTLAlways == Spec => []OverlapOnlyPastTTL
<1>1. LeaseInv => OverlapOnlyPastTTL
  <2> SUFFICES ASSUME LeaseInv, NEW c \in Conns, NEW d \in Conns, c # d,
                      pipe[c] = "running", pipe[d] = "running"
               PROVE  \E e \in {c, d} : Expiry(asked[e]) <= now
    BY DEF OverlapOnlyPastTTL
  <2>1. Holds(c) \/ Expiry(asked[c]) <= now  BY DEF LeaseInv, Known, Covered
  <2>2. Holds(d) \/ Expiry(asked[d]) <= now  BY DEF LeaseInv, Known, Covered
  <2>3. ~(Holds(c) /\ Holds(d))  BY DEF Holds
  <2> QED  BY <2>1, <2>2, <2>3
<1> QED  BY <1>1, LeaseAlways, PTL

(* The pool keeps a prepared session for a connection of the user.         *)
PreparedInv == prepared \in Conns \union {None} /\ PreparedIsOwn

(* At most one connection of a user is between its lease and its release.  *)
LEMMA OneIsLeased ==
  ASSUME LeaseInv, NEW c \in Conns, NEW d \in Conns, conn[c] \in Leased, conn[d] \in Leased
  PROVE  c = d
BY DEF LeaseInv, Known, Holds

(* Whoever is not leased has no prepared session to lose.                  *)
LEMMA UnleasedStep ==
  ASSUME LeaseInv, PreparedInv, UNCHANGED prepared, NEW c \in Conns, conn[c] \notin Leased,
         NEW pc \in {"idle", "done", "handshake", "guarded", "acquiring", "leased"}, Goto(c, pc)
  PROVE  PreparedInv'
BY AdmissionAssumption DEF PreparedInv, PreparedIsOwn, LeaseInv, Typed, Leased, Goto

(* The prepared session is kept, replaced, claimed and cancelled only by   *)
(* the connection that holds the lease, which is the one it belongs to.    *)
LEMMA PreparedStep == LeaseInv /\ PreparedInv /\ [Next]_vars => PreparedInv'
<1> SUFFICES ASSUME LeaseInv, PreparedInv, [Next]_vars PROVE PreparedInv'  OBVIOUS
<1>1. ASSUME NEW c \in Conns, Open(c) \/ Authenticate(c) \/ Refuse(c) PROVE PreparedInv'
  BY <1>1, UnleasedStep DEF Open, Authenticate, Refuse, Leased
<1>2. ASSUME NEW c \in Conns, AcquireStart(c) \/ AcquireCommits(c) \/ AcquireTimesOut(c)
      PROVE  PreparedInv'
  BY <1>2, UnleasedStep DEF AcquireStart, AcquireCommits, AcquireTimesOut, Leased
<1>3. ASSUME NEW c \in Conns,
             Prepare(c) \/ Serve(c) \/ HandlerReturns(c) \/ CancelPrepared(c) \/ Join(c) \/ Release(c)
      PROVE  PreparedInv'
  <2>1. conn[c] \in Leased
    BY <1>3 DEF Prepare, Serve, HandlerReturns, CancelPrepared, Join, Release, Leased
  <2>2. \A d \in Conns : conn[d] \in Leased => d = c  BY <2>1, OneIsLeased
  <2>3. prepared # None => prepared = c  BY <2>2 DEF PreparedInv, PreparedIsOwn, Leased
  <2>4. \A d \in Conns : conn[d] = "prepared" => d = c  BY <2>2 DEF Leased
  <2>5. conn \in [Conns -> {"idle", "done"} \union Active \union Ending]  BY DEF LeaseInv, Typed
  <2> QED
    BY <1>3, <2>3, <2>4, <2>5, AdmissionAssumption
    DEF PreparedInv, PreparedIsOwn, Prepare, Serve, HandlerReturns, CancelPrepared, Join, Release, Goto
<1>4. ASSUME NEW c \in Conns, PipelineEnds(c) \/ LateRelease(c) PROVE PreparedInv'
  BY <1>4 DEF PipelineEnds, LateRelease, PreparedInv, PreparedIsOwn
<1>5. ASSUME Crash PROVE PreparedInv'
  BY <1>5 DEF Crash, PreparedInv, PreparedIsOwn
<1>6. ASSUME Tick \/ UNCHANGED vars PROVE PreparedInv'
  BY <1>6 DEF Tick, vars, PreparedInv, PreparedIsOwn
<1> QED  BY <1>1, <1>2, <1>3, <1>4, <1>5, <1>6 DEF Next

(* A prepared provider session belongs to the connection that is served:   *)
(* no other's cleanup cancels it, and none is left behind.                 *)
THEOREM PreparedIsOwnAlways == Spec => []PreparedIsOwn
<1>1. Init => PreparedInv  BY AdmissionAssumption DEF Init, PreparedInv, PreparedIsOwn
<1>2. PreparedInv => PreparedIsOwn  BY DEF PreparedInv
<1> QED  BY <1>1, <1>2, PreparedStep, LeaseAlways, PTL DEF Spec
-----------------------------------------------------------------------------
(* The long-term memory.                                                   *)

(* A capability that became a session context has left its tombstone.      *)
ContextInv ==
  /\ lm_sessions \in Seq(Capabilities)
  /\ \A i \in 1..Len(lm_sessions) : lm_sessions[i] \in lm_uses
  /\ Memory!SingleUse

(* A worker leaves after cancel, which comes after close, and empties the  *)
(* queue, to which a closed dispatcher adds nothing.                       *)
Tokens ==
  /\ lm_consent \in [enabled : BOOLEAN, generation : Nat]
  /\ lm_sender \in [Senders -> Int] /\ lm_jobs \in Seq(Int)
  /\ lm_worker \in [Workers -> [pc : {"idle", "status", "candidate", "save", "gone"},
                             job : Int, generation : Int]]

DrainInv ==
  /\ Tokens /\ (lm_cancelled => lm_closed)
  /\ \A w \in Workers : lm_worker[w].pc = "gone" => lm_cancelled /\ lm_jobs = << >>

(* Consent and record change in one transaction.                           *)
LEMMA ConsentStep ==
  Memory!RecordOfConsent /\ [Memory!Next]_(Memory!vars) => Memory!RecordOfConsent'
<1> SUFFICES ASSUME Memory!RecordOfConsent, [Memory!Next]_(Memory!vars)
             PROVE  Memory!RecordOfConsent'
  OBVIOUS
<1> USE DEF Memory!RecordOfConsent, Memory!consentVars
<1>1. ASSUME Memory!Enable \/ Memory!DisableAndDelete \/ Memory!Expire PROVE Memory!RecordOfConsent'
  BY <1>1 DEF Memory!Enable, Memory!DisableAndDelete, Memory!Expire
<1>2. ASSUME NEW w \in Workers, Memory!Save(w) PROVE Memory!RecordOfConsent'
  BY <1>2 DEF Memory!Save, Memory!Savable
<1>3. ASSUME NEW c \in Capabilities, Memory!BeginContext(c) \/ Memory!ConsumeContext(c)
      PROVE  Memory!RecordOfConsent'
  BY <1>3 DEF Memory!BeginContext, Memory!ConsumeContext
<1>4. ASSUME NEW s \in Senders, Memory!Copy(s) \/ Memory!Admit(s) PROVE Memory!RecordOfConsent'
  BY <1>4 DEF Memory!Copy, Memory!Admit
<1>5. ASSUME NEW w \in Workers,
             \/ Memory!Take(w) \/ Memory!Stop(w)
             \/ Memory!Drop(w) \/ Memory!ReadStatus(w) \/ Memory!MakeCandidate(w)
      PROVE  Memory!RecordOfConsent'
  BY <1>5 DEF Memory!Take, Memory!Stop, Memory!Drop, Memory!ReadStatus, Memory!MakeCandidate
<1>6. ASSUME Memory!Close \/ Memory!CancelWorkers \/ UNCHANGED Memory!vars
      PROVE  Memory!RecordOfConsent'
  BY <1>6 DEF Memory!Close, Memory!CancelWorkers, Memory!vars
<1> QED  BY <1>1, <1>2, <1>3, <1>4, <1>5, <1>6 DEF Memory!Next, Memory!Process

(* A stored record belongs to the consent in force, whatever was read      *)
(* before it was prepared: Put compares the generation in its transaction. *)
THEOREM RecordOfConsentAlways == Memory!Spec => []RecordOfConsent
<1>1. Memory!Init => Memory!RecordOfConsent
  BY DEF Memory!Init, Memory!RecordOfConsent
<1>2. RecordOfConsent <=> Memory!RecordOfConsent  BY DEF RecordOfConsent
<1> QED  BY <1>1, <1>2, ConsentStep, PTL DEF Memory!Spec

(* A capability is consumed together with its tombstone.                   *)
LEMMA ConsumeStep ==
  ASSUME ContextInv, NEW c \in Capabilities, Memory!ConsumeContext(c)
  PROVE  ContextInv'
<1> USE DEF ContextInv, Memory!SingleUse
<1>1. c \notin lm_uses /\ lm_uses' = lm_uses \union {c}
      /\ (lm_sessions' = Append(lm_sessions, c) \/ lm_sessions' = lm_sessions)
  BY DEF Memory!ConsumeContext, Memory!Redeemable
<1>2. CASE lm_sessions' = lm_sessions  BY <1>1, <1>2
<1>3. CASE lm_sessions' = Append(lm_sessions, c)
  <2>1. /\ lm_sessions' \in Seq(Capabilities) /\ Len(lm_sessions') = Len(lm_sessions) + 1
        /\ lm_sessions'[Len(lm_sessions) + 1] = c /\ Len(lm_sessions) \in Nat
        /\ \A i \in 1..Len(lm_sessions) : lm_sessions'[i] = lm_sessions[i]
    BY <1>3
  <2> QED  BY <1>1, <2>1
<1> QED  BY <1>1, <1>2, <1>3

(* Nothing else touches the session contexts or the tombstones.            *)
LEMMA ContextStep == ContextInv /\ [Memory!Next]_(Memory!vars) => ContextInv'
<1> SUFFICES ASSUME ContextInv, [Memory!Next]_(Memory!vars) PROVE ContextInv'  OBVIOUS
<1>1. ASSUME NEW c \in Capabilities, Memory!ConsumeContext(c) PROVE ContextInv'
  BY <1>1, ConsumeStep
<1>2. ASSUME UNCHANGED <<lm_uses, lm_sessions>> PROVE ContextInv'
  BY <1>2 DEF ContextInv, Memory!SingleUse
<1>3. ASSUME NEW w \in Workers, Memory!Take(w) \/ Memory!Process(w) \/ Memory!Stop(w)
      PROVE  UNCHANGED <<lm_uses, lm_sessions>>
  BY <1>3 DEF Memory!Process, Memory!Take, Memory!Stop, Memory!Save, Memory!Drop,
     Memory!ReadStatus, Memory!MakeCandidate, Memory!contextVars
<1>4. ASSUME ~ \E c \in Capabilities : Memory!ConsumeContext(c) PROVE UNCHANGED <<lm_uses, lm_sessions>>
  BY <1>3, <1>4 DEF Memory!Next, Memory!vars, Memory!contextVars, Memory!Enable,
     Memory!DisableAndDelete, Memory!Expire, Memory!Close, Memory!CancelWorkers,
     Memory!BeginContext, Memory!Copy, Memory!Admit
<1> QED  BY <1>1, <1>2, <1>4

(* A capability becomes a session context at most once, even when the      *)
(* reply of the first consumption was lost.                                *)
THEOREM SingleUseAlways == Memory!Spec => []SingleUse
<1>1. Memory!Init => ContextInv  BY DEF Memory!Init, ContextInv, Memory!SingleUse
<1>2. ContextInv => SingleUse  BY DEF ContextInv, SingleUse
<1> QED  BY <1>1, <1>2, ContextStep, PTL DEF Memory!Spec

(* The queue is closed before it is drained.                               *)
LEMMA DrainStep == DrainInv /\ [Memory!Next]_(Memory!vars) => DrainInv'
<1> SUFFICES ASSUME DrainInv, [Memory!Next]_(Memory!vars) PROVE DrainInv'  OBVIOUS
<1> USE DEF DrainInv, Tokens, Memory!consentVars, Memory!queueVars, Memory!NotCopying
<1>r. Memory!Rest \in [pc : {"idle"}, job : Int, generation : Int]  BY DEF Memory!Rest
<1>1. ASSUME UNCHANGED <<lm_sender, lm_jobs, lm_worker, lm_closed, lm_cancelled>>,
             lm_consent' \in [enabled : BOOLEAN, generation : Nat]
      PROVE  DrainInv'
  BY <1>1
<1>2. ASSUME Memory!Enable PROVE DrainInv'  BY <1>2 DEF Memory!Enable
<1>3. ASSUME Memory!DisableAndDelete PROVE DrainInv'
  BY <1>3 DEF Memory!DisableAndDelete, Memory!AfterDisable
<1>4. ASSUME Memory!Expire PROVE DrainInv'  BY <1>4 DEF Memory!Expire
<1>5. ASSUME NEW c \in Capabilities, Memory!BeginContext(c) \/ Memory!ConsumeContext(c)
      PROVE  DrainInv'
  BY <1>5 DEF Memory!BeginContext, Memory!ConsumeContext
<1>6. ASSUME NEW s \in Senders, Memory!Copy(s) PROVE DrainInv'  BY <1>6 DEF Memory!Copy
<1>7. ASSUME NEW s \in Senders, Memory!Admit(s) PROVE DrainInv'
  BY <1>7 DEF Memory!Admit, Memory!Admits
<1>8. ASSUME Memory!Close \/ Memory!CancelWorkers PROVE DrainInv'
  BY <1>8 DEF Memory!Close, Memory!CancelWorkers
<1>9. ASSUME NEW w \in Workers, Memory!Take(w) PROVE DrainInv'
  <2>1. lm_jobs # << >> /\ lm_jobs' = Tail(lm_jobs) /\ Head(lm_jobs) \in Int /\ Tail(lm_jobs) \in Seq(Int)
    BY <1>9 DEF Memory!Take
  <2> DEFINE r == [Memory!Rest EXCEPT !.pc = "status", !.job = Head(lm_jobs)]
  <2>2. r \in [pc : {"status"}, job : Int, generation : Int]  BY <1>r, <2>1
  <2>3. /\ lm_worker' = [lm_worker EXCEPT ![w] = r]
        /\ UNCHANGED <<lm_consent, lm_sender, lm_closed, lm_cancelled>>
    BY <1>9 DEF Memory!Take, Memory!Goes
  <2> HIDE DEF r
  <2>4. \A v \in Workers : lm_worker'[v].pc # "gone"  BY <2>1, <2>2, <2>3
  <2> QED  BY <2>1, <2>2, <2>3, <2>4
<1>10. ASSUME NEW w \in Workers, Memory!Stop(w) PROVE DrainInv'
  <2> DEFINE r == [Memory!Rest EXCEPT !.pc = "gone"]
  <2>1. r \in [pc : {"gone"}, job : Int, generation : Int]  BY <1>r
  <2>2. /\ lm_worker' = [lm_worker EXCEPT ![w] = r] /\ lm_jobs' = << >> /\ lm_cancelled
        /\ UNCHANGED <<lm_consent, lm_sender, lm_closed, lm_cancelled>>
    BY <1>10 DEF Memory!Stop, Memory!Goes
  <2> HIDE DEF r
  <2> QED  BY <2>1, <2>2
<1>11. ASSUME NEW w \in Workers, Memory!Drop(w) \/ Memory!Save(w) PROVE DrainInv'
  <2>1. /\ lm_worker' = [lm_worker EXCEPT ![w] = Memory!Rest]
        /\ UNCHANGED <<lm_consent, lm_sender, lm_jobs, lm_closed, lm_cancelled>>
    BY <1>11 DEF Memory!Drop, Memory!Save, Memory!Goes
  <2> QED  BY <1>r, <2>1
<1>12. ASSUME NEW w \in Workers, Memory!ReadStatus(w) PROVE DrainInv'
  <2> DEFINE r == IF lm_consent.enabled
                  THEN [lm_worker[w] EXCEPT !.pc = "candidate", !.generation = lm_consent.generation]
                  ELSE Memory!Rest
  <2>1. r \in [pc : {"idle", "candidate"}, job : Int, generation : Int]
    <3>1. CASE ~lm_consent.enabled  BY <1>r, <3>1
    <3>2. CASE lm_consent.enabled
      <4>1. /\ lm_worker[w] \in [pc : {"idle", "status", "candidate", "save", "gone"},
                              job : Int, generation : Int]
            /\ lm_consent.generation \in Int
        OBVIOUS
      <4> QED  BY <3>2, <4>1
    <3> QED  BY <3>1, <3>2
  <2>2. lm_worker' = [lm_worker EXCEPT ![w] = r] /\ UNCHANGED <<lm_consent, lm_sender, lm_jobs, lm_closed, lm_cancelled>>
    BY <1>12 DEF Memory!ReadStatus, Memory!Goes
  <2> HIDE DEF r
  <2> QED  BY <2>1, <2>2
<1>13. ASSUME NEW w \in Workers, Memory!MakeCandidate(w) PROVE DrainInv'
  BY <1>13 DEF Memory!MakeCandidate, Memory!Goes
<1>14. ASSUME UNCHANGED Memory!vars PROVE DrainInv'  BY <1>14 DEF Memory!vars
<1> QED
  BY <1>2, <1>3, <1>4, <1>5, <1>6, <1>7, <1>8, <1>9, <1>10, <1>11, <1>12, <1>13, <1>14
     DEF Memory!Next, Memory!Process

(* When every worker has returned (NewDispatcher starts at least one) no   *)
(* state token is left in the queue, and no reply that was copying one     *)
(* adds it later.                                                          *)
THEOREM DrainedAlways == ASSUME Workers # {} PROVE Memory!Spec => []Memory!Drained
<1>1. Memory!Init => DrainInv
  BY DEF Memory!Init, DrainInv, Tokens, Memory!Rest, Memory!NotCopying
<1>2. DrainInv => Memory!Drained  BY DEF DrainInv, Memory!Drained
<1> QED  BY <1>1, <1>2, DrainStep, PTL DEF Memory!Spec
-----------------------------------------------------------------------------
(* The execution leases.                                                   *)

TablesTyped ==
  /\ el_time \in Nat /\ el_issued \in [Scopes -> Int]
  /\ el_grants \in [Nonces -> Int] /\ el_leases \in [Nonces -> Int]
  /\ DOMAIN el_pending = LeaseCallers

(* Nonces are drawn once: the next is larger than all that were given.     *)
NoncesDiffer ==
  /\ IsFiniteSet(el_given)
  /\ \A t \in el_given : t.nonce \in Nonces /\ t.nonce \in 1..Cardinality(el_given)
  /\ \A s, t \in el_given : s.nonce = t.nonce => s = t

(* t, which was exchanged for the grant g, stays within it.                *)
Within(t, g) ==
  /\ g \in el_given /\ g.kind = "grant" /\ g.nonce = t.of
  /\ g.scope = t.scope /\ g.query = t.query
  /\ g.from \in Int /\ t.from \in Int /\ g.until \in Int /\ t.until \in Int
  /\ g.from <= t.from /\ t.until <= g.until

IsLease(t) == t \in el_given /\ t.kind = "lease"

(* One lease of a grant, and none of a grant that can still be exchanged.  *)
GivenOnce ==
  /\ \A t \in el_given : t.kind \in {"grant", "lease"} /\ t.from \in Int /\ t.until \in Int
  /\ \A t \in el_given : IsLease(t) => \E g \in el_given : Within(t, g)
  /\ \A s, t \in el_given : IsLease(s) /\ IsLease(t) /\ s.of = t.of => s = t
  /\ \A t \in el_given : IsLease(t) => el_grants[t.of] = 0

(* A lookup consumed a lease, which cannot be consumed again.              *)
Spent(e) ==
  /\ \E t \in el_given :
       /\ IsLease(t) /\ t.nonce = e.lease /\ t.of = e.grant /\ t.scope = e.scope
       /\ t.query = e.query /\ t.from <= e.at /\ e.at < t.until
  /\ e.at \in Int /\ el_leases[e.lease] = 0
SpentOnce ==
  /\ \A e \in el_executed : Spent(e)
  /\ \A a, b \in el_executed : a.lease = b.lease => a = b

(* What a caller takes into the mutex was checked when it read the clock.  *)
Pending(c) ==
  LET p == el_pending[c] IN
  p # Lease!NoCall =>
    /\ p.op = "bind" => p.at \in Int /\ p.ttl \in Int
    /\ p.op = "mint" =>
         /\ p.at \in Int /\ p.ttl \in Int
         /\ p.token \in el_given /\ p.token.kind = "grant"
         /\ p.token.scope = p.scope /\ p.token.query = p.query
         /\ p.token.from <= p.at /\ p.at + p.ttl <= p.token.until
    /\ p.op = "consume" =>
         /\ p.at \in Int /\ IsLease(p.token)
         /\ p.token.scope = p.scope /\ p.token.query = p.query
         /\ p.token.from <= p.at /\ p.at < p.token.until

GrantInv ==
  /\ TablesTyped /\ NoncesDiffer /\ GivenOnce /\ SpentOnce
  /\ \A c \in LeaseCallers : Pending(c)

(* The instance counts as the library does.                                *)
LEMMA CountedAlike == \A S : Lease!Cardinality(S) = Cardinality(S)
BY DEF Lease!Cardinality, Cardinality

(* The number of tokens given grows by one with each of them.              *)
LEMMA FreshNonce ==
  ASSUME NoncesDiffer, NEW t, t.nonce = Cardinality(el_given) + 1, t.nonce \in Nonces,
         el_given' = el_given \union {t}
  PROVE  NoncesDiffer' /\ \A s \in el_given : s.nonce # t.nonce
<1>1. Cardinality(el_given) \in Nat  BY FS_CardinalityType DEF NoncesDiffer
<1>2. \A s \in el_given : s.nonce # t.nonce  BY <1>1 DEF NoncesDiffer
<1>3. IsFiniteSet(el_given') /\ Cardinality(el_given') = Cardinality(el_given) + 1
  BY <1>2, FS_AddElement DEF NoncesDiffer
<1>4. \A s \in el_given' : s.nonce \in Nonces /\ s.nonce \in 1..(Cardinality(el_given) + 1)
  <2>1. \A s \in el_given : s.nonce \in Nonces /\ s.nonce \in 1..Cardinality(el_given)
    BY DEF NoncesDiffer
  <2>2. \A s \in el_given' : s \in el_given \/ s = t  OBVIOUS
  <2> QED  BY <1>1, <2>1, <2>2
<1>5. \A r, s \in el_given' : r.nonce = s.nonce => r = s
  BY <1>2 DEF NoncesDiffer
<1> QED  BY <1>2, <1>3, <1>4, <1>5 DEF NoncesDiffer

(* A caller that reads the clock and waits for the mutex changes no table. *)
LEMMA WaitsStep ==
  ASSUME GrantInv, NEW c \in LeaseCallers, NEW p, Lease!Waits(c, p),
         p.op = "bind" => p.at \in Int /\ p.ttl \in Int,
         p.op = "mint" =>
           /\ p.at \in Int /\ p.ttl \in Int
           /\ p.token \in el_given /\ p.token.kind = "grant"
           /\ p.token.scope = p.scope /\ p.token.query = p.query
           /\ p.token.from <= p.at /\ p.at + p.ttl <= p.token.until,
         p.op = "consume" =>
           /\ p.at \in Int /\ IsLease(p.token)
           /\ p.token.scope = p.scope /\ p.token.query = p.query
           /\ p.token.from <= p.at /\ p.at < p.token.until
  PROVE  GrantInv'
<1>1. /\ UNCHANGED <<el_time, el_issued, el_grants, el_leases, el_given, el_executed>>
      /\ el_pending' = [el_pending EXCEPT ![c] = p]
  BY DEF Lease!Waits
<1>2. TablesTyped' /\ NoncesDiffer' /\ GivenOnce' /\ SpentOnce'
  BY <1>1 DEF GrantInv, TablesTyped, NoncesDiffer, GivenOnce, SpentOnce, Spent, IsLease, Within
<1>3. ASSUME NEW d \in LeaseCallers PROVE Pending(d)'
  BY <1>1 DEF GrantInv, TablesTyped, Pending, IsLease
<1> QED  BY <1>2, <1>3 DEF GrantInv
(* Bind records a new grant; no lease can be of it yet.                    *)
LEMMA BindStep ==
  ASSUME GrantInv, Lease!LeaseAssumption, NEW c \in LeaseCallers, NEW n \in Nonces,
         Lease!Bind(c, n)
  PROVE  GrantInv'
<1> DEFINE p == el_pending[c]
           g == Lease!cleanup(el_grants, p.at)
           t == [kind |-> "grant", nonce |-> n, scope |-> p.scope,
                 query |-> p.query, from |-> p.at, until |-> p.at + p.ttl]
<1>1. p # Lease!NoCall /\ p.op = "bind" /\ p.at \in Int /\ p.ttl \in Int
  BY DEF GrantInv, Pending, Lease!Bind
<1>2. /\ n = Cardinality(el_given) + 1 /\ el_pending' = [el_pending EXCEPT ![c] = Lease!NoCall]
      /\ el_leases' = Lease!cleanup(el_leases, p.at) /\ UNCHANGED <<el_time, el_executed>>
  BY CountedAlike DEF Lease!Bind, Lease!Fresh, Lease!Returns
<1>3. /\ g \in [Nonces -> Int] /\ el_leases' \in [Nonces -> Int]
      /\ Lease!cleanup(el_issued, p.at) \in [Scopes -> Int]
      /\ \A x \in Nonces : (el_grants[x] = 0 => g[x] = 0) /\ (el_leases[x] = 0 => el_leases'[x] = 0)
  BY <1>1, <1>2 DEF GrantInv, TablesTyped, Lease!cleanup
<1>4. IssuanceTTL \in Int  BY DEF Lease!LeaseAssumption
<1>5. CASE el_issued' = Lease!cleanup(el_issued, p.at) /\ el_grants' = g /\ el_given' = el_given
  <2>1. TablesTyped'  BY <1>2, <1>3, <1>5 DEF GrantInv, TablesTyped
  <2>2. NoncesDiffer' /\ GivenOnce'
    BY <1>3, <1>5 DEF GrantInv, NoncesDiffer, GivenOnce, IsLease, Within
  <2>3. SpentOnce'
    BY <1>2, <1>3, <1>5 DEF GrantInv, NoncesDiffer, SpentOnce, Spent, IsLease
  <2>4. ASSUME NEW d \in LeaseCallers PROVE Pending(d)'
    BY <1>2, <1>5 DEF GrantInv, TablesTyped, Pending, IsLease
  <2> QED  BY <2>1, <2>2, <2>3, <2>4 DEF GrantInv
<1>6. CASE /\ el_issued' = Lease!Remembered(p.scope, p.at)
           /\ el_grants' = [g EXCEPT ![n] = p.at + p.ttl] /\ el_given' = el_given \union {t}
  <2> t.nonce = n /\ t.kind = "grant" /\ t.from \in Int /\ t.until \in Int  BY <1>1
  <2> HIDE DEF t
  <2>1. NoncesDiffer' /\ \A s \in el_given : s.nonce # n  BY <1>2, <1>6, FreshNonce DEF GrantInv
  <2>2. TablesTyped'
    <3>1. el_issued' \in [Scopes -> Int]
      <4> DEFINE i == Lease!cleanup(el_issued, p.at)
                 k == p.at + IssuanceTTL
      <4>1. el_issued' = [i EXCEPT ![p.scope] = k]  BY <1>6 DEF Lease!Remembered
      <4>2. i \in [Scopes -> Int] /\ k \in Int  BY <1>1, <1>3, <1>4
      <4> HIDE DEF i, k
      <4> QED  BY <4>1, <4>2
    <3>2. el_grants' \in [Nonces -> Int]  BY <1>1, <1>3, <1>6
    <3> QED  BY <1>2, <1>3, <3>1, <3>2 DEF GrantInv, TablesTyped
  <2>3. \A s : IsLease(s)' <=> IsLease(s)  BY <1>6 DEF IsLease
  <2>4. GivenOnce'
    <3>1. \A s, u \in el_given : Within(s, u) => Within(s, u)'  BY <1>6 DEF Within
    <3>2. \A s \in el_given : IsLease(s) => s.of \in Nonces /\ s.of # n
      BY <2>1 DEF GrantInv, NoncesDiffer, GivenOnce, Within
    <3>3. \A s \in el_given : IsLease(s) => el_grants'[s.of] = 0
      BY <1>3, <1>6, <3>2 DEF GrantInv, GivenOnce
    <3> QED  BY <1>6, <2>3, <3>1, <3>3 DEF GrantInv, GivenOnce, IsLease
  <2>5. SpentOnce'
    BY <1>2, <1>3, <1>6, <2>3 DEF GrantInv, NoncesDiffer, SpentOnce, Spent, IsLease
  <2>6. ASSUME NEW d \in LeaseCallers PROVE Pending(d)'
    BY <1>2, <1>6, <2>3 DEF GrantInv, TablesTyped, Pending
  <2> QED  BY <2>1, <2>2, <2>4, <2>5, <2>6 DEF GrantInv
<1> QED  BY <1>5, <1>6 DEF Lease!Bind

(* Mint gives the lease and spends the grant, or gives nothing.            *)
LEMMA MintStep ==
  ASSUME GrantInv, NEW c \in LeaseCallers, NEW n \in Nonces, NEW drawn \in BOOLEAN,
         Lease!Mint(c, n, drawn)
  PROVE  GrantInv'
<1> DEFINE p == el_pending[c]
           g == Lease!cleanup(el_grants, p.at)
           l == Lease!cleanup(el_leases, p.at)
           t == [kind |-> "lease", nonce |-> n, scope |-> p.scope,
                 query |-> p.query, sources |-> p.sources, from |-> p.at,
                 until |-> p.at + p.ttl, of |-> p.token.nonce]
<1>1. /\ p # Lease!NoCall /\ p.op = "mint" /\ p.at \in Int /\ p.ttl \in Int
      /\ p.token \in el_given /\ p.token.kind = "grant"
      /\ p.token.scope = p.scope /\ p.token.query = p.query
      /\ p.token.from <= p.at /\ p.at + p.ttl <= p.token.until
  BY DEF GrantInv, Pending, Lease!Mint
<1>2. /\ n = Cardinality(el_given) + 1 /\ el_pending' = [el_pending EXCEPT ![c] = Lease!NoCall]
      /\ el_issued' = Lease!cleanup(el_issued, p.at) /\ UNCHANGED <<el_time, el_executed>>
  BY CountedAlike DEF Lease!Mint, Lease!Fresh, Lease!Returns
<1>3. /\ g \in [Nonces -> Int] /\ l \in [Nonces -> Int] /\ el_issued' \in [Scopes -> Int]
      /\ \A x \in Nonces : (el_grants[x] = 0 => g[x] = 0) /\ (el_leases[x] = 0 => l[x] = 0)
  BY <1>1, <1>2 DEF GrantInv, TablesTyped, Lease!cleanup
<1>4. p.token.nonce \in Nonces  BY <1>1 DEF GrantInv, NoncesDiffer
<1>5. /\ el_grants' \in [Nonces -> Int] /\ el_grants'[p.token.nonce] = 0
      /\ \A x \in Nonces : el_grants[x] = 0 => el_grants'[x] = 0
  <2>1. el_grants' = IF g[p.token.nonce] = 0 THEN g ELSE Lease!Exchanged(g, p.token.nonce)
    BY DEF Lease!Mint
  <2> HIDE DEF g
  <2> QED  BY <1>3, <1>4, <2>1 DEF Lease!Exchanged
<1>6. CASE el_leases' = l /\ el_given' = el_given
  <2>1. TablesTyped'  BY <1>2, <1>3, <1>5, <1>6 DEF GrantInv, TablesTyped
  <2>2. NoncesDiffer'  BY <1>6 DEF GrantInv, NoncesDiffer
  <2>3. GivenOnce'
    BY <1>5, <1>6 DEF GrantInv, NoncesDiffer, GivenOnce, IsLease, Within
  <2>4. SpentOnce'
    BY <1>2, <1>3, <1>6 DEF GrantInv, NoncesDiffer, SpentOnce, Spent, IsLease
  <2>5. ASSUME NEW d \in LeaseCallers PROVE Pending(d)'
    BY <1>2, <1>6 DEF GrantInv, TablesTyped, Pending, IsLease
  <2> QED  BY <2>1, <2>2, <2>3, <2>4, <2>5 DEF GrantInv
<1>7. CASE /\ g[p.token.nonce] # 0
           /\ el_leases' = [l EXCEPT ![n] = p.at + p.ttl] /\ el_given' = el_given \union {t}
  <2>t. /\ t.nonce = n /\ t.kind = "lease" /\ t.from = p.at /\ t.until = p.at + p.ttl
        /\ t.scope = p.scope /\ t.query = p.query /\ t.of = p.token.nonce
    OBVIOUS
  <2> HIDE DEF t
  <2>1. NoncesDiffer' /\ \A s \in el_given : s.nonce # n  BY <1>2, <1>7, <2>t, FreshNonce DEF GrantInv
  <2>2. TablesTyped'  BY <1>1, <1>2, <1>3, <1>5, <1>7 DEF GrantInv, TablesTyped
  <2>3. \A s \in el_given : IsLease(s)' <=> IsLease(s)  BY <1>7 DEF IsLease
  <2>k. PICK lease, grant : lease = t /\ grant = p.token  OBVIOUS
  <2>4. Within(lease, grant)'
    BY <1>1, <1>7, <2>t, <2>k DEF GrantInv, GivenOnce, Within
  <2>5. GivenOnce'
    <3>1. \A s, u \in el_given : Within(s, u) => Within(s, u)'  BY <1>7 DEF Within
    <3>2. \A s \in el_given : IsLease(s) => s.of # t.of
      BY <1>3, <1>4, <1>7, <2>t DEF GrantInv, GivenOnce
    <3>3. \A s \in el_given' : IsLease(s)' => el_grants'[s.of] = 0
      BY <1>5, <1>7, <2>3, <2>t DEF GrantInv, GivenOnce, NoncesDiffer, Within
    <3>4. \A s \in el_given' : IsLease(s)' => \E u \in el_given' : Within(s, u)'
      <4>1. \A s \in el_given : IsLease(s) => \E u \in el_given' : Within(s, u)'
        BY <1>7, <3>1 DEF GrantInv, GivenOnce
      <4>2. grant \in el_given'  BY <1>1, <1>7, <2>k
      <4> QED  BY <1>7, <2>3, <2>4, <2>k, <4>1, <4>2
    <3>5. \A s, u \in el_given' : IsLease(s)' /\ IsLease(u)' /\ s.of = u.of => s = u
      BY <1>7, <2>3, <3>2 DEF GrantInv, GivenOnce
    <3>6. \A s \in el_given' : s.kind \in {"grant", "lease"} /\ s.from \in Int /\ s.until \in Int
      BY <1>1, <1>7, <2>t DEF GrantInv, GivenOnce
    <3> QED  BY <3>3, <3>4, <3>5, <3>6 DEF GivenOnce
  <2>6. SpentOnce'
    <3>1. \A e \in el_executed : e.lease \in Nonces /\ e.lease # n
      BY <2>1 DEF GrantInv, NoncesDiffer, SpentOnce, Spent
    <3>2. \A e \in el_executed : el_leases'[e.lease] = 0
      BY <1>3, <1>7, <3>1 DEF GrantInv, SpentOnce, Spent
    <3> QED  BY <1>2, <1>7, <2>3, <3>2 DEF GrantInv, SpentOnce, Spent
  <2>7. ASSUME NEW d \in LeaseCallers PROVE Pending(d)'
    BY <1>2, <1>7, <2>3 DEF GrantInv, TablesTyped, Pending, IsLease
  <2> QED  BY <2>1, <2>2, <2>5, <2>6, <2>7 DEF GrantInv
<1> QED  BY <1>6, <1>7, <1>5, <1>4 DEF Lease!Mint, Lease!Exchanged

(* The lookup takes its lease with it.                                     *)
LEMMA ConsumeLeaseStep ==
  ASSUME GrantInv, NEW c \in LeaseCallers, Lease!ConsumeCrossref(c)
  PROVE  GrantInv'
<1> DEFINE p == el_pending[c]
           l == Lease!cleanup(el_leases, p.at)
           e == [scope |-> p.scope, query |-> p.query, sources |-> p.sources,
                 grant |-> p.token.of, lease |-> p.token.nonce, by |-> c, at |-> p.at]
<1>1. /\ p # Lease!NoCall /\ p.op = "consume" /\ p.at \in Int /\ IsLease(p.token)
      /\ p.token.scope = p.scope /\ p.token.query = p.query
      /\ p.token.from <= p.at /\ p.at < p.token.until
  BY DEF GrantInv, Pending, Lease!ConsumeCrossref
<1>2. /\ el_pending' = [el_pending EXCEPT ![c] = Lease!NoCall] /\ UNCHANGED <<el_time, el_given>>
      /\ el_issued' = Lease!cleanup(el_issued, p.at) /\ el_grants' = Lease!cleanup(el_grants, p.at)
  BY DEF Lease!ConsumeCrossref, Lease!Returns
<1>3. /\ el_grants' \in [Nonces -> Int] /\ l \in [Nonces -> Int] /\ el_issued' \in [Scopes -> Int]
      /\ \A x \in Nonces : (el_grants[x] = 0 => el_grants'[x] = 0) /\ (el_leases[x] = 0 => l[x] = 0)
  BY <1>1, <1>2 DEF GrantInv, TablesTyped, Lease!cleanup
<1>4. p.token.nonce \in Nonces  BY <1>1 DEF GrantInv, NoncesDiffer, IsLease
<1>5. NoncesDiffer' /\ (\A t : IsLease(t)' <=> IsLease(t))  BY <1>2 DEF GrantInv, NoncesDiffer, IsLease
<1>6. GivenOnce'
  BY <1>2, <1>3, <1>5 DEF GrantInv, NoncesDiffer, GivenOnce, Within
<1>7. ASSUME NEW d \in LeaseCallers PROVE Pending(d)'
  BY <1>2, <1>5 DEF GrantInv, TablesTyped, Pending
<1>8. TablesTyped' /\ SpentOnce'
  <2>0. \A x \in el_executed : x.lease \in Nonces
    BY DEF GrantInv, NoncesDiffer, SpentOnce, Spent
  <2>1. CASE el_leases' = l /\ el_executed' = el_executed
    BY <1>2, <1>3, <1>5, <2>0, <2>1 DEF GrantInv, TablesTyped, SpentOnce, Spent
  <2>2. CASE /\ l[p.token.nonce] # 0 /\ el_leases' = [l EXCEPT ![p.token.nonce] = 0]
             /\ el_executed' = el_executed \union {e}
    <3> DEFINE m == p.token.nonce
    <3>1. e.lease = m /\ e.grant = p.token.of /\ e.at = p.at /\ e.scope = p.scope /\ e.query = p.query
      OBVIOUS
    <3>2. \A x \in el_executed : x.lease # m
      BY <1>3, <1>4, <2>2 DEF GrantInv, SpentOnce, Spent
    <3> HIDE DEF e, l
    <3>3. TablesTyped'
      <4>1. el_leases' \in [Nonces -> Int]  BY <1>3, <1>4, <2>2
      <4> QED  BY <1>2, <1>3, <4>1 DEF GrantInv, TablesTyped
    <3>4. \A x \in el_executed' : el_leases'[x.lease] = 0
      BY <1>3, <1>4, <2>0, <2>2, <3>1 DEF GrantInv, SpentOnce, Spent
    <3>k. PICK lookup, lease : lookup = e /\ lease = p.token  OBVIOUS
    <3>5. Spent(lookup)'
      <4>1. lease \in el_given' /\ IsLease(lease)'  BY <1>1, <1>5, <3>k, <1>2 DEF IsLease
      <4>2. el_leases'[lookup.lease] = 0  BY <2>2, <3>4, <3>k
      <4> QED  BY <1>1, <3>1, <3>k, <4>1, <4>2 DEF Spent
    <3>6. \A x \in el_executed : Spent(x)'
      BY <1>5, <1>2, <2>2, <3>4 DEF GrantInv, SpentOnce, Spent
    <3>7. SpentOnce'  BY <2>2, <3>1, <3>2, <3>5, <3>6, <3>k DEF GrantInv, SpentOnce
    <3> QED  BY <3>3, <3>7
  <2> QED  BY <2>1, <2>2 DEF Lease!ConsumeCrossref
<1> QED  BY <1>5, <1>6, <1>7, <1>8 DEF GrantInv

(* Every step of the leases keeps the record of the lookups.               *)
LEMMA GrantStep ==
  Lease!LeaseAssumption /\ GrantInv /\ [Lease!LeaseNext]_(Lease!leaseVars) => GrantInv'
<1> SUFFICES ASSUME Lease!LeaseAssumption, GrantInv, [Lease!LeaseNext]_(Lease!leaseVars)
             PROVE  GrantInv'
  OBVIOUS
<1>1. ASSUME Lease!LeaseTick \/ UNCHANGED Lease!leaseVars PROVE GrantInv'
  <2>1. /\ el_time' \in Nat /\ UNCHANGED <<el_issued, el_grants, el_leases, el_given, el_pending, el_executed>>
    BY <1>1 DEF Lease!LeaseTick, Lease!leaseVars, GrantInv, TablesTyped
  <2> QED
    BY <2>1 DEF GrantInv, TablesTyped, NoncesDiffer, GivenOnce, SpentOnce, Spent, IsLease,
       Within, Pending
<1>2. ASSUME NEW c \in LeaseCallers, NEW s \in Scopes, NEW q \in Queries, NEW ttl \in 1..MaxTTL,
             Lease!BindCall(c, s, q, ttl)
      PROVE  GrantInv'
  BY <1>2, WaitsStep DEF Lease!BindCall, Lease!LeaseAssumption, GrantInv, TablesTyped
<1>3. ASSUME NEW c \in LeaseCallers, NEW t \in el_given, NEW s \in Scopes, NEW q \in Queries,
             NEW src \in SUBSET Sources, NEW ttl \in 1..MaxTTL, Lease!MintCall(c, t, s, q, src, ttl)
      PROVE  GrantInv'
  BY <1>3, WaitsStep DEF Lease!MintCall, Lease!MintAccepts, Lease!LeaseAssumption, GrantInv, TablesTyped
<1>4. ASSUME NEW c \in LeaseCallers, NEW t \in el_given, NEW s \in Scopes, NEW q \in Queries,
             NEW src \in SUBSET Sources, Lease!ConsumeCall(c, t, s, q, src)
      PROVE  GrantInv'
  BY <1>4, WaitsStep DEF Lease!ConsumeCall, Lease!ConsumeMatches, Lease!ConsumeAccepts,
     Lease!LeaseAssumption, GrantInv, TablesTyped, IsLease
<1> QED  BY <1>1, <1>2, <1>3, <1>4, BindStep, MintStep, ConsumeLeaseStep DEF Lease!LeaseNext

(* However the holders of grants and leases race, a grant leads to at most *)
(* one lookup, in the scope and of the query it was bound to and within    *)
(* its life.                                                               *)
THEOREM OneLookupPerGrantAlways ==
  ASSUME Lease!LeaseAssumption PROVE Lease!LeaseSpec => []OneLookupPerGrant
<1>1. Lease!LeaseInit => GrantInv
  <2> SUFFICES ASSUME Lease!LeaseInit PROVE GrantInv  OBVIOUS
  <2> USE DEF Lease!LeaseInit
  <2>1. TablesTyped  BY DEF TablesTyped
  <2>2. NoncesDiffer  BY FS_EmptySet DEF NoncesDiffer
  <2>3. GivenOnce /\ SpentOnce  BY DEF GivenOnce, SpentOnce
  <2>4. \A c \in LeaseCallers : Pending(c)  BY DEF Pending
  <2> QED  BY <2>1, <2>2, <2>3, <2>4 DEF GrantInv
<1>2. GrantInv => OneLookupPerGrant
  <2> SUFFICES ASSUME GrantInv PROVE OneLookupPerGrant  OBVIOUS
  <2>1. ASSUME NEW a \in el_executed, NEW b \in el_executed, a.grant = b.grant PROVE a = b
    <3>1. PICK s \in el_given : IsLease(s) /\ s.nonce = a.lease /\ s.of = a.grant
      BY DEF GrantInv, SpentOnce, Spent
    <3>2. PICK t \in el_given : IsLease(t) /\ t.nonce = b.lease /\ t.of = b.grant
      BY DEF GrantInv, SpentOnce, Spent
    <3>3. s = t  BY <2>1, <3>1, <3>2 DEF GrantInv, GivenOnce
    <3> QED  BY <3>1, <3>2, <3>3 DEF GrantInv, SpentOnce
  <2>2. ASSUME NEW e \in el_executed
        PROVE  \E g \in el_given :
                 /\ g.kind = "grant" /\ g.nonce = e.grant
                 /\ g.scope = e.scope /\ g.query = e.query /\ g.from <= e.at /\ e.at < g.until
    <3>1. PICK t \in el_given : /\ IsLease(t) /\ t.of = e.grant /\ t.scope = e.scope
                             /\ t.query = e.query /\ t.from <= e.at /\ e.at < t.until
      BY DEF GrantInv, SpentOnce, Spent
    <3>2. PICK g \in el_given : Within(t, g)  BY <3>1 DEF GrantInv, GivenOnce
    <3>3. e.at \in Int  BY DEF GrantInv, SpentOnce, Spent
    <3> QED  BY <3>1, <3>2, <3>3 DEF Within
  <2> QED  BY <2>1, <2>2 DEF OneLookupPerGrant, Lease!OneLookupPerGrant
<1> QED  BY <1>1, <1>2, GrantStep, PTL DEF Lease!LeaseSpec
-----------------------------------------------------------------------------
(* The ledger of guest trials.                                             *)

Rows == [generation : Int, assisted : BOOLEAN, status : Trial!Statuses,
         created : Int, expires : Int]

LedgerTyped ==
  /\ gt_now \in Int
  /\ gt_store \in [Trials -> Rows \union {Trial!Absent}]
  /\ gt_call \in [TrialCallers -> [pc : {"idle", "create", "apply", "read", "verify"},
                                trial : Trials \union {NoTrial}, generation : Int,
                                event : Trial!Events \union {"none"}, at : Int,
                                snapshot : Rows \union {Trial!Absent}]]
  /\ gt_told \subseteq [trial : Trials, record : Rows]
  /\ \A c \in TrialCallers :
       /\ gt_call[c].pc # "idle" => gt_call[c].trial \in Trials
       /\ gt_call[c].pc = "apply" => gt_call[c].event \in Trial!Events

(* A key that is about to be created is in nobody's hands: no one was told *)
(* of it, it is not in the store, and no other caller creates it.          *)
Unheard ==
  \A c \in TrialCallers : gt_call[c].pc = "create" =>
    /\ gt_store[gt_call[c].trial] = Trial!Absent
    /\ \A m \in gt_told : m.trial # gt_call[c].trial
    /\ \A d \in TrialCallers : gt_call[d].pc = "create" /\ gt_call[d].trial = gt_call[c].trial => d = c

ToldInv == LedgerTyped /\ Unheard /\ Trial!ToldStands

(* What every operation but Create and Apply leaves alone, and what it may *)
(* tell: a record as it is in the store.                                   *)
LEMMA AsideOfTheLedger ==
  ASSUME ToldInv, gt_store' = gt_store, LedgerTyped',
         \A m \in gt_told' : m \in gt_told \/ (gt_store[m.trial] # Trial!Absent /\ m.record = gt_store[m.trial]),
         \A c \in TrialCallers : gt_call'[c].pc = "create" =>
           \/ gt_call'[c] = gt_call[c]
           \/ /\ ~Trial!Drawn(gt_call'[c].trial)
              /\ \A d \in TrialCallers : d # c => gt_call'[d] = gt_call[d]
              /\ gt_told' = gt_told
  PROVE  ToldInv'
<1>1. Trial!ToldStands'  BY DEF ToldInv, Trial!ToldStands
<1>2. Unheard'
  <2> SUFFICES ASSUME NEW c \in TrialCallers, gt_call'[c].pc = "create"
               PROVE  /\ gt_store'[gt_call'[c].trial] = Trial!Absent
                      /\ \A m \in gt_told' : m.trial # gt_call'[c].trial
                      /\ \A d \in TrialCallers :
                           gt_call'[d].pc = "create" /\ gt_call'[d].trial = gt_call'[c].trial => d = c
    BY DEF Unheard
  <2>1. CASE /\ ~Trial!Drawn(gt_call'[c].trial)
             /\ \A d \in TrialCallers : d # c => gt_call'[d] = gt_call[d]
             /\ gt_told' = gt_told
    BY <2>1 DEF Trial!Drawn
  <2>2. CASE gt_call'[c] = gt_call[c]
    <3>1. ASSUME NEW d \in TrialCallers, d # c, gt_call'[d].pc = "create",
                 gt_call'[d].trial = gt_call'[c].trial
          PROVE  FALSE
      BY <2>2, <3>1 DEF Trial!Drawn, ToldInv, Unheard
    <3>2. gt_store[gt_call[c].trial] = Trial!Absent /\ \A m \in gt_told : m.trial # gt_call[c].trial
      BY <2>2 DEF ToldInv, Unheard
    <3> QED  BY <2>2, <3>1, <3>2
  <2> QED  BY <2>1, <2>2
<1> QED  BY <1>1, <1>2 DEF ToldInv

(* A new record is of a key that nobody was told of; an expired one goes.  *)
LEMMA CreateStep ==
  ASSUME ToldInv, TrialTTL \in Int, NEW c \in TrialCallers, Trial!Create(c)
  PROVE  ToldInv'
<1> DEFINE t == gt_call[c].trial
           n == Trial!New(gt_call[c].at)
<1>1. gt_call[c].pc = "create" /\ t \in Trials /\ gt_call[c].at \in Int
  BY DEF Trial!Create, ToldInv, LedgerTyped
<1>2. n \in Rows /\ n # Trial!Absent
  BY <1>1 DEF Trial!New, Trial!Absent, Rows, Trial!Statuses
<1>3. Trial!Idle.pc = "idle" /\ gt_call' = [gt_call EXCEPT ![c] = Trial!Idle] /\ gt_now' = gt_now
      /\ Trial!Idle \in [pc : {"idle"}, trial : {NoTrial}, generation : Int,
                         event : {"none"}, at : Int, snapshot : {Trial!Absent}]
  BY DEF Trial!Create, Trial!Ended, Trial!Idle
<1> HIDE DEF n
<1>4. /\ \A k \in Trials : k # t => gt_store'[k] \in {gt_store[k], Trial!Absent}
      /\ gt_store' \in [Trials -> Rows \union {Trial!Absent}]
      /\ \/ gt_told' = gt_told /\ gt_store'[t] \in {gt_store[t], Trial!Absent}
         \/ gt_told' = gt_told \union {[trial |-> t, record |-> n]} /\ gt_store'[t] = n
  <2> DEFINE left == {k \in Trial!Present : ~Trial!Purgeable(gt_store[k], gt_call[c].at)}
             kept == [k \in Trials |-> IF k \in left THEN gt_store[k] ELSE Trial!Absent]
  <2>1. /\ kept \in [Trials -> Rows \union {Trial!Absent}]
        /\ \A k \in Trials : kept[k] \in {gt_store[k], Trial!Absent}
    BY DEF ToldInv, LedgerTyped
  <2>2. \/ gt_store' = kept /\ gt_told' = gt_told
        \/ gt_store' = [kept EXCEPT ![t] = n]
           /\ gt_told' = gt_told \union {[trial |-> t, record |-> n]}
    BY DEF Trial!Create, Trial!Tell, n
  <2> HIDE DEF kept
  <2> QED  BY <1>1, <1>2, <2>1, <2>2
<1>5. LedgerTyped'  BY <1>1, <1>2, <1>3, <1>4 DEF ToldInv, LedgerTyped
<1>6. gt_store[t] = Trial!Absent /\ \A m \in gt_told : m.trial # t
  BY <1>1 DEF ToldInv, Unheard
<1>7. Unheard'
  <2> SUFFICES ASSUME NEW d \in TrialCallers, gt_call'[d].pc = "create"
               PROVE  /\ gt_store'[gt_call'[d].trial] = Trial!Absent
                      /\ \A m \in gt_told' : m.trial # gt_call'[d].trial
                      /\ \A e \in TrialCallers :
                           gt_call'[e].pc = "create" /\ gt_call'[e].trial = gt_call'[d].trial => e = d
    BY DEF Unheard
  <2>1. d # c /\ gt_call'[d] = gt_call[d]  BY <1>3 DEF ToldInv, LedgerTyped
  <2>2. gt_call[d].trial # t /\ gt_call[d].trial \in Trials
    BY <1>1, <2>1 DEF ToldInv, LedgerTyped, Unheard
  <2>3. \A e \in TrialCallers : gt_call'[e].pc = "create" => gt_call'[e] = gt_call[e]
    BY <1>3 DEF ToldInv, LedgerTyped
  <2> QED  BY <1>4, <2>1, <2>2, <2>3 DEF ToldInv, Unheard
<1>8. Trial!ToldStands'
  <2> SUFFICES ASSUME NEW m \in gt_told'
               PROVE  LET r == gt_store'[m.trial] IN
                      \/ r = Trial!Absent \/ r = m.record
                      \/ /\ m.record.status = "pending" /\ r.generation > m.record.generation
                         /\ r.expires = m.record.expires /\ (m.record.assisted => r.assisted)
    BY DEF Trial!ToldStands
  <2>1. CASE m \in gt_told
    <3>1. m.trial \in Trials /\ m.trial # t  BY <1>6, <2>1 DEF ToldInv, LedgerTyped
    <3> QED  BY <1>4, <2>1, <3>1 DEF ToldInv, Trial!ToldStands
  <2>2. CASE m \notin gt_told  BY <1>4, <2>2
  <2> QED  BY <2>1, <2>2
<1> QED  BY <1>5, <1>7, <1>8 DEF ToldInv

(* Help, a stop or a verdict writes the next generation of a pending       *)
(* record and keeps the help that was given.                               *)
LEMMA ApplyStep ==
  ASSUME ToldInv, NEW c \in TrialCallers, Trial!Apply(c)
  PROVE  ToldInv'
<1> DEFINE t == gt_call[c].trial
           r == gt_store[t]
           w == Trial!Changed(r, gt_call[c].event)
<1>1. gt_call[c].pc = "apply" /\ t \in Trials /\ gt_call[c].event \in Trial!Events
  BY DEF Trial!Apply, ToldInv, LedgerTyped
<1>2. Trial!Idle.pc = "idle" /\ gt_call' = [gt_call EXCEPT ![c] = Trial!Idle] /\ gt_now' = gt_now
      /\ Trial!Idle \in [pc : {"idle"}, trial : {NoTrial}, generation : Int,
                         event : {"none"}, at : Int, snapshot : {Trial!Absent}]
  BY DEF Trial!Apply, Trial!Ended, Trial!Idle
<1>3. CASE gt_store' = gt_store /\ gt_told' = gt_told
  <2>1. LedgerTyped'  BY <1>1, <1>2, <1>3 DEF ToldInv, LedgerTyped
  <2> QED  BY <1>2, <1>3, <2>1, AsideOfTheLedger DEF ToldInv, LedgerTyped
<1>4. CASE /\ r # Trial!Absent /\ r.status = "pending" /\ gt_store' = [gt_store EXCEPT ![t] = w]
           /\ gt_told' \in {gt_told, gt_told \union {[trial |-> t, record |-> w]}}
  <2>1. r \in Rows  BY <1>1, <1>4 DEF ToldInv, LedgerTyped
  <2>2. /\ w \in Rows /\ w.generation = r.generation + 1 /\ w.expires = r.expires
        /\ (r.assisted => w.assisted) /\ w # Trial!Absent
    <3> DEFINE e == gt_call[c].event
    <3>1. PICK x \in Rows : x = r  BY <2>1
    <3>2. PICK status \in Trial!Statuses : status = IF e = "help" THEN r.status ELSE Trial!Outcome[e]
      BY <1>1, <2>1 DEF Rows, Trial!Events, Trial!Outcome, Trial!Statuses
    <3>3. PICK assisted \in BOOLEAN : assisted = (r.assisted \/ e = "help")  OBVIOUS
    <3>4. w = [x EXCEPT !.generation = x.generation + 1, !.assisted = assisted, !.status = status]
      BY <3>1, <3>2, <3>3 DEF Trial!Changed
    <3> HIDE DEF w
    <3>5. w \in Rows
      <4>1. PICK next \in Int : next = x.generation + 1  BY DEF Rows
      <4>2. w = [x EXCEPT !.generation = next, !.assisted = assisted, !.status = status]
        BY <3>4, <4>1
      <4>3. w = [generation |-> next, assisted |-> assisted, status |-> status,
                 created |-> x.created, expires |-> x.expires]
        BY <4>2 DEF Rows
      <4> QED  BY <4>3 DEF Rows
    <3>6. /\ w.generation = x.generation + 1 /\ w.expires = x.expires
          /\ w.assisted = assisted
      BY <3>4 DEF Rows
    <3>7. \A y \in Rows : y # Trial!Absent
      <4>1. "expires" \notin DOMAIN Trial!Absent  BY DEF Trial!Absent
      <4>2. \A y \in Rows : "expires" \in DOMAIN y  BY DEF Rows
      <4> QED  BY <4>1, <4>2
    <3> QED  BY <3>1, <3>3, <3>5, <3>6, <3>7
  <2> HIDE DEF w
  <2>3. LedgerTyped'  BY <1>1, <1>2, <1>4, <2>2 DEF ToldInv, LedgerTyped
  <2>4. Unheard'
    <3>1. \A d \in TrialCallers : gt_call'[d].pc = "create" => gt_call'[d] = gt_call[d]
      BY <1>2 DEF ToldInv, LedgerTyped
    <3>2. \A d \in TrialCallers : gt_call[d].pc = "create" => gt_call[d].trial # t
      BY <1>4 DEF ToldInv, Unheard
    <3>3. \A d \in TrialCallers : gt_call'[d].pc = "create" =>
            /\ gt_store'[gt_call'[d].trial] = Trial!Absent
            /\ \A m \in gt_told' : m.trial # gt_call'[d].trial
      BY <1>4, <3>1, <3>2 DEF ToldInv, LedgerTyped, Unheard
    <3> QED  BY <3>1, <3>3 DEF ToldInv, Unheard
  <2>5. Trial!ToldStands'
    <3> SUFFICES ASSUME NEW m \in gt_told'
                 PROVE  LET s == gt_store'[m.trial] IN
                        \/ s = Trial!Absent \/ s = m.record
                        \/ /\ m.record.status = "pending" /\ s.generation > m.record.generation
                           /\ s.expires = m.record.expires /\ (m.record.assisted => s.assisted)
      BY DEF Trial!ToldStands
    <3>1. CASE m \notin gt_told
      BY <1>1, <1>4, <3>1 DEF ToldInv, LedgerTyped
    <3>2. CASE m \in gt_told
      <4>1. m.trial \in Trials /\ m.record \in Rows  BY <3>2 DEF ToldInv, LedgerTyped
      <4>2. CASE m.trial # t
        BY <1>4, <3>2, <4>1, <4>2 DEF ToldInv, LedgerTyped, Trial!ToldStands
      <4>3. CASE m.trial = t
        <5>1. gt_store'[m.trial] = w  BY <1>1, <1>4, <4>3 DEF ToldInv, LedgerTyped
        <5>2. \/ r = m.record
              \/ /\ m.record.status = "pending" /\ r.generation > m.record.generation
                 /\ r.expires = m.record.expires /\ (m.record.assisted => r.assisted)
          BY <1>4, <3>2, <4>3 DEF ToldInv, Trial!ToldStands
        <5>3. r.generation \in Int /\ m.record.generation \in Int
          BY <2>1, <4>1 DEF Rows
        <5> QED  BY <1>4, <2>2, <5>1, <5>2, <5>3
      <4> QED  BY <4>2, <4>3
    <3> QED  BY <3>1, <3>2
  <2> QED  BY <2>3, <2>4, <2>5 DEF ToldInv
<1> QED
  BY <1>3, <1>4 DEF Trial!Apply, Trial!Tell, Trial!Allowed, Trial!Current, Trial!Accepts

(* A caller that enters, reads, waits for the verifier or ends.            *)
LEMMA CallerStep ==
  ASSUME ToldInv, NEW c \in TrialCallers, NEW to,
         gt_now' = gt_now, gt_store' = gt_store, gt_call' = [gt_call EXCEPT ![c] = to],
         to \in [pc : {"idle", "create", "apply", "read", "verify"},
                 trial : Trials \union {NoTrial}, generation : Int,
                 event : Trial!Events \union {"none"}, at : Int,
                 snapshot : Rows \union {Trial!Absent}],
         to.pc # "idle" => to.trial \in Trials,
         to.pc = "apply" => to.event \in Trial!Events,
         to.pc = "create" => ~Trial!Drawn(to.trial) /\ gt_told' = gt_told,
         \/ gt_told' = gt_told
         \/ /\ gt_store[gt_call[c].trial] # Trial!Absent /\ gt_call[c].trial \in Trials
            /\ gt_told' = gt_told \union {[trial |-> gt_call[c].trial, record |-> gt_store[gt_call[c].trial]]}
  PROVE  ToldInv'
<1>1. LedgerTyped'  BY DEF ToldInv, LedgerTyped
<1>2. \A m \in gt_told' : m \in gt_told \/ (gt_store[m.trial] # Trial!Absent /\ m.record = gt_store[m.trial])
  OBVIOUS
<1>3. \A d \in TrialCallers : gt_call'[d].pc = "create" =>
        \/ gt_call'[d] = gt_call[d]
        \/ /\ ~Trial!Drawn(gt_call'[d].trial)
           /\ \A e \in TrialCallers : e # d => gt_call'[e] = gt_call[e]
           /\ gt_told' = gt_told
  BY DEF ToldInv, LedgerTyped
<1> QED  BY <1>1, <1>2, <1>3, AsideOfTheLedger

(* Every step of the ledger keeps what was told.                           *)
LEMMA ToldStep == TrialTTL \in Int /\ ToldInv /\ [Trial!Next]_(Trial!vars) => ToldInv'
<1> SUFFICES ASSUME TrialTTL \in Int, ToldInv, [Trial!Next]_(Trial!vars) PROVE ToldInv'  OBVIOUS
<1> DEFINE CallTyped == [pc : {"idle", "create", "apply", "read", "verify"},
                         trial : Trials \union {NoTrial}, generation : Int,
                         event : Trial!Events \union {"none"}, at : Int,
                         snapshot : Rows \union {Trial!Absent}]
<1>i. /\ Trial!Idle \in CallTyped /\ Trial!Idle.pc = "idle"
  BY DEF Trial!Idle
<1>n. gt_now \in Int  BY DEF ToldInv, LedgerTyped
<1>1. ASSUME Trial!Tick \/ UNCHANGED Trial!vars PROVE ToldInv'
  <2>1. gt_now' \in Int /\ UNCHANGED <<gt_store, gt_call, gt_told>>
    BY <1>1, <1>n DEF Trial!Tick, Trial!vars
  <2> QED  BY <2>1 DEF ToldInv, LedgerTyped, Unheard, Trial!ToldStands
<1>2. ASSUME NEW c \in TrialCallers, NEW pc \in {"create", "read", "apply"}, NEW t \in Trials,
             NEW g \in Int, NEW e \in {"none", "help", "stop"}, Trial!Enter(c, pc, t, g, e),
             pc = "create" => ~Trial!Drawn(t), pc = "apply" => e # "none"
      PROVE  ToldInv'
  <2> DEFINE to == [Trial!Idle EXCEPT !.pc = pc, !.trial = t, !.generation = g,
                                      !.event = e, !.at = gt_now]
  <2>1. to \in CallTyped /\ to.pc = pc /\ to.trial = t /\ to.event = e
    BY <1>n DEF Trial!Idle, Trial!Events
  <2>2. gt_call' = [gt_call EXCEPT ![c] = to] /\ UNCHANGED <<gt_now, gt_store, gt_told>>
    BY <1>2 DEF Trial!Enter
  <2> HIDE DEF to
  <2> QED  BY <1>2, <2>1, <2>2, CallerStep DEF Trial!Events
<1>3. ASSUME NEW c \in TrialCallers, Trial!Begin(c) PROVE ToldInv'
  BY <1>2, <1>3 DEF Trial!Begin
<1>4. ASSUME NEW c \in TrialCallers, NEW t \in Trials, NEW g \in 1..2,
             Trial!Read(c, t) \/ Trial!Update(c, t, g) \/ Trial!Evaluate(c, t, g)
      PROVE  ToldInv'
  BY <1>2, <1>4 DEF Trial!Read, Trial!Update, Trial!Evaluate
<1>5. ASSUME NEW c \in TrialCallers, Trial!Fails(c) \/ Trial!Rollback(c) PROVE ToldInv'
  BY <1>5, <1>i, CallerStep DEF Trial!Fails, Trial!Rollback, Trial!Ended
<1>6. ASSUME NEW c \in TrialCallers, Trial!ReadReturns(c) PROVE ToldInv'
  <2>1. gt_call[c].trial \in Trials  BY <1>6 DEF Trial!ReadReturns, ToldInv, LedgerTyped
  <2>2. /\ gt_now' = gt_now /\ gt_store' = gt_store /\ gt_call' = [gt_call EXCEPT ![c] = Trial!Idle]
        /\ \/ gt_told' = gt_told
           \/ /\ gt_store[gt_call[c].trial] # Trial!Absent
              /\ gt_told' = gt_told \union {[trial |-> gt_call[c].trial, record |-> gt_store[gt_call[c].trial]]}
    BY <1>6 DEF Trial!ReadReturns, Trial!Ended, Trial!Tell, Trial!Current
  <2> QED  BY <1>i, <2>1, <2>2, CallerStep
<1>7. ASSUME NEW c \in TrialCallers, Trial!EvaluateReads(c) PROVE ToldInv'
  <2> DEFINE to == [gt_call[c] EXCEPT !.pc = "verify", !.snapshot = gt_store[gt_call[c].trial]]
  <2>1. gt_call[c].trial \in Trials /\ gt_call[c].pc = "read" /\ gt_call[c] \in CallTyped
        /\ gt_store[gt_call[c].trial] \in Rows \union {Trial!Absent}
    BY <1>7 DEF Trial!EvaluateReads, ToldInv, LedgerTyped
  <2>2. to \in CallTyped /\ to.pc = "verify" /\ to.trial = gt_call[c].trial
    BY <2>1
  <2>3. \/ gt_call' = [gt_call EXCEPT ![c] = Trial!Idle] \/ gt_call' = [gt_call EXCEPT ![c] = to]
    BY <1>7 DEF Trial!EvaluateReads, Trial!Ended, ToldInv, LedgerTyped
  <2>4. UNCHANGED <<gt_now, gt_store, gt_told>>  BY <1>7 DEF Trial!EvaluateReads
  <2> HIDE DEF to
  <2> QED  BY <1>i, <2>1, <2>2, <2>3, <2>4, CallerStep
<1>8. ASSUME NEW c \in TrialCallers, Trial!Verified(c) PROVE ToldInv'
  <2>1. PICK e \in {"completeVerified", "completeUnverified"} :
          gt_call' = [gt_call EXCEPT ![c].pc = "apply", ![c].event = e, ![c].at = gt_now]
    BY <1>8 DEF Trial!Verified
  <2> DEFINE to == [gt_call[c] EXCEPT !.pc = "apply", !.event = e, !.at = gt_now]
  <2>2. gt_call[c].trial \in Trials /\ gt_call[c] \in CallTyped /\ UNCHANGED <<gt_now, gt_store, gt_told>>
    BY <1>8 DEF Trial!Verified, ToldInv, LedgerTyped
  <2>3. to \in CallTyped /\ to.pc = "apply" /\ to.trial = gt_call[c].trial /\ to.event = e
    BY <1>n, <2>2 DEF Trial!Events
  <2>4. gt_call' = [gt_call EXCEPT ![c] = to]  BY <2>1 DEF ToldInv, LedgerTyped
  <2> HIDE DEF to
  <2> QED  BY <2>2, <2>3, <2>4, CallerStep DEF Trial!Events
<1> QED  BY <1>1, <1>3, <1>4, <1>5, <1>6, <1>7, <1>8, CreateStep, ApplyStep DEF Trial!Next

(* What a caller was told is in the ledger, has expired, or was overtaken  *)
(* by a later generation that kept the help that was given, however many   *)
(* callers begin, read, ask for help, stop and are judged at once.         *)
THEOREM ToldStandsAlways ==
  ASSUME Trial!GuestTrialAssumption PROVE Trial!Spec => []ToldStands
<1>1. Trial!Init => ToldInv
  BY DEF Trial!Init, Trial!Idle, ToldInv, LedgerTyped, Unheard, Trial!ToldStands
<1>2. ToldInv => ToldStands  BY DEF ToldInv, ToldStands
<1>3. TrialTTL \in Int  BY DEF Trial!GuestTrialAssumption
<1> QED  BY <1>1, <1>2, <1>3, ToldStep, PTL DEF Trial!Spec
-----------------------------------------------------------------------------
(* The request quotas, for any number of requests, users and limits: a     *)
(* counter document, which only ever holds the last minute and the last    *)
(* day it was asked about, nevertheless bounds what is charged in every    *)
(* minute and every day.  Requests reach the store in any order, and the   *)
(* count of a window is exact only because a request of an earlier window  *)
(* than the document's is turned away: that is what Mirror says.           *)

(* The instance counts as the library does.                                *)
LEMMA CountsAlike == \A S : Quota!Cardinality(S) = Cardinality(S)
BY DEF Quota!Cardinality, Cardinality

(* The invariant.  A counter's document describes the requests charged to  *)
(* it: they are at most as late as its windows, which count those of the   *)
(* last minute and the last day.                                           *)
Mirror(k) ==
  /\ IsFiniteSet(rl_charged[k])
  /\ rl_counter[k].day = Quota!Day(rl_counter[k].minute)
  /\ \A q \in rl_charged[k] : rl_at[q] <= rl_counter[k].minute
  /\ rl_counter[k].minuteCount = Cardinality(Quota!InMinute(k, rl_counter[k].minute))
  /\ rl_counter[k].dayCount = Cardinality(Quota!InDay(k, rl_counter[k].day))

(* A request is charged once per scope, and keeps its time from then on.   *)
Once(r) ==
  /\ rl_check[r]["uid"] = "none" <=> rl_check[r]["app"] = "none"
  /\ \A k \in Quota!Keys : r \in rl_charged[k] =>
       \E s \in Quota!Scopes : k = Quota!KeyOf(r, s) /\ rl_check[r][s] \notin {"none", "pending"}

Reached(r, s) ==
  LET k == Quota!KeyOf(r, s)
  IN  \/ Cardinality(Quota!InMinute(k, rl_at[r])) >= PerMinute[k]
      \/ Cardinality(Quota!InDay(k, Quota!Day(rl_at[r]))) >= PerDay[k]

(* What the answers of the two transactions, and of the server, rest on.   *)
Answers(r) ==
  /\ \A s \in Quota!Scopes : /\ rl_check[r][s] = "ok" => r \in rl_charged[Quota!KeyOf(r, s)]
                             /\ rl_check[r][s] = "exceeded" => Reached(r, s)
  /\ rl_answer[r] = "served" => \A s \in Quota!Scopes : rl_check[r][s] = "ok"
  /\ rl_answer[r] = "limited" => \E s \in Quota!Scopes : rl_check[r][s] = "exceeded"

WindowsWithin(k) ==
  \A t \in Nat : /\ Cardinality(Quota!InMinute(k, t)) <= PerMinute[k]
                 /\ Cardinality(Quota!InDay(k, t)) <= PerDay[k]

QuotaInv ==
  /\ Quota!TypeOK /\ Quota!WindowLimit
  /\ \A k \in Quota!Keys : Mirror(k)
  /\ \A r \in Requests : Once(r) /\ Answers(r)
-----------------------------------------------------------------------------
(* Days follow the minutes they are made of.                               *)
LEMMA DayMonotone ==
  ASSUME Quota!Deployment, NEW a \in Nat, NEW b \in Nat, a <= b
  PROVE  Quota!Day(a) \in Nat /\ Quota!Day(b) \in Nat /\ Quota!Day(a) <= Quota!Day(b)
<1> DEFINE M == MinutesPerDay
<1>1. M \in Nat /\ M > 0  BY DEF Quota!Deployment
<1>2. ASSUME NEW t \in Nat PROVE t \div M \in Nat /\ M * (t \div M) <= t /\ t < M * (t \div M) + M
  <2>1. t \div M \in Int /\ t = M * (t \div M) + (t % M) /\ t % M \in 0 .. (M - 1) BY <1>1
  <2>2. t \div M >= 0  BY <1>1
  <2> QED  BY <1>1, <2>1, <2>2
<1>3. ASSUME NEW p \in Nat, NEW q \in Nat, p > q PROVE M * p >= M * q + M
  <2>1. p = q + 1 + (p - q - 1) /\ p - q - 1 \in Nat  BY <1>3
  <2>2. M * p = M * q + M + M * (p - q - 1)  BY <1>1, <2>1
  <2>3. M * (p - q - 1) >= 0  BY <1>1, <2>1
  <2> QED  BY <1>1, <2>2, <2>3
<1>4. a \div M <= b \div M
  <2> SUFFICES ASSUME ~ (a \div M <= b \div M) PROVE FALSE  OBVIOUS
  <2> HIDE DEF M
  <2>1. a \div M > b \div M /\ a \div M \in Nat /\ b \div M \in Nat BY <1>2
  <2>2. M * (a \div M) >= M * (b \div M) + M  BY <1>3, <2>1
  <2> QED  BY <1>1, <1>2, <2>1, <2>2
<1> QED  BY <1>2, <1>4 DEF Quota!Day

(* A key belongs to a request in one scope only.                           *)
LEMMA OneScope ==
  ASSUME Quota!Deployment, NEW r \in Requests, NEW s \in Quota!Scopes, NEW q \in Requests,
         NEW t \in Quota!Scopes,
               Quota!KeyOf(r, s) = Quota!KeyOf(q, t)
  PROVE  s = t /\ Quota!KeyOf(r, s) \in Quota!Keys
BY DEF Quota!Deployment, Quota!KeyOf, Quota!Scopes, Quota!Keys

(* What is charged in one window of a key is finite, and counts grow.      *)
LEMMA Windows ==
  ASSUME NEW k, IsFiniteSet(rl_charged[k]), NEW t
  PROVE  /\ IsFiniteSet(Quota!InMinute(k, t)) /\ Cardinality(Quota!InMinute(k, t)) \in Nat
         /\ IsFiniteSet(Quota!InDay(k, t)) /\ Cardinality(Quota!InDay(k, t)) \in Nat
<1>1. Quota!InMinute(k, t) \subseteq rl_charged[k] /\ Quota!InDay(k, t) \subseteq rl_charged[k]
  BY DEF Quota!InMinute, Quota!InDay
<1> QED  BY <1>1, FS_Subset, FS_CardinalityType

(* With nothing charged every counter is at zero.                          *)
LEMMA InitQuota == Quota!Deployment /\ Quota!Init => QuotaInv
<1> SUFFICES ASSUME Quota!Deployment, Quota!Init PROVE QuotaInv  OBVIOUS
<1> USE DEF Quota!Init
<1>1. Quota!TypeOK  BY DEF Quota!TypeOK, Quota!Scopes
<1>2. ASSUME NEW k \in Quota!Keys, NEW t PROVE Quota!InMinute(k, t) = {} /\ Quota!InDay(k, t) = {}
  BY DEF Quota!InMinute, Quota!InDay
<1>3. Cardinality({}) = 0 /\ IsFiniteSet({})  BY FS_EmptySet
<1>4. ASSUME NEW k \in Quota!Keys, NEW t \in Nat
      PROVE  /\ Cardinality(Quota!InMinute(k, t)) <= PerMinute[k]
             /\ Cardinality(Quota!InDay(k, t)) <= PerDay[k]
  <2>1. PerMinute[k] \in Nat /\ PerDay[k] \in Nat  BY DEF Quota!Deployment
  <2>2. Cardinality(Quota!InMinute(k, t)) = 0 /\ Cardinality(Quota!InDay(k, t)) = 0  BY <1>2, <1>3
  <2> QED  BY <2>1, <2>2
<1>5. Quota!Day(0) = 0  BY DEF Quota!Day, Quota!Deployment
<1>6. ASSUME NEW k \in Quota!Keys PROVE Mirror(k)
  BY <1>2, <1>3, <1>5 DEF Mirror
<1>7. ASSUME NEW r \in Requests PROVE Once(r) /\ Answers(r)
  BY DEF Once, Answers, Quota!Scopes
<1> QED  BY <1>1, <1>4, <1>6, <1>7, CountsAlike DEF QuotaInv, Quota!WindowLimit

(* One transaction that counts r: its windows become the last ones, and    *)
(* take r in only while they have room.                                    *)
LEMMA ChargeMirror ==
  ASSUME Quota!Deployment, QuotaInv, NEW r \in Requests, NEW s \in Quota!Scopes, Quota!Charge(r, s)
  PROVE  LET k == Quota!KeyOf(r, s) IN
         /\ Mirror(k)'
         /\ \A t \in Nat : /\ Cardinality(Quota!InMinute(k, t)') <= PerMinute[k]
                           /\ Cardinality(Quota!InDay(k, t)') <= PerDay[k]
<1> DEFINE k == Quota!KeyOf(r, s)
           c == rl_counter[k]
<1>0. PICK t0 \in Nat : t0 = rl_at[r]  BY DEF QuotaInv, Quota!TypeOK
<1>1. k \in Quota!Keys /\ PerMinute[k] \in Nat /\ PerDay[k] \in Nat
  BY OneScope DEF Quota!Deployment
<1>2. c \in [minute : Nat, minuteCount : Nat, day : Nat, dayCount : Nat]
  BY <1>1 DEF QuotaInv, Quota!TypeOK
<1>3. Mirror(k) /\ r \notin rl_charged[k] /\ rl_charged[k] \subseteq Requests
  <2>1. rl_check[r][s] = "pending"  BY DEF Quota!Charge
  <2>2. ASSUME r \in rl_charged[k] PROVE FALSE
    BY <1>1, <2>1, <2>2, OneScope DEF QuotaInv, Once
  <2> QED  BY <1>1, <2>2 DEF QuotaInv, Quota!TypeOK
<1>4. /\ c.minute <= t0 /\ c.day <= Quota!Day(t0)
      /\ c.minute = t0 => c.minuteCount < PerMinute[k]
      /\ c.minute # t0 => 0 < PerMinute[k]
      /\ c.day = Quota!Day(t0) => c.dayCount < PerDay[k]
      /\ c.day # Quota!Day(t0) => 0 < PerDay[k]
  <2>1. Quota!Valid(c, t0) /\ ~Quota!Full(k, Quota!Rolled(c, t0))  BY <1>0 DEF Quota!Charge
  <2> QED  BY <1>1, <1>2, <2>1 DEF Quota!Valid, Quota!Full, Quota!Rolled
<1>5. Quota!Day(t0) \in Nat  BY <1>1, DayMonotone
<1>6. /\ rl_counter'[k].minute = t0 /\ rl_counter'[k].day = Quota!Day(t0)
      /\ rl_counter'[k].minuteCount = (IF c.minute = t0 THEN c.minuteCount ELSE 0) + 1
      /\ rl_counter'[k].dayCount = (IF c.day = Quota!Day(t0) THEN c.dayCount ELSE 0) + 1
  <2>1. rl_counter' = [rl_counter EXCEPT ![k] = Quota!Counted(Quota!Rolled(c, t0))]
    BY <1>0 DEF Quota!Charge
  <2>2. rl_counter'[k] = Quota!Counted(Quota!Rolled(c, t0))
    BY <1>1, <2>1 DEF QuotaInv, Quota!TypeOK
  <2> QED  BY <2>2 DEF Quota!Counted, Quota!Rolled
<1>7. rl_charged'[k] = rl_charged[k] \union {r} /\ rl_at' = rl_at
  BY <1>1 DEF Quota!Charge, QuotaInv, Quota!TypeOK
<1>8. ASSUME NEW t \in Nat
      PROVE  /\ t # t0 => Quota!InMinute(k, t)' = Quota!InMinute(k, t)
             /\ Quota!InMinute(k, t0)' = Quota!InMinute(k, t0) \union {r}
             /\ t # Quota!Day(t0) => Quota!InDay(k, t)' = Quota!InDay(k, t)
             /\ Quota!InDay(k, Quota!Day(t0))' = Quota!InDay(k, Quota!Day(t0)) \union {r}
             /\ r \notin Quota!InMinute(k, t0) /\ r \notin Quota!InDay(k, Quota!Day(t0))
  BY <1>0, <1>3, <1>7 DEF Quota!InMinute, Quota!InDay
<1>9. /\ Cardinality(Quota!InMinute(k, t0)') = Cardinality(Quota!InMinute(k, t0)) + 1
      /\ Cardinality(Quota!InDay(k, Quota!Day(t0))') = Cardinality(Quota!InDay(k, Quota!Day(t0))) + 1
  <2>1. IsFiniteSet(Quota!InMinute(k, t0)) /\ IsFiniteSet(Quota!InDay(k, Quota!Day(t0)))
    BY <1>3, Windows DEF Mirror
  <2>2. Cardinality(Quota!InMinute(k, t0) \union {r}) = Cardinality(Quota!InMinute(k, t0)) + 1
    BY <1>8, <2>1, FS_AddElement
  <2>3. Cardinality(Quota!InDay(k, Quota!Day(t0)) \union {r}) = Cardinality(Quota!InDay(k, Quota!Day(t0))) + 1
    BY <1>8, <2>1, FS_AddElement
  <2> QED  BY <1>8, <2>2, <2>3
<1>10. c.minute # t0 => Quota!InMinute(k, t0) = {}
  <2> SUFFICES ASSUME c.minute # t0, NEW q \in rl_charged[k], rl_at[q] = t0 PROVE FALSE
    BY DEF Quota!InMinute
  <2>1. rl_at[q] <= c.minute  BY <1>3 DEF Mirror
  <2> QED  BY <1>2, <1>4, <2>1
<1>11. c.day # Quota!Day(t0) => Quota!InDay(k, Quota!Day(t0)) = {}
  <2> SUFFICES ASSUME c.day # Quota!Day(t0), NEW q \in rl_charged[k],
                      Quota!Day(rl_at[q]) = Quota!Day(t0)
               PROVE  FALSE
    BY DEF Quota!InDay
  <2>1. rl_at[q] \in Nat /\ rl_at[q] <= c.minute /\ c.minute \in Nat
    BY <1>2, <1>3 DEF Mirror, QuotaInv, Quota!TypeOK
  <2>2. Quota!Day(rl_at[q]) <= Quota!Day(c.minute)  BY <2>1, DayMonotone
  <2> QED  BY <1>2, <1>3, <1>4, <1>5, <2>2 DEF Mirror
<1>12. /\ Cardinality(Quota!InMinute(k, t0)) = IF c.minute = t0 THEN c.minuteCount ELSE 0
       /\ Cardinality(Quota!InDay(k, Quota!Day(t0))) = IF c.day = Quota!Day(t0) THEN c.dayCount ELSE 0
  BY <1>3, <1>10, <1>11, FS_EmptySet DEF Mirror
<1>13. ASSUME NEW t \in Nat
       PROVE  /\ Cardinality(Quota!InMinute(k, t)') <= PerMinute[k]
              /\ Cardinality(Quota!InDay(k, t)') <= PerDay[k]
  <2>1. Cardinality(Quota!InMinute(k, t0)') <= PerMinute[k]
    BY <1>1, <1>2, <1>4, <1>9, <1>12
  <2>2. Cardinality(Quota!InDay(k, Quota!Day(t0))') <= PerDay[k]
    BY <1>1, <1>2, <1>4, <1>5, <1>9, <1>12
  <2>3. /\ Cardinality(Quota!InMinute(k, t)) <= PerMinute[k]
        /\ Cardinality(Quota!InDay(k, t)) <= PerDay[k]
    BY <1>1, CountsAlike DEF QuotaInv, Quota!WindowLimit
  <2>4. Cardinality(Quota!InMinute(k, t)') <= PerMinute[k]
    <3>1. CASE t = t0  BY <2>1, <3>1
    <3>2. CASE t # t0  BY <1>8, <2>3, <3>2
    <3> QED  BY <3>1, <3>2
  <2>5. Cardinality(Quota!InDay(k, t)') <= PerDay[k]
    <3>1. CASE t = Quota!Day(t0)  BY <2>2, <3>1
    <3>2. CASE t # Quota!Day(t0)  BY <1>8, <2>3, <3>2
    <3> QED  BY <3>1, <3>2
  <2> QED  BY <2>4, <2>5
<1>14. Mirror(k)'
  <2>1. IsFiniteSet(rl_charged'[k])  BY <1>3, <1>7, FS_AddElement DEF Mirror
  <2>2. \A q \in rl_charged'[k] : rl_at'[q] <= rl_counter'[k].minute
    <3> SUFFICES ASSUME NEW q \in rl_charged'[k] PROVE rl_at'[q] <= t0  BY <1>6
    <3>1. CASE q = r  BY <1>0, <1>7, <3>1
    <3>2. CASE q # r
      <4>1. q \in rl_charged[k] /\ rl_at[q] \in Nat
        BY <1>3, <1>7, <3>2 DEF QuotaInv, Quota!TypeOK
      <4>2. rl_at[q] <= c.minute  BY <1>3, <4>1 DEF Mirror
      <4> QED  BY <1>2, <1>4, <1>7, <4>1, <4>2
    <3> QED  BY <3>1, <3>2
  <2>3. rl_counter'[k].minuteCount = Cardinality(Quota!InMinute(k, t0)')
    BY <1>6, <1>9, <1>12
  <2>4. rl_counter'[k].dayCount = Cardinality(Quota!InDay(k, Quota!Day(t0))')
    BY <1>6, <1>9, <1>12
  <2>5. /\ Quota!InMinute(k, rl_counter[k].minute)' = Quota!InMinute(k, t0)'
        /\ Quota!InDay(k, rl_counter[k].day)' = Quota!InDay(k, Quota!Day(t0))'
    BY <1>6 DEF Quota!InMinute, Quota!InDay
  <2> QED  BY <1>6, <2>1, <2>2, <2>3, <2>4, <2>5 DEF Mirror
<1> QED  BY <1>13, <1>14

(* The answer of one transaction of a request.                             *)
LEMMA AnsweredType ==
  ASSUME Quota!TypeOK, NEW r \in Requests, NEW s \in Quota!Scopes, NEW a \in {"ok", "failed",
         "exceeded"},
               Quota!Answered(r, s, a)
  PROVE  /\ rl_check' \in [Requests -> [Quota!Scopes -> {"none", "pending", "ok", "exceeded", "failed"}]]
         /\ rl_check'[r][s] = a
         /\ \A q \in Requests, t \in Quota!Scopes : q # r \/ t # s => rl_check'[q][t] = rl_check[q][t]
<1>1. rl_check' = [rl_check EXCEPT ![r] = [rl_check[r] EXCEPT ![s] = a]]
  BY DEF Quota!TypeOK, Quota!Answered
<1>2. [rl_check[r] EXCEPT ![s] = a] \in [Quota!Scopes -> {"none", "pending", "ok", "exceeded", "failed"}]
  BY DEF Quota!TypeOK
<1> QED  BY <1>1, <1>2 DEF Quota!TypeOK

(* A key nothing is charged to, and whose requests keep their time.        *)
LEMMA Undisturbed ==
  ASSUME NEW k \in Quota!Keys, Mirror(k), rl_counter'[k] = rl_counter[k],
         rl_charged'[k] = rl_charged[k],
         \A q \in rl_charged[k] : rl_at'[q] = rl_at[q]
  PROVE  /\ Mirror(k)'
         /\ \A t : Quota!InMinute(k, t)' = Quota!InMinute(k, t) /\ Quota!InDay(k, t)' = Quota!InDay(k, t)
<1>1. ASSUME NEW t
      PROVE  Quota!InMinute(k, t)' = Quota!InMinute(k, t) /\ Quota!InDay(k, t)' = Quota!InDay(k, t)
  BY DEF Quota!InMinute, Quota!InDay
<1>2. /\ Quota!InMinute(k, rl_counter[k].minute)' = Quota!InMinute(k, rl_counter[k].minute)
      /\ Quota!InDay(k, rl_counter[k].day)' = Quota!InDay(k, rl_counter[k].day)
  BY DEF Quota!InMinute, Quota!InDay
<1> QED  BY <1>1, <1>2 DEF Mirror

(* A step keeps every variable within its type.                            *)
LEMMA TypeStep == Quota!Deployment /\ Quota!TypeOK /\ [Quota!Next]_(Quota!vars) => Quota!TypeOK'
<1> SUFFICES ASSUME Quota!Deployment, Quota!TypeOK, [Quota!Next]_(Quota!vars) PROVE Quota!TypeOK'
  OBVIOUS
<1>1. CASE UNCHANGED Quota!vars  BY <1>1 DEF Quota!TypeOK, Quota!vars
<1>2. CASE Quota!Tick  BY <1>2 DEF Quota!TypeOK, Quota!Tick
<1>3. ASSUME NEW r \in Requests, Quota!Arrive(r) PROVE Quota!TypeOK'
  BY <1>3 DEF Quota!TypeOK, Quota!Arrive
<1>4. ASSUME NEW r \in Requests, Quota!Decide(r) PROVE Quota!TypeOK'
  BY <1>4 DEF Quota!TypeOK, Quota!Decide
<1>5. ASSUME NEW r \in Requests, NEW s \in Quota!Scopes, Quota!Refuse(r, s) PROVE Quota!TypeOK'
  <2>1. Quota!Answered(r, s, "exceeded") \/ Quota!Answered(r, s, "failed")  BY <1>5 DEF Quota!Refuse
  <2>2. rl_check' \in [Requests -> [Quota!Scopes -> {"none", "pending", "ok", "exceeded", "failed"}]]
    BY <2>1, AnsweredType
  <2> QED  BY <1>5, <2>2 DEF Quota!TypeOK, Quota!Refuse
<1>6. ASSUME NEW r \in Requests, NEW s \in Quota!Scopes, Quota!Charge(r, s) PROVE Quota!TypeOK'
  <2> DEFINE k == Quota!KeyOf(r, s)
  <2>1. k \in Quota!Keys /\ rl_at[r] \in Nat  BY OneScope DEF Quota!TypeOK
  <2>2. Quota!Day(rl_at[r]) \in Nat  BY <2>1, DayMonotone
  <2>3. Quota!Counted(Quota!Rolled(rl_counter[k], rl_at[r]))
          \in [minute : Nat, minuteCount : Nat, day : Nat, dayCount : Nat]
    <3>1. rl_counter[k] \in [minute : Nat, minuteCount : Nat, day : Nat, dayCount : Nat]
      BY <2>1 DEF Quota!TypeOK
    <3>2. Quota!Rolled(rl_counter[k], rl_at[r]) \in [minute : Nat, minuteCount : Nat, day : Nat, dayCount : Nat]
      BY <2>1, <2>2, <3>1 DEF Quota!Rolled
    <3>3. ASSUME NEW c \in [minute : Nat, minuteCount : Nat, day : Nat, dayCount : Nat]
          PROVE  Quota!Counted(c) \in [minute : Nat, minuteCount : Nat, day : Nat, dayCount : Nat]
      <4>1. Quota!Counted(c) = [minute |-> c.minute, minuteCount |-> c.minuteCount + 1,
                          day |-> c.day, dayCount |-> c.dayCount + 1]
        BY DEF Quota!Counted
      <4> QED  BY <4>1
    <3> QED  BY <3>2, <3>3
  <2>4. rl_counter' \in [Quota!Keys -> [minute : Nat, minuteCount : Nat, day : Nat, dayCount : Nat]]
    BY <1>6, <2>1, <2>3 DEF Quota!TypeOK, Quota!Charge
  <2>5. rl_check' \in [Requests -> [Quota!Scopes -> {"none", "pending", "ok", "exceeded", "failed"}]]
    <3>1. Quota!Answered(r, s, "ok") \/ Quota!Answered(r, s, "failed")  BY <1>6 DEF Quota!Charge
    <3> QED  BY <3>1, AnsweredType
  <2>6. rl_charged' \in [Quota!Keys -> SUBSET Requests]
    BY <1>6, <2>1 DEF Quota!TypeOK, Quota!Charge
  <2> QED  BY <1>6, <2>4, <2>5, <2>6 DEF Quota!TypeOK, Quota!Charge
<1> QED  BY <1>1, <1>2, <1>3, <1>4, <1>5, <1>6 DEF Quota!Next

(* Whatever a step does to the requests, every counter mirrors its own.    *)
LEMMA MirrorStep ==
  ASSUME Quota!Deployment, QuotaInv, [Quota!Next]_(Quota!vars), NEW k \in Quota!Keys
  PROVE  (Mirror(k) /\ WindowsWithin(k))'
<1>1. ASSUME rl_counter'[k] = rl_counter[k], rl_charged'[k] = rl_charged[k],
                \A q \in rl_charged[k] : rl_at'[q] = rl_at[q]
      PROVE  (Mirror(k) /\ WindowsWithin(k))'
  <2>1. Mirror(k) /\ WindowsWithin(k)  BY CountsAlike DEF QuotaInv, Quota!WindowLimit, WindowsWithin
  <2>2. Mirror(k)' /\ \A t : Quota!InMinute(k, t)' = Quota!InMinute(k, t) /\ Quota!InDay(k, t)' = Quota!InDay(k, t)
    BY <1>1, <2>1, Undisturbed
  <2> QED  BY <2>1, <2>2 DEF WindowsWithin
<1>2. CASE rl_counter' = rl_counter /\ rl_charged' = rl_charged /\ rl_at' = rl_at  BY <1>1, <1>2
<1>3. ASSUME NEW r \in Requests, Quota!Arrive(r) PROVE (Mirror(k) /\ WindowsWithin(k))'
  <2>1. \A s \in Quota!Scopes : rl_check[r][s] = "none"
    BY <1>3 DEF QuotaInv, Once, Quota!Scopes, Quota!Arrive
  <2>2. r \notin rl_charged[k]  BY <2>1 DEF QuotaInv, Once
  <2>3. \A q \in rl_charged[k] : rl_at'[q] = rl_at[q]
    BY <1>3, <2>2 DEF Quota!Arrive, QuotaInv, Quota!TypeOK
  <2> QED  BY <1>1, <1>3, <2>3 DEF Quota!Arrive
<1>4. ASSUME NEW r \in Requests, NEW s \in Quota!Scopes, Quota!Charge(r, s)
      PROVE  (Mirror(k) /\ WindowsWithin(k))'
  <2>1. CASE k = Quota!KeyOf(r, s)  BY <1>4, <2>1, ChargeMirror DEF WindowsWithin
  <2>2. CASE k # Quota!KeyOf(r, s)
    BY <1>1, <1>4, <2>2, OneScope DEF Quota!Charge, QuotaInv, Quota!TypeOK
  <2> QED  BY <2>1, <2>2
<1> QED  BY <1>2, <1>3, <1>4 DEF Quota!Next, Quota!vars, Quota!Tick, Quota!Decide, Quota!Refuse

(* Requests are charged once, and their answers rest on what was found.    *)
LEMMA OnceStep ==
  ASSUME Quota!Deployment, QuotaInv, [Quota!Next]_(Quota!vars), NEW q \in Requests
  PROVE  Once(q)'
<1>1. CASE UNCHANGED <<rl_check, rl_charged>>  BY <1>1 DEF QuotaInv, Once
<1>2. ASSUME NEW r \in Requests, Quota!Arrive(r) PROVE Once(q)'
  <2>1. /\ rl_charged' = rl_charged /\ \A s \in Quota!Scopes : rl_check[r][s] = "none" /\ rl_check'[r][s] = "pending"
        /\ q # r => rl_check'[q] = rl_check[q]
    BY <1>2 DEF Quota!Arrive, QuotaInv, Quota!TypeOK, Once, Quota!Scopes
  <2>2. \A k \in Quota!Keys : r \notin rl_charged[k]  BY <2>1 DEF QuotaInv, Once
  <2> QED  BY <2>1, <2>2 DEF QuotaInv, Once, Quota!Scopes
<1>3. ASSUME NEW r \in Requests, NEW s \in Quota!Scopes, Quota!Charge(r, s) PROVE Once(q)'
  <2>1. PICK a \in {"ok", "failed"} : Quota!Answered(r, s, a)  BY <1>3 DEF Quota!Charge
  <2>2. /\ rl_check'[r][s] = a /\ rl_check[r][s] = "pending"
        /\ \A p \in Requests, t \in Quota!Scopes : p # r \/ t # s => rl_check'[p][t] = rl_check[p][t]
    BY <1>3, <2>1, AnsweredType DEF QuotaInv, Quota!Charge
  <2>3. \A k \in Quota!Keys : q \in rl_charged'[k] => q \in rl_charged[k] \/ (q = r /\ k = Quota!KeyOf(r, s))
    BY <1>3 DEF Quota!Charge, QuotaInv, Quota!TypeOK
  <2> QED  BY <2>2, <2>3 DEF QuotaInv, Once, Quota!Scopes
<1>4. ASSUME NEW r \in Requests, NEW s \in Quota!Scopes, Quota!Refuse(r, s) PROVE Once(q)'
  <2>1. PICK a \in {"exceeded", "failed"} : Quota!Answered(r, s, a)  BY <1>4 DEF Quota!Refuse
  <2>2. /\ rl_check'[r][s] = a /\ rl_check[r][s] = "pending"
        /\ \A p \in Requests, t \in Quota!Scopes : p # r \/ t # s => rl_check'[p][t] = rl_check[p][t]
    BY <1>4, <2>1, AnsweredType DEF QuotaInv, Quota!Refuse
  <2>3. rl_charged' = rl_charged  BY <1>4 DEF Quota!Refuse
  <2> QED  BY <2>2, <2>3 DEF QuotaInv, Once, Quota!Scopes
<1> QED  BY <1>1, <1>2, <1>3, <1>4 DEF Quota!Next, Quota!vars, Quota!Tick, Quota!Decide

(* A request's time is settled once a transaction of it is under way.      *)
LEMMA TimeKept ==
  ASSUME QuotaInv, [Quota!Next]_(Quota!vars), NEW q \in Requests, NEW s \in Quota!Scopes,
         rl_check[q][s] # "none"
  PROVE  rl_at'[q] = rl_at[q]
<1>1. rl_check[q]["uid"] # "none"  BY DEF QuotaInv, Once, Quota!Scopes
<1> QED
  BY <1>1 DEF QuotaInv, Quota!TypeOK, Quota!Next, Quota!vars, Quota!Tick, Quota!Arrive,
       Quota!Decide, Quota!Charge, Quota!Refuse

(* A charge is never taken back, and what was charged keeps its time.      *)
LEMMA Kept ==
  ASSUME Quota!Deployment, QuotaInv, [Quota!Next]_(Quota!vars), NEW k \in Quota!Keys,
         NEW p \in rl_charged[k]
  PROVE  p \in rl_charged'[k] /\ rl_at'[p] = rl_at[p]
<1>1. p \in Requests  BY DEF QuotaInv, Quota!TypeOK
<1>2. PICK s \in Quota!Scopes : rl_check[p][s] # "none"  BY <1>1 DEF QuotaInv, Once
<1>3. rl_at'[p] = rl_at[p]  BY <1>1, <1>2, TimeKept
<1>4. p \in rl_charged'[k]
  BY DEF QuotaInv, Quota!TypeOK, Quota!Next, Quota!vars, Quota!Tick, Quota!Arrive, Quota!Decide,
       Quota!Charge, Quota!Refuse
<1> QED  BY <1>3, <1>4

(* What is charged to a key in a window of a fixed time only grows.        *)
LEMMA ReachedStays ==
  ASSUME Quota!Deployment, QuotaInv, [Quota!Next]_(Quota!vars), NEW q \in Requests,
         NEW s \in Quota!Scopes,
               Reached(q, s), rl_check[q][s] # "none"
  PROVE  Reached(q, s)'
<1> DEFINE k == Quota!KeyOf(q, s)
<1>0. PICK t0 \in Nat : t0 = rl_at[q]  BY DEF QuotaInv, Quota!TypeOK
<1>1. k \in Quota!Keys /\ PerMinute[k] \in Nat /\ PerDay[k] \in Nat
  BY OneScope DEF Quota!Deployment
<1>2. \A p \in rl_charged[k] : p \in rl_charged'[k] /\ rl_at'[p] = rl_at[p]
  BY <1>1, Kept
<1>3. rl_at'[q] = t0  BY <1>0, TimeKept
<1>4. IsFiniteSet(rl_charged[k]) /\ IsFiniteSet(rl_charged'[k])
  BY <1>1, MirrorStep DEF QuotaInv, Mirror
<1>5. /\ Quota!InMinute(k, t0) \subseteq Quota!InMinute(k, t0)'
      /\ Quota!InDay(k, Quota!Day(t0)) \subseteq Quota!InDay(k, Quota!Day(t0))'
  BY <1>2 DEF Quota!InMinute, Quota!InDay
<1>6. /\ IsFiniteSet(Quota!InMinute(k, t0)') /\ IsFiniteSet(Quota!InDay(k, Quota!Day(t0))')
      /\ Cardinality(Quota!InMinute(k, t0)') \in Nat
      /\ Cardinality(Quota!InDay(k, Quota!Day(t0))') \in Nat
      /\ Cardinality(Quota!InMinute(k, t0)) \in Nat
      /\ Cardinality(Quota!InDay(k, Quota!Day(t0))) \in Nat
  <2>1. /\ Quota!InMinute(k, t0)' \subseteq rl_charged'[k]
        /\ Quota!InDay(k, Quota!Day(t0))' \subseteq rl_charged'[k]
    BY DEF Quota!InMinute, Quota!InDay
  <2>2. IsFiniteSet(Quota!InMinute(k, t0)') /\ IsFiniteSet(Quota!InDay(k, Quota!Day(t0))')
    BY <1>4, <2>1, FS_Subset
  <2> QED  BY <1>4, <2>2, Windows, FS_CardinalityType
<1>7. /\ Cardinality(Quota!InMinute(k, t0)) <= Cardinality(Quota!InMinute(k, t0)')
      /\ Cardinality(Quota!InDay(k, Quota!Day(t0))) <= Cardinality(Quota!InDay(k, Quota!Day(t0))')
  BY <1>5, <1>6, FS_Subset
<1>8. \/ Cardinality(Quota!InMinute(k, t0)) >= PerMinute[k]
      \/ Cardinality(Quota!InDay(k, Quota!Day(t0))) >= PerDay[k]
  BY <1>0 DEF Reached
<1>9. \/ Cardinality(Quota!InMinute(k, t0)') >= PerMinute[k]
      \/ Cardinality(Quota!InDay(k, Quota!Day(t0))') >= PerDay[k]
  BY <1>1, <1>6, <1>7, <1>8
<1>10. /\ Quota!InMinute(k, rl_at[q])' = Quota!InMinute(k, t0)'
       /\ Quota!InDay(k, Quota!Day(rl_at[q]))' = Quota!InDay(k, Quota!Day(t0))'
  BY <1>3 DEF Quota!InMinute, Quota!InDay
<1> QED  BY <1>9, <1>10 DEF Reached, Quota!KeyOf

(* A full counter is full of requests charged in the windows of the time   *)
(* it was asked about, or admits none at all.                              *)
LEMMA FullReached ==
  ASSUME Quota!Deployment, QuotaInv, NEW r \in Requests, NEW s \in Quota!Scopes,
               Quota!Full(Quota!KeyOf(r, s), Quota!Rolled(rl_counter[Quota!KeyOf(r, s)], rl_at[r]))
  PROVE  Reached(r, s)
<1> DEFINE k == Quota!KeyOf(r, s)
           c == rl_counter[k]
<1>0. PICK t0 \in Nat : t0 = rl_at[r]  BY DEF QuotaInv, Quota!TypeOK
<1>1. k \in Quota!Keys /\ PerMinute[k] \in Nat /\ PerDay[k] \in Nat
  BY OneScope DEF Quota!Deployment
<1>2. c \in [minute : Nat, minuteCount : Nat, day : Nat, dayCount : Nat] /\ Mirror(k)
  BY <1>1 DEF QuotaInv, Quota!TypeOK
<1>3. /\ Cardinality(Quota!InMinute(k, t0)) \in Nat
      /\ Cardinality(Quota!InDay(k, Quota!Day(t0))) \in Nat
  BY <1>2, Windows DEF Mirror
<1>4. \/ (IF c.minute = t0 THEN c.minuteCount ELSE 0) >= PerMinute[k]
      \/ (IF c.day = Quota!Day(t0) THEN c.dayCount ELSE 0) >= PerDay[k]
  BY <1>0 DEF Quota!Full, Quota!Rolled
<1>5. /\ c.minute = t0 => c.minuteCount = Cardinality(Quota!InMinute(k, t0))
      /\ c.day = Quota!Day(t0) => c.dayCount = Cardinality(Quota!InDay(k, Quota!Day(t0)))
  BY <1>2 DEF Mirror
<1>6. \/ Cardinality(Quota!InMinute(k, t0)) >= PerMinute[k]
      \/ Cardinality(Quota!InDay(k, Quota!Day(t0))) >= PerDay[k]
  BY <1>1, <1>2, <1>3, <1>4, <1>5
<1> QED  BY <1>0, <1>6 DEF Reached

(* The answers go on resting on what the transactions found.               *)
LEMMA AnswersStep ==
  ASSUME Quota!Deployment, QuotaInv, [Quota!Next]_(Quota!vars), NEW q \in Requests
  PROVE  Answers(q)'
<1>1. Once(q) /\ Answers(q) /\ Quota!TypeOK  BY DEF QuotaInv
<1>2. ASSUME NEW s \in Quota!Scopes, rl_check[q][s] = "ok"
      PROVE  q \in rl_charged'[Quota!KeyOf(q, s)]
  <2>1. q \in rl_charged[Quota!KeyOf(q, s)] /\ Quota!KeyOf(q, s) \in Quota!Keys
    BY <1>1, <1>2, OneScope DEF Answers
  <2> QED  BY <2>1, Kept
<1>3. ASSUME NEW s \in Quota!Scopes, rl_check[q][s] = "exceeded" PROVE Reached(q, s)'
  <2>1. Reached(q, s)  BY <1>1, <1>3 DEF Answers
  <2> QED  BY <1>3, <2>1, ReachedStays
<1>4. ASSUME rl_check'[q] = rl_check[q], rl_answer'[q] = rl_answer[q] PROVE Answers(q)'
  BY <1>1, <1>2, <1>3, <1>4 DEF Answers, Quota!KeyOf
<1>5. ASSUME NEW s \in Quota!Scopes, NEW a \in {"ok", "failed", "exceeded"},
             rl_check[q][s] = "pending", Quota!Answered(q, s, a), rl_answer' = rl_answer,
             a = "ok" => q \in rl_charged'[Quota!KeyOf(q, s)], a = "exceeded" => Reached(q, s)'
      PROVE  Answers(q)'
  <2>1. rl_check'[q][s] = a /\ \A t \in Quota!Scopes : t # s => rl_check'[q][t] = rl_check[q][t]
    BY <1>1, <1>5, AnsweredType
  <2>2. ASSUME NEW t \in Quota!Scopes
        PROVE  /\ rl_check'[q][t] = "ok" => q \in rl_charged'[Quota!KeyOf(q, t)]
               /\ rl_check'[q][t] = "exceeded" => Reached(q, t)'
    <3>1. CASE t = s  BY <1>5, <2>1, <3>1
    <3>2. CASE t # s  BY <1>2, <1>3, <2>1, <3>2
    <3> QED  BY <3>1, <3>2
  <2>3. rl_answer[q] # "served" \/ FALSE  BY <1>1, <1>5 DEF Answers
  <2>4. rl_answer'[q] = "limited" => \E t \in Quota!Scopes : rl_check'[q][t] = "exceeded"
    BY <1>1, <1>5, <2>1 DEF Answers
  <2> QED  BY <1>5, <2>2, <2>3, <2>4 DEF Answers, Quota!KeyOf
<1>6. ASSUME NEW r \in Requests, Quota!Arrive(r) PROVE Answers(q)'
  <2>1. CASE q = r
    <3>1. rl_check'[q] = [s \in Quota!Scopes |-> "pending"] /\ rl_answer' = rl_answer
      BY <1>1, <1>6, <2>1 DEF Quota!Arrive, Quota!TypeOK
    <3>2. \A s \in Quota!Scopes : rl_check[q][s] = "none"
      BY <1>1, <1>6, <2>1 DEF Quota!Arrive, Once, Quota!Scopes
    <3>3. rl_answer[q] # "served" /\ rl_answer[q] # "limited"
      BY <1>1, <3>2 DEF Answers, Quota!Scopes
    <3> QED  BY <3>1, <3>3 DEF Answers
  <2>2. CASE q # r  BY <1>1, <1>4, <1>6, <2>2 DEF Quota!Arrive, Quota!TypeOK
  <2> QED  BY <2>1, <2>2
<1>7. ASSUME NEW r \in Requests, NEW s \in Quota!Scopes, Quota!Charge(r, s) PROVE Answers(q)'
  <2>1. PICK a \in {"ok", "failed"} : Quota!Answered(r, s, a)  BY <1>7 DEF Quota!Charge
  <2>2. CASE q = r
    <3>1. rl_check[q][s] = "pending" /\ rl_answer' = rl_answer  BY <1>7, <2>2 DEF Quota!Charge
    <3>2. q \in rl_charged'[Quota!KeyOf(q, s)]
      BY <1>1, <1>7, <2>2, OneScope DEF Quota!Charge, Quota!TypeOK
    <3> QED  BY <1>5, <2>1, <2>2, <3>1, <3>2
  <2>3. CASE q # r  BY <1>1, <1>4, <1>7, <2>1, <2>3 DEF Quota!Charge, Quota!Answered, Quota!TypeOK
  <2> QED  BY <2>2, <2>3
<1>8. ASSUME NEW r \in Requests, NEW s \in Quota!Scopes, Quota!Refuse(r, s) PROVE Answers(q)'
  <2>1. PICK a \in {"exceeded", "failed"} : Quota!Answered(r, s, a)  BY <1>8 DEF Quota!Refuse
  <2>2. CASE q = r
    <3>1. rl_check[q][s] = "pending" /\ rl_answer' = rl_answer  BY <1>8, <2>2 DEF Quota!Refuse
    <3>2. CASE Quota!Answered(q, s, "failed")  BY <1>5, <3>1, <3>2
    <3>3. CASE /\ Quota!Full(Quota!KeyOf(q, s), Quota!Rolled(rl_counter[Quota!KeyOf(q, s)], rl_at[q]))
               /\ Quota!Valid(rl_counter[Quota!KeyOf(q, s)], rl_at[q])
               /\ Quota!Answered(q, s, "exceeded")
      <4>1. Reached(q, s)  BY <3>3, FullReached
      <4>2. Reached(q, s)'  BY <3>1, <4>1, ReachedStays
      <4> QED  BY <1>5, <3>1, <3>3, <4>2
    <3> QED  BY <1>8, <2>2, <3>2, <3>3 DEF Quota!Refuse
  <2>3. CASE q # r  BY <1>1, <1>4, <1>8, <2>1, <2>3 DEF Quota!Refuse, Quota!Answered, Quota!TypeOK
  <2> QED  BY <2>2, <2>3
<1>9. ASSUME NEW r \in Requests, Quota!Decide(r) PROVE Answers(q)'
  <2>1. CASE q = r
    <3>1. /\ rl_check' = rl_check
          /\ rl_answer'[q] = IF \E s \in Quota!Scopes : rl_check[q][s] = "exceeded" THEN "limited"
                           ELSE IF \E s \in Quota!Scopes : rl_check[q][s] = "failed" THEN "unavailable"
                           ELSE "served"
      BY <1>1, <1>9, <2>1 DEF Quota!Decide, Quota!TypeOK
    <3>2. \A s \in Quota!Scopes : rl_check[q][s] \in {"ok", "exceeded", "failed"}
      BY <1>1, <1>9, <2>1 DEF Quota!Decide, Quota!TypeOK
    <3> QED  BY <1>2, <1>3, <3>1, <3>2 DEF Answers, Quota!KeyOf
  <2>2. CASE q # r  BY <1>1, <1>4, <1>9, <2>2 DEF Quota!Decide, Quota!TypeOK
  <2> QED  BY <2>1, <2>2
<1>10. CASE UNCHANGED <<rl_check, rl_answer>>  BY <1>4, <1>10
<1> QED  BY <1>6, <1>7, <1>8, <1>9, <1>10 DEF Quota!Next, Quota!vars, Quota!Tick

(* The invariant is inductive.                                             *)
LEMMA QuotaStep == Quota!Deployment /\ QuotaInv /\ [Quota!Next]_(Quota!vars) => QuotaInv'
<1> SUFFICES ASSUME Quota!Deployment, QuotaInv, [Quota!Next]_(Quota!vars) PROVE QuotaInv'  OBVIOUS
<1>1. Quota!TypeOK'  BY TypeStep DEF QuotaInv
<1>2. \A k \in Quota!Keys : Mirror(k)' /\ WindowsWithin(k)'  BY MirrorStep
<1>3. Quota!WindowLimit'  BY <1>2, CountsAlike DEF Quota!WindowLimit, WindowsWithin
<1>4. \A q \in Requests : Once(q)' /\ Answers(q)'  BY OnceStep, AnswersStep
<1> QED  BY <1>1, <1>2, <1>3, <1>4 DEF QuotaInv

(* It holds in every state.                                                *)
LEMMA QuotaAlways == Quota!Deployment /\ Quota!Spec => []QuotaInv
<1> SUFFICES ASSUME Quota!Deployment PROVE Quota!Spec => []QuotaInv  OBVIOUS
<1>1. Quota!Init => QuotaInv  BY InitQuota
<1>2. QuotaInv /\ [Quota!Next]_(Quota!vars) => QuotaInv'  BY QuotaStep
<1> QED  BY <1>1, <1>2, PTL DEF Quota!Spec
-----------------------------------------------------------------------------
(* Whatever the order in which transactions commit, and however late, no   *)
(* key is charged for more requests of one minute, or of one day, than its *)
(* limit, though a counter keeps only its last two windows.                *)
THEOREM WindowLimitAlways == Quota!Deployment /\ Quota!Spec => []Quota!WindowLimit
<1>1. QuotaInv => Quota!WindowLimit  BY DEF QuotaInv
<1> QED  BY <1>1, QuotaAlways, PTL

(* A request that is served was counted for its user and the application.  *)
THEOREM ServedIsCountedAlways == Quota!Deployment /\ Quota!Spec => []Quota!ServedIsCounted
<1>1. QuotaInv => Quota!ServedIsCounted  BY DEF QuotaInv, Answers, Quota!ServedIsCounted
<1> QED  BY <1>1, QuotaAlways, PTL

(* A client is told of a limit only when requests of its own minute or day *)
(* fill one of its two counters.                                           *)
THEOREM LimitedIsFullAlways == Quota!Deployment /\ Quota!Spec => []Quota!LimitedIsFull
<1> SUFFICES ASSUME Quota!Deployment PROVE Quota!Spec => []Quota!LimitedIsFull  OBVIOUS
<1>1. QuotaInv => Quota!LimitedIsFull
  <2> SUFFICES ASSUME QuotaInv, NEW r \in Requests, rl_answer[r] = "limited"
               PROVE  \E k \in {UserOf[r], App} :
                        \/ Cardinality(Quota!InMinute(k, rl_at[r])) = PerMinute[k]
                        \/ Cardinality(Quota!InDay(k, Quota!Day(rl_at[r]))) = PerDay[k]
    BY CountsAlike DEF Quota!LimitedIsFull
  <2>1. PICK s \in Quota!Scopes : Reached(r, s)  BY DEF QuotaInv, Answers
  <2> DEFINE k == Quota!KeyOf(r, s)
  <2>2. k \in {UserOf[r], App} /\ k \in Quota!Keys /\ PerMinute[k] \in Nat /\ PerDay[k] \in Nat
    BY OneScope DEF Quota!KeyOf, Quota!Deployment
  <2>3. rl_at[r] \in Nat /\ Quota!Day(rl_at[r]) \in Nat  BY DayMonotone DEF QuotaInv, Quota!TypeOK
  <2>4. /\ Cardinality(Quota!InMinute(k, rl_at[r])) \in Nat
        /\ Cardinality(Quota!InDay(k, Quota!Day(rl_at[r]))) \in Nat
    BY <2>2, Windows DEF QuotaInv, Mirror
  <2>5. /\ Cardinality(Quota!InMinute(k, rl_at[r])) <= PerMinute[k]
        /\ Cardinality(Quota!InDay(k, Quota!Day(rl_at[r]))) <= PerDay[k]
    BY <2>2, <2>3, CountsAlike DEF QuotaInv, Quota!WindowLimit
  <2>6. \/ Cardinality(Quota!InMinute(k, rl_at[r])) >= PerMinute[k]
        \/ Cardinality(Quota!InDay(k, Quota!Day(rl_at[r]))) >= PerDay[k]
    BY <2>1 DEF Reached
  <2>7. \/ Cardinality(Quota!InMinute(k, rl_at[r])) = PerMinute[k]
        \/ Cardinality(Quota!InDay(k, Quota!Day(rl_at[r]))) = PerDay[k]
    BY <2>2, <2>4, <2>5, <2>6
  <2> QED  BY <2>2, <2>7
<1> QED  BY <1>1, QuotaAlways, PTL
================================================================================
