----------------------------- MODULE LiveAdmission -----------------------------
(***************************************************************************)
(* Who may run a live turn: the handshake gate, the per-user lease of      *)
(* internal/guard (a document with holder and expiry), the preparation of  *)
(* a provider session before the turn, and the order in which a connection *)
(* of Server.voiceLive gives all of it back.  All connections belong to    *)
(* one user and one instance; the lease document outlives the instance.    *)
(* Time is counted in minutes: shorter timeouts are steps without a tick.  *)
(***************************************************************************)
EXTENDS Naturals, FiniteSets

CONSTANTS
  Conns,        \* connections, each with its own holder token
  Limit,        \* slots of the handshake gate
  ConnTimeout,  \* VoiceLiveConnectionTimeout
  MaxTime,      \* bound on the clock
  None

ASSUME AdmissionAssumption ==
  ConnTimeout \in Nat /\ Limit \in Nat \ {0} /\ MaxTime \in Nat /\ None \notin Conns

VARIABLES
  now,
  conn,      \* connection -> where its handler stands
  opened,    \* connection -> when its context started
  asked,     \* connection -> the time it gave to Acquire
  doc,       \* the lease document: holder (None: no document) and expiry
  late,      \* connections whose Release the store may still apply
  prepared,  \* whose prepared provider session the pool keeps for the user
  pipe       \* connection -> its pipeline

vars == <<now, conn, opened, asked, doc, late, prepared, pipe>>

Active == {"handshake", "guarded", "acquiring", "leased", "prepared", "serving"}
Ending == {"cleanup", "joining", "releasing"}

TypeOK ==
  /\ now \in 0 .. MaxTime
  /\ conn \in [Conns -> {"idle", "done"} \union Active \union Ending]
  /\ opened \in [Conns -> 0 .. MaxTime] /\ asked \in [Conns -> 0 .. MaxTime]
  /\ doc.holder \in Conns \union {None} /\ doc.expires \in Nat
  /\ late \subseteq Conns /\ prepared \in Conns \union {None}
  /\ pipe \in [Conns -> {"none", "running", "ended"}]
  /\ Cardinality({c \in Conns : conn[c] = "handshake"}) <= Limit

NoLease == [holder |-> None, expires |-> 0]

Init ==
  /\ now = 0 /\ conn = [c \in Conns |-> "idle"] /\ opened = [c \in Conns |-> 0]
  /\ asked = [c \in Conns |-> 0] /\ doc = NoLease /\ late = {} /\ prepared = None
  /\ pipe = [c \in Conns |-> "none"]

Goto(c, pc) == conn' = [conn EXCEPT ![c] = pc]
-----------------------------------------------------------------------------

(* VoiceLiveHandshakeGate.tryAcquire.                                      *)
Admits == Cardinality({c \in Conns : conn[c] = "handshake"}) < Limit

Open(c) ==
  /\ conn[c] = "idle" /\ opened' = [opened EXCEPT ![c] = now]
  /\ Goto(c, IF Admits THEN "handshake" ELSE "done")
  /\ UNCHANGED <<now, asked, doc, late, prepared, pipe>>

(* The first frame is read and verified; then the slot is given back.      *)
Authenticate(c) ==
  /\ conn[c] = "handshake" /\ Goto(c, "guarded")
  /\ UNCHANGED <<now, opened, asked, doc, late, prepared, pipe>>

(* Timeout, invalid frame, refused credentials or quota.                   *)
Refuse(c) ==
  /\ conn[c] \in {"handshake", "guarded"} /\ Goto(c, "done")
  /\ UNCHANGED <<now, opened, asked, doc, late, prepared, pipe>>

AcquireStart(c) ==
  /\ conn[c] = "guarded" /\ asked' = [asked EXCEPT ![c] = now] /\ Goto(c, "acquiring")
  /\ UNCHANGED <<now, opened, doc, late, prepared, pipe>>

Free(t) == doc.holder # None => doc.expires <= t

(* Mutant: the lease ends with the connection's deadline.                  *)
ExpiryAtDeadline(t) == t + ConnTimeout

(* voiceLiveLeaseTTL: a minute more than the connection may live.          *)
Expiry(t) == t + ConnTimeout + 1

AcquireCommits(c) ==
  /\ conn[c] = "acquiring"
  /\ IF Free(asked[c]) THEN /\ doc' = [holder |-> c, expires |-> Expiry(asked[c])]
                            /\ Goto(c, "leased")
                       ELSE UNCHANGED doc /\ Goto(c, "done")
  /\ UNCHANGED <<now, opened, asked, late, prepared, pipe>>

(* The store does not answer in time, its transaction may commit all the   *)
(* same: the lease is nobody's until it expires.                           *)
AcquireTimesOut(c) ==
  /\ conn[c] = "acquiring" /\ Goto(c, "done")
  /\ \/ UNCHANGED doc
     \/ Free(asked[c]) /\ doc' = [holder |-> c, expires |-> Expiry(asked[c])]
  /\ UNCHANGED <<now, opened, asked, late, prepared, pipe>>

(* PrepareLive and the activation that must follow within the preflight TTL. *)
Prepare(c) ==
  /\ conn[c] = "leased"
  /\ \/ prepared' = c /\ Goto(c, "prepared")
     \/ prepared' = None /\ Goto(c, "joining")
  /\ UNCHANGED <<now, opened, asked, doc, late, pipe>>

(* The pipeline goroutine starts; its Acquire claims the prepared session. *)
Serve(c) ==
  /\ conn[c] \in {"leased", "prepared"} /\ Goto(c, "serving")
  /\ pipe' = [pipe EXCEPT ![c] = "running"]
  /\ prepared' \in {prepared, None}
  /\ UNCHANGED <<now, opened, asked, doc, late>>

PipelineEnds(c) ==
  /\ pipe[c] = "running" /\ pipe' = [pipe EXCEPT ![c] = "ended"]
  /\ UNCHANGED <<now, conn, opened, asked, doc, late, prepared>>
-----------------------------------------------------------------------------
(* The deferred calls of the handler, last in first out.                   *)

HandlerReturns(c) ==
  /\ conn[c] \in {"leased", "prepared", "serving"} /\ Goto(c, "cleanup")
  /\ UNCHANGED <<now, opened, asked, doc, late, prepared, pipe>>

(* CancelPreparedLive is keyed by the user, not by the connection.         *)
CancelPrepared(c) ==
  /\ conn[c] = "cleanup" /\ prepared' = None /\ Goto(c, "joining")
  /\ UNCHANGED <<now, opened, asked, doc, late, pipe>>

(* Mutant: after the join timeout the lease is released as well.           *)
JoinAlways(c) ==
  /\ conn[c] = "joining" /\ Goto(c, "releasing")
  /\ UNCHANGED <<now, opened, asked, doc, late, prepared, pipe>>

(* finishVoiceLiveLease: a worker that does not end in time keeps the      *)
(* lease for the rest of its TTL.                                          *)
Join(c) ==
  /\ conn[c] = "joining"
  /\ \/ pipe[c] # "running" /\ Goto(c, "releasing")
     \/ pipe[c] = "running" /\ Goto(c, "done")
  /\ UNCHANGED <<now, opened, asked, doc, late, prepared, pipe>>

(* Mutant: the document is deleted whoever holds it.                       *)
ReleasedAny(c) == NoLease

Released(c) == IF doc.holder = c THEN NoLease ELSE doc

(* Mutant: the prepared session is cancelled after the lease is released.  *)
ReleaseThenCancel(c) ==
  \/ /\ conn[c] = "releasing" /\ doc' = Released(c) /\ Goto(c, "cleanup")
     /\ UNCHANGED <<now, opened, asked, late, prepared, pipe>>

(* The release commits, fails, or times out with its transaction pending.  *)
Release(c) ==
  /\ conn[c] = "releasing" /\ Goto(c, "done")
  /\ \/ doc' = Released(c) /\ UNCHANGED late
     \/ UNCHANGED doc /\ late' \in {late, late \union {c}}
  /\ UNCHANGED <<now, opened, asked, prepared, pipe>>

LateRelease(c) ==
  /\ c \in late /\ late' = late \ {c} /\ doc' = Released(c)
  /\ UNCHANGED <<now, conn, opened, asked, prepared, pipe>>

(* The instance dies; what it asked of the store may still be applied.     *)
Crash ==
  /\ \E c \in Conns : conn[c] \in Active \union Ending
  /\ conn' = [c \in Conns |-> IF conn[c] = "idle" THEN "idle" ELSE "done"]
  /\ pipe' = [c \in Conns |-> IF pipe[c] = "running" THEN "ended" ELSE pipe[c]]
  /\ prepared' = None
  /\ UNCHANGED <<now, opened, asked, doc, late>>

(* No handler outlives its context, and its cleanup takes seconds.         *)
Tick ==
  /\ now < MaxTime /\ now' = now + 1
  /\ \A c \in Conns : /\ conn[c] \notin Ending \union {"handshake", "guarded", "acquiring"}
                      /\ conn[c] \in Active => now < opened[c] + ConnTimeout
  /\ UNCHANGED <<conn, opened, asked, doc, late, prepared, pipe>>

Next ==
  \/ \E c \in Conns :
       \/ Open(c) \/ Authenticate(c) \/ Refuse(c)
       \/ AcquireStart(c) \/ AcquireCommits(c) \/ AcquireTimesOut(c)
       \/ Prepare(c) \/ Serve(c) \/ PipelineEnds(c)
       \/ HandlerReturns(c) \/ CancelPrepared(c) \/ Join(c) \/ Release(c) \/ LateRelease(c)
  \/ Crash \/ Tick

Spec == Init /\ [][Next]_vars
-----------------------------------------------------------------------------
Leased == {"leased", "prepared", "serving", "cleanup", "joining", "releasing"}

(* At any time one connection of a user is being served, and as long as it *)
(* is, the lease document is its own: nobody's release, however late, and  *)
(* no expiry takes it away.                                                *)
LeaseIsHolders == \A c \in Conns : conn[c] \in Leased => doc.holder = c

(* Two pipelines of a user run together only when one was left behind and  *)
(* has outlived the TTL of its lease.                                      *)
OverlapOnlyPastTTL ==
  \A c, d \in Conns : c # d /\ pipe[c] = "running" /\ pipe[d] = "running" =>
    \E e \in {c, d} : Expiry(asked[e]) <= now

(* A prepared provider session is not cancelled by the cleanup of another  *)
(* connection of the user, and is not left behind.                         *)
PreparedIsOwn ==
  /\ \A c \in Conns : conn[c] = "prepared" => prepared = c
  /\ prepared # None => conn[prepared] \in {"prepared", "serving", "cleanup"}
=============================================================================
