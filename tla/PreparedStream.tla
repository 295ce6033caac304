--------------------------- MODULE PreparedStream ---------------------------
(***************************************************************************)
(* The provider connection a turn opens ahead of its reply                 *)
(* (speculativeSynthesisPreparation in internal/voiceflow): one goroutine  *)
(* configures it, the syntheses of the turn take it if it is ready, and    *)
(* the turn reclaims it when it ends.                                      *)
(***************************************************************************)
CONSTANTS
  Users,   \* syntheses of the turn, speculative and committed
  NoUser   \* none of them

VARIABLES
  conn,       \* where the connection is
  owner,      \* the synthesis it was transferred to
  closed,     \* preparation.closed
  cancelHeld, \* preparation.cancel is still there
  cancelled,  \* prepareCtx is cancelled, and the connection with it
  user        \* what each synthesis is doing

vars == <<conn, owner, closed, cancelHeld, cancelled, user>>

TypeOK ==
  /\ conn \in {"opening", "opened", "stored", "owned", "closed", "none"}
  /\ owner \in Users \union {NoUser}
  /\ {closed, cancelHeld, cancelled} \subseteq BOOLEAN
  /\ user \in [Users -> {"idle", "streaming", "ordinary", "done"}]

Init ==
  /\ conn = "opening" /\ owner = NoUser /\ closed = FALSE
  /\ cancelHeld = TRUE /\ cancelled = FALSE
  /\ user = [u \in Users |-> "idle"]
-----------------------------------------------------------------------------
(* PrepareStreamingSynthesis returns, perhaps after it was cancelled.      *)
OpenReturns ==
  /\ conn = "opening" /\ conn' \in {"opened", "none"}
  /\ UNCHANGED <<owner, closed, cancelHeld, cancelled, user>>

Store ==
  /\ conn = "opened" /\ conn' = IF closed THEN "closed" ELSE "stored"
  /\ UNCHANGED <<owner, closed, cancelHeld, cancelled, user>>

CancelAfterTake == FALSE

(* takeReady never waits: a connection that is not ready is not used.      *)
TakeReady(u) ==
  /\ user[u] = "idle" /\ ~closed /\ conn = "stored"
  /\ conn' = "owned" /\ owner' = u /\ cancelHeld' = CancelAfterTake
  /\ user' = [user EXCEPT ![u] = "streaming"]
  /\ UNCHANGED <<closed, cancelled>>

(* close, by the turn's defer or by a committed synthesis that took nothing. *)
Closed ==
  /\ closed' = TRUE
  /\ conn' = IF ~closed /\ conn = "stored" THEN "closed" ELSE conn
  /\ cancelled' = (cancelled \/ (~closed /\ cancelHeld))

TakeNothing(u) ==
  /\ user[u] = "idle" /\ (closed \/ conn # "stored")
  /\ user' = [user EXCEPT ![u] = "ordinary"]
  /\ Closed \/ UNCHANGED <<closed, conn, cancelled>>
  /\ UNCHANGED <<owner, cancelHeld>>

(* The owner's stream ends, or its context does: ownedPreparedSynthesis.Close. *)
Finish(u) ==
  /\ user[u] \in {"streaming", "ordinary"} /\ user' = [user EXCEPT ![u] = "done"]
  /\ IF owner = u THEN conn' = "closed" /\ cancelled' = TRUE
     ELSE UNCHANGED <<conn, cancelled>>
  /\ UNCHANGED <<owner, closed, cancelHeld>>

(* A synthesis that will not be needed any more.                           *)
Skip(u) ==
  /\ user[u] = "idle" /\ closed /\ user' = [user EXCEPT ![u] = "done"]
  /\ UNCHANGED <<conn, owner, closed, cancelHeld, cancelled>>

TurnReturns == Closed /\ UNCHANGED <<owner, cancelHeld, user>>

Next ==
  \/ OpenReturns \/ Store \/ TurnReturns
  \/ \E u \in Users : TakeReady(u) \/ TakeNothing(u) \/ Finish(u) \/ Skip(u)

Spec == Init /\ [][Next]_vars

(* A cancelled handshake returns; every turn and every synthesis ends.     *)
Fairness ==
  /\ WF_vars(cancelled /\ OpenReturns) /\ WF_vars(Store) /\ WF_vars(TurnReturns)
  /\ \A u \in Users : WF_vars(Finish(u))

FairSpec == Spec /\ Fairness
-----------------------------------------------------------------------------
(* Reclaiming the preparation never cancels the stream of the synthesis    *)
(* that took the connection, although both hold the same context.          *)
StreamUndisturbed ==
  \A u \in Users : owner = u /\ user[u] = "streaming" => ~cancelled /\ conn = "owned"

(* A connection is in one pair of hands: once the preparation is closed it *)
(* keeps none, whichever of close and the handshake came first.            *)
NothingKept == closed => conn # "stored"

(* The transfer moves the connection and the right to cancel it together,  *)
(* and a preparation is cancelled only by its own close or by its user.    *)
Transfer ==
  /\ owner # NoUser <=> ~cancelHeld
  /\ owner # NoUser => conn \in {"owned", "closed"}
  /\ owner = NoUser => conn # "owned" /\ (cancelled => closed)
  /\ \A u \in Users : user[u] = "streaming" => owner = u

Inv == TypeOK /\ NothingKept /\ StreamUndisturbed /\ Transfer

(* Every connection that was opened is closed in the end.                  *)
Reclaimed == <>[](conn \in {"closed", "none"})
=============================================================================
