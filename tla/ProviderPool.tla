----------------------------- MODULE ProviderPool -----------------------------
(***************************************************************************)
(* The pool of native provider sessions (internal/nativeflow): at most one *)
(* entry per uid and Cap entries in all.  PrepareLive opens a session      *)
(* ahead of a turn and leaves it under a TTL timer; acquire claims it or   *)
(* opens one of its own; cancellation, expiry, the provider's own end and  *)
(* service shutdown retire entries.  A process is one call of PrepareLive  *)
(* or one turn; the entry it makes (a pooledSession) has the process's     *)
(* name.  Every block the code runs under s.mu is one action; Open and     *)
(* closePooledSession run outside the lock and are actions of their own.   *)
(***************************************************************************)
EXTENDS Integers, FiniteSets

CONSTANTS
  Preparers, Turns, \* calls of PrepareLive; turns that call acquire
  Uids, UidOf,      \* the uid of each process
  Cap,              \* maxProviderSessions
  None

Procs == Preparers \union Turns

PoolAssumption ==
  /\ Preparers \intersect Turns = {} /\ None \notin Procs
  /\ UidOf \in [Procs -> Uids] /\ Cap \in Nat \ {0} /\ IsFiniteSet(Uids)

VARIABLES
  slots,      \* s.sessions: uid -> entry
  pc,         \* where each call stands
  held,       \* turn -> the entry acquire gave it
  conn,       \* the provider connection a process's Open made
  entry,      \* pooledSession: prepared, session set, close done
  timer, elapsed, \* its TTL timer; expiresAt reached
  cancelled,  \* pooled.cancel called
  gone,       \* the caller's context is over
  retired,    \* entries removed from slots that are still to be closed
  victim,     \* the entry a turn removed to make room for its own
  service     \* up, cancelled (s.cancel called), swept

procVars == <<pc, held, gone, victim>>
entryVars == <<conn, entry, timer, elapsed, cancelled>>
vars == <<slots, procVars, entryVars, retired, service>>

TypeOK ==
  /\ slots \in [Uids -> Procs \union {None}]
  /\ pc \in [Procs -> {"idle", "hook", "opening", "opened", "checked",
                       "holding", "done"}]
  /\ held \in [Turns -> Procs \union {None}]
  /\ conn \in [Procs -> {"none", "open", "ended", "failed", "closed"}]
  /\ entry \in [Procs -> [prepared : BOOLEAN, session : BOOLEAN, closed : BOOLEAN]]
  /\ timer \in [Preparers -> {"off", "armed", "fired"}]
  /\ elapsed \in [Preparers -> BOOLEAN]
  /\ {cancelled, gone} \subseteq [Procs -> BOOLEAN]
  /\ retired \subseteq Procs
  /\ victim \in [Turns -> Procs \union {None}]
  /\ service \in {"up", "cancelled", "swept"}
-----------------------------------------------------------------------------
Init ==
  /\ slots = [u \in Uids |-> None]
  /\ pc = [p \in Procs |-> "idle"]
  /\ held = [t \in Turns |-> None] /\ victim = [t \in Turns |-> None]
  /\ conn = [p \in Procs |-> "none"]
  /\ entry = [p \in Procs |-> [prepared |-> FALSE, session |-> FALSE, closed |-> FALSE]]
  /\ timer = [p \in Preparers |-> "off"] /\ elapsed = [p \in Preparers |-> FALSE]
  /\ cancelled = [p \in Procs |-> FALSE] /\ gone = [p \in Procs |-> FALSE]
  /\ retired = {} /\ service = "up"

Down == service # "up"
Size == Cardinality({u \in Uids : slots[u] # None})
Mine(p) == slots[UidOf[p]] = p
Goto(p, label) == pc' = [pc EXCEPT ![p] = label]
Vacate(p) == slots' = [slots EXCEPT ![UidOf[p]] = None]

(* A connection that was never installed in an entry is closed directly.   *)
CloseLoose(p) ==
  conn' = [conn EXCEPT ![p] = IF @ = "failed" THEN @ ELSE "closed"]

(* closePooledSession, after the entry left the map.                       *)
ClosePooled(p) ==
  /\ p \in retired /\ retired' = retired \ {p}
  /\ entry' = [entry EXCEPT ![p].closed = TRUE]
  /\ timer' = [q \in Preparers |-> IF q = p /\ timer[q] = "armed" THEN "off" ELSE timer[q]]
  /\ cancelled' = [cancelled EXCEPT ![p] = TRUE]
  /\ conn' = [conn EXCEPT ![p] =
                IF entry[p].session /\ ~entry[p].closed /\ @ # "failed" THEN "closed" ELSE @]
  /\ UNCHANGED <<slots, procVars, elapsed, service>>
-----------------------------------------------------------------------------
(* PrepareLive.                                                            *)

HasRoom == Size < Cap

Reserve(p) ==
  /\ pc[p] = "idle"
  /\ IF Down \/ gone[p] \/ slots[UidOf[p]] # None \/ ~HasRoom
     THEN Goto(p, "done") /\ UNCHANGED <<slots, entry>>
     ELSE /\ Goto(p, "opening")
          /\ slots' = [slots EXCEPT ![UidOf[p]] = p]
          /\ entry' = [entry EXCEPT ![p].prepared = TRUE]
  /\ UNCHANGED <<held, gone, victim, conn, timer, elapsed, cancelled, retired, service>>

(* The context Open runs under: a preparation's also ends with the service. *)
OpenCancelled(p) == cancelled[p] \/ gone[p] \/ (p \in Preparers /\ Down)

OpenReturns(p) ==
  /\ pc[p] = "opening" /\ Goto(p, "opened")
  /\ conn' = [conn EXCEPT ![p] = "open"] \/ conn' = [conn EXCEPT ![p] = "failed"]
  /\ UNCHANGED <<slots, held, gone, victim, entry, timer, elapsed, cancelled, retired, service>>

(* After Open, outside the lock: an error, the caller's or the service's   *)
(* context, or the deadline ends the preparation.                          *)
Unwanted(p) == conn[p] = "failed" \/ gone[p] \/ Down \/ elapsed[p]

(* Mutant: an entry retired while it was opening leaves its late           *)
(* connection to whoever retired it.                                       *)
AbandonToRetirer(p) ==
  /\ pc[p] = "opened" /\ Unwanted(p) /\ Goto(p, "done")
  /\ IF Mine(p)
     THEN /\ Vacate(p) /\ retired' = retired \union {p}
          /\ entry' = [entry EXCEPT ![p].session = TRUE]
     ELSE UNCHANGED <<slots, retired, entry>>
  /\ UNCHANGED <<held, gone, victim, conn, timer, elapsed, cancelled, service>>

Abandon(p) ==
  /\ pc[p] = "opened" /\ Unwanted(p) /\ Goto(p, "done")
  /\ IF Mine(p)
     THEN /\ Vacate(p) /\ retired' = retired \union {p}
          /\ entry' = [entry EXCEPT ![p].session = TRUE]
          /\ UNCHANGED conn
     ELSE CloseLoose(p) /\ UNCHANGED <<slots, retired, entry>>
  /\ UNCHANGED <<held, gone, victim, timer, elapsed, cancelled, service>>

PassCheck(p) ==
  /\ pc[p] = "opened" /\ ~Unwanted(p) /\ Goto(p, "checked")
  /\ UNCHANGED <<slots, held, gone, victim, entryVars, retired, service>>

(* The entry may have been retired, or have expired, since.                *)
Install(p) ==
  /\ pc[p] = "checked" /\ Goto(p, "done")
  /\ IF ~Mine(p) \/ Down
     THEN CloseLoose(p) /\ UNCHANGED <<slots, retired, entry, timer>>
     ELSE /\ entry' = [entry EXCEPT ![p].session = TRUE] /\ UNCHANGED conn
          /\ IF elapsed[p]
             THEN Vacate(p) /\ retired' = retired \union {p} /\ UNCHANGED timer
             ELSE timer' = [timer EXCEPT ![p] = "armed"] /\ UNCHANGED <<slots, retired>>
  /\ UNCHANGED <<held, gone, victim, elapsed, cancelled, service>>
-----------------------------------------------------------------------------
(* Retirement of a prepared entry.                                         *)

(* Mutant: a callback looks only at whose entry it is.                     *)
RetirableIfMine(p) == Mine(p)

(* expirePrepared, retireClosedPrepared, CancelPreparedLive: only an entry *)
(* that is still in the map and still unclaimed.                           *)
Retirable(p) == Mine(p) /\ entry[p].prepared

Retire(p) ==
  IF Retirable(p) THEN Vacate(p) /\ retired' = retired \union {p}
                  ELSE UNCHANGED <<slots, retired>>

TimerFires(p) ==
  /\ timer[p] = "armed" /\ elapsed[p] /\ timer' = [timer EXCEPT ![p] = "fired"]
  /\ UNCHANGED <<slots, procVars, conn, entry, elapsed, cancelled, retired, service>>

ExpirePrepared(p) ==
  /\ timer[p] = "fired" /\ timer' = [timer EXCEPT ![p] = "off"] /\ Retire(p)
  /\ UNCHANGED <<procVars, conn, entry, elapsed, cancelled, service>>

RetireClosedPrepared(p) ==
  /\ p \in Preparers /\ entry[p].session /\ conn[p] \in {"ended", "closed"}
  /\ Retirable(p) /\ Retire(p)
  /\ UNCHANGED <<procVars, entryVars, service>>

(* The transport's cleanup, at any time.                                   *)
CancelPreparedLive(u) ==
  /\ slots[u] # None /\ entry[slots[u]].prepared
  /\ slots' = [slots EXCEPT ![u] = None] /\ retired' = retired \union {slots[u]}
  /\ UNCHANGED <<procVars, entryVars, service>>
-----------------------------------------------------------------------------
(* acquire and release.                                                    *)

(* A session opened without context, live and in time.                     *)
Claimable(e, contextual) ==
  entry[e].prepared /\ entry[e].session /\ ~contextual /\ ~elapsed[e]

(* Mutant: the claim leaves the entry marked as prepared.                  *)
ClaimUnmarked(t, e) ==
  /\ timer' = [timer EXCEPT ![e] = IF @ = "armed" THEN "off" ELSE @]
  /\ held' = [held EXCEPT ![t] = e] /\ Goto(t, "hook")
  /\ UNCHANGED <<slots, entry, retired, victim>>

Claim(t, e) ==
  /\ entry' = [entry EXCEPT ![e].prepared = FALSE]
  /\ timer' = [timer EXCEPT ![e] = IF @ = "armed" THEN "off" ELSE @]
  /\ held' = [held EXCEPT ![t] = e] /\ Goto(t, "hook")
  /\ UNCHANGED <<slots, retired, victim>>

(* A prepared entry that cannot be claimed makes room; its own entry needs *)
(* room as any other does.                                                 *)
AdmitOwn(t, e) ==
  /\ victim' = [victim EXCEPT ![t] = e]
  /\ retired' = retired \union ({e} \ {None})
  /\ IF Cardinality({u \in Uids \ {UidOf[t]} : slots[u] # None}) >= Cap
     THEN Vacate(t) /\ Goto(t, "done") /\ UNCHANGED held
     ELSE /\ slots' = [slots EXCEPT ![UidOf[t]] = t]
          /\ held' = [held EXCEPT ![t] = t] /\ Goto(t, "hook")
  /\ UNCHANGED <<entry, timer>>

Acquire(t) ==
  /\ pc[t] = "idle"
  /\ LET e == slots[UidOf[t]] IN
     \/ /\ Down \/ gone[t] \/ (e # None /\ ~entry[e].prepared)
        /\ Goto(t, "done") /\ UNCHANGED <<slots, held, victim, entry, timer, retired>>
     \/ /\ ~Down /\ ~gone[t] /\ (e # None => entry[e].prepared)
        /\ \E contextual \in BOOLEAN :
             IF e # None /\ Claimable(e, contextual) THEN Claim(t, e) ELSE AdmitOwn(t, e)
  /\ UNCHANGED <<gone, conn, elapsed, cancelled, service>>

(* release: only the entry that is still in the map.                       *)
GiveBack(t) ==
  IF slots[UidOf[t]] = held[t] THEN Vacate(t) /\ retired' = retired \union {held[t]}
                               ELSE UNCHANGED <<slots, retired>>

(* The hook that prepares the staged path runs outside the lock, after the *)
(* victim was closed; it may fail.                                         *)
RunHook(t) ==
  /\ pc[t] = "hook" /\ victim[t] \notin retired /\ victim' = [victim EXCEPT ![t] = None]
  /\ \/ GiveBack(t) /\ Goto(t, "done")
     \/ /\ ~gone[t] /\ ~Down
        /\ Goto(t, IF held[t] = t THEN "opening" ELSE "holding") /\ UNCHANGED <<slots, retired>>
  /\ UNCHANGED <<held, gone, entryVars, service>>

AbandonOwn(t) ==
  /\ pc[t] = "opened" /\ (conn[t] = "failed" \/ OpenCancelled(t)) /\ Goto(t, "done")
  /\ cancelled' = [cancelled EXCEPT ![t] = TRUE]
  /\ IF Mine(t) THEN Vacate(t) ELSE UNCHANGED slots
  /\ CloseLoose(t)
  /\ UNCHANGED <<held, gone, victim, entry, timer, elapsed, retired, service>>

PassOwn(t) ==
  /\ pc[t] = "opened" /\ conn[t] # "failed" /\ ~OpenCancelled(t) /\ Goto(t, "checked")
  /\ UNCHANGED <<slots, held, gone, victim, entryVars, retired, service>>

(* Mutant: shutdown is looked for, a sweep that already passed is not.     *)
InstallOwnUnchecked(t) ==
  /\ pc[t] = "checked" /\ Goto(t, "holding")
  /\ entry' = [entry EXCEPT ![t].session = TRUE]
  /\ UNCHANGED <<slots, held, gone, victim, conn, timer, elapsed, cancelled, retired, service>>

InstallOwn(t) ==
  /\ pc[t] = "checked"
  /\ IF ~Mine(t) \/ Down
     THEN /\ Goto(t, "done") /\ CloseLoose(t) /\ UNCHANGED entry
          /\ cancelled' = [cancelled EXCEPT ![t] = TRUE]
     ELSE /\ Goto(t, "holding") /\ UNCHANGED <<conn, cancelled>>
          /\ entry' = [entry EXCEPT ![t].session = TRUE]
  /\ UNCHANGED <<slots, held, gone, victim, timer, elapsed, retired, service>>

(* The turn ends, for whatever reason, and releases what it holds.         *)
Release(t) ==
  /\ pc[t] = "holding" /\ Goto(t, "done") /\ GiveBack(t)
  /\ UNCHANGED <<held, gone, victim, entryVars, service>>
-----------------------------------------------------------------------------
(* Shutdown and the environment.                                           *)

CancelService ==
  /\ service = "up" /\ service' = "cancelled"
  /\ UNCHANGED <<slots, procVars, entryVars, retired>>

Sweep ==
  /\ service = "cancelled" /\ service' = "swept"
  /\ slots' = [u \in Uids |-> None]
  /\ retired' = retired \union {p \in Procs : Mine(p)}
  /\ UNCHANGED <<procVars, entryVars>>

(* Only where the code still looks at the caller's context.                *)
CallerLeaves(p) ==
  /\ ~gone[p] /\ pc[p] \in {"hook", "opening", "opened"} /\ gone' = [gone EXCEPT ![p] = TRUE]
  /\ UNCHANGED <<slots, pc, held, victim, entryVars, retired, service>>

DeadlinePasses(p) ==
  /\ Mine(p) /\ entry[p].prepared /\ ~elapsed[p] /\ elapsed' = [elapsed EXCEPT ![p] = TRUE]
  /\ UNCHANGED <<slots, procVars, conn, entry, timer, cancelled, retired, service>>

(* The provider, or the end of the context it was opened under.            *)
ProviderEnds(p) ==
  /\ conn[p] = "open" /\ Mine(p) /\ entry[p].session
  /\ conn' = [conn EXCEPT ![p] = "ended"]
  /\ UNCHANGED <<slots, procVars, entry, timer, elapsed, cancelled, retired, service>>

ProcStep(p) ==
  \/ OpenReturns(p) \/ ClosePooled(p)
  \/ /\ p \in Preparers
     /\ \/ Reserve(p) \/ Abandon(p) \/ PassCheck(p) \/ Install(p)
        \/ TimerFires(p) \/ ExpirePrepared(p) \/ RetireClosedPrepared(p)
  \/ /\ p \in Turns
     /\ \/ Acquire(p) \/ RunHook(p) \/ AbandonOwn(p) \/ PassOwn(p) \/ InstallOwn(p) \/ Release(p)

Next ==
  \/ \E p \in Procs : ProcStep(p) \/ CallerLeaves(p) \/ ProviderEnds(p)
  \/ \E p \in Preparers : DeadlinePasses(p)
  \/ \E u \in Uids : CancelPreparedLive(u)
  \/ CancelService \/ Sweep

Spec == Init /\ [][Next]_vars

SessionOver(t) == held[t] # None /\ conn[held[t]] \in {"ended", "closed"}

(* Go schedules its goroutines, timers fire, and Open honours its context. *)
(* A turn need not end, unless its session did.                            *)
Fairness ==
  /\ WF_vars(Sweep)
  /\ \A p \in Procs :
       /\ WF_vars(ClosePooled(p)) /\ WF_vars(OpenReturns(p) /\ OpenCancelled(p))
       /\ WF_vars(p \in Preparers /\ (Abandon(p) \/ PassCheck(p) \/ Install(p)
                                      \/ RetireClosedPrepared(p)))
       /\ WF_vars(p \in Preparers /\ TimerFires(p)) /\ WF_vars(p \in Preparers /\ ExpirePrepared(p))
       /\ WF_vars(p \in Turns /\ (RunHook(p) \/ AbandonOwn(p) \/ PassOwn(p) \/ InstallOwn(p)))
       /\ WF_vars(p \in Turns /\ SessionOver(p) /\ Release(p))

FairSpec == Spec /\ Fairness
-----------------------------------------------------------------------------
Unclosed(p) == conn[p] \in {"open", "ended"}

(* The map never holds more entries than the cap, prepared, opening and    *)
(* active ones together: each of the three ways in counts them all.        *)
CapHolds == Size <= Cap

(* A session serves one turn: no two turns that have passed acquire hold   *)
(* the same entry, whichever of them the entry was prepared for.           *)
OneTurnPerSession ==
  \A t1, t2 \in Turns :
    t1 # t2 /\ pc[t1] \in {"hook", "holding"} /\ pc[t2] \in {"hook", "holding"}
      => held[t1] # held[t2]

(* Nothing but shutdown takes a session from the turn that holds it: not   *)
(* its TTL timer firing late, not the cleanup of the connection that       *)
(* prepared it, not another turn of the same uid.                          *)
HeldStaysPooled ==
  \A t \in Turns : pc[t] \in {"hook", "opening", "opened", "checked", "holding"} =>
    slots[UidOf[t]] = held[t] \/ service = "swept"

(* No connection is lost: one that is not closed is installed in an entry  *)
(* of the map, or in an entry that is to be closed, or its opener still    *)
(* has it in hand.                                                         *)
NoLeak ==
  \A p \in Procs : Unclosed(p) =>
    \/ pc[p] \in {"opened", "checked"}
    \/ entry[p].session /\ ~entry[p].closed /\ (Mine(p) \/ p \in retired)

(* A prepared session serves one turn and stays pooled while it is held,   *)
(* and no connection is left without somebody who will close it.           *)
PoolHolds == OneTurnPerSession /\ HeldStaysPooled /\ NoLeak

(* After shutdown every connection is closed and the map is empty, whether *)
(* it was prepared, opening or in use.                                     *)
ShutdownDrains ==
  service = "cancelled" ~>
    \A p \in Procs : ~Unclosed(p) /\ slots[UidOf[p]] # p /\ pc[p] # "opening"

(* A prepared session that nobody claims does not outlive its TTL, though  *)
(* its timer is armed only after Open.                                     *)
PreparedExpires ==
  \A p \in Preparers :
    (elapsed[p] /\ Mine(p) /\ entry[p].prepared /\ entry[p].session) ~>
      ~(Mine(p) /\ entry[p].prepared)
=============================================================================
