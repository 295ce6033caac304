------------------------------- MODULE MCShared -------------------------------
(* What turns share, for TLC, side by side: a behaviour chooses one part   *)
(* and leaves the others in their initial states.  The parts: the pool of  *)
(* provider sessions (one preparation and two turns of the same uid, and a *)
(* turn of another, over one entry), the flights that share one synthesis  *)
(* call, and the dispatcher of the semantic shadow.                        *)
EXTENDS Integers, Sequences, TLC

CONSTANTS
  prep, own, twin, other, alice, bob, Preparers, Turns, Uids, UidOf, Cap,
  Subs, MaxFlights, Whole, Room, None,
  Observed, QueueCapacity

MCUidOf == [p \in {prep, own, twin, other} |-> IF p = other THEN bob ELSE alice]

VARIABLES part,
  pp_slots, pp_pc, pp_held, pp_conn, pp_entry, pp_timer, pp_elapsed, pp_cancelled, pp_gone,
  pp_retired, pp_victim, pp_service,
  sf_cached, sf_reg, sf_flight, sf_ctxDone, sf_prod, sf_expiry, sf_sub, sf_at, sf_index, sf_got,
  sf_outcome, sf_cancelled, sf_open,
  ss_observe, ss_queue, ss_done, ss_cancelled, ss_closing, ss_worker, ss_item, ss_exports, ss_stats

Pool == INSTANCE ProviderPool WITH
    slots <- pp_slots, pc <- pp_pc, held <- pp_held, conn <- pp_conn,
    entry <- pp_entry, timer <- pp_timer, elapsed <- pp_elapsed, cancelled <- pp_cancelled,
    gone <- pp_gone, retired <- pp_retired, victim <- pp_victim, service <- pp_service
pp_vars == <<pp_slots, pp_pc, pp_held, pp_conn, pp_entry, pp_timer, pp_elapsed,
            pp_cancelled, pp_gone, pp_retired, pp_victim, pp_service>>

Flight == INSTANCE SynthesisFlight WITH
    cached <- sf_cached, reg <- sf_reg, flight <- sf_flight, ctxDone <- sf_ctxDone,
    prod <- sf_prod, expiry <- sf_expiry, sub <- sf_sub, at <- sf_at, index <- sf_index,
    got <- sf_got, outcome <- sf_outcome, cancelled <- sf_cancelled, open <- sf_open
sf_vars == <<sf_cached, sf_reg, sf_flight, sf_ctxDone, sf_prod, sf_expiry, sf_sub, sf_at,
            sf_index, sf_got, sf_outcome, sf_cancelled, sf_open>>

Shadow == INSTANCE SemanticShadow WITH
    Turns <- Observed, observe <- ss_observe, queue <- ss_queue, done <- ss_done,
    cancelled <- ss_cancelled, closing <- ss_closing, worker <- ss_worker, item <- ss_item,
    exports <- ss_exports, stats <- ss_stats
ss_vars == <<ss_observe, ss_queue, ss_done, ss_cancelled, ss_closing, ss_worker, ss_item,
            ss_exports, ss_stats>>

ASSUME SharedAssumption == Pool!PoolAssumption /\ Flight!FlightAssumption

Init ==
  /\ part \in {"pool", "flight", "shadow"}
  /\ Pool!Init /\ Flight!Init /\ Shadow!ShadowInit

Next ==
  \/ part = "pool" /\ Pool!Next /\ UNCHANGED <<part, sf_vars, ss_vars>>
  \/ part = "flight" /\ Flight!Next /\ UNCHANGED <<part, pp_vars, ss_vars>>
  \/ part = "shadow" /\ Shadow!ShadowNext /\ UNCHANGED <<part, pp_vars, sf_vars>>

Spec == Init /\ [][Next]_<<part, pp_vars, sf_vars, ss_vars>>

\* The two turns of one uid stand for the two callers of a flight as well.
Symmetry == Permutations({own, twin})
-----------------------------------------------------------------------------
(* A prepared session serves one turn and stays pooled while it is held,   *)
(* and no connection is left without somebody who will close it.           *)
PoolHolds == Pool!PoolHolds

(* One whole provider call per asset that ends well, nothing of a failed   *)
(* one kept, and a caller that succeeds has heard all of it.               *)
FlightServes == Flight!FlightServes

(* Once the shadow's Close has returned it holds nothing; until it cancels *)
(* nothing that was sent is lost, and nothing is ever exported twice.      *)
NothingHeldAfterClose == Shadow!NothingHeldAfterClose
=============================================================================
