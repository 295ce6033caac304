------------------------------- MODULE MCStores -------------------------------
(* The stores that decide who may do what, for TLC, side by side: a        *)
(* behaviour chooses one part and leaves the others in their initial       *)
(* states.  The parts: live admission and its lease, the ledger of guest   *)
(* trials, the execution leases, and the long-term memory.                 *)
EXTENDS LiveAdmission, TLC

CONSTANTS
  TrialCallers, Trials, NoTrial, TrialCapacity, TrialTTL, TrialTime,
  LeaseCallers, Scopes, Queries, Sources, Nonces, MaxTTL, IssuanceTTL, LeaseCapacity, LeaseTime,
  Workers, Senders, QueueCapacity, Capabilities, MaxGeneration

VARIABLES part,
  gt_now, gt_store, gt_call, gt_told,
  el_time, el_issued, el_grants, el_leases, el_given, el_pending, el_executed,
  lm_consent, lm_record, lm_issued, lm_uses, lm_sessions, lm_sender, lm_jobs, lm_closed,
  lm_cancelled, lm_worker

Trial == INSTANCE GuestTrial WITH
    Callers <- TrialCallers, Capacity <- TrialCapacity, TTL <- TrialTTL, MaxTime <- TrialTime,
    now <- gt_now, store <- gt_store, call <- gt_call, told <- gt_told
gt_vars == <<gt_now, gt_store, gt_call, gt_told>>

Lease == INSTANCE ExecutionLease WITH
    Callers <- LeaseCallers, Capacity <- LeaseCapacity, time <- el_time, issued <- el_issued,
    grants <- el_grants, leases <- el_leases, given <- el_given, pending <- el_pending,
    executed <- el_executed
el_vars == <<el_time, el_issued, el_grants, el_leases, el_given, el_pending, el_executed>>

Memory == INSTANCE LongMemory WITH
    Capacity <- QueueCapacity, consent <- lm_consent, record <- lm_record, issued <- lm_issued,
    uses <- lm_uses, sessions <- lm_sessions, sender <- lm_sender, jobs <- lm_jobs,
    closed <- lm_closed, cancelled <- lm_cancelled, worker <- lm_worker
lm_vars == <<lm_consent, lm_record, lm_issued, lm_uses, lm_sessions, lm_sender, lm_jobs,
            lm_closed, lm_cancelled, lm_worker>>

ASSUME StoresAssumption ==
  Trial!GuestTrialAssumption /\ Lease!LeaseAssumption /\ Memory!LongMemoryAssumption

MCInit ==
  /\ part \in {"admission", "trial", "lease", "memory"}
  /\ Init /\ Trial!Init /\ Lease!LeaseInit /\ Memory!Init

MCNext ==
  \/ part = "admission" /\ Next /\ UNCHANGED <<part, gt_vars, el_vars, lm_vars>>
  \/ part = "trial" /\ Trial!Next /\ UNCHANGED <<part, vars, el_vars, lm_vars>>
  \/ part = "lease" /\ Lease!LeaseNext /\ UNCHANGED <<part, vars, gt_vars, lm_vars>>
  \/ part = "memory" /\ Memory!Next /\ UNCHANGED <<part, vars, gt_vars, el_vars>>

MCSpec == MCInit /\ [][MCNext]_<<part, vars, gt_vars, el_vars, lm_vars>>

Symmetry == Permutations(TrialCallers) \union Permutations(Trials)
-----------------------------------------------------------------------------
(* A guest is never told a state that another answer contradicts.          *)
ToldStands == Trial!ToldStands
(* A grant gives at most one lookup, in its scope and of its query.        *)
OneLookupPerGrant == Lease!OneLookupPerGrant

(* A stored record belongs to the consent in force.                        *)
RecordOfConsent == Memory!RecordOfConsent
(* A capability becomes a session context at most once.                    *)
SingleUse == Memory!SingleUse
=============================================================================
