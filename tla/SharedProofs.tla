------------------------------ MODULE SharedProofs ------------------------------
(***************************************************************************)
(* What turns share, for any number of them: the pool of native provider   *)
(* sessions, and the dispatcher of the semantic shadow.                    *)
(***************************************************************************)
EXTENDS MCShared, FiniteSets, FiniteSetTheorems, TLAPS

-----------------------------------------------------------------------------
(* The pool of provider sessions.                                          *)

Entries == [prepared : BOOLEAN, session : BOOLEAN, closed : BOOLEAN]
Active == {"hook", "opening", "opened", "checked", "holding"}

(* The map holds entries under their own uid.                              *)
PoolTyped ==
  /\ pp_slots \in [Uids -> Pool!Procs \union {None}]
  /\ \A u \in Uids : pp_slots[u] # None => UidOf[pp_slots[u]] = u
  /\ pp_pc \in [Pool!Procs -> Active \union {"idle", "done"}]
  /\ pp_held \in [Turns -> Pool!Procs \union {None}]
  /\ pp_conn \in [Pool!Procs -> {"none", "open", "ended", "failed", "closed"}]
  /\ pp_entry \in [Pool!Procs -> Entries]
  /\ pp_retired \subseteq Pool!Procs

(* An entry enters the map once, when its call begins; it leaves it before *)
(* it is closed, and has a session only when its preparation is over.      *)
EnteredOnce ==
  \A p \in Pool!Procs :
    /\ Pool!Mine(p) => pp_pc[p] # "idle" /\ p \notin pp_retired /\ ~pp_entry[p].closed
    /\ pp_pc[p] = "idle" => p \notin pp_retired /\ ~pp_entry[p].closed
    /\ pp_entry[p].prepared => p \in Preparers /\ pp_pc[p] # "idle"
    /\ p \in Preparers /\ pp_entry[p].session => pp_pc[p] = "done"

(* A turn holds its own entry or one whose preparation is over, which      *)
(* nobody else can retire or claim.                                        *)
HoldsClaimed ==
  \A t \in Turns : pp_pc[t] \in Active =>
    /\ pp_held[t] \in Pool!Procs /\ UidOf[pp_held[t]] = UidOf[t] /\ ~pp_entry[pp_held[t]].prepared
    /\ pp_held[t] = t \/ (pp_held[t] \in Preparers /\ pp_pc[pp_held[t]] = "done")
    /\ pp_pc[t] \in {"opening", "opened", "checked"} => pp_held[t] = t
    /\ pp_slots[UidOf[t]] = pp_held[t] \/ pp_service = "swept"

HeldApart ==
  \A t1, t2 \in Turns :
    t1 # t2 /\ pp_pc[t1] \in Active /\ pp_pc[t2] \in Active => pp_held[t1] # pp_held[t2]

PoolInv == PoolTyped /\ EnteredOnce /\ HoldsClaimed /\ HeldApart /\ Pool!NoLeak

(* An entry keeps its shape.                                               *)
LEMMA EntriesStay ==
  ASSUME PoolInv, NEW p \in Pool!Procs,
         \/ pp_entry' = [pp_entry EXCEPT ![p].prepared = TRUE]
         \/ pp_entry' = [pp_entry EXCEPT ![p].prepared = FALSE]
         \/ pp_entry' = [pp_entry EXCEPT ![p].session = TRUE]
         \/ pp_entry' = [pp_entry EXCEPT ![p].closed = TRUE]
         \/ pp_entry' = pp_entry
  PROVE  pp_entry' \in [Pool!Procs -> Entries]
<1>1. pp_entry \in [Pool!Procs -> Entries]  BY DEF PoolInv, PoolTyped
<1> QED  BY <1>1 DEF Entries

(* PrepareLive.                                                            *)
LEMMA PreparerStep ==
  ASSUME Pool!PoolAssumption, PoolInv, NEW p \in Preparers,
         Pool!Reserve(p) \/ Pool!Abandon(p) \/ Pool!PassCheck(p) \/ Pool!Install(p)
  PROVE  PoolInv'
<1> USE DEF Pool!PoolAssumption, Pool!Procs, Active, Pool!Mine, Pool!Down, Pool!Goto, Pool!Vacate,
            Pool!CloseLoose
<1>1. pp_entry' \in [Pool!Procs -> Entries]
  BY EntriesStay DEF Pool!Reserve, Pool!Abandon, Pool!PassCheck, Pool!Install, Pool!entryVars
<1> USE <1>1 DEF PoolInv, Entries
<1>2. CASE Pool!Reserve(p)
  <2>1. PoolTyped'  BY SMTT(40), <1>2 DEF PoolTyped, Pool!Reserve
  <2>2. EnteredOnce'  BY <1>2 DEF PoolTyped, EnteredOnce, Pool!Reserve
  <2>3. HoldsClaimed'  BY <1>2 DEF PoolTyped, EnteredOnce, HoldsClaimed, Pool!Reserve
  <2>4. HeldApart'  BY <1>2 DEF PoolTyped, HeldApart, Pool!Reserve
  <2>5. Pool!NoLeak'  BY <1>2 DEF PoolTyped, EnteredOnce, Pool!NoLeak, Pool!Unclosed, Pool!Reserve
  <2> QED  BY <2>1, <2>2, <2>3, <2>4, <2>5
<1>3. CASE Pool!Abandon(p)
  <2>1. PoolTyped'  BY <1>3 DEF PoolTyped, Pool!Abandon
  <2>2. EnteredOnce'  BY <1>3 DEF PoolTyped, EnteredOnce, Pool!Abandon
  <2>3. HoldsClaimed'  BY <1>3 DEF PoolTyped, EnteredOnce, HoldsClaimed, Pool!Abandon
  <2>4. HeldApart'  BY <1>3 DEF PoolTyped, HeldApart, Pool!Abandon
  <2>5. Pool!NoLeak'  BY <1>3 DEF PoolTyped, EnteredOnce, Pool!NoLeak, Pool!Unclosed, Pool!Abandon
  <2> QED  BY <2>1, <2>2, <2>3, <2>4, <2>5
<1>4. CASE Pool!Install(p)
  <2>1. PoolTyped'
    <3>1. pp_pc' = [pp_pc EXCEPT ![p] = "done"] /\ UNCHANGED pp_held  BY <1>4 DEF Pool!Install
    <3>2. pp_slots' = pp_slots \/ pp_slots' = [pp_slots EXCEPT ![UidOf[p]] = None]
      BY <1>4 DEF Pool!Install
    <3>3. pp_conn' \in [Pool!Procs -> {"none", "open", "ended", "failed", "closed"}]
      BY <1>4 DEF Pool!Install, PoolTyped
    <3>4. pp_retired' \in {pp_retired, pp_retired \union {p}}  BY <1>4 DEF Pool!Install
    <3> HIDE DEF Entries
    <3> QED  BY <3>1, <3>2, <3>3, <3>4 DEF PoolTyped
  <2>2. EnteredOnce'  BY <1>4 DEF PoolTyped, EnteredOnce, Pool!Install
  <2>3. HoldsClaimed'  BY <1>4 DEF PoolTyped, EnteredOnce, HoldsClaimed, Pool!Install
  <2>4. HeldApart'  BY <1>4 DEF PoolTyped, HeldApart, Pool!Install
  <2>5. Pool!NoLeak'  BY <1>4 DEF PoolTyped, EnteredOnce, Pool!NoLeak, Pool!Unclosed, Pool!Install
  <2> QED  BY <2>1, <2>2, <2>3, <2>4, <2>5
<1>5. CASE Pool!PassCheck(p)
  BY <1>5 DEF PoolTyped, EnteredOnce, HoldsClaimed, HeldApart, Pool!NoLeak, Pool!Unclosed,
     Pool!PassCheck, Pool!entryVars
<1> QED  BY <1>2, <1>3, <1>4, <1>5

(* An entry that has left the map is closed.                               *)
LEMMA ClosePooledStep ==
  ASSUME Pool!PoolAssumption, PoolInv, NEW p \in Pool!Procs, Pool!ClosePooled(p)
  PROVE  PoolInv'
<1> USE DEF Pool!Procs, Active, Pool!Mine, Pool!procVars
<1>1. pp_entry' \in [Pool!Procs -> Entries]
  BY EntriesStay DEF Pool!ClosePooled
<1> QED
  BY <1>1 DEF PoolInv, Entries, PoolTyped, EnteredOnce, HoldsClaimed, HeldApart, Pool!NoLeak,
     Pool!Unclosed, Pool!ClosePooled

(* A turn installs the session it opened, unless its entry is gone.        *)
LEMMA InstallOwnStep ==
  ASSUME Pool!PoolAssumption, PoolInv, NEW t \in Turns, Pool!InstallOwn(t)
  PROVE  PoolInv'
<1> USE DEF Pool!PoolAssumption, Pool!Procs, Active, Pool!Mine, Pool!Down, Pool!Goto, Pool!CloseLoose
<1>1. pp_entry' \in [Pool!Procs -> Entries]
  BY EntriesStay DEF Pool!InstallOwn
<1> QED
  BY <1>1 DEF PoolInv, Entries, PoolTyped, EnteredOnce, HoldsClaimed, HeldApart, Pool!NoLeak,
     Pool!Unclosed, Pool!InstallOwn

(* acquire, in its three ways: nothing, a claim, an entry of its own.      *)
(* A claim takes a prepared entry, which nobody holds.                     *)
LEMMA ClaimStep ==
  ASSUME Pool!PoolAssumption, PoolInv, NEW t \in Turns, pp_pc[t] = "idle", ~Pool!Down,
         pp_slots[UidOf[t]] # None, NEW contextual \in BOOLEAN,
         Pool!Claimable(pp_slots[UidOf[t]], contextual), Pool!Claim(t, pp_slots[UidOf[t]]),
         UNCHANGED <<pp_gone, pp_conn, pp_elapsed, pp_cancelled, pp_service>>
  PROVE  PoolInv'
<1> USE DEF Pool!PoolAssumption, Pool!Procs, Active, Pool!Mine, Pool!Down, Pool!Goto
<1>0. PICK e \in Pool!Procs : e = pp_slots[UidOf[t]]
  BY DEF PoolInv, PoolTyped
<1>1. pp_entry' \in [Pool!Procs -> Entries]
  BY <1>0, EntriesStay DEF Pool!Claim
<1>2. /\ UidOf[e] = UidOf[t] /\ pp_entry[e].prepared /\ pp_entry[e].session
      /\ e \in Preparers /\ pp_pc[e] = "done" /\ e # t
  BY <1>0 DEF PoolInv, PoolTyped, EnteredOnce, Pool!Claimable
<1>3. /\ pp_entry' = [pp_entry EXCEPT ![e].prepared = FALSE] /\ pp_held' = [pp_held EXCEPT ![t] = e]
      /\ pp_pc' = [pp_pc EXCEPT ![t] = "hook"]
      /\ UNCHANGED <<pp_slots, pp_retired, pp_conn, pp_service>>
  BY <1>0 DEF Pool!Claim
<1> USE <1>0, <1>1, <1>2, <1>3 DEF PoolInv, Entries
<1>4. PoolTyped'  BY DEF PoolTyped
<1>5. EnteredOnce'  BY DEF PoolTyped, EnteredOnce
<1>6. HoldsClaimed'  BY DEF PoolTyped, EnteredOnce, HoldsClaimed
<1>7. HeldApart'  BY DEF PoolTyped, EnteredOnce, HoldsClaimed, HeldApart
<1>8. Pool!NoLeak'  BY DEF PoolTyped, EnteredOnce, Pool!NoLeak, Pool!Unclosed
<1> QED  BY <1>4, <1>5, <1>6, <1>7, <1>8

(* A turn of its own retires the prepared entry of its uid first.          *)
LEMMA AdmitOwnStep ==
  ASSUME Pool!PoolAssumption, PoolInv, NEW t \in Turns, pp_pc[t] = "idle", ~Pool!Down,
         pp_slots[UidOf[t]] # None => pp_entry[pp_slots[UidOf[t]]].prepared,
         Pool!AdmitOwn(t, pp_slots[UidOf[t]]),
         UNCHANGED <<pp_gone, pp_conn, pp_elapsed, pp_cancelled, pp_service>>
  PROVE  PoolInv'
<1> USE DEF Pool!PoolAssumption, Pool!Procs, Active, Pool!Mine, Pool!Down, Pool!Goto, Pool!Vacate
<1>0. PICK e \in Pool!Procs \union {None} : e = pp_slots[UidOf[t]]
  BY DEF PoolInv, PoolTyped
<1>1. /\ pp_retired' = pp_retired \union ({e} \ {None}) /\ UNCHANGED <<pp_entry, pp_conn, pp_service>>
      /\ \/ /\ pp_slots' = [pp_slots EXCEPT ![UidOf[t]] = None] /\ pp_pc' = [pp_pc EXCEPT ![t] = "done"]
            /\ pp_held' = pp_held
         \/ /\ pp_slots' = [pp_slots EXCEPT ![UidOf[t]] = t] /\ pp_pc' = [pp_pc EXCEPT ![t] = "hook"]
            /\ pp_held' = [pp_held EXCEPT ![t] = t]
  BY <1>0 DEF Pool!AdmitOwn
<1>2. /\ e # None => UidOf[e] = UidOf[t] /\ pp_entry[e].prepared /\ e \in Preparers
      /\ e # t /\ UidOf[t] \in Uids /\ t # None
  BY <1>0 DEF PoolInv, PoolTyped, EnteredOnce
<1> USE <1>0, <1>1, <1>2 DEF PoolInv, Entries
<1>4. PoolTyped'  BY SMTT(30) DEF PoolTyped
<1>5. EnteredOnce'  BY DEF PoolTyped, EnteredOnce
<1>6. HoldsClaimed'  BY DEF PoolTyped, EnteredOnce, HoldsClaimed
<1>7. HeldApart'  BY DEF PoolTyped, EnteredOnce, HoldsClaimed, HeldApart
<1>8. Pool!NoLeak'  BY DEF PoolTyped, EnteredOnce, Pool!NoLeak, Pool!Unclosed
<1> QED  BY <1>4, <1>5, <1>6, <1>7, <1>8

(* The rest of a turn.                                                     *)
LEMMA TurnStep ==
  ASSUME Pool!PoolAssumption, PoolInv, NEW t \in Turns,
         \/ Pool!Acquire(t) \/ Pool!RunHook(t) \/ Pool!AbandonOwn(t) \/ Pool!PassOwn(t)
         \/ Pool!InstallOwn(t) \/ Pool!Release(t)
  PROVE  PoolInv'
<1>1. CASE Pool!Acquire(t)
  <2>1. CASE /\ Pool!Goto(t, "done") /\ pp_pc[t] = "idle"
             /\ UNCHANGED <<pp_slots, pp_held, pp_victim, pp_entry, pp_timer, pp_retired,
                            pp_gone, pp_conn, pp_elapsed, pp_cancelled, pp_service>>
    BY <2>1 DEF PoolInv, PoolTyped, EnteredOnce, HoldsClaimed, HeldApart, Pool!NoLeak,
       Pool!Unclosed, Pool!PoolAssumption, Pool!Procs, Active, Pool!Goto, Pool!Mine
  <2> QED  BY <1>1, <2>1, ClaimStep, AdmitOwnStep DEF Pool!Acquire
<1>2. CASE Pool!RunHook(t) \/ Pool!AbandonOwn(t) \/ Pool!PassOwn(t) \/ Pool!Release(t)
  BY SMTT(30), <1>2 DEF PoolInv, PoolTyped, EnteredOnce, HoldsClaimed, HeldApart, Pool!NoLeak,
     Pool!Unclosed, Pool!PoolAssumption, Pool!Procs, Active, Entries, Pool!Goto, Pool!Mine,
     Pool!Vacate, Pool!CloseLoose, Pool!GiveBack, Pool!entryVars, Pool!RunHook,
     Pool!AbandonOwn, Pool!PassOwn, Pool!Release
<1> QED  BY <1>1, <1>2, InstallOwnStep

(* What may come at any time: the end of a TTL, of a connection, of the    *)
(* caller or of the service.                                               *)
LEMMA AnyTimeStep ==
  ASSUME Pool!PoolAssumption, PoolInv,
         \/ \E p \in Preparers : \/ Pool!TimerFires(p) \/ Pool!ExpirePrepared(p)
                                 \/ Pool!RetireClosedPrepared(p) \/ Pool!DeadlinePasses(p)
         \/ \E p \in Pool!Procs : \/ Pool!OpenReturns(p) \/ Pool!CallerLeaves(p)
                                  \/ Pool!ProviderEnds(p)
         \/ \E u \in Uids : Pool!CancelPreparedLive(u)
         \/ Pool!CancelService \/ Pool!Sweep \/ UNCHANGED Pool!vars
  PROVE  PoolInv'
<1> USE DEF PoolInv, PoolTyped, EnteredOnce, HoldsClaimed, HeldApart, Pool!NoLeak,
       Pool!Unclosed, Pool!PoolAssumption, Pool!Procs, Active, Entries, Pool!Goto, Pool!Mine,
       Pool!Vacate, Pool!Retire, Pool!Retirable, Pool!procVars, Pool!entryVars
<1>1. ASSUME NEW p \in Preparers, Pool!TimerFires(p) \/ Pool!DeadlinePasses(p) PROVE PoolInv'
  BY <1>1 DEF Pool!TimerFires, Pool!DeadlinePasses
<1>2. ASSUME NEW p \in Preparers, Pool!ExpirePrepared(p) PROVE PoolInv'
  BY <1>2 DEF Pool!ExpirePrepared
<1>3. ASSUME NEW p \in Preparers, Pool!RetireClosedPrepared(p) PROVE PoolInv'
  BY <1>3 DEF Pool!RetireClosedPrepared
<1>4. ASSUME NEW p \in Pool!Procs, Pool!OpenReturns(p) \/ Pool!CallerLeaves(p) \/ Pool!ProviderEnds(p)
      PROVE  PoolInv'
  BY <1>4 DEF Pool!OpenReturns, Pool!CallerLeaves, Pool!ProviderEnds
<1>5. ASSUME NEW u \in Uids, Pool!CancelPreparedLive(u) PROVE PoolInv'
  BY <1>5 DEF Pool!CancelPreparedLive
<1>6. CASE Pool!CancelService  BY <1>6 DEF Pool!CancelService
<1>7. CASE Pool!Sweep  BY <1>7 DEF Pool!Sweep
<1>8. CASE UNCHANGED Pool!vars  BY <1>8 DEF Pool!vars
<1> QED  BY <1>1, <1>2, <1>3, <1>4, <1>5, <1>6, <1>7, <1>8

(* Every step of the pool keeps its invariant.                             *)
LEMMA PoolStep ==
  Pool!PoolAssumption /\ PoolInv /\ [Pool!Next]_(Pool!vars) => PoolInv'
BY PreparerStep, ClosePooledStep, TurnStep, AnyTimeStep DEF Pool!Next, Pool!ProcStep

(* A session serves one turn, only shutdown takes it from the turn that    *)
(* holds it, and every connection has somebody who will close it, for any  *)
(* number of preparations, turns and uids.                                 *)
THEOREM PoolHoldsAlways ==
  ASSUME Pool!PoolAssumption PROVE Pool!Spec => []PoolHolds
<1>1. Pool!Init => PoolInv
  BY DEF Pool!Init, PoolInv, PoolTyped, EnteredOnce, HoldsClaimed, HeldApart, Pool!NoLeak,
     Pool!Unclosed, Pool!PoolAssumption, Pool!Procs, Active, Entries, Pool!Mine
<1>2. PoolInv => PoolHolds
  BY DEF PoolInv, HoldsClaimed, HeldApart, Active, PoolHolds, Pool!PoolHolds, Pool!OneTurnPerSession,
     Pool!HeldStaysPooled
<1> QED  BY <1>1, <1>2, PoolStep, PTL DEF Pool!Spec

(* The instance counts as the library does.                                *)
LEMMA CountedAlike ==
  \A S : Pool!Cardinality(S) = Cardinality(S) /\ Pool!IsFiniteSet(S) = IsFiniteSet(S)
BY DEF Pool!Cardinality, Cardinality, Pool!IsFiniteSet, IsFiniteSet

Occupied == {u \in Uids : pp_slots[u] # None}

(* A step that fills no slot, or fills one while there is room for it.     *)
Fills(u) == \A v \in Uids \ {u} : pp_slots'[v] \in {pp_slots[v], None}

(* A slot that is filled had room for one, so the cap holds.               *)
LEMMA RoomForOne ==
  ASSUME Pool!PoolAssumption, Cardinality(Occupied) <= Cap,
         \/ \A u \in Uids : pp_slots'[u] \in {pp_slots[u], None}
         \/ \E u \in Uids : Fills(u) /\ Cardinality(Occupied \ {u}) < Cap
  PROVE  Cardinality(Occupied') <= Cap
<1>1. IsFiniteSet(Occupied) /\ IsFiniteSet(Uids) /\ Cap \in Nat
  <2>1. IsFiniteSet(Uids) /\ Cap \in Nat  BY CountedAlike DEF Pool!PoolAssumption
  <2>2. Occupied \in SUBSET Uids  BY DEF Occupied
  <2> QED  BY <2>1, <2>2, FS_Subset
<1>2. CASE \A u \in Uids : pp_slots'[u] \in {pp_slots[u], None}
  <2>1. Occupied' \subseteq Occupied  BY <1>2 DEF Occupied
  <2> QED  BY <1>1, <2>1, FS_Subset, FS_CardinalityType
<1>3. ASSUME NEW u \in Uids, Fills(u), Cardinality(Occupied \ {u}) < Cap
      PROVE  Cardinality(Occupied') <= Cap
  <2> DEFINE S == Occupied \ {u}
  <2>1. Occupied' \subseteq S \union {u}  BY <1>3 DEF Occupied, Fills
  <2>2. IsFiniteSet(S) /\ u \notin S  BY <1>1, FS_Subset
  <2>3. IsFiniteSet(S \union {u}) /\ Cardinality(S \union {u}) = Cardinality(S) + 1
    BY <2>2, FS_AddElement
  <2>4. Cardinality(S) \in Nat  BY <2>2, FS_CardinalityType
  <2>5. /\ IsFiniteSet(Occupied') /\ Cardinality(Occupied') <= Cardinality(S \union {u})
    BY <2>1, <2>3, FS_Subset
  <2>6. Cardinality(Occupied') \in Nat  BY <2>5, FS_CardinalityType
  <2> QED  BY <1>1, <1>3, <2>3, <2>4, <2>5, <2>6
<1> QED  BY <1>2, <1>3

(* Every step of the pool keeps the cap.                                   *)
LEMMA CapStep ==
  ASSUME Pool!PoolAssumption, PoolTyped, Pool!CapHolds, [Pool!Next]_(Pool!vars)
  PROVE  Pool!CapHolds'
<1>0. Pool!Size = Cardinality(Occupied) /\ Pool!Size' = Cardinality(Occupied')
  BY CountedAlike DEF Pool!Size, Occupied
<1> USE DEF PoolTyped, Pool!PoolAssumption, Pool!Procs, Pool!Mine, Pool!Vacate, Pool!Goto
<1>1. ASSUME NEW p \in Preparers, Pool!Reserve(p), pp_slots' # pp_slots
      PROVE  Fills(UidOf[p]) /\ Cardinality(Occupied \ {UidOf[p]}) < Cap
  <2>1. Cardinality(Occupied) < Cap /\ pp_slots[UidOf[p]] = None
        /\ pp_slots' = [pp_slots EXCEPT ![UidOf[p]] = p]
    BY <1>0, <1>1 DEF Pool!Reserve, Pool!HasRoom
  <2>2. Occupied \ {UidOf[p]} = Occupied  BY <2>1 DEF Occupied
  <2> QED  BY <2>1, <2>2 DEF Fills
<1>2. ASSUME NEW t \in Turns, Pool!Acquire(t),
             ~ \A u \in Uids : pp_slots'[u] \in {pp_slots[u], None}
      PROVE  Fills(UidOf[t]) /\ Cardinality(Occupied \ {UidOf[t]}) < Cap
  <2>1. Pool!AdmitOwn(t, pp_slots[UidOf[t]])  BY <1>2 DEF Pool!Acquire, Pool!Claim
  <2>2. /\ ~(Cardinality({u \in Uids \ {UidOf[t]} : pp_slots[u] # None}) >= Cap)
        /\ pp_slots' = [pp_slots EXCEPT ![UidOf[t]] = t]
    BY <1>2, <2>1, CountedAlike DEF Pool!AdmitOwn
  <2>3. {u \in Uids \ {UidOf[t]} : pp_slots[u] # None} = Occupied \ {UidOf[t]}
    BY DEF Occupied
  <2>4. Cardinality(Occupied \ {UidOf[t]}) \in Nat
    <3>1. Occupied \ {UidOf[t]} \in SUBSET Uids  BY DEF Occupied
    <3>2. IsFiniteSet(Uids)  BY CountedAlike
    <3> QED  BY <3>1, <3>2, FS_Subset, FS_CardinalityType
  <2>5. Cap \in Nat  OBVIOUS
  <2>6. Fills(UidOf[t])  BY <2>2 DEF Fills
  <2> HIDE DEF PoolTyped, Pool!PoolAssumption, Pool!Procs, Pool!Mine, Pool!Vacate, Pool!Goto
  <2>7. ~(Cardinality(Occupied \ {UidOf[t]}) >= Cap)  BY <2>2, <2>3
  <2>8. Cardinality(Occupied \ {UidOf[t]}) < Cap  BY <2>4, <2>5, <2>7
  <2> QED  BY <2>6, <2>8
<1>3. ASSUME ~ \E p \in Preparers : Pool!Reserve(p), ~ \E t \in Turns : Pool!Acquire(t)
      PROVE  \A u \in Uids : pp_slots'[u] \in {pp_slots[u], None}
  <2>1. ASSUME NEW p \in Preparers,
               \/ Pool!Abandon(p) \/ Pool!PassCheck(p) \/ Pool!Install(p)
               \/ Pool!TimerFires(p) \/ Pool!ExpirePrepared(p) \/ Pool!RetireClosedPrepared(p)
               \/ Pool!DeadlinePasses(p)
        PROVE  \A u \in Uids : pp_slots'[u] \in {pp_slots[u], None}
    BY <2>1 DEF Pool!Abandon, Pool!PassCheck, Pool!Install, Pool!TimerFires,
       Pool!ExpirePrepared, Pool!RetireClosedPrepared, Pool!DeadlinePasses, Pool!Retire
  <2>2. ASSUME NEW t \in Turns,
               \/ Pool!RunHook(t) \/ Pool!AbandonOwn(t) \/ Pool!PassOwn(t)
               \/ Pool!InstallOwn(t) \/ Pool!Release(t)
        PROVE  \A u \in Uids : pp_slots'[u] \in {pp_slots[u], None}
    BY <2>2 DEF Pool!RunHook, Pool!AbandonOwn, Pool!PassOwn, Pool!InstallOwn, Pool!Release,
       Pool!GiveBack
  <2>3. ASSUME NEW p \in Pool!Procs,
               \/ Pool!OpenReturns(p) \/ Pool!ClosePooled(p) \/ Pool!CallerLeaves(p)
               \/ Pool!ProviderEnds(p)
        PROVE  pp_slots' = pp_slots
    BY <2>3 DEF Pool!OpenReturns, Pool!ClosePooled, Pool!CallerLeaves, Pool!ProviderEnds
  <2>4. ASSUME \/ \E u \in Uids : Pool!CancelPreparedLive(u)
               \/ Pool!CancelService \/ Pool!Sweep \/ UNCHANGED Pool!vars
        PROVE  \A u \in Uids : pp_slots'[u] \in {pp_slots[u], None}
    BY <2>4 DEF Pool!CancelPreparedLive, Pool!CancelService, Pool!Sweep, Pool!vars
  <2> QED  BY <1>3, <2>1, <2>2, <2>3, <2>4 DEF Pool!Next, Pool!ProcStep
<1>4. \A p \in Pool!Procs : UidOf[p] \in Uids  OBVIOUS
<1>5. Cardinality(Occupied') <= Cap
  BY <1>0, <1>1, <1>2, <1>3, <1>4, RoomForOne DEF Pool!CapHolds
<1> QED  BY <1>0, <1>5 DEF Pool!CapHolds

(* Prepared, opening and active entries together never exceed the cap.     *)
THEOREM CapHoldsAlways ==
  ASSUME Pool!PoolAssumption PROVE Pool!Spec => []Pool!CapHolds
<1>1. Pool!Init => PoolInv /\ Pool!CapHolds
  <2> SUFFICES ASSUME Pool!Init PROVE PoolInv /\ Pool!CapHolds  OBVIOUS
  <2>1. PoolInv
    BY DEF Pool!Init, PoolInv, PoolTyped, EnteredOnce, HoldsClaimed, HeldApart, Pool!NoLeak,
       Pool!Unclosed, Pool!PoolAssumption, Pool!Procs, Active, Entries, Pool!Mine
  <2>2. {u \in Uids : pp_slots[u] # None} = {} /\ Cap \in Nat
    BY DEF Pool!Init, Pool!PoolAssumption
  <2>3. Pool!Size = 0  BY <2>2, CountedAlike, FS_EmptySet DEF Pool!Size
  <2> QED  BY <2>1, <2>2, <2>3 DEF Pool!CapHolds
<1>2. PoolInv /\ Pool!CapHolds /\ [Pool!Next]_(Pool!vars) => (PoolInv /\ Pool!CapHolds)'
  BY PoolStep, CapStep DEF PoolInv
<1> QED  BY <1>1, <1>2, PTL DEF Pool!Spec
-----------------------------------------------------------------------------
(* The dispatcher of the semantic shadow.                                  *)

Observations == [turn : Observed, relation : Shadow!Relations \union {"invalid"}]
InHands == ss_worker \in {"build", "timed", "export"}
Places == {"unseen", "admitted", "sent", "over"}
Sending == {t \in Observed : ss_observe[t] = "sent"}

ShadowTyped ==
  /\ ss_queue \in Seq(Observations) /\ ss_stats \in [Shadow!Counters -> Nat]
  /\ ss_observe \in [Observed -> Places]
  /\ IsFiniteSet(ss_exports) /\ IsFiniteSet(Sending)
  /\ InHands => ss_item \in Observations

(* A turn whose Observe has sent is queued, in the worker's hands or       *)
(* exported, once; no other one is.                                        *)
Waits(t) == ss_observe[t] \in {"unseen", "admitted"}
EachOnce ==
  /\ \A i \in 1..Len(ss_queue) : ~Waits(ss_queue[i].turn)
  /\ \A i, j \in 1..Len(ss_queue) : ss_queue[i].turn = ss_queue[j].turn => i = j
  /\ \A e \in ss_exports : ~Waits(e.turn) /\ \A i \in 1..Len(ss_queue) : ss_queue[i].turn # e.turn
  /\ InHands => /\ ~Waits(ss_item.turn)
                /\ \A i \in 1..Len(ss_queue) : ss_queue[i].turn # ss_item.turn
                /\ ss_worker # "export" => \A e \in ss_exports : e.turn # ss_item.turn

(* What was sent, counted as accepted or about to be, and is neither       *)
(* counted, queued nor in the worker's hands was dropped by Close or by    *)
(* the worker it stopped.                                                  *)
Known == ss_stats["exported"] + ss_stats["exportFailed"] + ss_stats["invalidGraph"] + Len(ss_queue)
           + (IF InHands THEN 1 ELSE 0)
Sent == ss_stats["accepted"] + Cardinality(Sending)

Accounted ==
  /\ Known <= Sent /\ (~ss_cancelled => Known = Sent)
  /\ Cardinality(ss_exports) = ss_stats["exported"] + ss_stats["exportFailed"]
                                  + (IF ss_worker = "export" THEN 1 ELSE 0)

(* Nobody is between the look at the closed channel and the end of Observe *)
(* once Close holds admission; the worker leaves for the closed channel.   *)
Closing ==
  /\ ss_closing \in {"open", "closing", "closed"} /\ ss_done \in BOOLEAN /\ ss_cancelled \in BOOLEAN
  /\ ~ss_done => ss_stats["droppedClosed"] = 0
  /\ ss_closing = "open" <=> ~ss_done
  /\ ss_cancelled => ss_done
  /\ ss_done => \A t \in Observed : ss_observe[t] \notin {"admitted", "sent"}
  /\ ss_closing = "closed" => ss_queue = << >>

ShadowInv == ShadowTyped /\ EachOnce /\ Accounted /\ Closing

(* One counter goes up by one, the others stay.                            *)
LEMMA CountsOne ==
  ASSUME ss_stats \in [Shadow!Counters -> Nat], NEW c \in Shadow!Counters,
         ss_stats' = Shadow!Counts(c)
  PROVE  /\ ss_stats' \in [Shadow!Counters -> Nat] /\ ss_stats'[c] = ss_stats[c] + 1
         /\ \A k \in Shadow!Counters \ {c} : ss_stats'[k] = ss_stats[k]
BY DEF Shadow!Counts

(* What the calls of Observe hold when one of them goes on.                *)
LEMMA ObserveMoves ==
  ASSUME ShadowInv, NEW t \in Observed, NEW p \in Places,
         ss_observe' = [ss_observe EXCEPT ![t] = p]
  PROVE  /\ ss_observe' \in [Observed -> Places] /\ ss_observe'[t] = p
         /\ \A u : u # t => ss_observe'[u] = ss_observe[u]
         /\ IsFiniteSet(Sending') /\ Cardinality(Sending) \in Nat
         /\ p # "sent" /\ ss_observe[t] # "sent" => Sending' = Sending
         /\ p = "sent" /\ ss_observe[t] # "sent" => Cardinality(Sending') = Cardinality(Sending) + 1
         /\ p # "sent" /\ ss_observe[t] = "sent" => Cardinality(Sending') = Cardinality(Sending) - 1
<1>1. ss_observe \in [Observed -> Places] /\ IsFiniteSet(Sending)  BY DEF ShadowInv, ShadowTyped
<1>2. /\ ss_observe' \in [Observed -> Places] /\ ss_observe'[t] = p
      /\ \A u \in Observed : u # t => ss_observe'[u] = ss_observe[u]
  BY <1>1
<1>3. /\ p # "sent" /\ ss_observe[t] # "sent" => Sending' = Sending
      /\ p = "sent" /\ ss_observe[t] # "sent" => Sending' = Sending \union {t} /\ t \notin Sending
      /\ p # "sent" /\ ss_observe[t] = "sent" => Sending' = Sending \ {t} /\ t \in Sending
      /\ p = "sent" /\ ss_observe[t] = "sent" => Sending' = Sending
  BY <1>2 DEF Sending
<1>4. Cardinality(Sending) \in Nat  BY <1>1, FS_CardinalityType
<1>5. IsFiniteSet(Sending \union {t}) /\ (t \notin Sending => Cardinality(Sending \union {t}) = Cardinality(Sending) + 1)
  BY <1>1, FS_AddElement
<1>6. IsFiniteSet(Sending \ {t}) /\ (t \in Sending => Cardinality(Sending \ {t}) = Cardinality(Sending) - 1)
  BY <1>1, FS_RemoveElement
<1>7. \A u : u # t => ss_observe'[u] = ss_observe[u]  BY <1>1
<1> HIDE DEF Sending
<1> QED  BY <1>1, <1>2, <1>3, <1>4, <1>5, <1>6, <1>7

(* Where nobody observes, the calls of Observe are as they were.           *)
LEMMA ObserveStays ==
  ASSUME ShadowInv, ss_observe' = ss_observe
  PROVE  /\ Sending' = Sending /\ IsFiniteSet(Sending) /\ Cardinality(Sending) \in Nat
         /\ \A t : Waits(t)' = Waits(t)
<1>1. Sending' = Sending /\ \A t : Waits(t)' = Waits(t)  BY DEF Sending, Waits
<1>2. IsFiniteSet(Sending)  BY DEF ShadowInv, ShadowTyped
<1> QED  BY <1>1, <1>2, FS_CardinalityType

(* The counters that a step leaves alone keep the account.                 *)
LEMMA CountersAre ==
  ASSUME ShadowInv
  PROVE  /\ ss_stats["accepted"] \in Nat /\ ss_stats["exported"] \in Nat /\ ss_stats["exportFailed"] \in Nat
         /\ ss_stats["invalidGraph"] \in Nat /\ ss_stats["droppedClosed"] \in Nat
         /\ Len(ss_queue) \in Nat
BY DEF ShadowInv, ShadowTyped, Shadow!Counters

(* Observe takes admission and looks at the closed channel.                *)
LEMMA EnterStep ==
  ASSUME ShadowInv, NEW t \in Observed, Shadow!ObserveEnter(t)
  PROVE  ShadowInv'
<1>1. /\ ss_observe[t] = "unseen" /\ ss_closing # "closing"
      /\ UNCHANGED <<ss_queue, ss_done, ss_cancelled, ss_closing, ss_worker, ss_item, ss_exports>>
  BY DEF Shadow!ObserveEnter
<1>2. PICK p \in {"admitted", "over"} :
        /\ ss_observe' = [ss_observe EXCEPT ![t] = p]
        /\ p = "over" => ss_done /\ ss_stats' = Shadow!Counts("droppedClosed")
        /\ p = "admitted" => ~ss_done /\ ss_stats' = ss_stats
  BY DEF Shadow!ObserveEnter, Shadow!Admits
<1>3. p \in Places /\ p # "sent"  BY DEF Places
<1>4. /\ ss_observe' \in [Observed -> Places] /\ ss_observe'[t] = p
      /\ \A u : u # t => ss_observe'[u] = ss_observe[u]
      /\ IsFiniteSet(Sending') /\ Sending' = Sending
  BY <1>1, <1>2, <1>3, ObserveMoves
<1>5. /\ ss_stats' \in [Shadow!Counters -> Nat]
      /\ \A k \in {"accepted", "exported", "exportFailed", "invalidGraph"} : ss_stats'[k] = ss_stats[k]
      /\ ~ss_done => ss_stats'["droppedClosed"] = ss_stats["droppedClosed"]
  <2>1. ss_stats \in [Shadow!Counters -> Nat]  BY DEF ShadowInv, ShadowTyped
  <2>2. CASE p = "over"
    <3>1. /\ ss_stats' \in [Shadow!Counters -> Nat]
          /\ \A k \in Shadow!Counters \ {"droppedClosed"} : ss_stats'[k] = ss_stats[k]
      BY <1>2, <2>1, <2>2, CountsOne DEF Shadow!Counters
    <3> QED  BY <1>2, <2>2, <3>1 DEF Shadow!Counters
  <2>3. CASE p = "admitted"  BY <1>2, <2>1, <2>3
  <2> QED  BY <1>2, <2>2, <2>3
<1>6. \A u : Waits(u) => u = t \/ Waits(u)'  BY <1>4 DEF Waits
<1>7. \A u : Waits(u)' => Waits(u)  BY <1>1, <1>4 DEF Waits
<1> USE DEF ShadowInv
<1>8. ShadowTyped'  BY <1>1, <1>4, <1>5 DEF ShadowTyped, InHands
<1>9. EachOnce'  BY <1>1, <1>7 DEF EachOnce, InHands
<1>10. Accounted'  BY <1>1, <1>4, <1>5 DEF Accounted, Known, Sent, InHands
<1>11. Closing'  BY <1>1, <1>2, <1>4, <1>5 DEF Closing
<1> QED  BY <1>8, <1>9, <1>10, <1>11

(* Observe puts the observation in the queue, or drops it.                 *)
LEMMA SendStep ==
  ASSUME ShadowInv, NEW t \in Observed, NEW s \in Shadow!Signals, Shadow!ObserveSend(t, s)
  PROVE  ShadowInv'
<1> DEFINE o == [turn |-> t, relation |-> Shadow!relationOf(s)]
<1>1. o \in Observations /\ o.turn = t
  BY DEF Observations, Shadow!relationOf, Shadow!Relations, Shadow!Signals
<1>2. /\ ss_observe[t] = "admitted"
      /\ UNCHANGED <<ss_done, ss_cancelled, ss_closing, ss_worker, ss_item, ss_exports>>
  BY DEF Shadow!ObserveSend
<1>3. ss_observe[t] # "sent" /\ Waits(t) /\ ~ss_done  BY <1>2 DEF Waits, ShadowInv, Closing
<1>4. CASE ss_queue' = Append(ss_queue, o) /\ ss_observe' = [ss_observe EXCEPT ![t] = "sent"] /\ ss_stats' = ss_stats
  <2> HIDE DEF o
  <2>1. /\ ss_observe' \in [Observed -> Places] /\ ss_observe'[t] = "sent"
        /\ \A u : u # t => ss_observe'[u] = ss_observe[u]
        /\ IsFiniteSet(Sending') /\ Cardinality(Sending) \in Nat
        /\ Cardinality(Sending') = Cardinality(Sending) + 1
    BY <1>3, <1>4, ObserveMoves DEF Places
  <2>2. \A u : u # t /\ ~Waits(u) => ss_observe'[u] \notin {"unseen", "admitted"}  BY <2>1 DEF Waits
  <2>8. ss_observe'[t] \notin {"unseen", "admitted"}  BY <2>1
  <2>3. /\ ss_queue' \in Seq(Observations) /\ Len(ss_queue') = Len(ss_queue) + 1
        /\ \A i \in 1..Len(ss_queue) : ss_queue'[i] = ss_queue[i]
        /\ ss_queue'[Len(ss_queue) + 1] = o /\ Len(ss_queue) \in Nat
    BY <1>1, <1>4 DEF ShadowInv, ShadowTyped
  <2> USE DEF ShadowInv
  <2>4. ShadowTyped'  BY <1>2, <1>4, <2>1, <2>3 DEF ShadowTyped, InHands
  <2>5. EachOnce'
    <3>1. \A i \in 1..Len(ss_queue') : IF i = Len(ss_queue) + 1 THEN ss_queue'[i].turn = t
                                    ELSE i \in 1..Len(ss_queue) /\ ss_queue'[i] = ss_queue[i]
      BY <1>1, <2>3
    <3>2. /\ \A i \in 1..Len(ss_queue) : ss_queue[i].turn # t /\ ~Waits(ss_queue[i].turn)
          /\ \A e \in ss_exports : e.turn # t /\ ~Waits(e.turn)
          /\ InHands => ss_item.turn # t /\ ~Waits(ss_item.turn)
      BY <1>3 DEF EachOnce
    <3>3. \A i \in 1..Len(ss_queue') : ss_observe'[ss_queue'[i].turn] \notin {"unseen", "admitted"}
      BY <2>2, <2>8, <3>1, <3>2
    <3>4. \A i, j \in 1..Len(ss_queue') : ss_queue'[i].turn = ss_queue'[j].turn => i = j
      BY <3>1, <3>2 DEF EachOnce
    <3>5. \A e \in ss_exports : \A i \in 1..Len(ss_queue') : ss_queue'[i].turn # e.turn
      BY SMTT(30), <3>1, <3>2 DEF EachOnce
    <3>6. InHands => \A i \in 1..Len(ss_queue') : ss_queue'[i].turn # ss_item.turn
      BY <3>1, <3>2 DEF EachOnce
    <3>7. /\ \A e \in ss_exports : ss_observe'[e.turn] \notin {"unseen", "admitted"}
          /\ InHands => ss_observe'[ss_item.turn] \notin {"unseen", "admitted"}
      BY <2>2, <3>2
    <3>8. InHands /\ ss_worker # "export" => \A e \in ss_exports : e.turn # ss_item.turn
      BY DEF EachOnce
    <3>9. InHands' = InHands  BY <1>2 DEF InHands
    <3> QED  BY <1>2, <3>3, <3>4, <3>5, <3>6, <3>7, <3>8, <3>9 DEF EachOnce, Waits
  <2>6. Accounted'
    <3>1. Known' = Known + 1  BY <1>2, <1>4, <2>3, CountersAre DEF Known, InHands
    <3>2. Sent' = Sent + 1  BY <1>4, <2>1, CountersAre DEF Sent
    <3>3. Known \in Nat  BY CountersAre DEF Known, InHands
    <3>4. Sent \in Nat  BY <2>1, CountersAre DEF Sent
    <3> QED  BY <1>2, <1>4, <3>1, <3>2, <3>3, <3>4 DEF Accounted
  <2>7. Closing'
    <3>1. ss_closing # "closed"  BY <1>3 DEF Closing
    <3> QED  BY <1>2, <1>3, <1>4, <3>1 DEF Closing
  <2> QED  BY <2>4, <2>5, <2>6, <2>7
<1>5. CASE ss_queue' = ss_queue /\ ss_observe' = [ss_observe EXCEPT ![t] = "over"] /\ ss_stats' = Shadow!Counts("droppedFull")
  <2>1. /\ ss_observe' \in [Observed -> Places] /\ ss_observe'[t] = "over"
        /\ \A u : u # t => ss_observe'[u] = ss_observe[u]
        /\ IsFiniteSet(Sending') /\ Sending' = Sending
    BY <1>3, <1>5, ObserveMoves DEF Places
  <2>2. \A u : Waits(u)' => Waits(u)  BY <2>1 DEF Waits
  <2>3. /\ ss_stats' \in [Shadow!Counters -> Nat]
        /\ \A k \in {"accepted", "exported", "exportFailed", "invalidGraph", "droppedClosed"} :
              ss_stats'[k] = ss_stats[k]
    BY <1>5, CountsOne DEF ShadowInv, ShadowTyped, Shadow!Counters
  <2> USE DEF ShadowInv
  <2>4. ShadowTyped'  BY <1>2, <1>5, <2>1, <2>3 DEF ShadowTyped, InHands
  <2>5. EachOnce'  BY <1>2, <1>5, <2>2 DEF EachOnce, InHands
  <2>6. Accounted'  BY <1>2, <1>5, <2>1, <2>3 DEF Accounted, Known, Sent, InHands
  <2>7. Closing'  BY <1>2, <1>3, <1>5, <2>3 DEF Closing
  <2> QED  BY <2>4, <2>5, <2>6, <2>7
<1> QED  BY <1>4, <1>5 DEF Shadow!ObserveSend

(* Observe counts what it sent, wherever the worker is with it.            *)
LEMMA CountStep ==
  ASSUME ShadowInv, NEW t \in Observed, Shadow!ObserveCount(t)
  PROVE  ShadowInv'
<1>1. /\ ss_observe[t] = "sent" /\ ss_observe' = [ss_observe EXCEPT ![t] = "over"]
      /\ ss_stats' = Shadow!Counts("accepted")
      /\ UNCHANGED <<ss_queue, ss_done, ss_cancelled, ss_closing, ss_worker, ss_item, ss_exports>>
  BY DEF Shadow!ObserveCount
<1>2. /\ ss_observe' \in [Observed -> Places] /\ ss_observe'[t] = "over"
      /\ \A u : u # t => ss_observe'[u] = ss_observe[u]
      /\ IsFiniteSet(Sending') /\ Cardinality(Sending) \in Nat
      /\ Cardinality(Sending') = Cardinality(Sending) - 1
  BY <1>1, ObserveMoves DEF Places
<1>3. \A u : Waits(u)' => Waits(u)  BY <1>2 DEF Waits
<1>4. /\ ss_stats' \in [Shadow!Counters -> Nat] /\ ss_stats'["accepted"] = ss_stats["accepted"] + 1
      /\ \A k \in {"exported", "exportFailed", "invalidGraph", "droppedClosed"} : ss_stats'[k] = ss_stats[k]
  BY <1>1, CountsOne DEF ShadowInv, ShadowTyped, Shadow!Counters
<1> USE DEF ShadowInv
<1>5. ShadowTyped'  BY <1>1, <1>2, <1>4 DEF ShadowTyped, InHands
<1>6. EachOnce'  BY <1>1, <1>3 DEF EachOnce, InHands
<1>7. Accounted'
  <2>1. Known' = Known  BY <1>1, <1>4 DEF Known, InHands
  <2>2. Sent' = Sent  BY <1>2, <1>4, CountersAre DEF Sent
  <2> QED  BY <1>1, <1>4, <2>1, <2>2 DEF Accounted
<1>8. Closing'  BY <1>1, <1>2, <1>4 DEF Closing
<1> QED  BY <1>5, <1>6, <1>7, <1>8

(* The worker takes the head of the queue, or Close throws it away.        *)
LEMMA HeadGoes ==
  ASSUME ShadowInv, ss_queue # << >>, ss_queue' = Tail(ss_queue)
  PROVE  /\ ss_queue' \in Seq(Observations) /\ Len(ss_queue') = Len(ss_queue) - 1 /\ Len(ss_queue) \in Nat
         /\ Head(ss_queue) = ss_queue[1] /\ Head(ss_queue) \in Observations /\ 1 \in 1..Len(ss_queue)
         /\ \A i \in 1..Len(ss_queue') : ss_queue'[i] = ss_queue[i + 1] /\ i + 1 \in 1..Len(ss_queue) /\ i + 1 # 1
BY DEF ShadowInv, ShadowTyped

(* The worker takes a job from the queue.                                  *)
LEMMA TakeStep ==
  ASSUME ShadowInv, Shadow!RunTake
  PROVE  ShadowInv'
<1>1. /\ ss_queue # << >> /\ ss_queue' = Tail(ss_queue) /\ ss_item' = Head(ss_queue)
      /\ ss_worker = "select" /\ ss_worker' = "build"
      /\ UNCHANGED <<ss_observe, ss_done, ss_cancelled, ss_closing, ss_exports, ss_stats>>
  BY DEF Shadow!RunTake
<1>2. ~InHands /\ InHands' /\ ss_worker # "export" /\ ss_worker' # "export"  BY <1>1 DEF InHands
<1> USE <1>1, <1>2, HeadGoes, ObserveStays DEF ShadowInv
<1>3. ShadowTyped'  BY DEF ShadowTyped
<1>4. EachOnce'
  <2>1. \A i \in 1..Len(ss_queue') : ~Waits(ss_queue'[i].turn) /\ ss_queue'[i].turn # ss_item'.turn
    BY DEF EachOnce
  <2>2. \A i, j \in 1..Len(ss_queue') : ss_queue'[i].turn = ss_queue'[j].turn => i = j
    BY DEF EachOnce
  <2>3. \A e \in ss_exports : \A i \in 1..Len(ss_queue') : ss_queue'[i].turn # e.turn
    BY DEF EachOnce
  <2>4. ~Waits(ss_item'.turn) /\ \A e \in ss_exports : ~Waits(e.turn) /\ e.turn # ss_item'.turn
    BY DEF EachOnce
  <2> QED  BY <2>1, <2>2, <2>3, <2>4 DEF EachOnce
<1>5. Accounted'
  <2>1. Known' = Known  BY CountersAre DEF Known
  <2>2. Sent' = Sent  BY DEF Sent
  <2> QED  BY <2>1, <2>2 DEF Accounted
<1>6. Closing'  BY DEF Closing
<1> QED  BY <1>3, <1>4, <1>5, <1>6

(* The close drains one job of the queue.                                  *)
LEMMA DrainOneStep ==
  ASSUME ShadowInv, Shadow!CloseDrain
  PROVE  ShadowInv'
<1>1. /\ ss_closing = "closing" /\ ss_cancelled
      /\ UNCHANGED <<ss_observe, ss_done, ss_cancelled, ss_worker, ss_item, ss_exports, ss_stats>>
  BY DEF Shadow!CloseDrain
<1> USE <1>1, ObserveStays DEF ShadowInv, InHands
<1>2. CASE ss_queue = << >> /\ ss_closing' = "closed" /\ ss_queue' = ss_queue
  BY <1>2 DEF ShadowTyped, EachOnce, Accounted, Known, Sent, Closing
<1>3. CASE ss_queue # << >> /\ ss_queue' = Tail(ss_queue) /\ ss_closing' = ss_closing
  <2> USE <1>3, HeadGoes
  <2>2. ShadowTyped'  BY DEF ShadowTyped
  <2>3. EachOnce'  BY DEF EachOnce
  <2>4. Accounted'  BY SMTT(30), CountersAre DEF Accounted, Known, Sent
  <2>5. Closing'  BY DEF Closing
  <2> QED  BY <2>2, <2>3, <2>4, <2>5
<1> QED  BY <1>2, <1>3 DEF Shadow!CloseDrain

(* The exporter is given the observation in the worker's hands.            *)
LEMMA GiveStep ==
  ASSUME ShadowInv, Shadow!RunTimed
  PROVE  ShadowInv'
<1>1. /\ ss_worker = "timed"
      /\ UNCHANGED <<ss_observe, ss_queue, ss_done, ss_cancelled, ss_closing, ss_item, ss_stats>>
  BY DEF Shadow!RunTimed
<1> USE <1>1, ObserveStays DEF ShadowInv, InHands
<1>2. CASE ss_cancelled /\ ss_worker' = "done" /\ ss_exports' = ss_exports
  <2>1. Accounted'  BY <1>2, CountersAre DEF Accounted, Known, Sent
  <2> QED  BY <1>2, <2>1 DEF ShadowTyped, EachOnce, Closing
<1>3. CASE ss_worker' = "export" /\ ss_exports' = ss_exports \union {ss_item}
  <2>1. ss_item \notin ss_exports  BY DEF EachOnce
  <2>2. IsFiniteSet(ss_exports)  BY DEF ShadowTyped
  <2>3. IsFiniteSet(ss_exports') /\ Cardinality(ss_exports') = Cardinality(ss_exports) + 1
    BY <1>3, <2>1, <2>2, FS_AddElement
  <2>4. ShadowTyped'  BY <1>3, <2>3 DEF ShadowTyped
  <2>5. EachOnce'  BY <1>3 DEF EachOnce
  <2>6. Accounted'  BY <1>3, <2>3, CountersAre DEF Accounted, Known, Sent
  <2>7. Closing'  BY DEF Closing
  <2> QED  BY <2>4, <2>5, <2>6, <2>7
<1> QED  BY <1>2, <1>3 DEF Shadow!RunTimed

(* An export ended and is counted.                                         *)
LEMMA ExportStep ==
  ASSUME ShadowInv, Shadow!RunExport
  PROVE  ShadowInv'
<1>1. /\ ss_worker = "export" /\ ss_worker' = "select"
      /\ UNCHANGED <<ss_observe, ss_queue, ss_done, ss_cancelled, ss_closing, ss_item, ss_exports>>
  BY DEF Shadow!RunExport
<1>2. PICK c \in {"exported", "exportFailed"} : ss_stats' = Shadow!Counts(c)  BY DEF Shadow!RunExport
<1>3. /\ ss_stats' \in [Shadow!Counters -> Nat] /\ ss_stats'[c] = ss_stats[c] + 1
      /\ \A k \in {"exported", "exportFailed", "invalidGraph", "accepted", "droppedClosed"} \ {c} :
            ss_stats'[k] = ss_stats[k]
  BY <1>2, CountsOne DEF ShadowInv, ShadowTyped, Shadow!Counters
<1>4. /\ ss_stats'["exported"] + ss_stats'["exportFailed"] = ss_stats["exported"] + ss_stats["exportFailed"] + 1
      /\ ss_stats'["invalidGraph"] = ss_stats["invalidGraph"]
      /\ ss_stats'["accepted"] = ss_stats["accepted"]
      /\ ss_stats'["droppedClosed"] = ss_stats["droppedClosed"]
  <2>1. CASE c = "exported"  BY <1>3, <2>1, CountersAre
  <2>2. CASE c = "exportFailed"  BY <1>3, <2>2, CountersAre
  <2> QED  BY <2>1, <2>2
<1>5. InHands /\ ~InHands' /\ ss_worker' # "export"  BY <1>1 DEF InHands
<1> USE <1>1, <1>5, ObserveStays DEF ShadowInv
<1>6. ShadowTyped'  BY <1>3 DEF ShadowTyped
<1>7. EachOnce'  BY DEF EachOnce
<1>8. Accounted'
  <2>1. Known' = Known /\ Sent' = Sent
    <3>1. ss_stats'["exported"] \in Nat /\ ss_stats'["exportFailed"] \in Nat  BY <1>3 DEF Shadow!Counters
    <3> QED  BY <1>4, <3>1, CountersAre DEF Known, Sent
  <2>2. Cardinality(ss_exports) = ss_stats["exported"] + ss_stats["exportFailed"] + 1  BY DEF Accounted
  <2> QED  BY <1>4, <2>1, <2>2, CountersAre DEF Accounted
<1>9. Closing'  BY <1>4 DEF Closing
<1> QED  BY <1>6, <1>7, <1>8, <1>9

(* The worker builds the graph: it leaves, gives up on it or goes on.      *)
LEMMA BuildStep ==
  ASSUME ShadowInv, Shadow!RunBuild
  PROVE  ShadowInv'
<1>1. /\ ss_worker = "build"
      /\ UNCHANGED <<ss_observe, ss_queue, ss_done, ss_cancelled, ss_closing, ss_item, ss_exports>>
  BY DEF Shadow!RunBuild
<1> USE <1>1, ObserveStays, CountersAre DEF ShadowInv, InHands
<1>2. CASE ss_cancelled /\ ss_worker' = "done" /\ ss_stats' = ss_stats
  <2>1. Accounted'
    <3>1. Known' + 1 = Known /\ Sent' = Sent /\ Known' \in Nat /\ Sent \in Nat  BY <1>2 DEF Known, Sent
    <3> QED  BY <1>2, <3>1 DEF Accounted
  <2> QED  BY <1>2, <2>1 DEF ShadowTyped, EachOnce, Closing
<1>3. CASE ss_worker' = "timed" /\ ss_stats' = ss_stats
  BY <1>3 DEF ShadowTyped, EachOnce, Accounted, Known, Sent, Closing
<1>4. CASE ss_worker' = "select" /\ ss_stats' = Shadow!Counts("invalidGraph")
  <2>1. /\ ss_stats' \in [Shadow!Counters -> Nat] /\ ss_stats'["invalidGraph"] = ss_stats["invalidGraph"] + 1
        /\ \A k \in {"exported", "exportFailed", "accepted", "droppedClosed"} : ss_stats'[k] = ss_stats[k]
    BY <1>4, CountsOne DEF ShadowTyped, Shadow!Counters
  <2>2. ShadowTyped'  BY <1>4, <2>1 DEF ShadowTyped
  <2>3. EachOnce'  BY <1>4 DEF EachOnce
  <2>4. Accounted'
    <3>1. /\ ss_stats'["exported"] = ss_stats["exported"] /\ ss_stats'["exportFailed"] = ss_stats["exportFailed"]
          /\ ss_stats'["accepted"] = ss_stats["accepted"]
          /\ ss_stats'["invalidGraph"] = ss_stats["invalidGraph"] + 1
      BY <2>1
    <3>2. Known = ss_stats["exported"] + ss_stats["exportFailed"] + ss_stats["invalidGraph"] + Len(ss_queue) + 1
      BY DEF Known
    <3>3. Known' = ss_stats["exported"] + ss_stats["exportFailed"] + (ss_stats["invalidGraph"] + 1) + Len(ss_queue) + 0
      BY <1>4, <3>1 DEF Known
    <3>4. Known' = Known  BY <3>2, <3>3, CountersAre
    <3>5. Sent' = Sent  BY <3>1 DEF Sent
    <3> QED  BY <1>4, <3>1, <3>4, <3>5 DEF Accounted
  <2>5. Closing'  BY <2>1 DEF Closing
  <2> QED  BY <2>2, <2>3, <2>4, <2>5
<1> QED  BY <1>2, <1>3, <1>4 DEF Shadow!RunBuild

(* Close locks admission, and cancels; the worker leaves for the channel.  *)
LEMMA CloseStep ==
  ASSUME ShadowInv, Shadow!CloseDone \/ Shadow!CloseCancel \/ Shadow!RunDone \/ UNCHANGED Shadow!shadowVars
  PROVE  ShadowInv'
<1>1. UNCHANGED <<ss_observe, ss_queue, ss_item, ss_exports, ss_stats>>
  BY DEF Shadow!CloseDone, Shadow!CloseCancel, Shadow!RunDone, Shadow!shadowVars
<1> USE <1>1, ObserveStays DEF ShadowInv, InHands
<1>2. CASE Shadow!CloseDone
  <2>1. Closing'  BY <1>2 DEF Shadow!CloseDone, Shadow!Locks, Closing
  <2> QED  BY <1>2, <2>1 DEF Shadow!CloseDone, ShadowTyped, EachOnce, Accounted, Known, Sent
<1>3. CASE Shadow!CloseCancel
  BY <1>3 DEF Shadow!CloseCancel, ShadowTyped, EachOnce, Accounted, Known, Sent, Closing
<1>4. CASE Shadow!RunDone
  BY <1>4 DEF Shadow!RunDone, ShadowTyped, EachOnce, Accounted, Known, Sent, Closing
<1>5. CASE UNCHANGED Shadow!shadowVars
  BY <1>5 DEF Shadow!shadowVars, ShadowTyped, EachOnce, Accounted, Known, Sent, Closing
<1> QED  BY <1>2, <1>3, <1>4, <1>5

(* Every step of the callers, the worker and the close keeps it.           *)
LEMMA ShadowStep == ShadowInv /\ [Shadow!ShadowNext]_(Shadow!shadowVars) => ShadowInv'
BY EnterStep, SendStep, CountStep, TakeStep, DrainOneStep, GiveStep, ExportStep, BuildStep, CloseStep
   DEF Shadow!ShadowNext, Shadow!ShadowObserves, Shadow!ShadowWorks, Shadow!ShadowCloses

(* Once Close has returned the queue stays empty; Export is called once    *)
(* for an observation; and what became of the observations accounts for    *)
(* all that were sent until Close cancels, and never for more, though each *)
(* is counted as accepted after it was sent.  For any number of callers    *)
(* and any capacity.                                                       *)
THEOREM NothingHeldAfterCloseAlways ==
  Shadow!ShadowSpec => []NothingHeldAfterClose
<1>1. Shadow!ShadowInit => ShadowInv
  <2> SUFFICES ASSUME Shadow!ShadowInit PROVE ShadowInv  OBVIOUS
  <2>1. ss_observe = [t \in Observed |-> "unseen"]  BY DEF Shadow!ShadowInit
  <2>2. Sending = {} /\ ss_observe \in [Observed -> Places]  BY <2>1 DEF Sending, Places
  <2>3. IsFiniteSet({}) /\ Cardinality({}) = 0  BY FS_EmptySet
  <2>4. /\ ss_queue = << >> /\ ~ss_done /\ ~ss_cancelled /\ ss_closing = "open" /\ ss_worker = "select"
        /\ ss_exports = {} /\ ss_stats = [c \in Shadow!Counters |-> 0]
        /\ ss_done \in BOOLEAN /\ ss_cancelled \in BOOLEAN
    BY DEF Shadow!ShadowInit
  <2>5. ShadowTyped  BY <2>2, <2>3, <2>4 DEF ShadowTyped, InHands
  <2>6. EachOnce  BY <2>4 DEF EachOnce, InHands
  <2>7. Accounted  BY <2>2, <2>3, <2>4 DEF Accounted, Known, Sent, InHands, Shadow!Counters
  <2>8. Closing  BY <2>4 DEF Closing, Shadow!Counters
  <2> QED  BY <2>5, <2>6, <2>7, <2>8 DEF ShadowInv
<1>2. ShadowInv => NothingHeldAfterClose
  <2> SUFFICES ASSUME ShadowInv PROVE NothingHeldAfterClose  OBVIOUS
  <2>1. \A S : Shadow!Cardinality(S) = Cardinality(S)
    BY DEF Shadow!Cardinality, Cardinality
  <2>2. /\ Shadow!InHands = (IF InHands THEN 1 ELSE 0)
        /\ Sending = {t \in Observed : ss_observe[t] = "sent"}
    BY DEF Shadow!InHands, InHands, Sending
  <2> QED
    BY <2>1, <2>2 DEF ShadowInv, Accounted, Known, Sent, Closing, NothingHeldAfterClose,
       Shadow!NothingHeldAfterClose
<1> QED  BY <1>1, <1>2, ShadowStep, PTL DEF Shadow!ShadowSpec
-----------------------------------------------------------------------------
(* The flights that share one synthesis call.                              *)

Lists == Seq(Int)
Callees == [chunks : Lists, done : BOOLEAN, ok : BOOLEAN, subscribers : Int, cancel : BOOLEAN]
Producers == [pc : {"none", "start", "call", "copy", "store", "finish", "retire", "over"},
              sent : Nat, ok : BOOLEAN, called : BOOLEAN]

FlightTyped ==
  /\ sf_cached \in BOOLEAN /\ sf_reg \in Flight!Flights \union {None}
  /\ sf_flight \in [Flight!Flights -> Callees] /\ sf_prod \in [Flight!Flights -> Producers]
  /\ sf_ctxDone \in [Flight!Flights -> BOOLEAN]
  /\ sf_expiry \in [Flight!Flights -> {"none", "armed", "retire", "over"}]
  /\ sf_sub \in [Subs -> {"idle", "missed", "admit", "in", "waiting", "leaving", "out"}]
  /\ sf_at \in [Subs -> Flight!Flights \union {None}] /\ sf_index \in [Subs -> Nat]
  /\ sf_got \in [Subs -> Lists] /\ sf_outcome \in [Subs -> {"none", "ok", "failed"}]
  /\ sf_cancelled \in [Subs -> BOOLEAN] /\ sf_open \in [Subs -> BOOLEAN]

Aboard(f) == {s \in Subs : sf_sub[s] \in {"in", "waiting", "leaving"} /\ sf_at[s] = f}

(* The flight's count is that of its callers, of whom one may be on its    *)
(* way in.                                                                 *)
CountsCallers ==
  /\ \A f \in Flight!Flights : sf_flight[f].subscribers = Cardinality(Aboard(f))
  /\ \A s \in Subs : sf_sub[s] \in {"admit", "in", "waiting", "leaving"} => sf_at[s] \in Flight!Flights
  /\ \A s \in Subs : sf_sub[s] = "admit" =>
       /\ \A r \in Subs : sf_sub[r] = "admit" => r = s
       /\ sf_prod[sf_at[s]].pc = "none" => sf_reg = sf_at[s] /\ sf_flight[sf_at[s]].cancel

(* A flight begins when its owner is counted.                              *)
Begun(f) == sf_prod[f].pc # "none"
BeginsClean ==
  \A f \in Flight!Flights :
    /\ ~Begun(f) => /\ Aboard(f) = {} /\ sf_flight[f].chunks = << >> /\ ~sf_flight[f].done /\ ~sf_flight[f].ok
                    /\ ~sf_ctxDone[f] /\ sf_expiry[f] = "none"
                    /\ sf_prod[f].sent = 0 /\ ~sf_prod[f].ok /\ ~sf_prod[f].called
    /\ Begun(f) => sf_flight[f].cancel \/ sf_ctxDone[f]
    /\ Begun(f) /\ Aboard(f) = {} => ~sf_flight[f].cancel
    /\ sf_flight[f].done => ~sf_flight[f].cancel

(* Only the flight of the registry has a call that has not been given up.  *)
Running(f) == sf_prod[f].pc \in {"start", "call", "copy", "store"} /\ ~sf_ctxDone[f]
CallsApart ==
  /\ \A f \in Flight!Flights :
       /\ Running(f) => sf_reg = f
       /\ sf_prod[f].ok => sf_cached /\ sf_prod[f].sent = Whole /\ sf_prod[f].pc \in {"finish", "retire", "over"}
       /\ sf_prod[f].pc = "store" => sf_prod[f].sent = Whole
       /\ sf_flight[f].ok => sf_prod[f].ok
       /\ sf_expiry[f] = "retire" => sf_ctxDone[f]
  /\ \A f, g \in Flight!Flights :
       f # g /\ sf_prod[f].called /\ sf_prod[f].ok => ~(sf_prod[g].called /\ (Running(g) \/ sf_prod[g].ok))

(* A flight whose call goes on, or that has a caller from such a time, has *)
(* kept all that was sent; nothing is kept for nobody.                     *)
Keeps(f) == sf_flight[f].cancel \/ \E s \in Aboard(f) : sf_open[s]
KeptWhole ==
  \A f \in Flight!Flights :
    /\ Keeps(f) => /\ Len(sf_flight[f].chunks) = sf_prod[f].sent
                   /\ \A i \in 1..sf_prod[f].sent : sf_flight[f].chunks[i] = i
    /\ Aboard(f) = {} => sf_flight[f].chunks = << >>

(* A caller has heard the chunks in order, from the first.                 *)
HeardFromStart ==
  \A s \in Subs :
    /\ sf_sub[s] \in {"idle", "missed", "admit"} => sf_index[s] = 0 /\ sf_got[s] = << >>
    /\ sf_sub[s] \notin {"leaving", "out"} => sf_outcome[s] = "none"
    /\ sf_sub[s] \in {"in", "waiting", "leaving"} /\ sf_open[s] =>
         /\ sf_index[s] <= Len(sf_flight[sf_at[s]].chunks) /\ Len(sf_got[s]) = sf_index[s]
         /\ \A i \in 1..sf_index[s] : sf_got[s][i] = i
    /\ sf_outcome[s] = "ok" /\ sf_open[s] => Len(sf_got[s]) = Whole /\ \A i \in 1..Whole : sf_got[s][i] = i

FlightInv == FlightTyped /\ CountsCallers /\ BeginsClean /\ CallsApart
             /\ KeptWhole /\ HeardFromStart

Phases == {"none", "start", "call", "copy", "store", "finish", "retire", "over"}

(* The fields of a flight and of its producer keep their types.            *)
LEMMA ProducerStays ==
  ASSUME FlightInv, NEW f \in Flight!Flights,
         \E l \in Phases, n \in Nat, b \in BOOLEAN :
           \/ sf_prod' = [sf_prod EXCEPT ![f].pc = l]
           \/ sf_prod' = [sf_prod EXCEPT ![f].pc = l, ![f].sent = n]
           \/ sf_prod' = [sf_prod EXCEPT ![f].pc = l, ![f].ok = b]
           \/ sf_prod' = [sf_prod EXCEPT ![f].pc = l, ![f].called = b]
  PROVE  sf_prod' \in [Flight!Flights -> Producers]
<1>1. sf_prod \in [Flight!Flights -> Producers]  BY DEF FlightInv, FlightTyped
<1>2. PICK l \in Phases, n \in Nat, b \in BOOLEAN :
           \/ sf_prod' = [sf_prod EXCEPT ![f].pc = l]
           \/ sf_prod' = [sf_prod EXCEPT ![f].pc = l, ![f].sent = n]
           \/ sf_prod' = [sf_prod EXCEPT ![f].pc = l, ![f].ok = b]
           \/ sf_prod' = [sf_prod EXCEPT ![f].pc = l, ![f].called = b]
  OBVIOUS
<1> QED  BY <1>1, <1>2 DEF Producers, Phases

(* A flight whose flag is set is a flight.                                 *)
LEMMA BoolField ==
  ASSUME NEW F \in [Flight!Flights -> Callees], NEW f \in Flight!Flights, NEW b \in BOOLEAN
  PROVE  /\ [F EXCEPT ![f].done = b] \in [Flight!Flights -> Callees]
         /\ [F EXCEPT ![f].ok = b] \in [Flight!Flights -> Callees]
         /\ [F EXCEPT ![f].cancel = b] \in [Flight!Flights -> Callees]
BY DEF Callees

(* A flight whose chunks are replaced is a flight.                         *)
LEMMA ListField ==
  ASSUME NEW F \in [Flight!Flights -> Callees], NEW f \in Flight!Flights, NEW q \in Lists
  PROVE  [F EXCEPT ![f].chunks = q] \in [Flight!Flights -> Callees]
BY DEF Callees

(* A flight whose subscribers are counted anew is a flight.                *)
LEMMA CountField ==
  ASSUME NEW F \in [Flight!Flights -> Callees], NEW f \in Flight!Flights, NEW n \in Int
  PROVE  [F EXCEPT ![f].subscribers = n] \in [Flight!Flights -> Callees]
BY DEF Callees

(* What a caller does for itself.                                          *)
LEMMA LookUpStep ==
  ASSUME Flight!FlightAssumption, FlightInv, NEW s \in Subs, Flight!LookUp(s)
  PROVE  FlightInv'
<1> DEFINE whole == [i \in 1..Whole |-> i]
<1>0. /\ sf_sub[s] = "idle" /\ UNCHANGED <<sf_cached, sf_reg, sf_flight, sf_ctxDone, sf_prod, sf_expiry, sf_at, sf_index, sf_cancelled>>
      /\ \/ /\ sf_sub' = [sf_sub EXCEPT ![s] = "out"] /\ sf_outcome' = [sf_outcome EXCEPT ![s] = "ok"]
            /\ sf_got' = [sf_got EXCEPT ![s] = whole] /\ sf_open' = [sf_open EXCEPT ![s] = TRUE]
         \/ sf_sub' = [sf_sub EXCEPT ![s] = "missed"] /\ UNCHANGED <<sf_outcome, sf_got, sf_open>>
  BY DEF Flight!LookUp
<1>1. \A h \in Flight!Flights : Aboard(h)' = Aboard(h) /\ s \notin Aboard(h)
  BY <1>0 DEF FlightInv, FlightTyped, Aboard
<1>2. whole \in Lists /\ Len(whole) = Whole /\ \A i \in 1..Whole : whole[i] = i
  BY DEF Flight!FlightAssumption, Lists
<1> HIDE DEF whole
<1>3. FlightTyped'
  <2>1. sf_got' \in [Subs -> Lists]  BY <1>0, <1>2 DEF FlightInv, FlightTyped
  <2>2. sf_open' \in [Subs -> BOOLEAN]  BY <1>0 DEF FlightInv, FlightTyped
  <2> QED  BY <1>0, <2>1, <2>2 DEF FlightInv, FlightTyped
<1>4. CountsCallers'
  BY <1>0, <1>1 DEF FlightInv, FlightTyped, CountsCallers
<1>5. BeginsClean' /\ CallsApart'
  BY <1>0, <1>1 DEF FlightInv, BeginsClean, Begun, CallsApart, Running
<1>6. KeptWhole'
  <2>1. \A r \in Subs : r # s => sf_open'[r] = sf_open[r]
    BY <1>0 DEF FlightInv, FlightTyped
  <2>2. \A f \in Flight!Flights : Keeps(f)' <=> Keeps(f)
    <3>1. \A f \in Flight!Flights : \A r \in Aboard(f) : sf_open'[r] = sf_open[r]
      BY <1>1, <2>1 DEF Aboard
    <3> QED  BY <1>0, <1>1, <3>1 DEF Keeps
  <2> QED  BY <1>0, <1>1, <2>2 DEF FlightInv, KeptWhole
<1>7. HeardFromStart'
  <2>1. ASSUME NEW r \in Subs, r # s
        PROVE  /\ sf_sub'[r] = sf_sub[r] /\ sf_got'[r] = sf_got[r]
               /\ sf_outcome'[r] = sf_outcome[r] /\ sf_open'[r] = sf_open[r]
    BY <1>0, <2>1 DEF FlightInv, FlightTyped
  <2>2. /\ sf_sub'[s] = "out"
        /\ sf_outcome'[s] = "ok" => Len(sf_got'[s]) = Whole /\ \A i \in 1..Whole : sf_got'[s][i] = i
     \/ /\ sf_sub'[s] = "missed" /\ sf_index'[s] = 0 /\ sf_got'[s] = << >>
        /\ sf_outcome'[s] = "none"
    <3>1. sf_index[s] = 0 /\ sf_got[s] = << >> /\ sf_outcome[s] = "none"
      BY <1>0 DEF FlightInv, HeardFromStart
    <3> QED  BY <1>0, <1>2, <3>1 DEF FlightInv, FlightTyped
  <2> QED  BY <1>0, <2>1, <2>2 DEF FlightInv, HeardFromStart
<1> QED  BY <1>3, <1>4, <1>5, <1>6, <1>7 DEF FlightInv

(* A subscriber returns.                                                   *)
LEMMA ReturnStep ==
  ASSUME Flight!FlightAssumption, FlightInv, NEW s \in Subs, Flight!Return(s)
  PROVE  FlightInv'
<1>0. /\ sf_sub[s] = "in" /\ sf_sub' = [sf_sub EXCEPT ![s] = "leaving"]
      /\ UNCHANGED <<sf_cached, sf_reg, sf_flight, sf_ctxDone, sf_prod, sf_expiry, sf_at, sf_index, sf_got, sf_cancelled, sf_open>>
      /\ \/ sf_outcome' = [sf_outcome EXCEPT ![s] = "failed"]
         \/ /\ sf_outcome' = [sf_outcome EXCEPT ![s] = "ok"]
            /\ sf_flight[sf_at[s]].ok /\ sf_index[s] >= Len(sf_flight[sf_at[s]].chunks)
  BY DEF Flight!Return
<1>1. \A h \in Flight!Flights : Aboard(h)' = Aboard(h)
  BY <1>0 DEF FlightInv, FlightTyped, Aboard
<1>2. FlightTyped'
  BY <1>0 DEF FlightInv, FlightTyped
<1>3. CountsCallers'
  BY <1>0, <1>1 DEF FlightInv, FlightTyped, CountsCallers
<1>4. BeginsClean' /\ CallsApart'
  BY <1>0, <1>1 DEF FlightInv, BeginsClean, Begun, CallsApart, Running
<1>5. KeptWhole'
  <2>1. \A f \in Flight!Flights : Keeps(f)' <=> Keeps(f)
    BY <1>0, <1>1 DEF Keeps
  <2> QED  BY <1>0, <1>1, <2>1 DEF FlightInv, KeptWhole
<1>6. ASSUME sf_open[s], sf_flight[sf_at[s]].ok, sf_index[s] >= Len(sf_flight[sf_at[s]].chunks)
      PROVE  Len(sf_got[s]) = Whole /\ \A i \in 1..Whole : sf_got[s][i] = i
  <2>1. sf_at[s] \in Flight!Flights /\ s \in Aboard(sf_at[s])
    BY <1>0 DEF FlightInv, CountsCallers, Aboard
  <2>2. Len(sf_flight[sf_at[s]].chunks) = sf_prod[sf_at[s]].sent /\ sf_prod[sf_at[s]].sent = Whole
    BY <1>6, <2>1 DEF FlightInv, KeptWhole, Keeps, CallsApart
  <2>3. sf_index[s] \in Nat /\ Whole \in Nat  BY DEF FlightInv, FlightTyped, Flight!FlightAssumption
  <2> QED  BY <1>0, <1>6, <2>2, <2>3 DEF FlightInv, HeardFromStart
<1>7. HeardFromStart'
  <2>1. ASSUME NEW r \in Subs
        PROVE  /\ sf_sub[r] \in {"idle", "missed", "admit"} \/ sf_sub'[r] # "idle"
               /\ r # s => sf_sub'[r] = sf_sub[r] /\ sf_outcome'[r] = sf_outcome[r]
               /\ sf_sub'[s] = "leaving" /\ sf_outcome'[s] \in {"failed", "ok"}
               /\ sf_outcome'[s] = "ok" => sf_flight[sf_at[s]].ok /\ sf_index[s] >= Len(sf_flight[sf_at[s]].chunks)
    BY <1>0 DEF FlightInv, FlightTyped
  <2> QED  BY <1>0, <1>6, <2>1 DEF FlightInv, HeardFromStart
<1> QED  BY <1>2, <1>3, <1>4, <1>5, <1>7 DEF FlightInv

(* A subscriber waits, is cancelled, or is woken by that.                  *)
LEMMA PauseStep ==
  ASSUME FlightInv, NEW s \in Subs, Flight!Wait(s) \/ Flight!Cancel(s) \/ Flight!CancelWakes(s)
  PROVE  FlightInv'
<1>0. /\ UNCHANGED <<sf_cached, sf_reg, sf_flight, sf_ctxDone, sf_prod, sf_expiry, sf_at, sf_index, sf_got, sf_outcome, sf_open>>
      /\ sf_sub' \in [Subs -> {"idle", "missed", "admit", "in", "waiting", "leaving", "out"}]
      /\ sf_cancelled' \in [Subs -> BOOLEAN]
      /\ \A r \in Subs : sf_sub'[r] = sf_sub[r] \/ (sf_sub[r] \in {"in", "waiting"} /\ sf_sub'[r] \in {"in", "waiting"})
  <2>1. CASE Flight!Wait(s)  BY <2>1 DEF FlightInv, FlightTyped, Flight!Wait
  <2>2. CASE Flight!Cancel(s)  BY <2>2 DEF FlightInv, FlightTyped, Flight!Cancel
  <2>3. CASE Flight!CancelWakes(s)
    BY <2>3 DEF FlightInv, FlightTyped, Flight!CancelWakes, Flight!Woken
  <2> QED  BY <2>1, <2>2, <2>3
<1>1. \A h \in Flight!Flights : Aboard(h)' = Aboard(h)
  BY <1>0 DEF Aboard
<1>2. FlightTyped'
  BY <1>0 DEF FlightInv, FlightTyped
<1>3. CountsCallers'
  BY <1>0, <1>1 DEF FlightInv, CountsCallers
<1>4. BeginsClean' /\ CallsApart'
  BY <1>0, <1>1 DEF FlightInv, BeginsClean, Begun, CallsApart, Running
<1>5. KeptWhole'
  BY <1>0, <1>1 DEF FlightInv, KeptWhole, Keeps
<1>6. HeardFromStart'
  BY <1>0 DEF FlightInv, HeardFromStart
<1> QED  BY <1>2, <1>3, <1>4, <1>5, <1>6 DEF FlightInv

(* The caller's handler takes the next chunk.                              *)
LEMMA DeliverStep ==
  ASSUME Flight!FlightAssumption, FlightInv, NEW s \in Subs, Flight!Deliver(s)
  PROVE  FlightInv'
<1> DEFINE chunk == sf_flight[sf_at[s]].chunks[sf_index[s] + 1]
<1>1. /\ sf_sub[s] = "in" /\ sf_index[s] < Len(sf_flight[sf_at[s]].chunks)
      /\ sf_index' = [sf_index EXCEPT ![s] = @ + 1] /\ sf_got' = [sf_got EXCEPT ![s] = Append(@, chunk)]
      /\ \/ UNCHANGED <<sf_sub, sf_outcome>>
         \/ sf_sub' = [sf_sub EXCEPT ![s] = "leaving"] /\ sf_outcome' = [sf_outcome EXCEPT ![s] = "failed"]
      /\ UNCHANGED <<sf_cached, sf_reg, sf_flight, sf_ctxDone, sf_prod, sf_expiry, sf_at, sf_cancelled, sf_open>>
  BY DEF Flight!Deliver
<1>0. \A h \in Flight!Flights : Aboard(h)' = Aboard(h)
  BY <1>1 DEF FlightInv, FlightTyped, Aboard
<1>2. sf_at[s] \in Flight!Flights /\ s \in Aboard(sf_at[s]) /\ sf_index[s] \in Nat
      /\ sf_flight[sf_at[s]].chunks \in Seq(Int)
  BY <1>1 DEF FlightInv, FlightTyped, CountsCallers, Aboard, Callees, Lists
<1>3. chunk \in Int  BY <1>1, <1>2
<1>4. sf_got[s] \in Seq(Int)  BY DEF FlightInv, FlightTyped, Lists
<1> HIDE DEF chunk
<1>5. PICK longer : longer = Append(sf_got[s], chunk)  OBVIOUS
<1>51. longer \in Lists /\ Len(longer) = Len(sf_got[s]) + 1
  BY <1>3, <1>4, <1>5 DEF Lists
<1>52. /\ \A i \in 1..Len(sf_got[s]) : longer[i] = sf_got[s][i]
       /\ longer[Len(sf_got[s]) + 1] = chunk
  BY <1>3, <1>4, <1>5
<1>6. sf_got' = [sf_got EXCEPT ![s] = longer]  BY <1>1, <1>5
<1>7. FlightTyped'
  <2>1. sf_got' \in [Subs -> Lists]  BY <1>51, <1>6 DEF FlightInv, FlightTyped
  <2>2. sf_index' \in [Subs -> Nat]  BY <1>1 DEF FlightInv, FlightTyped
  <2> QED  BY <1>1, <2>1, <2>2 DEF FlightInv, FlightTyped
<1>8. /\ CountsCallers' /\ BeginsClean' /\ CallsApart' /\ KeptWhole'
  <2>1. CountsCallers'  BY <1>0, <1>1 DEF FlightInv, FlightTyped, CountsCallers
  <2>2. BeginsClean' /\ CallsApart'
    BY <1>0, <1>1 DEF FlightInv, BeginsClean, Begun, CallsApart, Running
  <2>3. KeptWhole'  BY <1>0, <1>1 DEF FlightInv, KeptWhole, Keeps
  <2> QED  BY <2>1, <2>2, <2>3
<1>9. HeardFromStart'
  <2>1. sf_open[s] => /\ chunk = sf_index[s] + 1 /\ Len(sf_got[s]) = sf_index[s]
                   /\ \A i \in 1..sf_index[s] : sf_got[s][i] = i
    <3>1. sf_open[s] => /\ Len(sf_flight[sf_at[s]].chunks) = sf_prod[sf_at[s]].sent
                     /\ \A i \in 1..sf_prod[sf_at[s]].sent : sf_flight[sf_at[s]].chunks[i] = i
      BY <1>2 DEF FlightInv, KeptWhole, Keeps
    <3>2. sf_prod[sf_at[s]].sent \in Nat  BY <1>2 DEF FlightInv, FlightTyped, Producers
    <3> QED  BY SMTT(40), <1>1, <1>2, <3>1, <3>2 DEF FlightInv, HeardFromStart, chunk
  <2>2. ASSUME NEW r \in Subs, r # s
        PROVE  /\ sf_got'[r] = sf_got[r] /\ sf_index'[r] = sf_index[r] /\ sf_sub'[r] = sf_sub[r]
               /\ sf_outcome'[r] = sf_outcome[r]
    BY <1>1, <1>6, <2>2 DEF FlightInv, FlightTyped
  <2>3. /\ sf_index'[s] = sf_index[s] + 1 /\ sf_got'[s] = longer
        /\ sf_sub'[s] \in {"in", "leaving"}
        /\ sf_outcome'[s] # "ok" /\ (sf_sub'[s] # "leaving" => sf_outcome'[s] = "none")
    <3>1. sf_outcome[s] = "none"  BY <1>1 DEF FlightInv, HeardFromStart
    <3> QED  BY <1>1, <1>6, <3>1 DEF FlightInv, FlightTyped
  <2>4. ASSUME sf_open[s]
        PROVE  Len(longer) = sf_index[s] + 1 /\ \A i \in 1..(sf_index[s] + 1) : longer[i] = i
    <3>1. chunk = sf_index[s] + 1 /\ Len(sf_got[s]) = sf_index[s]  BY <2>1, <2>4
    <3>2. \A i \in 1..sf_index[s] : longer[i] = i  BY <1>52, <2>1, <2>4, <3>1
    <3>3. longer[sf_index[s] + 1] = sf_index[s] + 1  BY <1>52, <3>1
    <3>4. \A i \in 1..(sf_index[s] + 1) : i \in 1..sf_index[s] \/ i = sf_index[s] + 1  BY <1>2
    <3> QED  BY <1>51, <3>1, <3>2, <3>3, <3>4
  <2>5. sf_index[s] + 1 <= Len(sf_flight[sf_at[s]].chunks)  BY <1>1, <1>2
  <2>6. UNCHANGED <<sf_flight, sf_at, sf_open>>  BY <1>1
  <2>7. s \in Subs /\ sf_sub'[s] \notin {"idle", "missed", "admit"}  BY <2>3
  <2> QED  BY <2>2, <2>3, <2>4, <2>5, <2>6, <2>7 DEF FlightInv, HeardFromStart
<1> QED  BY <1>7, <1>8, <1>9 DEF FlightInv

(* The caller finds a flight that can serve it, or makes a new one.        *)
LEMMA LookStep ==
  ASSUME Flight!FlightAssumption, FlightInv, NEW s \in Subs, Flight!Look(s)
  PROVE  FlightInv'
<1>1. /\ sf_sub[s] = "missed" /\ \A r \in Subs : sf_sub[r] # "admit"
      /\ UNCHANGED <<sf_cached, sf_ctxDone, sf_prod, sf_expiry, sf_index, sf_got, sf_cancelled, sf_open>>
      /\ \/ /\ sf_sub' = [sf_sub EXCEPT ![s] = "out"] /\ sf_outcome' = [sf_outcome EXCEPT ![s] = "failed"]
            /\ UNCHANGED <<sf_reg, sf_flight, sf_at>>
         \/ /\ sf_sub' = [sf_sub EXCEPT ![s] = "admit"] /\ UNCHANGED <<sf_outcome, sf_flight, sf_reg>>
            /\ sf_reg # None /\ ~Flight!Unavailable(sf_reg) /\ sf_at' = [sf_at EXCEPT ![s] = sf_reg]
         \/ /\ sf_sub' = [sf_sub EXCEPT ![s] = "admit"] /\ UNCHANGED sf_outcome
            /\ ~(sf_reg # None /\ ~Flight!Unavailable(sf_reg))
            /\ \E f \in Flight!Unused : /\ sf_at' = [sf_at EXCEPT ![s] = f] /\ sf_reg' = f
                                        /\ sf_flight' = [sf_flight EXCEPT ![f].cancel = TRUE]
  BY DEF Flight!Look, Flight!RegistryFree
<1>2. \A h \in Flight!Flights : Aboard(h)' = Aboard(h) /\ s \notin Aboard(h)
  BY <1>1 DEF FlightInv, FlightTyped, Aboard
<1>3. sf_index[s] = 0 /\ sf_got[s] = << >> /\ sf_outcome[s] = "none"
  BY <1>1 DEF FlightInv, HeardFromStart
<1>4. CASE /\ sf_sub' = [sf_sub EXCEPT ![s] = "out"] /\ sf_outcome' = [sf_outcome EXCEPT ![s] = "failed"]
           /\ UNCHANGED <<sf_reg, sf_flight, sf_at>>
  <2>1. FlightTyped'  BY <1>1, <1>4 DEF FlightInv, FlightTyped
  <2>2. CountsCallers'  BY <1>1, <1>2, <1>4 DEF FlightInv, FlightTyped, CountsCallers
  <2>3. BeginsClean' /\ CallsApart' /\ KeptWhole'
    BY <1>1, <1>2, <1>4 DEF FlightInv, BeginsClean, Begun, CallsApart, Running, KeptWhole, Keeps
  <2>4. HeardFromStart'  BY <1>1, <1>4 DEF FlightInv, FlightTyped, HeardFromStart
  <2> QED  BY <2>1, <2>2, <2>3, <2>4 DEF FlightInv
<1>5. CASE /\ sf_sub' = [sf_sub EXCEPT ![s] = "admit"] /\ UNCHANGED <<sf_outcome, sf_flight, sf_reg>>
           /\ sf_reg # None /\ ~Flight!Unavailable(sf_reg) /\ sf_at' = [sf_at EXCEPT ![s] = sf_reg]
  <2>0. sf_reg \in Flight!Flights /\ (sf_prod[sf_reg].pc = "none" => sf_flight[sf_reg].cancel)
    <3>1. sf_reg \in Flight!Flights  BY <1>5 DEF FlightInv, FlightTyped
    <3>2. ASSUME sf_prod[sf_reg].pc = "none"  PROVE sf_flight[sf_reg].subscribers = 0
      <4>1. Aboard(sf_reg) = {}  BY <3>1, <3>2 DEF FlightInv, BeginsClean, Begun
      <4> QED  BY <3>1, <4>1, FS_EmptySet DEF FlightInv, CountsCallers
    <3> QED  BY <1>5, <3>1, <3>2 DEF Flight!Unavailable, Flight!Abandoned
  <2>1. FlightTyped'  BY <1>1, <1>5, <2>0 DEF FlightInv, FlightTyped
  <2>2. CountsCallers'  BY <1>1, <1>2, <1>5, <2>0 DEF FlightInv, FlightTyped, CountsCallers
  <2>3. BeginsClean' /\ CallsApart' /\ KeptWhole'
    BY <1>1, <1>2, <1>5 DEF FlightInv, BeginsClean, Begun, CallsApart, Running, KeptWhole, Keeps
  <2>4. HeardFromStart'  BY <1>1, <1>3, <1>5 DEF FlightInv, FlightTyped, HeardFromStart
  <2> QED  BY <2>1, <2>2, <2>3, <2>4 DEF FlightInv
<1>6. CASE /\ sf_sub' = [sf_sub EXCEPT ![s] = "admit"] /\ UNCHANGED sf_outcome
           /\ ~(sf_reg # None /\ ~Flight!Unavailable(sf_reg))
           /\ \E f \in Flight!Unused : /\ sf_at' = [sf_at EXCEPT ![s] = f] /\ sf_reg' = f
                                       /\ sf_flight' = [sf_flight EXCEPT ![f].cancel = TRUE]
  <2>0. PICK f \in Flight!Flights :
          /\ sf_prod[f].pc = "none" /\ \A r \in Subs : sf_at[r] # f
          /\ sf_at' = [sf_at EXCEPT ![s] = f] /\ sf_reg' = f
          /\ sf_flight' = [sf_flight EXCEPT ![f].cancel = TRUE]
    BY <1>6 DEF Flight!Unused
  <2>1. sf_flight' \in [Flight!Flights -> Callees]
    BY <2>0, BoolField DEF FlightInv, FlightTyped
  <2>2. FlightTyped'
    <3>1. sf_at' \in [Subs -> Flight!Flights \union {None}]  BY <2>0 DEF FlightInv, FlightTyped
    <3> QED  BY <1>1, <1>6, <2>0, <2>1, <3>1 DEF FlightInv, FlightTyped
  <2>3. \A h \in Flight!Flights :
          /\ sf_flight'[h].chunks = sf_flight[h].chunks /\ sf_flight'[h].done = sf_flight[h].done
          /\ sf_flight'[h].ok = sf_flight[h].ok /\ sf_flight'[h].subscribers = sf_flight[h].subscribers
          /\ (h # f => sf_flight'[h].cancel = sf_flight[h].cancel) /\ sf_flight'[f].cancel
    <3>1. sf_flight \in [Flight!Flights -> Callees]  BY DEF FlightInv, FlightTyped
    <3>2. \A h \in Flight!Flights : h # f => sf_flight'[h] = sf_flight[h]  BY <2>0, <3>1
    <3>3. sf_flight'[f] = [sf_flight[f] EXCEPT !.cancel = TRUE] /\ sf_flight[f] \in Callees
      BY <2>0, <3>1
    <3>4. /\ sf_flight'[f].chunks = sf_flight[f].chunks /\ sf_flight'[f].done = sf_flight[f].done
          /\ sf_flight'[f].ok = sf_flight[f].ok /\ sf_flight'[f].subscribers = sf_flight[f].subscribers
          /\ sf_flight'[f].cancel
      BY <3>3 DEF Callees
    <3> QED  BY <3>2, <3>4
  <2>4. \A h \in Flight!Flights : ~Running(h)
    <3> SUFFICES ASSUME NEW h \in Flight!Flights, Running(h)  PROVE FALSE  OBVIOUS
    <3>1. sf_reg = h /\ Begun(h) /\ ~sf_ctxDone[h]  BY DEF FlightInv, CallsApart, Running, Begun
    <3>2. sf_flight[h].cancel /\ ~sf_flight[h].done  BY <3>1 DEF FlightInv, BeginsClean
    <3>3. h # None
      BY DEF Flight!FlightAssumption, Flight!Flights
    <3> QED  BY <1>6, <3>1, <3>2, <3>3 DEF Flight!Unavailable, Flight!Abandoned
  <2>5. CountsCallers'
    <3>1. \A r \in Subs : r # s => sf_at'[r] = sf_at[r] /\ sf_sub'[r] = sf_sub[r] /\ sf_sub[r] # "admit"
      BY <1>1, <1>6, <2>0 DEF FlightInv, FlightTyped
    <3>2. sf_at'[s] = f /\ sf_sub'[s] = "admit"  BY <1>6, <2>0 DEF FlightInv, FlightTyped
    <3>3. \A h \in Flight!Flights : sf_flight'[h].subscribers = Cardinality(Aboard(h)')
      BY <1>2, <2>3 DEF FlightInv, CountsCallers
    <3>4. \A r \in Subs : sf_sub'[r] \in {"admit", "in", "waiting", "leaving"} => sf_at'[r] \in Flight!Flights
      BY <3>1, <3>2 DEF FlightInv, CountsCallers
    <3>5. \A r \in Subs : sf_sub'[r] = "admit" => r = s  BY <3>1
    <3>6. sf_reg' = f /\ sf_flight'[f].cancel  BY <2>0, <2>3
    <3> QED  BY <3>2, <3>3, <3>4, <3>5, <3>6 DEF CountsCallers
  <2>6. BeginsClean'
    BY <1>1, <1>2, <2>0, <2>3 DEF FlightInv, BeginsClean, Begun
  <2>7. CallsApart'
    BY <1>1, <2>3, <2>4 DEF FlightInv, CallsApart, Running
  <2>8. KeptWhole'
    <3>1. \A h \in Flight!Flights : h # f => (Keeps(h)' <=> Keeps(h))
      BY <1>1, <1>2, <2>3 DEF Keeps
    <3>2. sf_flight[f].chunks = << >> /\ sf_prod[f].sent = 0
      BY <2>0 DEF FlightInv, BeginsClean, Begun
    <3> QED  BY <1>1, <1>2, <2>3, <3>1, <3>2 DEF FlightInv, KeptWhole
  <2>9. HeardFromStart'
    <3>1. \A r \in Subs : r # s => sf_at'[r] = sf_at[r] /\ sf_sub'[r] = sf_sub[r]
      BY <1>1, <1>6, <2>0 DEF FlightInv, FlightTyped
    <3>2. sf_at'[s] = f /\ sf_sub'[s] = "admit"  BY <1>6, <2>0 DEF FlightInv, FlightTyped
    <3>3. \A r \in Subs : sf_sub[r] \in {"in", "waiting", "leaving"} => sf_at[r] \in Flight!Flights
      BY DEF FlightInv, CountsCallers
    <3> QED  BY <1>1, <1>3, <1>6, <2>3, <3>1, <3>2, <3>3 DEF FlightInv, HeardFromStart
  <2> QED  BY <2>2, <2>5, <2>6, <2>7, <2>8, <2>9 DEF FlightInv
<1> QED  BY <1>1, <1>4, <1>5, <1>6

(* The assumption's set of callers is a finite one.                        *)
LEMMA FiniteSubs == Flight!FlightAssumption => IsFiniteSet(Subs)
BY DEF Flight!FlightAssumption, Flight!IsFiniteSet, IsFiniteSet

(* The caller is counted.                                                  *)
LEMMA JoinStep ==
  ASSUME Flight!FlightAssumption, FlightInv, NEW s \in Subs, Flight!Join(s)
  PROVE  FlightInv'
<1>0. PICK f : f = sf_at[s]  OBVIOUS
<1>1. /\ sf_sub[s] = "admit" /\ sf_sub' = [sf_sub EXCEPT ![s] = "in"]
      /\ sf_flight' = [sf_flight EXCEPT ![f].subscribers = @ + 1]
      /\ sf_open' = [sf_open EXCEPT ![s] = sf_flight[f].cancel]
      /\ sf_prod' = [sf_prod EXCEPT ![f].pc = IF @ = "none" THEN "start" ELSE @]
      /\ sf_expiry' = [sf_expiry EXCEPT ![f] = IF sf_prod[f].pc = "none" THEN "armed" ELSE @]
      /\ UNCHANGED <<sf_cached, sf_reg, sf_ctxDone, sf_at, sf_index, sf_got, sf_outcome, sf_cancelled>>
  BY <1>0 DEF Flight!Join
<1>2. /\ f \in Flight!Flights /\ \A r \in Subs : sf_sub[r] = "admit" => r = s
      /\ sf_prod[f].pc = "none" => sf_reg = f /\ sf_flight[f].cancel
  BY <1>0, <1>1 DEF FlightInv, CountsCallers
<1>3. /\ sf_index[s] = 0 /\ sf_got[s] = << >> /\ sf_outcome[s] = "none"
  BY <1>1 DEF FlightInv, HeardFromStart
<1>4. /\ Aboard(f)' = Aboard(f) \union {s} /\ s \notin Aboard(f)
      /\ \A h \in Flight!Flights : h # f => Aboard(h)' = Aboard(h)
  BY <1>0, <1>1, <1>2 DEF FlightInv, FlightTyped, Aboard
<1>5. PICK n \in Int : n = sf_flight[f].subscribers + 1
  BY <1>2 DEF FlightInv, FlightTyped, Callees
<1>6. sf_flight' = [sf_flight EXCEPT ![f].subscribers = n]
  BY <1>1, <1>5
<1>7. sf_flight' \in [Flight!Flights -> Callees]
  BY <1>2, <1>6, CountField DEF FlightInv, FlightTyped
<1>8. \A h \in Flight!Flights :
        /\ sf_flight'[h].chunks = sf_flight[h].chunks /\ sf_flight'[h].done = sf_flight[h].done
        /\ sf_flight'[h].ok = sf_flight[h].ok /\ sf_flight'[h].cancel = sf_flight[h].cancel
        /\ h # f => sf_flight'[h].subscribers = sf_flight[h].subscribers
        /\ sf_flight'[f].subscribers = n
  BY <1>2, <1>6 DEF FlightInv, FlightTyped, Callees
<1>9. \A h \in Flight!Flights :
        /\ sf_prod'[h].sent = sf_prod[h].sent /\ sf_prod'[h].ok = sf_prod[h].ok /\ sf_prod'[h].called = sf_prod[h].called
        /\ h # f => sf_prod'[h].pc = sf_prod[h].pc /\ sf_expiry'[h] = sf_expiry[h]
        /\ sf_prod[h].pc # "none" => sf_prod'[h].pc = sf_prod[h].pc /\ sf_expiry'[h] = sf_expiry[h]
        /\ sf_prod[f].pc = "none" => sf_prod'[f].pc = "start" /\ sf_expiry'[f] = "armed"
  BY <1>1, <1>2 DEF FlightInv, FlightTyped, Producers
<1>10. FlightTyped'
  <2>1. sf_prod[f].pc \in Phases  BY <1>2 DEF FlightInv, FlightTyped, Producers, Phases
  <2>2. PICK l \in Phases : l = IF sf_prod[f].pc = "none" THEN "start" ELSE sf_prod[f].pc
    BY <2>1 DEF Phases
  <2>3. sf_prod' = [sf_prod EXCEPT ![f].pc = l]  BY <1>1, <2>2
  <2>4. sf_prod' \in [Flight!Flights -> Producers]  BY <1>2, <2>3, ProducerStays
  <2>5. sf_expiry' \in [Flight!Flights -> {"none", "armed", "retire", "over"}]
    BY <1>1, <1>2 DEF FlightInv, FlightTyped
  <2>6. sf_open' \in [Subs -> BOOLEAN]
    <3>1. sf_flight[f].cancel \in BOOLEAN  BY <1>2 DEF FlightInv, FlightTyped, Callees
    <3> QED  BY <1>1, <3>1 DEF FlightInv, FlightTyped
  <2>7. sf_sub' \in [Subs -> {"idle", "missed", "admit", "in", "waiting", "leaving", "out"}]
    BY <1>1 DEF FlightInv, FlightTyped
  <2> QED  BY <1>1, <1>7, <2>4, <2>5, <2>6, <2>7 DEF FlightInv, FlightTyped
<1>11. \A r \in Subs : r # s => sf_sub'[r] = sf_sub[r] /\ sf_open'[r] = sf_open[r] /\ sf_sub[r] # "admit"
  BY <1>1, <1>2 DEF FlightInv, FlightTyped
<1>12. sf_sub'[s] = "in" /\ sf_open'[s] = sf_flight[f].cancel
  BY <1>1 DEF FlightInv, FlightTyped
<1>13. CountsCallers'
  <2>1. Cardinality(Aboard(f) \union {s}) = n
    <3>1. IsFiniteSet(Aboard(f))
      <4>1. Aboard(f) \in SUBSET Subs  BY DEF Aboard
      <4> QED  BY <4>1, FiniteSubs, FS_Subset
    <3>2. sf_flight[f].subscribers = Cardinality(Aboard(f))  BY <1>2 DEF FlightInv, CountsCallers
    <3>3. Cardinality(Aboard(f) \union {s}) = Cardinality(Aboard(f)) + 1
      BY <1>4, <3>1, FS_AddElement
    <3> QED  BY <1>5, <3>2, <3>3
  <2>2. \A h \in Flight!Flights : sf_flight'[h].subscribers = Cardinality(Aboard(h)')
    <3>1. ASSUME NEW h \in Flight!Flights, h # f
          PROVE  sf_flight'[h].subscribers = Cardinality(Aboard(h)')
      <4>1. Aboard(h)' = Aboard(h)  BY <1>4, <3>1
      <4>2. sf_flight[h].subscribers = Cardinality(Aboard(h))  BY DEF FlightInv, CountsCallers
      <4> QED  BY <1>8, <3>1, <4>1, <4>2
    <3>2. sf_flight'[f].subscribers = Cardinality(Aboard(f)')  BY <1>2, <1>4, <1>8, <2>1
    <3> QED  BY <3>1, <3>2
  <2>3. \A r \in Subs : /\ sf_sub'[r] # "admit"
                        /\ sf_sub'[r] \in {"admit", "in", "waiting", "leaving"} => sf_at'[r] \in Flight!Flights
    BY <1>0, <1>1, <1>2, <1>11, <1>12 DEF FlightInv, CountsCallers
  <2> QED  BY <2>2, <2>3 DEF CountsCallers
<1>14. BeginsClean'
  <2> SUFFICES ASSUME NEW h \in Flight!Flights
               PROVE  /\ ~Begun(h)' => /\ Aboard(h)' = {} /\ sf_flight'[h].chunks = << >>
                                       /\ ~sf_flight'[h].done /\ ~sf_flight'[h].ok
                                       /\ ~sf_ctxDone'[h] /\ sf_expiry'[h] = "none"
                                       /\ sf_prod'[h].sent = 0 /\ ~sf_prod'[h].ok /\ ~sf_prod'[h].called
                      /\ Begun(h)' => sf_flight'[h].cancel \/ sf_ctxDone'[h]
                      /\ Begun(h)' /\ Aboard(h)' = {} => ~sf_flight'[h].cancel
                      /\ sf_flight'[h].done => ~sf_flight'[h].cancel
    BY DEF BeginsClean
  <2>1. CASE h = f
    BY <1>1, <1>2, <1>4, <1>8, <1>9, <2>1 DEF FlightInv, BeginsClean, Begun
  <2>2. CASE h # f
    BY <1>1, <1>4, <1>8, <1>9, <2>2 DEF FlightInv, BeginsClean, Begun
  <2> QED  BY <2>1, <2>2
<1>15. CallsApart'
  <2>1. \A h \in Flight!Flights : Running(h)' => Running(h) \/ (h = f /\ sf_prod[f].pc = "none")
    BY <1>1, <1>2, <1>9 DEF Running
  <2>2. sf_prod[f].pc = "none" => sf_reg = f /\ ~sf_prod[f].called /\ ~sf_prod[f].ok
    BY <1>2 DEF FlightInv, BeginsClean, Begun
  <2>3. \A h \in Flight!Flights :
          /\ sf_prod'[h].pc = "store" => sf_prod[h].pc = "store"
          /\ sf_prod[h].pc \in {"finish", "retire", "over"} => sf_prod'[h].pc = sf_prod[h].pc
          /\ sf_expiry'[h] = "retire" => sf_expiry[h] = "retire"
    BY <1>2, <1>9 DEF FlightInv
  <2> QED  BY <1>1, <1>8, <1>9, <2>1, <2>2, <2>3 DEF FlightInv, CallsApart
<1>16. KeptWhole'
  <2>1. \A h \in Flight!Flights : Keeps(h)' => Keeps(h)
    <3>1. \A h \in Flight!Flights : \A r \in Aboard(h)' :
            r # s => r \in Aboard(h) /\ sf_open'[r] = sf_open[r]
      BY <1>4, <1>11 DEF Aboard
    <3>2. \A h \in Flight!Flights : s \in Aboard(h)' => h = f
      BY <1>0, <1>1 DEF Aboard
    <3> QED  BY <1>8, <1>12, <3>1, <3>2 DEF Keeps
  <2>2. \A h \in Flight!Flights : Aboard(h)' = {} => Aboard(h) = {}
    BY <1>4
  <2> QED  BY <1>8, <1>9, <2>1, <2>2 DEF FlightInv, KeptWhole
<1>17. HeardFromStart'
  <2>1. Len(sf_flight[f].chunks) \in Nat /\ Len(<< >>) = 0
    BY <1>2 DEF FlightInv, FlightTyped, Callees, Lists
  <2>2. \A r \in Subs : sf_sub[r] \in {"in", "waiting", "leaving"} => sf_at[r] \in Flight!Flights
    BY DEF FlightInv, CountsCallers
  <2>3. \A r \in Subs : r # s => /\ sf_sub'[r] = sf_sub[r] /\ sf_open'[r] = sf_open[r]
    BY <1>11
  <2>4. UNCHANGED <<sf_index, sf_got, sf_outcome, sf_at>>  BY <1>1
  <2>5. sf_flight'[f].chunks = sf_flight[f].chunks /\ sf_at[s] = f  BY <1>0, <1>2, <1>8
  <2>6. \A h \in Flight!Flights : sf_flight'[h].chunks = sf_flight[h].chunks  BY <1>8
  <2> QED  BY <1>3, <1>12, <2>1, <2>2, <2>3, <2>4, <2>5, <2>6 DEF FlightInv, HeardFromStart
<1> QED  BY <1>10, <1>13, <1>14, <1>15, <1>16, <1>17 DEF FlightInv

(* The caller is uncounted; the last one ends the call and what was kept.  *)
LEMMA UnsubscribeStep ==
  ASSUME Flight!FlightAssumption, FlightInv, NEW s \in Subs, Flight!Unsubscribe(s)
  PROVE  FlightInv'
<1>0. PICK f : f = sf_at[s]  OBVIOUS
<1>1. PICK n : n = sf_flight[f].subscribers - 1  OBVIOUS
<1>2. f \in Flight!Flights /\ n \in Int
  BY <1>0, <1>1 DEF Flight!Unsubscribe, FlightInv, FlightTyped, CountsCallers, Callees
<1>3. PICK last \in BOOLEAN : last = (n = 0 /\ ~sf_flight[f].done /\ sf_flight[f].cancel)  OBVIOUS
<1>4. PICK c \in BOOLEAN : c = (sf_flight[f].cancel /\ ~last)  OBVIOUS
<1>5. PICK q : q = IF n = 0 THEN << >> ELSE sf_flight[f].chunks  OBVIOUS
<1>6. q \in Lists
  BY <1>2, <1>5 DEF FlightInv, FlightTyped, Callees, Lists
<1>7. /\ sf_sub[s] = "leaving" /\ sf_sub' = [sf_sub EXCEPT ![s] = "out"]
      /\ sf_flight' = [sf_flight EXCEPT ![f].subscribers = n, ![f].cancel = c, ![f].chunks = q]
      /\ sf_ctxDone' = [sf_ctxDone EXCEPT ![f] = @ \/ last]
      /\ UNCHANGED <<sf_cached, sf_reg, sf_prod, sf_expiry, sf_at, sf_index, sf_got, sf_outcome, sf_cancelled, sf_open>>
  BY <1>0, <1>1, <1>3, <1>4, <1>5 DEF Flight!Unsubscribe, Flight!Clears
<1>8. sf_flight' \in [Flight!Flights -> Callees]
  <2>1. PICK u : u = [sf_flight EXCEPT ![f].subscribers = n]  OBVIOUS
  <2>2. PICK v : v = [u EXCEPT ![f].cancel = c]  OBVIOUS
  <2>3. PICK w : w = [v EXCEPT ![f].chunks = q]  OBVIOUS
  <2>4. u \in [Flight!Flights -> Callees]  BY <1>2, <2>1, CountField DEF FlightInv, FlightTyped
  <2>5. v \in [Flight!Flights -> Callees]  BY <1>2, <2>2, <2>4, BoolField
  <2>6. w \in [Flight!Flights -> Callees]  BY <1>2, <1>6, <2>3, <2>5, ListField
  <2>7. sf_flight' = w  BY <1>7, <2>1, <2>2, <2>3
  <2> QED  BY <2>6, <2>7
<1>9. /\ \A h \in Flight!Flights :
           /\ sf_flight'[h].done = sf_flight[h].done /\ sf_flight'[h].ok = sf_flight[h].ok
           /\ h # f => /\ sf_flight'[h].subscribers = sf_flight[h].subscribers
                       /\ sf_flight'[h].cancel = sf_flight[h].cancel
                       /\ sf_flight'[h].chunks = sf_flight[h].chunks
                       /\ sf_ctxDone'[h] = sf_ctxDone[h]
      /\ sf_flight'[f].subscribers = n /\ sf_flight'[f].cancel = c /\ sf_flight'[f].chunks = q
      /\ sf_ctxDone'[f] = (sf_ctxDone[f] \/ last)
  BY <1>2, <1>7 DEF FlightInv, FlightTyped, Callees
<1>10. \A r \in Subs : r # s => sf_sub'[r] = sf_sub[r]
  BY <1>7 DEF FlightInv, FlightTyped
<1>11. sf_sub'[s] = "out"
  BY <1>7 DEF FlightInv, FlightTyped
<1>12. /\ Aboard(f)' = Aboard(f) \ {s} /\ s \in Aboard(f)
       /\ \A h \in Flight!Flights : h # f => Aboard(h)' = Aboard(h)
  BY <1>0, <1>2, <1>7, <1>10, <1>11 DEF Aboard
<1>13. Cardinality(Aboard(f)') = n /\ (n = 0 <=> Aboard(f)' = {})
  <2>1. IsFiniteSet(Aboard(f))
    <3>1. Aboard(f) \in SUBSET Subs  BY DEF Aboard
    <3> QED  BY <3>1, FiniteSubs, FS_Subset
  <2>2. sf_flight[f].subscribers = Cardinality(Aboard(f))  BY <1>2 DEF FlightInv, CountsCallers
  <2>3. IsFiniteSet(Aboard(f)') /\ Cardinality(Aboard(f)') = Cardinality(Aboard(f)) - 1
    BY <1>12, <2>1, FS_RemoveElement
  <2> QED  BY <1>1, <2>2, <2>3, FS_EmptySet
<1>14. FlightTyped'
  <2>1. sf_ctxDone' \in [Flight!Flights -> BOOLEAN]
    <3>1. PICK b \in BOOLEAN : b = (sf_ctxDone[f] \/ last)  OBVIOUS
    <3> QED  BY <1>7, <3>1 DEF FlightInv, FlightTyped
  <2>2. sf_sub' \in [Subs -> {"idle", "missed", "admit", "in", "waiting", "leaving", "out"}]
    BY <1>7 DEF FlightInv, FlightTyped
  <2> QED  BY <1>7, <1>8, <2>1, <2>2 DEF FlightInv, FlightTyped
<1>15. CountsCallers'
  <2>1. \A h \in Flight!Flights : sf_flight'[h].subscribers = Cardinality(Aboard(h)')
    <3>1. \A h \in Flight!Flights : h # f => sf_flight'[h].subscribers = Cardinality(Aboard(h)')
      BY <1>9, <1>12 DEF FlightInv, CountsCallers
    <3> QED  BY <1>9, <1>13, <3>1
  <2>2. \A r \in Subs : sf_sub'[r] \in {"admit", "in", "waiting", "leaving"} => sf_at'[r] \in Flight!Flights
    BY <1>7, <1>10, <1>11 DEF FlightInv, CountsCallers
  <2>3. ASSUME sf_prod[f].pc = "none"  PROVE FALSE
    BY <1>2, <1>12, <2>3 DEF FlightInv, BeginsClean, Begun
  <2>4. ASSUME NEW r \in Subs, sf_sub'[r] = "admit"
        PROVE  /\ \A t \in Subs : sf_sub'[t] = "admit" => t = r
               /\ sf_prod'[sf_at'[r]].pc = "none" => sf_reg' = sf_at'[r] /\ sf_flight'[sf_at'[r]].cancel
    <3>1. r # s /\ sf_sub[r] = "admit" /\ sf_at[r] \in Flight!Flights
      BY <1>10, <1>11, <2>2, <2>4, <1>7
    <3>2. \A t \in Subs : sf_sub'[t] = "admit" => t = r
      BY <1>10, <1>11, <3>1 DEF FlightInv, CountsCallers
    <3>3. sf_at'[r] = sf_at[r] /\ sf_prod' = sf_prod /\ sf_reg' = sf_reg  BY <1>7
    <3>4. sf_prod[sf_at[r]].pc = "none" => sf_reg = sf_at[r] /\ sf_flight[sf_at[r]].cancel /\ sf_at[r] # f
      BY <2>3, <3>1 DEF FlightInv, CountsCallers
    <3>5. sf_at[r] # f => sf_flight'[sf_at[r]].cancel = sf_flight[sf_at[r]].cancel  BY <1>9, <3>1
    <3> QED  BY <3>2, <3>3, <3>4, <3>5
  <2> QED  BY <2>1, <2>2, <2>4 DEF CountsCallers
<1>16. BeginsClean'
  <2> SUFFICES ASSUME NEW h \in Flight!Flights
               PROVE  /\ ~Begun(h)' => /\ Aboard(h)' = {} /\ sf_flight'[h].chunks = << >>
                                       /\ ~sf_flight'[h].done /\ ~sf_flight'[h].ok
                                       /\ ~sf_ctxDone'[h] /\ sf_expiry'[h] = "none"
                                       /\ sf_prod'[h].sent = 0 /\ ~sf_prod'[h].ok /\ ~sf_prod'[h].called
                      /\ Begun(h)' => sf_flight'[h].cancel \/ sf_ctxDone'[h]
                      /\ Begun(h)' /\ Aboard(h)' = {} => ~sf_flight'[h].cancel
                      /\ sf_flight'[h].done => ~sf_flight'[h].cancel
    BY DEF BeginsClean
  <2>1. CASE h = f
    <3>1. Begun(f)  BY <1>2, <1>12 DEF FlightInv, BeginsClean
    <3> QED  BY <1>2, <1>3, <1>4, <1>7, <1>9, <1>13, <2>1, <3>1 DEF FlightInv, BeginsClean, Begun
  <2>2. CASE h # f
    <3>1. /\ sf_flight'[h].cancel = sf_flight[h].cancel /\ sf_flight'[h].chunks = sf_flight[h].chunks
          /\ sf_flight'[h].done = sf_flight[h].done /\ sf_flight'[h].ok = sf_flight[h].ok
          /\ sf_ctxDone'[h] = sf_ctxDone[h] /\ sf_prod' = sf_prod /\ sf_expiry' = sf_expiry
          /\ Aboard(h)' = Aboard(h)
      BY <1>7, <1>9, <1>12, <2>2
    <3> QED  BY <3>1 DEF FlightInv, BeginsClean, Begun
  <2> QED  BY <2>1, <2>2
<1>17. CallsApart'
  <2>1. \A h \in Flight!Flights : Running(h)' => Running(h)
    BY <1>2, <1>7, <1>9 DEF Running
  <2>2. \A h \in Flight!Flights : sf_ctxDone[h] => sf_ctxDone'[h]
    BY <1>2, <1>9
  <2>3. UNCHANGED <<sf_cached, sf_reg, sf_prod, sf_expiry>>  BY <1>7
  <2>4. \A h \in Flight!Flights : sf_flight'[h].ok = sf_flight[h].ok  BY <1>9
  <2> QED  BY <2>1, <2>2, <2>3, <2>4 DEF FlightInv, CallsApart
<1>18. KeptWhole'
  <2>1. \A h \in Flight!Flights : Keeps(h)' => Keeps(h)
    BY <1>2, <1>4, <1>7, <1>9, <1>12 DEF Keeps
  <2>2. ASSUME n = 0  PROVE ~Keeps(f)'
    <3>1. ~c
      BY <1>2, <1>3, <1>4, <2>2 DEF FlightInv, BeginsClean
    <3> QED  BY <1>9, <1>13, <2>2, <3>1 DEF Keeps
  <2> SUFFICES ASSUME NEW h \in Flight!Flights
               PROVE  /\ Keeps(h)' => /\ Len(sf_flight'[h].chunks) = sf_prod[h].sent
                                      /\ \A i \in 1..sf_prod[h].sent : sf_flight'[h].chunks[i] = i
                      /\ Aboard(h)' = {} => sf_flight'[h].chunks = << >>
    BY <1>7 DEF KeptWhole
  <2>3. CASE h = f
    BY <1>5, <1>9, <1>13, <2>1, <2>2, <2>3 DEF FlightInv, KeptWhole
  <2>4. CASE h # f
    BY <1>9, <1>12, <2>1, <2>4 DEF FlightInv, KeptWhole
  <2> QED  BY <2>3, <2>4
<1>19. HeardFromStart'
  <2>1. \A r \in Subs : sf_sub'[r] \in {"in", "waiting", "leaving"} =>
          r # s /\ sf_at[r] \in Flight!Flights /\ sf_flight'[sf_at[r]].chunks = sf_flight[sf_at[r]].chunks
    <3> SUFFICES ASSUME NEW r \in Subs, sf_sub'[r] \in {"in", "waiting", "leaving"}
                 PROVE  r # s /\ sf_at[r] \in Flight!Flights
                        /\ sf_flight'[sf_at[r]].chunks = sf_flight[sf_at[r]].chunks
      OBVIOUS
    <3>1. r # s /\ sf_sub[r] = sf_sub'[r]  BY <1>10, <1>11
    <3>2. sf_at[r] \in Flight!Flights  BY <3>1 DEF FlightInv, CountsCallers
    <3>3. sf_at[r] = f => n # 0
      <4>1. sf_at[r] = f => r \in Aboard(f)'  BY <1>7 DEF Aboard
      <4> QED  BY <1>13, <4>1
    <3> QED  BY <1>5, <1>9, <3>1, <3>2, <3>3
  <2>2. UNCHANGED <<sf_at, sf_index, sf_got, sf_outcome, sf_open>>  BY <1>7
  <2>3. \A r \in Subs : r = s \/ sf_sub'[r] = sf_sub[r]  BY <1>10
  <2> QED  BY <1>11, <2>1, <2>2, <2>3 DEF FlightInv, HeardFromStart
<1> QED  BY <1>14, <1>15, <1>16, <1>17, <1>18, <1>19 DEF FlightInv

(* What the producer does without touching the flight.                     *)
LEMMA CallStep ==
  ASSUME Flight!FlightAssumption, FlightInv, NEW f \in Flight!Flights,
         \/ Flight!OwnerStarts(f) \/ Flight!PublishStarts(f) \/ Flight!ProviderEnds(f)
         \/ Flight!ProviderFails(f) \/ (Flight!PublishAppends(f) /\ ~Flight!Admitted(f))
  PROVE  FlightInv'
<1>1. UNCHANGED <<sf_cached, sf_reg, sf_flight, sf_ctxDone, sf_expiry, sf_sub, sf_at, sf_index, sf_got, sf_outcome, sf_cancelled, sf_open>>
  BY DEF Flight!OwnerStarts, Flight!PublishStarts, Flight!ProviderEnds, Flight!ProviderFails,
     Flight!PublishAppends, Flight!subVars
<1>2. \A h \in Flight!Flights : Aboard(h)' = Aboard(h)
  BY <1>1 DEF Aboard
<1>3. PICK l \in {"finish", "call", "copy", "store"}, b \in BOOLEAN :
        /\ \/ sf_prod' = [sf_prod EXCEPT ![f].pc = l] /\ b = sf_prod[f].called
           \/ /\ sf_prod' = [sf_prod EXCEPT ![f].pc = l, ![f].called = b]
              /\ b = (~sf_cached /\ ~sf_ctxDone[f])
        /\ sf_prod[f].pc \in {"start", "call", "copy"}
        /\ l = "store" => sf_prod[f].sent = Whole
  <2>1. sf_prod[f].called \in BOOLEAN  BY DEF FlightInv, FlightTyped, Producers
  <2>2. CASE Flight!OwnerStarts(f)
    <3>1. PICK l \in {"finish", "call"} : l = IF sf_ctxDone[f] THEN "finish" ELSE "call"  OBVIOUS
    <3>2. PICK b \in BOOLEAN : b = (~sf_cached /\ ~sf_ctxDone[f])  OBVIOUS
    <3> QED  BY <2>2, <3>1, <3>2 DEF Flight!OwnerStarts
  <2>3. CASE Flight!PublishStarts(f)
    <3>1. PICK l \in {"finish", "copy"} : l = IF Flight!Admitted(f) THEN "copy" ELSE "finish"  OBVIOUS
    <3> QED  BY <2>1, <2>3, <3>1 DEF Flight!PublishStarts
  <2>4. CASE Flight!ProviderEnds(f)
    <3>1. PICK l \in {"finish", "store"} : l = IF sf_ctxDone[f] THEN "finish" ELSE "store"  OBVIOUS
    <3> QED  BY <2>1, <2>4, <3>1 DEF Flight!ProviderEnds
  <2>5. CASE Flight!ProviderFails(f) \/ (Flight!PublishAppends(f) /\ ~Flight!Admitted(f))
    BY <2>1, <2>5 DEF Flight!ProviderFails, Flight!PublishAppends
  <2> QED  BY <2>2, <2>3, <2>4, <2>5
<1>4. /\ \A h \in Flight!Flights :
           /\ sf_prod'[h].sent = sf_prod[h].sent /\ sf_prod'[h].ok = sf_prod[h].ok
           /\ h # f => sf_prod'[h].pc = sf_prod[h].pc /\ sf_prod'[h].called = sf_prod[h].called
      /\ sf_prod'[f].pc = l /\ (sf_prod'[f].called => sf_prod[f].called \/ ~sf_cached)
  BY <1>3 DEF FlightInv, FlightTyped, Producers
<1>5. FlightTyped'
  <2>1. l \in Phases  BY <1>3 DEF Phases
  <2>2. sf_prod' \in [Flight!Flights -> Producers]  BY <1>3, <2>1, ProducerStays
  <2> QED  BY <1>1, <2>2 DEF FlightInv, FlightTyped
<1>6. CountsCallers'
  BY <1>1, <1>2, <1>3, <1>4 DEF FlightInv, CountsCallers
<1>7. BeginsClean'
  BY <1>1, <1>2, <1>3, <1>4 DEF FlightInv, BeginsClean, Begun
<1>8. CallsApart'
  <2>1. ~sf_prod[f].ok  BY <1>3 DEF FlightInv, CallsApart
  <2>2. \A h \in Flight!Flights : Running(h)' => Running(h)
    BY <1>1, <1>3, <1>4 DEF Running
  <2> QED  BY <1>1, <1>3, <1>4, <2>1, <2>2 DEF FlightInv, CallsApart
<1>9. KeptWhole'
  BY <1>1, <1>2, <1>4 DEF FlightInv, KeptWhole, Keeps
<1>10. HeardFromStart'
  BY <1>1 DEF FlightInv, HeardFromStart
<1> QED  BY <1>5, <1>6, <1>7, <1>8, <1>9, <1>10 DEF FlightInv

(* The whole asset goes into the cache.                                    *)
LEMMA StoreStep ==
  ASSUME Flight!FlightAssumption, FlightInv, NEW f \in Flight!Flights, Flight!Store(f)
  PROVE  FlightInv'
<1>1. UNCHANGED <<sf_reg, sf_flight, sf_ctxDone, sf_expiry, sf_sub, sf_at, sf_index, sf_got, sf_outcome, sf_cancelled, sf_open>>
      /\ sf_cached' = TRUE /\ sf_prod[f].pc = "store"
  BY DEF Flight!Store, Flight!subVars
<1>2. \A h \in Flight!Flights : Aboard(h)' = Aboard(h)
  BY <1>1 DEF Aboard
<1>3. PICK b \in BOOLEAN : b = ~sf_ctxDone[f]  OBVIOUS
<1>4. sf_prod' = [sf_prod EXCEPT ![f].pc = "finish", ![f].ok = b]
  BY <1>3 DEF Flight!Store
<1>5. /\ \A h \in Flight!Flights :
           /\ sf_prod'[h].sent = sf_prod[h].sent /\ sf_prod'[h].called = sf_prod[h].called
           /\ h # f => sf_prod'[h].pc = sf_prod[h].pc /\ sf_prod'[h].ok = sf_prod[h].ok
      /\ sf_prod'[f].pc = "finish" /\ sf_prod'[f].ok = b
  BY <1>4 DEF FlightInv, FlightTyped, Producers
<1>6. FlightTyped'
  <2>1. "finish" \in Phases /\ sf_prod[f].sent \in Nat  BY DEF Phases, FlightInv, FlightTyped, Producers
  <2>2. sf_prod' \in [Flight!Flights -> Producers]  BY <1>4, <2>1, ProducerStays
  <2> QED  BY <1>1, <2>2 DEF FlightInv, FlightTyped
<1>7. CountsCallers'
  BY <1>1, <1>2, <1>5 DEF FlightInv, CountsCallers
<1>8. BeginsClean'
  BY <1>1, <1>2, <1>5 DEF FlightInv, BeginsClean, Begun
<1>9. CallsApart'
  <2>1. sf_prod[f].sent = Whole /\ (b => Running(f))
    BY <1>1, <1>3 DEF FlightInv, CallsApart, Running
  <2>2. \A h \in Flight!Flights : Running(h)' => Running(h) /\ h # f
    BY <1>1, <1>5 DEF Running
  <2>3. \A h \in Flight!Flights :
          /\ Running(h)' => sf_reg' = h
          /\ sf_prod'[h].ok => sf_cached' /\ sf_prod'[h].sent = Whole /\ sf_prod'[h].pc \in {"finish", "retire", "over"}
          /\ sf_prod'[h].pc = "store" => sf_prod'[h].sent = Whole
          /\ sf_flight'[h].ok => sf_prod'[h].ok
          /\ sf_expiry'[h] = "retire" => sf_ctxDone'[h]
    <3>1. ~sf_prod[f].ok  BY <1>1 DEF FlightInv, CallsApart
    <3> QED  BY <1>1, <1>5, <2>1, <2>2, <3>1 DEF FlightInv, CallsApart
  <2>4. ASSUME NEW g \in Flight!Flights, NEW h \in Flight!Flights,
               g # h, sf_prod'[g].called, sf_prod'[g].ok, sf_prod'[h].called, Running(h)' \/ sf_prod'[h].ok
        PROVE  FALSE
    <3>1. \A x \in Flight!Flights : Running(x) => sf_reg = x  BY DEF FlightInv, CallsApart
    <3>2. \A x \in Flight!Flights : x # f /\ sf_prod[x].called /\ sf_prod[x].ok /\ b => ~sf_prod[f].called
      BY <2>1 DEF FlightInv, CallsApart
    <3> QED  BY <1>5, <2>1, <2>2, <2>4, <3>1, <3>2 DEF FlightInv, CallsApart
  <2> QED  BY <2>3, <2>4 DEF CallsApart
<1>10. KeptWhole'
  BY <1>1, <1>2, <1>5 DEF FlightInv, KeptWhole, Keeps
<1>11. HeardFromStart'
  BY <1>1 DEF FlightInv, HeardFromStart
<1> QED  BY <1>6, <1>7, <1>8, <1>9, <1>10, <1>11 DEF FlightInv

(* The context ends; the flight leaves the registry.                       *)
LEMMA EndStep ==
  ASSUME FlightInv, NEW f \in Flight!Flights,
         Flight!Timeout(f) \/ Flight!ProducerRetires(f) \/ Flight!ExpiryRetires(f)
  PROVE  FlightInv'
<1>1. /\ UNCHANGED <<sf_cached, sf_flight, sf_sub, sf_at, sf_index, sf_got, sf_outcome, sf_cancelled, sf_open>>
      /\ \/ /\ sf_ctxDone' = [sf_ctxDone EXCEPT ![f] = TRUE] /\ UNCHANGED <<sf_reg, sf_prod, sf_expiry>>
            /\ sf_prod[f].pc # "none"
         \/ /\ sf_prod[f].pc = "retire" /\ sf_prod' = [sf_prod EXCEPT ![f].pc = "over"]
            /\ sf_reg' = (IF sf_reg = f THEN None ELSE sf_reg) /\ UNCHANGED sf_ctxDone
            /\ sf_expiry' = [sf_expiry EXCEPT ![f] = IF @ = "armed" /\ ~sf_ctxDone[f] THEN "over" ELSE @]
            /\ \A s \in Subs : sf_sub[s] # "admit"
         \/ /\ sf_expiry[f] = "retire" /\ sf_expiry' = [sf_expiry EXCEPT ![f] = "over"]
            /\ sf_reg' = (IF sf_reg = f THEN None ELSE sf_reg) /\ UNCHANGED <<sf_ctxDone, sf_prod>>
            /\ \A s \in Subs : sf_sub[s] # "admit"
  BY DEF Flight!Timeout, Flight!ProducerRetires, Flight!ExpiryRetires, Flight!Retired,
     Flight!RegistryFree, Flight!subVars
<1>2. \A h \in Flight!Flights : Aboard(h)' = Aboard(h)
  BY <1>1 DEF Aboard
<1>3. \A h \in Flight!Flights :
        /\ sf_prod'[h].sent = sf_prod[h].sent /\ sf_prod'[h].ok = sf_prod[h].ok /\ sf_prod'[h].called = sf_prod[h].called
        /\ sf_prod'[h].pc = sf_prod[h].pc \/ (sf_prod[h].pc = "retire" /\ sf_prod'[h].pc = "over")
        /\ sf_ctxDone'[h] = sf_ctxDone[h] \/ (sf_ctxDone'[h] /\ sf_prod[h].pc # "none")
        /\ sf_expiry'[h] = sf_expiry[h] \/ (sf_expiry'[h] = "over" /\ sf_expiry[h] # "none")
  <2>1. \A h \in Flight!Flights :
          /\ sf_prod'[h].sent = sf_prod[h].sent /\ sf_prod'[h].ok = sf_prod[h].ok /\ sf_prod'[h].called = sf_prod[h].called
          /\ sf_prod'[h].pc = sf_prod[h].pc \/ (sf_prod[h].pc = "retire" /\ sf_prod'[h].pc = "over")
    BY <1>1 DEF FlightInv, FlightTyped, Producers
  <2>2. \A h \in Flight!Flights : sf_ctxDone'[h] = sf_ctxDone[h] \/ (sf_ctxDone'[h] /\ sf_prod[h].pc # "none")
    BY <1>1 DEF FlightInv, FlightTyped
  <2>3. \A h \in Flight!Flights : sf_expiry'[h] = sf_expiry[h] \/ (sf_expiry'[h] = "over" /\ sf_expiry[h] # "none")
    BY <1>1 DEF FlightInv, FlightTyped
  <2> QED  BY <2>1, <2>2, <2>3
<1>4. FlightTyped'
  <2>1. sf_prod' \in [Flight!Flights -> Producers]
    <3>1. CASE sf_prod' = sf_prod  BY <3>1 DEF FlightInv, FlightTyped
    <3>2. CASE sf_prod' = [sf_prod EXCEPT ![f].pc = "over"]
      <4>1. "over" \in Phases /\ sf_prod[f].ok \in BOOLEAN /\ sf_prod[f].sent \in Nat
        BY DEF Phases, FlightInv, FlightTyped, Producers
      <4> QED  BY <3>2, <4>1, ProducerStays
    <3> QED  BY <1>1, <3>1, <3>2
  <2>2. sf_ctxDone' \in [Flight!Flights -> BOOLEAN] /\ sf_reg' \in Flight!Flights \union {None}
    BY <1>1 DEF FlightInv, FlightTyped
  <2>3. sf_expiry' \in [Flight!Flights -> {"none", "armed", "retire", "over"}]
    BY <1>1 DEF FlightInv, FlightTyped
  <2> QED  BY <1>1, <2>1, <2>2, <2>3 DEF FlightInv, FlightTyped
<1>5. CountsCallers'
  <2>1. \A s \in Subs : sf_sub[s] = "admit" => sf_reg' = sf_reg  BY <1>1
  <2> QED  BY <1>1, <1>2, <1>3, <2>1 DEF FlightInv, CountsCallers
<1>6. BeginsClean'
  BY <1>1, <1>2, <1>3 DEF FlightInv, BeginsClean, Begun
<1>7. CallsApart'
  <2>1. \A h \in Flight!Flights : Running(h)' => Running(h) /\ sf_reg' = sf_reg
    <3>1. \A h \in Flight!Flights : Running(h)' => Running(h)  BY <1>3 DEF Running
    <3>2. sf_prod[f].pc = "retire" \/ sf_ctxDone[f] => ~Running(f)  BY DEF Running
    <3>3. sf_expiry[f] = "retire" => sf_ctxDone[f]  BY DEF FlightInv, CallsApart
    <3>4. Running(f) => sf_reg' = sf_reg  BY <1>1, <3>2, <3>3
    <3>5. sf_reg # f => sf_reg' = sf_reg  BY <1>1
    <3> QED  BY <3>1, <3>4, <3>5 DEF FlightInv, CallsApart
  <2> QED  BY <1>1, <1>3, <2>1 DEF FlightInv, CallsApart
<1>8. KeptWhole'
  BY <1>1, <1>2, <1>3 DEF FlightInv, KeptWhole, Keeps
<1>9. HeardFromStart'
  BY <1>1 DEF FlightInv, HeardFromStart
<1> QED  BY <1>4, <1>5, <1>6, <1>7, <1>8, <1>9 DEF FlightInv

(* A chunk is appended for everyone.                                       *)
LEMMA AppendStep ==
  ASSUME Flight!FlightAssumption, FlightInv, NEW f \in Flight!Flights,
         Flight!PublishAppends(f), Flight!Admitted(f)
  PROVE  FlightInv'
<1>0. PICK n : n = sf_prod[f].sent + 1  OBVIOUS
<1>1. n \in Nat /\ sf_prod[f].sent \in Nat /\ sf_flight[f].chunks \in Seq(Int)
  BY <1>0 DEF FlightInv, FlightTyped, Producers, Callees, Lists
<1>2. PICK q : q = Append(sf_flight[f].chunks, n)  OBVIOUS
<1>3. q \in Lists /\ Len(q) = Len(sf_flight[f].chunks) + 1 /\ Len(sf_flight[f].chunks) \in Nat
  BY <1>1, <1>2 DEF Lists
<1>4. /\ \A i \in 1..Len(sf_flight[f].chunks) : q[i] = sf_flight[f].chunks[i]
      /\ q[Len(sf_flight[f].chunks) + 1] = n
  BY <1>1, <1>2
<1>5. /\ sf_prod[f].pc = "copy" /\ ~sf_flight[f].done /\ ~(sf_flight[f].subscribers = 0 /\ ~sf_flight[f].cancel)
      /\ sf_flight' = [sf_flight EXCEPT ![f].chunks = q]
      /\ sf_prod' = [sf_prod EXCEPT ![f].pc = "call", ![f].sent = n]
      /\ UNCHANGED <<sf_cached, sf_reg, sf_ctxDone, sf_expiry, sf_at, sf_index, sf_got, sf_outcome, sf_cancelled, sf_open>>
  BY <1>0, <1>2 DEF Flight!PublishAppends, Flight!Admitted, Flight!Unavailable, Flight!Abandoned
<1>6. /\ sf_sub' \in [Subs -> {"idle", "missed", "admit", "in", "waiting", "leaving", "out"}]
      /\ \A r \in Subs : sf_sub'[r] = sf_sub[r] \/ (sf_sub[r] = "waiting" /\ sf_sub'[r] = "in")
  BY DEF FlightInv, FlightTyped, Flight!PublishAppends, Flight!Woken
<1>7. \A h \in Flight!Flights : Aboard(h)' = Aboard(h)
  BY <1>5, <1>6 DEF Aboard
<1>8. \A h \in Flight!Flights :
        /\ sf_flight'[h].done = sf_flight[h].done /\ sf_flight'[h].ok = sf_flight[h].ok
        /\ sf_flight'[h].subscribers = sf_flight[h].subscribers /\ sf_flight'[h].cancel = sf_flight[h].cancel
        /\ h # f => sf_flight'[h].chunks = sf_flight[h].chunks
        /\ sf_flight'[f].chunks = q
  BY <1>5 DEF FlightInv, FlightTyped, Callees
<1>9. \A h \in Flight!Flights :
        /\ sf_prod'[h].ok = sf_prod[h].ok /\ sf_prod'[h].called = sf_prod[h].called
        /\ h # f => sf_prod'[h].pc = sf_prod[h].pc /\ sf_prod'[h].sent = sf_prod[h].sent
        /\ sf_prod'[f].pc = "call" /\ sf_prod'[f].sent = n
  BY <1>5 DEF FlightInv, FlightTyped, Producers
<1>10. FlightTyped'
  <2>1. sf_flight' \in [Flight!Flights -> Callees]
    BY <1>3, <1>5, ListField DEF FlightInv, FlightTyped
  <2>2. "call" \in Phases /\ sf_prod[f].ok \in BOOLEAN
    BY DEF Phases, FlightInv, FlightTyped, Producers
  <2>3. sf_prod' \in [Flight!Flights -> Producers]  BY <1>1, <1>5, <2>2, ProducerStays
  <2> QED  BY <1>5, <1>6, <2>1, <2>3 DEF FlightInv, FlightTyped
<1>11. CountsCallers'
  <2>1. \A h \in Flight!Flights : sf_prod'[h].pc = "none" => sf_prod[h].pc = "none"
    BY <1>9
  <2>2. UNCHANGED <<sf_reg, sf_at>>  BY <1>5
  <2>3. \A r \in Subs : sf_sub'[r] \in {"admit", "in", "waiting", "leaving"} => sf_at'[r] \in Flight!Flights
    BY <1>6, <2>2 DEF FlightInv, CountsCallers
  <2>4. \A h \in Flight!Flights : sf_flight'[h].subscribers = Cardinality(Aboard(h)')
    BY <1>7, <1>8 DEF FlightInv, CountsCallers
  <2>5. \A r \in Subs : sf_sub'[r] = "admit" <=> sf_sub[r] = "admit"  BY <1>6
  <2>6. \A h \in Flight!Flights : sf_flight'[h].cancel = sf_flight[h].cancel  BY <1>8
  <2> QED  BY <2>1, <2>2, <2>3, <2>4, <2>5, <2>6 DEF FlightInv, CountsCallers
<1>12. BeginsClean'
  <2>1. \A h \in Flight!Flights : Begun(h)' <=> Begun(h)
    BY <1>5, <1>9 DEF Begun
  <2>2. Begun(f)  BY <1>5 DEF Begun
  <2>3. \A h \in Flight!Flights :
          /\ ~Begun(h) => sf_flight'[h].chunks = sf_flight[h].chunks /\ sf_prod'[h].sent = sf_prod[h].sent
          /\ sf_flight'[h].done = sf_flight[h].done /\ sf_flight'[h].ok = sf_flight[h].ok
          /\ sf_flight'[h].cancel = sf_flight[h].cancel
          /\ sf_prod'[h].ok = sf_prod[h].ok /\ sf_prod'[h].called = sf_prod[h].called
    BY <1>8, <1>9, <2>2
  <2>4. UNCHANGED <<sf_ctxDone, sf_expiry>>  BY <1>5
  <2> QED  BY <1>7, <2>1, <2>3, <2>4 DEF FlightInv, BeginsClean
<1>13. CallsApart'
  <2>1. ~sf_prod[f].ok  BY <1>5 DEF FlightInv, CallsApart
  <2>2. \A h \in Flight!Flights : Running(h)' => Running(h)
    BY <1>5, <1>9 DEF Running
  <2>3. \A h \in Flight!Flights :
          /\ sf_prod'[h].ok = sf_prod[h].ok /\ sf_prod'[h].called = sf_prod[h].called
          /\ sf_prod'[h].ok => sf_prod'[h].pc = sf_prod[h].pc /\ sf_prod'[h].sent = sf_prod[h].sent
          /\ sf_prod'[h].pc = "store" => sf_prod[h].pc = "store" /\ sf_prod'[h].sent = sf_prod[h].sent
          /\ sf_flight'[h].ok = sf_flight[h].ok
    BY <1>8, <1>9, <2>1
  <2>4. UNCHANGED <<sf_cached, sf_reg, sf_ctxDone, sf_expiry>>  BY <1>5
  <2> QED  BY <2>2, <2>3, <2>4 DEF FlightInv, CallsApart
<1>14. Aboard(f) # {}
  <2>1. sf_flight[f].subscribers = Cardinality(Aboard(f))  BY DEF FlightInv, CountsCallers
  <2>2. Aboard(f) = {} => ~sf_flight[f].cancel  BY <1>5 DEF FlightInv, BeginsClean, Begun
  <2> QED  BY <1>5, <2>1, <2>2, FS_EmptySet
<1>15. KeptWhole'
  <2>1. \A h \in Flight!Flights : Keeps(h)' <=> Keeps(h)
    BY <1>5, <1>7, <1>8 DEF Keeps
  <2> SUFFICES ASSUME NEW h \in Flight!Flights
               PROVE  /\ Keeps(h) => /\ Len(sf_flight'[h].chunks) = sf_prod'[h].sent
                                     /\ \A i \in 1..sf_prod'[h].sent : sf_flight'[h].chunks[i] = i
                      /\ Aboard(h) = {} => sf_flight'[h].chunks = << >>
    BY <1>7, <2>1 DEF KeptWhole
  <2>2. CASE h # f
    BY <1>8, <1>9, <2>2 DEF FlightInv, KeptWhole
  <2>3. CASE h = f
    <3> SUFFICES ASSUME Keeps(f)  PROVE Len(q) = n /\ \A i \in 1..n : q[i] = i
      BY <1>8, <1>9, <1>14, <2>3
    <3>1. /\ Len(sf_flight[f].chunks) = sf_prod[f].sent
          /\ \A i \in 1..sf_prod[f].sent : sf_flight[f].chunks[i] = i
      BY DEF FlightInv, KeptWhole
    <3>2. \A i \in 1..n : i \in 1..sf_prod[f].sent \/ i = n  BY <1>0, <1>1
    <3> QED  BY <1>0, <1>3, <1>4, <3>1, <3>2
  <2> QED  BY <2>2, <2>3
<1>16. HeardFromStart'
  <2>1. \A r \in Subs : sf_sub[r] \in {"in", "waiting", "leaving"} =>
          /\ sf_at[r] \in Flight!Flights
          /\ sf_index[r] <= Len(sf_flight[sf_at[r]].chunks) => sf_index[r] <= Len(sf_flight'[sf_at[r]].chunks)
    <3>1. \A r \in Subs : sf_sub[r] \in {"in", "waiting", "leaving"} => sf_at[r] \in Flight!Flights
      BY DEF FlightInv, CountsCallers
    <3>2. \A r \in Subs : sf_index[r] \in Nat  BY DEF FlightInv, FlightTyped
    <3> QED  BY <1>3, <1>8, <3>1, <3>2
  <2>2. UNCHANGED <<sf_at, sf_index, sf_got, sf_outcome, sf_open>>  BY <1>5
  <2> QED  BY <1>6, <2>1, <2>2 DEF FlightInv, HeardFromStart
<1> QED  BY <1>10, <1>11, <1>12, <1>13, <1>15, <1>16 DEF FlightInv

(* The flight is completed, by its producer or by its expiry.              *)
LEMMA CompleteStep ==
  ASSUME Flight!FlightAssumption, FlightInv, NEW f \in Flight!Flights, NEW b \in BOOLEAN,
         Flight!Complete(f, b),
         UNCHANGED <<sf_cached, sf_reg, sf_at, sf_index, sf_got, sf_outcome, sf_cancelled, sf_open>>,
         \/ /\ sf_prod[f].pc = "finish" /\ b = sf_prod[f].ok
            /\ sf_prod' = [sf_prod EXCEPT ![f].pc = "retire"] /\ UNCHANGED sf_expiry
         \/ /\ ~b /\ UNCHANGED sf_prod /\ sf_ctxDone[f] /\ sf_expiry[f] = "armed"
            /\ sf_expiry' = [sf_expiry EXCEPT ![f] = "retire"]
  PROVE  FlightInv'
<1>0. Begun(f)
  BY DEF FlightInv, BeginsClean, Begun
<1>1. /\ sf_sub' \in [Subs -> {"idle", "missed", "admit", "in", "waiting", "leaving", "out"}]
      /\ \A r \in Subs : sf_sub'[r] = sf_sub[r] \/ (sf_sub[r] = "waiting" /\ sf_sub'[r] = "in")
  BY DEF FlightInv, FlightTyped, Flight!Complete, Flight!Woken
<1>2. \A h \in Flight!Flights : Aboard(h)' = Aboard(h)
  BY <1>1 DEF Aboard
<1>3. sf_flight' \in [Flight!Flights -> Callees] /\ sf_ctxDone' \in [Flight!Flights -> BOOLEAN]
      /\ \A h \in Flight!Flights :
           /\ sf_flight'[h].chunks = sf_flight[h].chunks /\ sf_flight'[h].subscribers = sf_flight[h].subscribers
           /\ h # f => sf_flight'[h] = sf_flight[h] /\ sf_ctxDone'[h] = sf_ctxDone[h]
           /\ sf_ctxDone[h] => sf_ctxDone'[h]
           /\ sf_flight'[f].done /\ (sf_flight'[f].ok => sf_flight[f].ok \/ b)
           /\ ~sf_flight'[f].cancel /\ (sf_flight[f].cancel => sf_ctxDone'[f])
  <2>1. CASE sf_flight[f].done
    <3>1. ~sf_flight[f].cancel  BY <2>1 DEF FlightInv, BeginsClean
    <3> QED  BY <2>1, <3>1 DEF Flight!Complete, FlightInv, FlightTyped
  <2>2. CASE ~sf_flight[f].done
    <3>1. PICK u : u = [sf_flight EXCEPT ![f].done = TRUE]  OBVIOUS
    <3>2. PICK v : v = [u EXCEPT ![f].ok = b]  OBVIOUS
    <3>3. PICK w : w = [v EXCEPT ![f].cancel = FALSE]  OBVIOUS
    <3>4. u \in [Flight!Flights -> Callees]  BY <3>1, BoolField DEF FlightInv, FlightTyped
    <3>5. v \in [Flight!Flights -> Callees]  BY <3>2, <3>4, BoolField
    <3>6. w \in [Flight!Flights -> Callees]  BY <3>3, <3>5, BoolField
    <3>7. sf_flight' = [sf_flight EXCEPT ![f].done = TRUE, ![f].ok = b, ![f].cancel = FALSE]
          /\ sf_ctxDone' = [sf_ctxDone EXCEPT ![f] = @ \/ sf_flight[f].cancel]
      BY <2>2 DEF Flight!Complete
    <3>8. sf_flight' = w  BY <3>1, <3>2, <3>3, <3>7
    <3>9. \A h \in Flight!Flights :
           /\ sf_flight'[h].chunks = sf_flight[h].chunks /\ sf_flight'[h].subscribers = sf_flight[h].subscribers
           /\ h # f => sf_flight'[h] = sf_flight[h]
           /\ sf_flight'[f].done /\ sf_flight'[f].ok = b /\ ~sf_flight'[f].cancel
      BY <3>7 DEF FlightInv, FlightTyped, Callees
    <3>10. PICK c \in BOOLEAN : c = (sf_ctxDone[f] \/ sf_flight[f].cancel)  OBVIOUS
    <3>11. sf_ctxDone' = [sf_ctxDone EXCEPT ![f] = c]  BY <3>7, <3>10
    <3>12. sf_ctxDone' \in [Flight!Flights -> BOOLEAN]
           /\ \A h \in Flight!Flights : /\ h # f => sf_ctxDone'[h] = sf_ctxDone[h]
                                        /\ sf_ctxDone'[f] = c
      BY <3>11 DEF FlightInv, FlightTyped
    <3> QED  BY <3>6, <3>8, <3>9, <3>10, <3>12
  <2> QED  BY <2>1, <2>2
<1>4. \A h \in Flight!Flights :
        /\ sf_prod'[h].sent = sf_prod[h].sent /\ sf_prod'[h].ok = sf_prod[h].ok /\ sf_prod'[h].called = sf_prod[h].called
        /\ sf_prod'[h].pc = sf_prod[h].pc \/ (sf_prod[h].pc = "finish" /\ sf_prod'[h].pc = "retire")
        /\ sf_expiry'[h] = sf_expiry[h] \/ (sf_expiry'[h] = "retire" /\ sf_ctxDone[h] /\ h = f)
  <2>1. \A h \in Flight!Flights :
          /\ sf_prod'[h].sent = sf_prod[h].sent /\ sf_prod'[h].ok = sf_prod[h].ok /\ sf_prod'[h].called = sf_prod[h].called
          /\ sf_prod'[h].pc = sf_prod[h].pc \/ (sf_prod[h].pc = "finish" /\ sf_prod'[h].pc = "retire")
    BY DEF FlightInv, FlightTyped, Producers
  <2>2. \A h \in Flight!Flights :
          sf_expiry'[h] = sf_expiry[h] \/ (sf_expiry'[h] = "retire" /\ sf_ctxDone[h] /\ h = f)
    BY DEF FlightInv, FlightTyped
  <2> QED  BY <2>1, <2>2
<1>5. FlightTyped'
  <2>1. sf_prod' \in [Flight!Flights -> Producers]
    <3>1. CASE sf_prod' = sf_prod  BY <3>1 DEF FlightInv, FlightTyped
    <3>2. CASE sf_prod' = [sf_prod EXCEPT ![f].pc = "retire"]
      <4>1. "retire" \in Phases /\ sf_prod[f].ok \in BOOLEAN /\ sf_prod[f].sent \in Nat
        BY DEF Phases, FlightInv, FlightTyped, Producers
      <4> QED  BY <3>2, <4>1, ProducerStays
    <3> QED  BY <3>1, <3>2
  <2>2. sf_expiry' \in [Flight!Flights -> {"none", "armed", "retire", "over"}]
    BY DEF FlightInv, FlightTyped
  <2> QED  BY <1>1, <1>3, <2>1, <2>2 DEF FlightInv, FlightTyped
<1>6. CountsCallers'
  <2>1. \A h \in Flight!Flights : sf_prod'[h].pc = "none" => sf_prod[h].pc = "none" /\ h # f
    BY <1>0, <1>4 DEF Begun
  <2> QED  BY <1>1, <1>2, <1>3, <2>1 DEF FlightInv, CountsCallers
<1>7. BeginsClean'
  <2>1. \A h \in Flight!Flights : Begun(h)' <=> Begun(h)
    BY <1>4 DEF Begun
  <2>2. \A h \in Flight!Flights : h # f => sf_expiry'[h] = sf_expiry[h]
    BY <1>4
  <2> SUFFICES ASSUME NEW h \in Flight!Flights
               PROVE  /\ ~Begun(h)' => /\ Aboard(h)' = {} /\ sf_flight'[h].chunks = << >>
                                       /\ ~sf_flight'[h].done /\ ~sf_flight'[h].ok
                                       /\ ~sf_ctxDone'[h] /\ sf_expiry'[h] = "none"
                                       /\ sf_prod'[h].sent = 0 /\ ~sf_prod'[h].ok /\ ~sf_prod'[h].called
                      /\ Begun(h)' => sf_flight'[h].cancel \/ sf_ctxDone'[h]
                      /\ Begun(h)' /\ Aboard(h)' = {} => ~sf_flight'[h].cancel
                      /\ sf_flight'[h].done => ~sf_flight'[h].cancel
    BY DEF BeginsClean
  <2>3. CASE h = f
    BY <1>0, <1>3, <2>1, <2>3 DEF FlightInv, BeginsClean
  <2>4. CASE h # f
    BY <1>2, <1>3, <1>4, <2>1, <2>2, <2>4 DEF FlightInv, BeginsClean
  <2> QED  BY <2>3, <2>4
<1>8. CallsApart'
  <2>1. \A h \in Flight!Flights : Running(h)' => Running(h)
    BY <1>3, <1>4 DEF Running
  <2>2. sf_flight'[f].ok => sf_prod[f].ok
    BY <1>3 DEF FlightInv, CallsApart
  <2>3. \A h \in Flight!Flights : sf_flight'[h].ok => sf_prod'[h].ok
    BY <1>3, <1>4, <2>2 DEF FlightInv, CallsApart
  <2> QED  BY <1>3, <1>4, <2>1, <2>3 DEF FlightInv, CallsApart
<1>9. KeptWhole'
  <2>1. \A h \in Flight!Flights : Keeps(h)' => Keeps(h)
    BY <1>2, <1>3 DEF Keeps
  <2> QED  BY <1>2, <1>3, <1>4, <2>1 DEF FlightInv, KeptWhole
<1>10. HeardFromStart'
  <2>1. \A r \in Subs : sf_sub[r] \in {"in", "waiting", "leaving"} => sf_at[r] \in Flight!Flights
    BY DEF FlightInv, CountsCallers
  <2>2. \A h \in Flight!Flights : sf_flight'[h].chunks = sf_flight[h].chunks  BY <1>3
  <2> QED  BY <1>1, <2>1, <2>2 DEF FlightInv, HeardFromStart
<1> QED  BY <1>5, <1>6, <1>7, <1>8, <1>9, <1>10 DEF FlightInv

(* Every step keeps the flights' invariant.                                *)
LEMMA FlightStepHolds ==
  ASSUME Flight!FlightAssumption, FlightInv, [Flight!Next]_(Flight!vars)
  PROVE  FlightInv'
<1>1. ASSUME NEW s \in Subs, Flight!SubStep(s) \/ Flight!Cancel(s) \/ Flight!CancelWakes(s)
      PROVE  FlightInv'
  BY <1>1, LookUpStep, LookStep, JoinStep, PauseStep, DeliverStep, ReturnStep, UnsubscribeStep
     DEF Flight!SubStep
<1>2. ASSUME NEW f \in Flight!Flights,
             \/ Flight!FlightStep(f) \/ Flight!ExpiryStep(f) \/ Flight!Timeout(f)
             \/ Flight!PublishStarts(f) \/ Flight!ProviderEnds(f) \/ Flight!ProviderFails(f)
      PROVE  FlightInv'
  <2>1. CASE \/ Flight!OwnerStarts(f) \/ Flight!PublishStarts(f) \/ Flight!ProviderEnds(f)
             \/ Flight!ProviderFails(f)
    BY <2>1, CallStep
  <2>2. CASE Flight!PublishAppends(f)
    BY <2>2, CallStep, AppendStep
  <2>3. CASE Flight!Store(f)
    BY <2>3, StoreStep
  <2>4. CASE Flight!Timeout(f) \/ Flight!ProducerRetires(f) \/ Flight!ExpiryRetires(f)
    BY <2>4, EndStep
  <2>5. CASE Flight!ProducerCompletes(f)
    <3>1. sf_prod[f].ok \in BOOLEAN  BY DEF FlightInv, FlightTyped, Producers
    <3>2. PICK b \in BOOLEAN : b = sf_prod[f].ok  BY <3>1
    <3>3. /\ sf_prod[f].pc = "finish" /\ Flight!Complete(f, b)
          /\ sf_prod' = [sf_prod EXCEPT ![f].pc = "retire"] /\ UNCHANGED sf_expiry
          /\ UNCHANGED <<sf_cached, sf_reg, sf_at, sf_index, sf_got, sf_outcome, sf_cancelled, sf_open>>
      BY <2>5, <3>2 DEF Flight!ProducerCompletes
    <3> QED  BY <3>2, <3>3, CompleteStep
  <2>6. CASE Flight!ExpiryCompletes(f)
    <3>1. /\ sf_expiry[f] = "armed" /\ sf_ctxDone[f] /\ Flight!Complete(f, FALSE)
          /\ sf_expiry' = [sf_expiry EXCEPT ![f] = "retire"] /\ UNCHANGED sf_prod
          /\ UNCHANGED <<sf_cached, sf_reg, sf_at, sf_index, sf_got, sf_outcome, sf_cancelled, sf_open>>
      BY <2>6 DEF Flight!ExpiryCompletes
    <3>2. FALSE \in BOOLEAN  OBVIOUS
    <3> QED  BY <3>1, <3>2, CompleteStep
  <2> QED
    BY <1>2, <2>1, <2>2, <2>3, <2>4, <2>5, <2>6 DEF Flight!FlightStep, Flight!ExpiryStep
<1>3. CASE UNCHANGED Flight!vars
  <2>1. UNCHANGED <<sf_cached, sf_reg, sf_flight, sf_ctxDone, sf_prod, sf_expiry, sf_sub, sf_at, sf_index, sf_got, sf_outcome, sf_cancelled, sf_open>>
    BY <1>3 DEF Flight!vars, Flight!subVars
  <2> QED
    BY <2>1 DEF FlightInv, FlightTyped, CountsCallers, Aboard, BeginsClean, Begun, CallsApart, Running,
       KeptWhole, Keeps, HeardFromStart
<1> QED  BY <1>1, <1>2, <1>3 DEF Flight!Next

(* However callers come, give up and go while calls end, expire and are    *)
(* replaced: the asset's provider call ends well at most once, a flight    *)
(* keeps no PCM for nobody, and a caller that was counted before the call  *)
(* was given up and is told of success has the whole asset, from its first *)
(* chunk on (Synthesize through warm flights, speechio).                   *)
THEOREM FlightServesAlways ==
  ASSUME Flight!FlightAssumption
  PROVE  Flight!Spec => []FlightServes
<1>1. Flight!Init => FlightInv
  <2> SUFFICES ASSUME Flight!Init  PROVE FlightInv  OBVIOUS
  <2>1. << >> \in Lists /\ Len(<< >>) = 0  BY DEF Lists
  <2>2. \A f \in Flight!Flights : Aboard(f) = {}  BY DEF Aboard, Flight!Init
  <2>3. FlightTyped
    <3>1. Flight!NoFlight \in Callees  BY <2>1 DEF Flight!NoFlight, Callees
    <3> QED  BY <2>1, <3>1 DEF Flight!Init, FlightTyped, Producers
  <2>4. CountsCallers  BY <2>2, FS_EmptySet DEF Flight!Init, Flight!NoFlight, CountsCallers
  <2>5. BeginsClean  BY <2>2 DEF Flight!Init, Flight!NoFlight, BeginsClean, Begun
  <2>6. CallsApart  BY DEF Flight!Init, Flight!NoFlight, CallsApart, Running
  <2>7. KeptWhole  BY <2>1, <2>2 DEF Flight!Init, Flight!NoFlight, KeptWhole, Keeps
  <2>8. HeardFromStart  BY DEF Flight!Init, HeardFromStart
  <2> QED  BY <2>3, <2>4, <2>5, <2>6, <2>7, <2>8 DEF FlightInv
<1>2. FlightInv /\ [Flight!Next]_(Flight!vars) => FlightInv'
  BY FlightStepHolds
<1>3. FlightInv => FlightServes
  <2> SUFFICES ASSUME FlightInv  PROVE FlightServes  OBVIOUS
  <2>1. Flight!OneWholeCall
    <3> DEFINE W == {f \in Flight!Flights : sf_prod[f].called /\ sf_prod[f].sent = Whole /\ sf_prod[f].ok}
    <3>1. \A f, g \in W : f = g  BY DEF FlightInv, CallsApart
    <3>2. W = {} \/ \E f : W = {f}
      <4>1. CASE W # {}
        <5>1. PICK f : f \in W  BY <4>1
        <5>2. W = {f}  BY <3>1, <5>1
        <5> QED  BY <5>2
      <4> QED  BY <4>1
    <3> HIDE DEF W
    <3>3. Cardinality(W) = 0 \/ Cardinality(W) = 1  BY <3>2, FS_EmptySet, FS_Singleton
    <3>4. Flight!Cardinality(W) = Cardinality(W)  BY DEF Flight!Cardinality, Cardinality
    <3> QED  BY <3>3, <3>4 DEF Flight!OneWholeCall, W
  <2>2. Flight!NothingKept
    <3> SUFFICES ASSUME NEW f \in Flight!Flights, sf_flight[f].subscribers = 0
                 PROVE  sf_flight[f].chunks = << >>
      BY DEF Flight!NothingKept
    <3>1. IsFiniteSet(Aboard(f))
      <4>1. Aboard(f) \in SUBSET Subs  BY DEF Aboard
      <4> QED  BY <4>1, FiniteSubs, FS_Subset
    <3>2. Cardinality(Aboard(f)) = 0  BY DEF FlightInv, CountsCallers
    <3>3. Aboard(f) = {}  BY <3>1, <3>2, FS_EmptySet
    <3> QED  BY <3>3 DEF FlightInv, KeptWhole
  <2>3. Flight!SuccessIsWhole
    <3> SUFFICES ASSUME NEW s \in Subs, sf_outcome[s] = "ok", sf_open[s]
                 PROVE  sf_got[s] = [i \in 1 .. Whole |-> i]
      BY DEF Flight!SuccessIsWhole
    <3>1. sf_got[s] \in Seq(Int)  BY DEF FlightInv, FlightTyped, Lists
    <3>2. Len(sf_got[s]) = Whole /\ \A i \in 1..Whole : sf_got[s][i] = i
      BY DEF FlightInv, HeardFromStart
    <3>3. sf_got[s] \in [1..Whole -> Int]  BY <3>1, <3>2
    <3> QED  BY <3>2, <3>3
  <2> QED  BY <2>1, <2>2, <2>3 DEF FlightServes, Flight!FlightServes
<1> QED  BY <1>1, <1>2, <1>3, PTL DEF Flight!Spec
=============================================================================
