--------------------------- MODULE SynthesisFlight ---------------------------
(***************************************************************************)
(* The shared synthesis of one warm speech asset (internal/speechio):      *)
(* callers that miss the PCM cache meet in the flight of their key, whose  *)
(* owner starts one provider call and publishes its chunks to all of them. *)
(* A flight is left to die when its last subscriber goes; its call may go  *)
(* on for a while, and a new flight replaces it.  A chunk is its number.   *)
(*                                                                         *)
(* A caller holds the registry's lock from its look at the flight until it *)
(* is counted, but releases the flight's own lock in between ("admit").    *)
(***************************************************************************)
EXTENDS Naturals, Sequences, FiniteSets

CONSTANTS
  Subs,       \* callers of StreamSynthesize
  MaxFlights, \* bound on the flights created
  Whole,      \* chunks of the complete asset
  Room,       \* chunks a flight may buffer
  None

FlightAssumption ==
  /\ IsFiniteSet(Subs) /\ MaxFlights \in Nat \ {0}
  /\ Whole \in Nat \ {0} /\ Room \in Nat /\ None \notin 0 .. MaxFlights

Flights == 1 .. MaxFlights

VARIABLES
  cached,    \* the asset is in the PCM cache (a protected key is not evicted)
  reg,       \* the registry's flight of the key, or None
  flight,    \* flight -> its fields under flight.mu
  ctxDone,   \* flight -> providerCtx is done
  prod,      \* flight -> its producer goroutine
  expiry,    \* flight -> the AfterFunc of providerCtx
  sub, at, index, got, outcome, cancelled,   \* per caller
  open       \* per caller, history: its flight's call was not given up when it was counted

subVars == <<sub, at, index, got, outcome, cancelled, open>>
vars == <<cached, reg, flight, ctxDone, prod, expiry, subVars>>

NoFlight == [chunks |-> <<>>, done |-> FALSE, ok |-> FALSE, subscribers |-> 0, cancel |-> FALSE]

TypeOK ==
  /\ cached \in BOOLEAN /\ reg \in Flights \union {None}
  /\ \A f \in Flights :
       /\ flight[f].chunks \in Seq(1 .. Whole) /\ Len(flight[f].chunks) <= Room
       /\ flight[f].done \in BOOLEAN /\ flight[f].ok \in BOOLEAN
       /\ flight[f].cancel \in BOOLEAN /\ flight[f].subscribers \in 0 .. Cardinality(Subs)
  /\ ctxDone \in [Flights -> BOOLEAN]
  /\ prod \in [Flights -> [pc : {"none", "start", "call", "copy", "store", "finish", "retire", "over"},
                           sent : 0 .. Whole, ok : BOOLEAN, called : BOOLEAN]]
  /\ expiry \in [Flights -> {"none", "armed", "retire", "over"}]
  /\ sub \in [Subs -> {"idle", "missed", "admit", "in", "waiting", "leaving", "out"}]
  /\ at \in [Subs -> Flights \union {None}] /\ index \in [Subs -> Nat]
  /\ outcome \in [Subs -> {"none", "ok", "failed"}]
  /\ cancelled \in [Subs -> BOOLEAN] /\ open \in [Subs -> BOOLEAN]

Init ==
  /\ cached = FALSE /\ reg = None /\ flight = [f \in Flights |-> NoFlight]
  /\ ctxDone = [f \in Flights |-> FALSE]
  /\ prod = [f \in Flights |-> [pc |-> "none", sent |-> 0, ok |-> FALSE, called |-> FALSE]]
  /\ expiry = [f \in Flights |-> "none"]
  /\ sub = [s \in Subs |-> "idle"] /\ at = [s \in Subs |-> None]
  /\ index = [s \in Subs |-> 0] /\ got = [s \in Subs |-> <<>>]
  /\ outcome = [s \in Subs |-> "none"] /\ cancelled = [s \in Subs |-> FALSE]
  /\ open = [s \in Subs |-> FALSE]
-----------------------------------------------------------------------------
RegistryFree == \A s \in Subs : sub[s] # "admit"

Abandoned(f) == flight[f].subscribers = 0 /\ ~flight[f].cancel

Unavailable(f) == flight[f].done \/ Abandoned(f)

(* changed.Broadcast: the waiting subscribers of f look again.             *)
Woken(f) == [s \in Subs |-> IF sub[s] = "waiting" /\ at[s] = f THEN "in" ELSE sub[s]]

(* The cache has it, or the caller goes on to the flights of the key.      *)
LookUp(s) ==
  /\ sub[s] = "idle"
  /\ IF cached THEN /\ sub' = [sub EXCEPT ![s] = "out"] /\ outcome' = [outcome EXCEPT ![s] = "ok"]
                    /\ got' = [got EXCEPT ![s] = [i \in 1 .. Whole |-> i]]
                    /\ open' = [open EXCEPT ![s] = TRUE]
               ELSE sub' = [sub EXCEPT ![s] = "missed"] /\ UNCHANGED <<outcome, got, open>>
  /\ UNCHANGED <<cached, reg, flight, ctxDone, prod, expiry, at, index, cancelled>>

Unused == {f \in Flights : prod[f].pc = "none" /\ \A s \in Subs : at[s] # f}

(* The registry's flight, or a new one that replaces it.                   *)
Look(s) ==
  /\ sub[s] = "missed" /\ RegistryFree
  /\ IF cancelled[s]
     THEN /\ sub' = [sub EXCEPT ![s] = "out"] /\ outcome' = [outcome EXCEPT ![s] = "failed"]
          /\ UNCHANGED <<reg, flight, at>>
     ELSE /\ sub' = [sub EXCEPT ![s] = "admit"] /\ UNCHANGED outcome
          /\ IF reg # None /\ ~Unavailable(reg)
             THEN at' = [at EXCEPT ![s] = reg] /\ UNCHANGED <<reg, flight>>
             ELSE /\ Unused # {}
                  /\ LET f == CHOOSE g \in Unused : TRUE
                     IN  /\ at' = [at EXCEPT ![s] = f] /\ reg' = f
                         /\ flight' = [flight EXCEPT ![f].cancel = TRUE]
  /\ UNCHANGED <<cached, ctxDone, prod, expiry, index, got, cancelled, open>>

(* The caller is counted; an owner starts the producer and the expiry.     *)
Join(s) ==
  /\ sub[s] = "admit" /\ sub' = [sub EXCEPT ![s] = "in"]
  /\ LET f == at[s]
     IN  /\ flight' = [flight EXCEPT ![f].subscribers = @ + 1]
         /\ open' = [open EXCEPT ![s] = flight[f].cancel]
         /\ prod' = [prod EXCEPT ![f].pc = IF @ = "none" THEN "start" ELSE @]
         /\ expiry' = [expiry EXCEPT ![f] = IF prod[f].pc = "none" THEN "armed" ELSE @]
  /\ UNCHANGED <<cached, reg, ctxDone, at, index, got, outcome, cancelled>>

(* Mutant: the cache was looked at already, the owner calls the provider.  *)
NoRecheck(f) ==
  /\ prod[f].pc = "start" /\ prod' = [prod EXCEPT ![f].pc = "call", ![f].called = TRUE]
  /\ UNCHANGED <<cached, reg, flight, ctxDone, expiry, subVars>>

(* streamSynthesizeSharedOwner looks at the cache once more.               *)
OwnerStarts(f) ==
  /\ prod[f].pc = "start"
  /\ prod' = [prod EXCEPT ![f].pc = IF ctxDone[f] THEN "finish" ELSE "call",
                          ![f].called = ~cached /\ ~ctxDone[f]]
  /\ UNCHANGED <<cached, reg, flight, ctxDone, expiry, subVars>>
-----------------------------------------------------------------------------
(* publish, once before and once after the chunk is copied.                *)

Admitted(f) == ~Unavailable(f) /\ Len(flight[f].chunks) < Room

PublishStarts(f) ==
  /\ prod[f].pc = "call" /\ prod[f].sent < Whole
  /\ prod' = [prod EXCEPT ![f].pc = IF Admitted(f) THEN "copy" ELSE "finish"]
  /\ UNCHANGED <<cached, reg, flight, ctxDone, expiry, subVars>>

(* Mutant: the chunk admitted before the copy is appended.                 *)
AppendUnchecked(f) ==
  /\ prod[f].pc = "copy"
  /\ flight' = [flight EXCEPT ![f].chunks = Append(@, prod[f].sent + 1)] /\ sub' = Woken(f)
  /\ prod' = [prod EXCEPT ![f].pc = "call", ![f].sent = @ + 1]
  /\ UNCHANGED <<cached, reg, ctxDone, expiry, at, index, got, outcome, cancelled, open>>

PublishAppends(f) ==
  /\ prod[f].pc = "copy"
  /\ IF Admitted(f)
     THEN /\ flight' = [flight EXCEPT ![f].chunks = Append(@, prod[f].sent + 1)]
          /\ sub' = Woken(f) /\ prod' = [prod EXCEPT ![f].pc = "call", ![f].sent = @ + 1]
     ELSE prod' = [prod EXCEPT ![f].pc = "finish"] /\ UNCHANGED <<flight, sub>>
  /\ UNCHANGED <<cached, reg, ctxDone, expiry, at, index, got, outcome, cancelled, open>>

(* The provider has sent everything: success, unless the context is done.  *)
ProviderEnds(f) ==
  /\ prod[f].pc = "call" /\ prod[f].sent = Whole
  /\ prod' = [prod EXCEPT ![f].pc = IF ctxDone[f] THEN "finish" ELSE "store"]
  /\ UNCHANGED <<cached, reg, flight, ctxDone, expiry, subVars>>

(* The whole PCM goes into the cache; then the context is looked at.       *)
Store(f) ==
  /\ prod[f].pc = "store" /\ cached' = TRUE
  /\ prod' = [prod EXCEPT ![f].pc = "finish", ![f].ok = ~ctxDone[f]]
  /\ UNCHANGED <<reg, flight, ctxDone, expiry, subVars>>

ProviderFails(f) ==
  /\ prod[f].pc = "call" /\ prod' = [prod EXCEPT ![f].pc = "finish"]
  /\ UNCHANGED <<cached, reg, flight, ctxDone, expiry, subVars>>

(* Sixty seconds have passed.                                              *)
Timeout(f) ==
  /\ prod[f].pc \notin {"none", "over"} /\ ~ctxDone[f] /\ ctxDone' = [ctxDone EXCEPT ![f] = TRUE]
  /\ UNCHANGED <<cached, reg, flight, prod, expiry, subVars>>

(* complete: the first result counts, and the context is released.         *)
Complete(f, ok) ==
  IF flight[f].done THEN UNCHANGED <<flight, ctxDone, sub>>
  ELSE /\ flight' = [flight EXCEPT ![f].done = TRUE, ![f].ok = ok, ![f].cancel = FALSE]
       /\ ctxDone' = [ctxDone EXCEPT ![f] = @ \/ flight[f].cancel]
       /\ sub' = Woken(f)

ProducerCompletes(f) ==
  /\ prod[f].pc = "finish" /\ Complete(f, prod[f].ok)
  /\ prod' = [prod EXCEPT ![f].pc = "retire"]
  /\ UNCHANGED <<cached, reg, expiry, at, index, got, outcome, cancelled, open>>

(* The context ended by timeout, abandonment or completion.                *)
ExpiryCompletes(f) ==
  /\ expiry[f] = "armed" /\ ctxDone[f] /\ Complete(f, FALSE)
  /\ expiry' = [expiry EXCEPT ![f] = "retire"]
  /\ UNCHANGED <<cached, reg, prod, at, index, got, outcome, cancelled, open>>

Retired(f) == IF reg = f THEN None ELSE reg

(* retire; the end of the producer stops an expiry that has not begun.     *)
ProducerRetires(f) ==
  /\ prod[f].pc = "retire" /\ RegistryFree /\ reg' = Retired(f)
  /\ prod' = [prod EXCEPT ![f].pc = "over"]
  /\ expiry' = [expiry EXCEPT ![f] = IF @ = "armed" /\ ~ctxDone[f] THEN "over" ELSE @]
  /\ UNCHANGED <<cached, flight, ctxDone, subVars>>

ExpiryRetires(f) ==
  /\ expiry[f] = "retire" /\ RegistryFree /\ reg' = Retired(f)
  /\ expiry' = [expiry EXCEPT ![f] = "over"]
  /\ UNCHANGED <<cached, flight, ctxDone, prod, subVars>>
-----------------------------------------------------------------------------
(* consume.                                                                *)

Wait(s) ==
  /\ sub[s] = "in" /\ ~cancelled[s] /\ ~flight[at[s]].done
  /\ index[s] >= Len(flight[at[s]].chunks) /\ sub' = [sub EXCEPT ![s] = "waiting"]
  /\ UNCHANGED <<cached, reg, flight, ctxDone, prod, expiry, at, index, got, outcome, cancelled, open>>

(* The caller's handler takes the chunk, or fails.                         *)
Deliver(s) ==
  /\ sub[s] = "in" /\ ~cancelled[s] /\ index[s] < Len(flight[at[s]].chunks)
  /\ index' = [index EXCEPT ![s] = @ + 1]
  /\ got' = [got EXCEPT ![s] = Append(@, flight[at[s]].chunks[index[s] + 1])]
  /\ \/ UNCHANGED <<sub, outcome>>
     \/ sub' = [sub EXCEPT ![s] = "leaving"] /\ outcome' = [outcome EXCEPT ![s] = "failed"]
  /\ UNCHANGED <<cached, reg, flight, ctxDone, prod, expiry, at, cancelled, open>>

Return(s) ==
  /\ sub[s] = "in"
  /\ ~cancelled[s] => flight[at[s]].done /\ index[s] >= Len(flight[at[s]].chunks)
  /\ outcome' = [outcome EXCEPT ![s] = IF ~cancelled[s] /\ flight[at[s]].ok THEN "ok" ELSE "failed"]
  /\ sub' = [sub EXCEPT ![s] = "leaving"]
  /\ UNCHANGED <<cached, reg, flight, ctxDone, prod, expiry, at, index, got, cancelled, open>>

(* Mutant: whoever leaves a completed flight clears its chunks.            *)
ClearsIfDone(f, n) == n = 0 \/ flight[f].done

Clears(f, n) == n = 0

(* The last subscriber cancels the call and clears the chunks.             *)
Unsubscribe(s) ==
  /\ sub[s] = "leaving" /\ sub' = [sub EXCEPT ![s] = "out"]
  /\ LET f == at[s]
         n == flight[f].subscribers - 1
         last == n = 0 /\ ~flight[f].done /\ flight[f].cancel
     IN  /\ flight' = [flight EXCEPT ![f].subscribers = n,
                                     ![f].cancel = @ /\ ~last,
                                     ![f].chunks = IF Clears(f, n) THEN <<>> ELSE @]
         /\ ctxDone' = [ctxDone EXCEPT ![f] = @ \/ last]
  /\ UNCHANGED <<cached, reg, prod, expiry, at, index, got, outcome, cancelled, open>>

(* The caller gives up; a wait of its own ends with a broadcast.           *)
Cancel(s) ==
  /\ sub[s] \notin {"leaving", "out"} /\ ~cancelled[s] /\ cancelled' = [cancelled EXCEPT ![s] = TRUE]
  /\ UNCHANGED <<cached, reg, flight, ctxDone, prod, expiry, sub, at, index, got, outcome, open>>

CancelWakes(s) ==
  /\ sub[s] = "waiting" /\ cancelled[s] /\ sub' = Woken(at[s])
  /\ UNCHANGED <<cached, reg, flight, ctxDone, prod, expiry, at, index, got, outcome, cancelled, open>>
-----------------------------------------------------------------------------
SubStep(s) ==
  LookUp(s) \/ Look(s) \/ Join(s) \/ Wait(s) \/ Deliver(s) \/ Return(s) \/ Unsubscribe(s)

FlightStep(f) ==
  \/ OwnerStarts(f) \/ PublishAppends(f) \/ Store(f)
  \/ ProducerCompletes(f) \/ ProducerRetires(f)

ExpiryStep(f) == ExpiryCompletes(f) \/ ExpiryRetires(f)

Next ==
  \/ \E s \in Subs : SubStep(s) \/ Cancel(s) \/ CancelWakes(s)
  \/ \E f \in Flights : \/ FlightStep(f) \/ ExpiryStep(f) \/ Timeout(f)
                        \/ PublishStarts(f) \/ ProviderEnds(f) \/ ProviderFails(f)

Spec == Init /\ [][Next]_vars

(* Goroutines are scheduled and timers fire; the provider may hang.        *)
FairSpec ==
  /\ Spec
  /\ \A s \in Subs : WF_vars(SubStep(s)) /\ WF_vars(CancelWakes(s))
  /\ \A f \in Flights : WF_vars(FlightStep(f)) /\ WF_vars(ExpiryStep(f)) /\ WF_vars(Timeout(f))
-----------------------------------------------------------------------------
(* PCM is buffered only for someone: a flight without subscribers keeps no *)
(* chunk, whatever its provider call still delivers.                       *)
NothingKept == \A f \in Flights : flight[f].subscribers = 0 => flight[f].chunks = <<>>

(* However callers come and go, one provider call for the asset is left    *)
(* running on purpose: every other has been cancelled or has ended.        *)
OneLiveCall == Cardinality({f \in Flights : flight[f].cancel}) <= 1

(* The asset is synthesized to its end at most once: who comes later finds *)
(* it in the cache or in the flight, even between the two.                 *)
OneWholeCall ==
  Cardinality({f \in Flights : prod[f].called /\ prod[f].sent = Whole /\ prod[f].ok}) <= 1

(* A caller counted before its flight's call was given up or complete, if  *)
(* it is told of success, has the whole asset from the first chunk on.     *)
SuccessIsWhole ==
  \A s \in Subs : outcome[s] = "ok" /\ open[s] => got[s] = [i \in 1 .. Whole |-> i]

(* One whole provider call per asset that ends well, nothing of a failed   *)
(* one kept, and a caller that succeeds has heard all of it.               *)
FlightServes == OneWholeCall /\ NothingKept /\ SuccessIsWhole

(* The flight's comment: late subscribers replay from index zero.          *)
LateSubscribersReplayFromZero == \A s \in Subs : got[s] # <<>> => got[s][1] = 1

(* Every caller returns: no broadcast is lost on it.                       *)
SubscriberReturns == \A s \in Subs : sub[s] = "admit" ~> sub[s] = "out"
=============================================================================
