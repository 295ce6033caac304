--------------------------- MODULE SemanticShadow ---------------------------
(***************************************************************************)
(* The shadow dispatcher (internal/semanticshadow): replies are observed   *)
(* from many goroutines, one worker turns an observation into a graph and  *)
(* exports it, Close neither waits for the exporter nor leaves anything    *)
(* behind in the queue.  An observation is its turn and what Build makes   *)
(* of its signals: a relation, or "invalid".                               *)
(*                                                                         *)
(* The send and the counter that accounts for it are two steps: the worker *)
(* may take, build, export and count an observation whose Observe has not  *)
(* counted it yet.  Likewise a call of Export and its counter.             *)
(***************************************************************************)
EXTENDS Naturals, Sequences, FiniteSets

CONSTANTS Turns, QueueCapacity

Relations == {"direct", "restatement", "unresolved", "conflict"}

(* What relationOf reads of the signals: the two proofs and the outcome.   *)
Signals == [known : BOOLEAN, answer : BOOLEAN, transition : BOOLEAN,
            outcome : {"no_verified_change", "changed_to_answer_first", "stayed_answer_first"}]

relationOf(s) ==
  CASE ~s.known -> "invalid"
    [] s.known /\ s.transition ->
         IF s.answer /\ s.outcome = "changed_to_answer_first" THEN "restatement" ELSE "conflict"
    [] s.known /\ ~s.transition /\ s.answer ->
         IF s.outcome = "changed_to_answer_first" THEN "conflict" ELSE "direct"
    [] OTHER -> IF s.outcome = "no_verified_change" THEN "unresolved" ELSE "conflict"

VARIABLES
  observe,     \* Observe of each turn: "unseen", "admitted", "sent", "over"
  queue,       \* Dispatcher.queue
  done,        \* Dispatcher.done is closed
  cancelled,   \* Dispatcher.ctx is cancelled
  closing,     \* Close: "open", "closing" (admission is held), "closed"
  worker,      \* run: "select", "build", "timed", "export", "done"
  item,        \* the observation the worker took
  exports,     \* history: the observations given to Exporter.Export
  stats        \* dispatcherStats

shadowVars == <<observe, queue, done, cancelled, closing, worker, item, exports, stats>>

Counters == {"accepted", "droppedFull", "droppedClosed", "invalidGraph", "exported", "exportFailed"}
NoItem == [turn |-> "none", relation |-> "invalid"]

ShadowInit ==
  /\ observe = [t \in Turns |-> "unseen"] /\ queue = <<>> /\ done = FALSE /\ cancelled = FALSE /\ closing = "open"
  /\ worker = "select" /\ item = NoItem /\ exports = {}
  /\ stats = [c \in Counters |-> 0]

Counts(c) == [stats EXCEPT ![c] = @ + 1]

(* Mutant: the closed channel is not looked at.                            *)
AdmitsWhenClosed == TRUE

Admits == ~done

(* Observe holds admission for reading, from its look at the closed        *)
(* channel to its return.                                                  *)
ObserveEnter(t) ==
  /\ observe[t] = "unseen" /\ closing # "closing"
  /\ \/ ~Admits /\ observe' = [observe EXCEPT ![t] = "over"] /\ stats' = Counts("droppedClosed")
     \/ Admits /\ observe' = [observe EXCEPT ![t] = "admitted"] /\ UNCHANGED stats
  /\ UNCHANGED <<queue, done, cancelled, closing, worker, item, exports>>

ObserveSend(t, s) ==
  /\ observe[t] = "admitted"
  /\ \/ /\ Len(queue) < QueueCapacity
        /\ queue' = Append(queue, [turn |-> t, relation |-> relationOf(s)])
        /\ observe' = [observe EXCEPT ![t] = "sent"] /\ UNCHANGED stats
     \/ /\ Len(queue) = QueueCapacity /\ stats' = Counts("droppedFull")
        /\ observe' = [observe EXCEPT ![t] = "over"] /\ UNCHANGED queue
  /\ UNCHANGED <<done, cancelled, closing, worker, item, exports>>

ObserveCount(t) ==
  /\ observe[t] = "sent" /\ observe' = [observe EXCEPT ![t] = "over"] /\ stats' = Counts("accepted")
  /\ UNCHANGED <<queue, done, cancelled, closing, worker, item, exports>>

(* Mutant: Close takes no admission lock.                                  *)
LocksFreely == closing = "open"

(* Close locks admission once no Observe holds it.                         *)
Locks == closing = "open" /\ \A t \in Turns : observe[t] \notin {"admitted", "sent"}

(* Close: the channel, then the context, then the queue, item by item.     *)
CloseDone ==
  /\ Locks /\ closing' = "closing" /\ done' = TRUE
  /\ UNCHANGED <<observe, queue, cancelled, worker, item, exports, stats>>

CloseCancel ==
  /\ closing = "closing" /\ ~cancelled /\ cancelled' = TRUE
  /\ UNCHANGED <<observe, queue, done, closing, worker, item, exports, stats>>

CloseDrain ==
  /\ closing = "closing" /\ cancelled
  /\ IF queue = <<>> THEN closing' = "closed" /\ UNCHANGED queue
     ELSE queue' = Tail(queue) /\ UNCHANGED closing
  /\ UNCHANGED <<observe, done, cancelled, worker, item, exports, stats>>

(* run: a select between the closed channel and the queue takes either.    *)
RunDone ==
  /\ worker = "select" /\ done /\ worker' = "done"
  /\ UNCHANGED <<observe, queue, done, cancelled, closing, item, exports, stats>>

RunTake ==
  /\ worker = "select" /\ queue # <<>>
  /\ item' = Head(queue) /\ queue' = Tail(queue) /\ worker' = "build"
  /\ UNCHANGED <<observe, done, cancelled, closing, exports, stats>>

RunBuild ==
  /\ worker = "build"
  /\ \/ cancelled /\ worker' = "done" /\ UNCHANGED stats
     \/ ~cancelled /\ item.relation = "invalid" /\ worker' = "select" /\ stats' = Counts("invalidGraph")
     \/ ~cancelled /\ item.relation # "invalid" /\ worker' = "timed" /\ UNCHANGED stats
  /\ UNCHANGED <<observe, queue, done, cancelled, closing, item, exports>>

(* The context with its deadline is looked at once more; Export is called. *)
RunTimed ==
  /\ worker = "timed"
  /\ \/ cancelled /\ worker' = "done" /\ UNCHANGED exports
     \/ ~cancelled /\ worker' = "export" /\ exports' = exports \union {item}
  /\ UNCHANGED <<observe, queue, done, cancelled, closing, item, stats>>

(* Mutant: after the count of an export that succeeded, no "continue".     *)
ExportFallsThrough ==
  /\ worker = "export" /\ worker' = "select"
  /\ \/ stats' = [Counts("exported") EXCEPT !["exportFailed"] = @ + 1]
     \/ stats' = Counts("exportFailed")
  /\ UNCHANGED <<observe, queue, done, cancelled, closing, item, exports>>

(* Export ended, accepted, refused, or at its deadline or cancellation,    *)
(* and is counted.                                                         *)
RunExport ==
  /\ worker = "export" /\ worker' = "select"
  /\ \/ stats' = Counts("exported")
     \/ stats' = Counts("exportFailed")
  /\ UNCHANGED <<observe, queue, done, cancelled, closing, item, exports>>

ShadowWorks == RunDone \/ RunTake \/ RunBuild \/ RunTimed \/ RunExport
ShadowCloses == CloseCancel \/ CloseDrain
ShadowObserves ==
  \E t \in Turns : ObserveEnter(t) \/ (\E s \in Signals : ObserveSend(t, s)) \/ ObserveCount(t)
ShadowNext == ShadowObserves \/ CloseDone \/ ShadowCloses \/ ShadowWorks

(* Close is called by a goroutine of its own; Export returns at the latest *)
(* at the deadline of its context.                                         *)
ShadowFairness == WF_shadowVars(ShadowCloses) /\ WF_shadowVars(ShadowWorks)
ShadowSpec == ShadowInit /\ [][ShadowNext]_shadowVars /\ ShadowFairness
-----------------------------------------------------------------------------
ShadowTypeOK ==
  /\ observe \in [Turns -> {"unseen", "admitted", "sent", "over"}] /\ done \in BOOLEAN /\ cancelled \in BOOLEAN
  /\ Len(queue) <= QueueCapacity /\ closing \in {"open", "closing", "closed"}
  /\ worker \in {"select", "build", "timed", "export", "done"}
  /\ stats \in [Counters -> Nat]

(* Observations the worker has taken and not counted.                      *)
InHands == IF worker \in {"build", "timed", "export"} THEN 1 ELSE 0

(* Once Close has returned nothing stays in the queue, whoever observes.   *)
(* What was sent, counted as accepted or not yet, is queued, in the        *)
(* worker's hands or counted: all of it until Close cancels, and never     *)
(* more, so that once no Observe is under way the counters of what became  *)
(* of the observations stay within "accepted".  Export is called once for  *)
(* an observation.                                                         *)
NothingHeldAfterClose ==
  /\ closing = "closed" => queue = <<>>
  /\ LET sent == stats["accepted"] + Cardinality({t \in Turns : observe[t] = "sent"})
         known == stats["exported"] + stats["exportFailed"] + stats["invalidGraph"]
                    + Len(queue) + InHands
     IN  known <= sent /\ (~cancelled => known = sent)
  /\ Cardinality(exports) = stats["exported"] + stats["exportFailed"]
                               + (IF worker = "export" THEN 1 ELSE 0)
  /\ ~done => stats["droppedClosed"] = 0

(* After Close the worker stops, whatever the exporter does.               *)
WorkerStops == done ~> (worker = "done" /\ closing = "closed")
=============================================================================
