-------------------------- MODULE SpeculativeAudio --------------------------
(***************************************************************************)
(* One speculative synthesis of internal/voiceflow/voiceflow.go: a         *)
(* goroutine streams a reply from the provider into a commit buffer, and   *)
(* the turn releases the buffer once the reply is certain, or discards it. *)
(*                                                                         *)
(* The PCM of the reply is numbered in units; a chunk is a sequence of     *)
(* units and clear(chunk) turns its units into 0.                          *)
(***************************************************************************)
EXTENDS Integers, Sequences

CONSTANTS
  Capacity,   \* maxSpeculativeTTSBufferBytes, in units
  MaxUnits,   \* bound: units the provider produces
  MaxChunk    \* bound: units of one provider chunk

SpeculativeAudioAssumption == {Capacity, MaxUnits, MaxChunk} \subseteq Nat \ {0}

VARIABLES
  state,      \* speculativeAudioBufferState
  chunks,     \* the buffered chunks
  buffered,   \* bufferedBytes
  rel,        \* releaseChunks from releaseIndex on
  delivering, \* the head of rel is in the release's deliver callback
  peaked,     \* peakBytes > 0
  full,       \* the full channel is closed
  asleep,     \* a write waits on the condition variable
  watching,   \* the context watcher of the buffer runs
  ctxDone,    \* synthesisCtx is cancelled
  cancelDue,  \* the turn discarded the buffer and will now cancel synthesisCtx
  prov,       \* the synthesis goroutine: where it is, rest of its chunk
  prepared,   \* it streams from the prepared connection
  made,       \* units of the current provider run
  result,     \* speculativeSynthesisResult, "none" until done is closed
  turn,       \* the goroutine that adopts or drops the reply
  turnCtxDone,
  out         \* units handed to deliverAudio (history)

bufferVars == <<state, chunks, buffered, rel, delivering, peaked, full, asleep, watching>>
provVars == <<prov, prepared, made, result>>
turnVars == <<turn, turnCtxDone>>
vars == <<bufferVars, ctxDone, cancelDue, provVars, turnVars, out>>

Ended == {"spoken", "fallback", "failed", "cancelled"}
Turns == [at : {"begin", "release", "deliver"}, completed : BOOLEAN]
         \union [at : {"idle", "boundary", "await"} \union Ended, completed : {FALSE}]
At(a) == [at |-> a, completed |-> FALSE]

TypeOK ==
  /\ state \in {"pending", "releasing", "live", "discarded"}
  /\ chunks \in Seq(Seq(0..MaxUnits)) /\ buffered \in 0..Capacity
  /\ rel \in Seq(Seq(0..MaxUnits))
  /\ {delivering, peaked, full, asleep, watching, ctxDone, cancelDue, prepared, turnCtxDone}
       \subseteq BOOLEAN
  /\ prov.at \in {"stream", "write", "claimed", "sending", "failing", "ok", "err", "done"}
  /\ prov.rest \in Seq(1..MaxUnits)
  /\ made \in 0..MaxUnits /\ result \in {"none", "ok", "err"}
  /\ turn \in Turns /\ out \in Seq(0..MaxUnits)
-----------------------------------------------------------------------------
Init ==
  /\ state = "pending" /\ chunks = << >> /\ buffered = 0 /\ rel = << >>
  /\ delivering = FALSE /\ peaked = FALSE /\ full = FALSE /\ asleep = FALSE
  /\ watching = TRUE
  /\ ctxDone = FALSE /\ cancelDue = FALSE
  /\ prov = [at |-> "stream", rest |-> << >>] /\ prepared \in BOOLEAN
  /\ made = 0 /\ result = "none"
  /\ turn = At("idle") /\ turnCtxDone = FALSE /\ out = << >>

Wiped(c) == [i \in DOMAIN c |-> 0]

(* Mutant: the chunk in the callback is wiped under its reader.            *)
WipedReleaseAll == [i \in DOMAIN rel |-> Wiped(rel[i])]

WipedRelease == [i \in DOMAIN rel |-> IF i = 1 /\ delivering THEN rel[i] ELSE Wiped(rel[i])]

(* Mutant: the writer is not woken.                                        *)
DiscardedQuietly ==
  /\ state' = "discarded" /\ chunks' = << >> /\ buffered' = 0
  /\ rel' = IF state = "discarded" THEN rel ELSE WipedRelease
  /\ watching' = FALSE /\ UNCHANGED asleep

(* discard, for its first caller (discardLocked); later ones change nothing. *)
Discarded ==
  /\ state' = "discarded" /\ chunks' = << >> /\ buffered' = 0
  /\ rel' = IF state = "discarded" THEN rel ELSE WipedRelease
  /\ watching' = FALSE /\ asleep' = FALSE

(* abort and speculation.cancel: discard, then cancel the provider.        *)
Aborted ==
  /\ Discarded /\ cancelDue' = TRUE
  /\ UNCHANGED <<delivering, peaked, full>>
-----------------------------------------------------------------------------
(* The synthesis goroutine.                                                *)

Chunk ==
  /\ prov.at = "stream" /\ made < MaxUnits
  /\ \E n \in 1..MaxChunk :
       /\ made + n <= MaxUnits /\ made' = made + n
       /\ prov' = [at |-> "write", rest |-> [i \in 1..n |-> made + i]]
  /\ UNCHANGED <<bufferVars, ctxDone, cancelDue, prepared, result, turnVars, out>>

(* A chunk of no or an odd number of bytes.                                *)
BadChunk ==
  /\ prov.at = "stream" /\ prov' = [prov EXCEPT !.at = "failing"]
  /\ Discarded
  /\ UNCHANGED <<delivering, peaked, full, ctxDone, cancelDue, prepared, made, result,
                 turnVars, out>>

Room == Capacity - buffered
Announced(n) == n = Capacity

MustWait == state = "releasing" \/ (state = "pending" /\ Room = 0)

Sleep ==
  /\ prov.at = "write" /\ MustWait /\ ~asleep /\ asleep' = TRUE
  /\ UNCHANGED <<state, chunks, buffered, rel, delivering, peaked, full, watching, ctxDone, cancelDue,
                 provVars, turnVars, out>>

(* As much of the chunk as there is room for.                              *)
WriteBuffered ==
  /\ prov.at = "write" /\ ~asleep /\ ~MustWait /\ state = "pending"
  /\ LET count == IF Len(prov.rest) < Room THEN Len(prov.rest) ELSE Room
     IN /\ chunks' = Append(chunks, SubSeq(prov.rest, 1, count))
        /\ buffered' = buffered + count /\ full' = (full \/ Announced(buffered + count))
        /\ prov' = IF count = Len(prov.rest) THEN [at |-> "stream", rest |-> << >>]
                   ELSE [prov EXCEPT !.rest = SubSeq(prov.rest, count + 1, Len(prov.rest))]
  /\ peaked' = TRUE
  /\ UNCHANGED <<state, rel, delivering, asleep, watching, ctxDone, cancelDue, prepared, made,
                 result, turnVars, out>>

(* Once the buffer is live the rest of the chunk goes to the listener,     *)
(* outside the lock.                                                       *)
ClaimLive ==
  /\ prov.at = "write" /\ ~asleep /\ state = "live"
  /\ prov' = [prov EXCEPT !.at = "claimed"]
  /\ UNCHANGED <<bufferVars, ctxDone, cancelDue, prepared, made, result, turnVars, out>>

SendLive ==
  /\ prov.at = "claimed"
  /\ prov' = [prov EXCEPT !.at = IF ctxDone THEN "failing" ELSE "sending"]
  /\ UNCHANGED <<bufferVars, ctxDone, cancelDue, prepared, made, result, turnVars, out>>

(* deliverAudio returns; when it fails, the chunk may or may not be heard. *)
SentLive ==
  /\ prov.at = "sending"
  /\ \/ /\ prov' = [at |-> "stream", rest |-> << >>] /\ out' = out \o prov.rest
     \/ /\ prov' = [prov EXCEPT !.at = "failing"] /\ out' \in {out, out \o prov.rest}
  /\ UNCHANGED <<bufferVars, ctxDone, cancelDue, prepared, made, result, turnVars>>

WriteRefused ==
  /\ prov.at = "write" /\ ~asleep /\ state = "discarded"
  /\ prov' = [prov EXCEPT !.at = "failing"]
  /\ UNCHANGED <<bufferVars, ctxDone, cancelDue, prepared, made, result, turnVars, out>>

(* Mutant: a second provider run may follow buffered audio.                *)
CanRetryBeforeRelease == state = "pending"

CanRetryBeforeAudio == state = "pending" /\ buffered = 0 /\ ~peaked

(* StreamSynthesize returns: the whole reply was produced ...              *)
StreamEnds ==
  /\ prov.at = "stream" /\ prov' = [prov EXCEPT !.at = "ok"]
  /\ UNCHANGED <<bufferVars, ctxDone, cancelDue, prepared, made, result, turnVars, out>>

(* ... or an error, or the wrong content type.  A prepared connection that *)
(* failed before any audio is replaced once by an ordinary stream.         *)
StreamFails ==
  /\ prov.at = "stream"
  /\ \/ /\ prepared /\ ~ctxDone /\ CanRetryBeforeAudio
        /\ prepared' = FALSE /\ made' = 0 /\ UNCHANGED prov
     \/ prov' = [prov EXCEPT !.at = "failing"] /\ UNCHANGED <<prepared, made>>
  /\ UNCHANGED <<bufferVars, ctxDone, cancelDue, result, turnVars, out>>

Fail ==
  /\ prov.at = "failing" /\ prov' = [prov EXCEPT !.at = "err"]
  /\ Discarded
  /\ UNCHANGED <<delivering, peaked, full, ctxDone, cancelDue, prepared, made, result,
                 turnVars, out>>

CloseDone ==
  /\ prov.at \in {"ok", "err"}
  /\ result' = prov.at /\ prov' = [prov EXCEPT !.at = "done"]
  /\ UNCHANGED <<bufferVars, ctxDone, cancelDue, prepared, made, turnVars, out>>
-----------------------------------------------------------------------------
(* The turn: adopt the reply, wait for the commit boundary, release.       *)

Move(a, completed) == turn' = [at |-> a, completed |-> completed]

Adopt ==
  /\ turn.at = "idle" /\ Move("boundary", FALSE)
  /\ UNCHANGED <<bufferVars, ctxDone, cancelDue, provVars, turnCtxDone, out>>

(* speculation.cancel: a revised transcript, or the deferred cancel.       *)
DropSpeculation ==
  /\ \/ turn.at = "idle" /\ Move("cancelled", FALSE)
     \/ turn.at = "spoken" /\ state # "discarded" /\ UNCHANGED turn
  /\ Aborted
  /\ UNCHANGED <<ctxDone, provVars, turnCtxDone, out>>

(* commitBoundary: the stream has ended, and had audible PCM ...           *)
BoundaryCompleted ==
  /\ turn.at = "boundary" /\ result = "ok" /\ made > 0
  /\ Move("begin", TRUE)
  /\ UNCHANGED <<bufferVars, ctxDone, cancelDue, provVars, turnCtxDone, out>>

(* ... or the buffer is full.                                              *)
BoundaryFull ==
  /\ turn.at = "boundary" /\ full /\ result = "none"
  /\ Move("begin", FALSE)
  /\ UNCHANGED <<bufferVars, ctxDone, cancelDue, provVars, turnCtxDone, out>>

(* Refused before a release: a failed or silent stream, the end of the     *)
(* turn's context, a publication authority that was withdrawn.  The reply  *)
(* may be spoken by a new synthesis.                                       *)
BoundaryRefused ==
  /\ \/ turn.at = "boundary" /\ (result # "none" \/ turnCtxDone)
     \/ turn.at = "begin"
  /\ Aborted /\ Move("fallback", FALSE)
  /\ UNCHANGED <<ctxDone, provVars, turnCtxDone, out>>

(* Mutant: the reply is synthesised again after a release was attempted.   *)
ReleaseFailedRetries ==
  Aborted /\ Move("fallback", FALSE) /\ UNCHANGED <<ctxDone, provVars, turnCtxDone>>

(* release was attempted and failed: the turn fails with it.               *)
ReleaseFailed == Aborted /\ Move("failed", FALSE) /\ UNCHANGED <<ctxDone, provVars, turnCtxDone>>

BeginRelease ==
  /\ turn.at = "begin"
  /\ IF state = "pending"
     THEN /\ state' = "releasing" /\ rel' = chunks /\ chunks' = << >> /\ buffered' = 0
          /\ Move("release", turn.completed)
          /\ UNCHANGED <<delivering, peaked, full, asleep, watching, ctxDone, cancelDue, provVars,
                         turnCtxDone>>
     ELSE ReleaseFailed
  /\ UNCHANGED out

ReleaseStops ==
  /\ turn.at = "release" /\ (state = "discarded" \/ turnCtxDone)
  /\ ReleaseFailed /\ UNCHANGED out

DeliverChunk ==
  /\ turn.at = "release" /\ state # "discarded" /\ ~turnCtxDone /\ rel # << >>
  /\ delivering' = TRUE /\ Move("deliver", turn.completed)
  /\ UNCHANGED <<state, chunks, buffered, rel, peaked, full, asleep, watching, ctxDone, cancelDue, provVars,
                 turnCtxDone, out>>

(* The callback returns; what it read is what the chunk holds now.         *)
Delivered ==
  /\ turn.at = "deliver" /\ delivering' = FALSE /\ rel' = Tail(rel)
  /\ out' = out \o Head(rel)
  /\ Move("release", turn.completed)
  /\ UNCHANGED <<state, chunks, buffered, peaked, full, asleep, watching, ctxDone, cancelDue, provVars, turnCtxDone>>

DeliveryFails ==
  /\ turn.at = "deliver" /\ out' \in {out, out \o Head(rel)}
  /\ delivering' = FALSE /\ rel' = << >>
  /\ state' = "discarded" /\ chunks' = << >> /\ buffered' = 0 /\ asleep' = FALSE
  /\ watching' = FALSE /\ cancelDue' = TRUE
  /\ Move("failed", FALSE)
  /\ UNCHANGED <<peaked, full, ctxDone, provVars, turnCtxDone>>

(* Everything buffered is out: writes go straight through from here on.    *)
GoLive ==
  /\ turn.at = "release" /\ state # "discarded" /\ ~turnCtxDone /\ rel = << >>
  /\ state' = "live" /\ asleep' = FALSE /\ watching' = FALSE
  /\ Move(IF turn.completed THEN "spoken" ELSE "await", FALSE)
  /\ UNCHANGED <<chunks, buffered, rel, delivering, peaked, full, ctxDone, cancelDue, provVars,
                 turnCtxDone, out>>

(* Mutant: the wait for the result ignores the turn's context.             *)
AwaitResult ==
  /\ turn.at = "await"
  /\ \/ /\ result = "ok" /\ Move("spoken", FALSE)
        /\ UNCHANGED <<bufferVars, ctxDone, cancelDue, provVars, turnCtxDone>>
     \/ result = "err" /\ ReleaseFailed
  /\ UNCHANGED out

Await ==
  /\ turn.at = "await"
  /\ \/ /\ result = "ok" /\ Move("spoken", FALSE)
        /\ UNCHANGED <<bufferVars, ctxDone, cancelDue, provVars, turnCtxDone>>
     \/ (result = "err" \/ turnCtxDone) /\ ReleaseFailed
  /\ UNCHANGED out
-----------------------------------------------------------------------------
(* Contexts.                                                               *)

(* The second half of an abort, or the speculation's own deadline.         *)
CancelSynthesis ==
  /\ ~ctxDone /\ ctxDone' = TRUE /\ cancelDue' = FALSE
  /\ UNCHANGED <<bufferVars, provVars, turnVars, out>>

EndTurnContext ==
  /\ ~turnCtxDone /\ turnCtxDone' = TRUE
  /\ UNCHANGED <<bufferVars, ctxDone, cancelDue, provVars, turn, out>>

WatchContext ==
  /\ watching /\ ctxDone /\ Discarded
  /\ UNCHANGED <<delivering, peaked, full, ctxDone, cancelDue, provVars, turnVars, out>>
-----------------------------------------------------------------------------
Write == Sleep \/ WriteBuffered \/ ClaimLive \/ WriteRefused \/ SendLive \/ SentLive
Turn == BoundaryCompleted \/ BoundaryFull \/ BoundaryRefused \/ BeginRelease
        \/ ReleaseStops \/ DeliverChunk \/ Delivered \/ DeliveryFails \/ GoLive \/ Await

Next ==
  \/ Chunk \/ BadChunk \/ Write \/ StreamEnds \/ StreamFails \/ Fail \/ CloseDone
  \/ Adopt \/ DropSpeculation \/ Turn
  \/ CancelSynthesis \/ EndTurnContext \/ WatchContext

Spec == Init /\ [][Next]_vars

(* Goroutines run, deliverAudio returns, and a stream ends once it is      *)
(* cancelled; a provider left alone may fall silent for ever.  processLive *)
(* adopts or drops every speculation, under a processing deadline, and an  *)
(* abort goes on to cancel.                                                *)
Fairness ==
  /\ WF_vars(Write) /\ WF_vars(Fail \/ CloseDone) /\ WF_vars(Turn) /\ WF_vars(WatchContext)
  /\ WF_vars(ctxDone /\ (StreamEnds \/ StreamFails))
  /\ WF_vars(Adopt \/ DropSpeculation) /\ WF_vars(EndTurnContext)
  /\ WF_vars(cancelDue /\ CancelSynthesis)

FairSpec == Spec /\ Fairness
-----------------------------------------------------------------------------
(* Properties.                                                             *)

(* The buffer keeps the promise of AudioRelease: discards, wipes and late  *)
(* writes of three goroutines never let a unit be heard before the release *)
(* or out of order, nor a wiped one at all.                                *)
Promise == INSTANCE AudioRelease WITH
  gate <- CASE state = "pending" -> "sealed" [] state = "discarded" -> "dead"
            [] OTHER -> "open",
  claimed <- delivering \/ prov.at \in {"claimed", "sending"}

(* The refinement: every step of the buffer, the turn and the provider is  *)
(* a step of AudioRelease or a stutter.                                    *)
ReleaseKept == Promise!Spec

(* A turn that reports the reply as spoken has played all of it.           *)
SpokenWhole ==
  turn.at = "spoken" => result = "ok" /\ out = [i \in 1..made |-> i]

(* A reply that will be synthesised again, or was dropped, was never begun *)
(* and cannot begin any more: the person does not hear two beginnings.     *)
NoSecondVoice ==
  turn.at \in {"fallback", "cancelled"} =>
    out = << >> /\ ~delivering /\ prov.at \notin {"claimed", "sending"}
    /\ state = "discarded"

(* A reply is spoken whole and in one voice, whoever discards it.          *)
HeardOnce == SpokenWhole /\ NoSecondVoice

(* A provider that fills the buffer sleeps until the release, so the turn, *)
(* which waits for the end of the stream, must learn that it is full.      *)
BufferAnnounced == state = "pending" /\ Room = 0 => full

(* However the turn goes, its synthesis goroutine ends, never asleep on a  *)
(* full or releasing buffer, and the turn itself comes to an end.          *)
TurnEnds == <>(result # "none") /\ <>(turn.at \in Ended)
=============================================================================
