---------------------------- MODULE OutboundWriter ----------------------------
(***************************************************************************)
(* The one writer of a live socket (internal/httpapi,                      *)
(* voiceLiveOutboundWriter): callers submit audio and control frames to    *)
(* two bounded lanes and wait for the result, one goroutine writes them,   *)
(* audio first.  Each request owns a copy of its bytes, which must be      *)
(* intact while it is written and cleared when it is over, whoever gives   *)
(* up: the caller, the queue deadline, the socket or the whole writer.     *)
(* A caller submits one frame and is named by it.  A lane is a Go channel: *)
(* the frames in it leave in the order of their tickets.                   *)
(***************************************************************************)
EXTENDS Naturals, FiniteSets

CONSTANTS
  Audio, Control,    \* the frames of each lane
  AudioCapacity, ControlCapacity,
  None

(* The theorems assume it.                                                 *)
Lanes == Audio \intersect Control = {} /\ None \notin Audio \union Control

Frames == Audio \union Control

VARIABLES
  caller,     \* frame -> where its submit stands; "admitted" holds the read lock
  cancelled,  \* the frames whose request's context is done
  copy,       \* frame -> the bytes the request owns: none, intact, cleared
  answer,     \* frame -> what was sent to request.done
  queued,     \* the frames in the two lanes
  ticket,     \* frame -> its place among all that entered a lane
  tickets,    \* how many entered
  ctxDone,    \* the writer's context is done
  run,        \* where the goroutine stands
  hand,       \* the frame it works on
  pending,    \* pendingControl
  written     \* history: the frames given to the socket

callerVars == <<caller, cancelled>>
laneVars == <<queued, ticket, tickets>>
runVars == <<ctxDone, run, hand, pending, written>>
vars == <<callerVars, copy, answer, laneVars, runVars>>

TypeOK ==
  /\ caller \in [Frames -> {"idle", "admitted", "queued", "ok", "failed"}]
  /\ cancelled \subseteq Frames /\ copy \in [Frames -> {"none", "intact", "cleared"}]
  /\ answer \in [Frames -> {"none", "ok", "failed"}]
  /\ queued \subseteq Frames /\ ticket \in [Frames -> Nat] /\ tickets \in Nat
  /\ ctxDone \in BOOLEAN /\ written \subseteq Frames
  /\ run \in {"top", "select", "recheck", "taken", "writing", "closing", "draining", "over"}
  /\ hand \in Frames \union {None} /\ pending \in Control \union {None}

Init ==
  /\ caller = [f \in Frames |-> "idle"] /\ cancelled = {}
  /\ copy = [f \in Frames |-> "none"] /\ answer = [f \in Frames |-> "none"]
  /\ queued = {} /\ ticket = [f \in Frames |-> 0] /\ tickets = 0
  /\ ctxDone = FALSE /\ run = "top" /\ hand = None /\ pending = None /\ written = {}

(* writer.done is closed.                                                  *)
Closed == run \in {"draining", "over"}

LaneOf(f) == IF f \in Audio THEN Audio ELSE Control
Capacity(lane) == IF lane = Audio THEN AudioCapacity ELSE ControlCapacity
-----------------------------------------------------------------------------
(* submit.                                                                 *)

Returns(f, result) == caller' = [caller EXCEPT ![f] = result]

(* Once the writer asks for the exclusive lock, a new reader waits for it. *)
Enter(f) ==
  /\ caller[f] = "idle"
  /\ \/ (f \notin cancelled => run = "over") /\ Returns(f, "failed") /\ UNCHANGED copy
     \/ /\ f \notin cancelled /\ ~Closed
        /\ Returns(f, "admitted") /\ copy' = [copy EXCEPT ![f] = "intact"]
  /\ UNCHANGED <<cancelled, answer, laneVars, runVars>>

Enqueue(f) ==
  /\ caller[f] = "admitted" /\ Cardinality(queued \intersect LaneOf(f)) < Capacity(LaneOf(f))
  /\ queued' = queued \union {f} /\ Returns(f, "queued")
  /\ tickets' = tickets + 1 /\ ticket' = [ticket EXCEPT ![f] = tickets + 1]
  /\ UNCHANGED <<cancelled, copy, answer, runVars>>

(* The lane stays full until the request is cancelled or the writer closes. *)
NotAdmitted(f) ==
  /\ caller[f] = "admitted" /\ (f \notin cancelled => Closed)
  /\ copy' = [copy EXCEPT ![f] = "cleared"] /\ Returns(f, "failed")
  /\ UNCHANGED <<cancelled, answer, laneVars, runVars>>

(* The result, or the end of the request's context or of the writer.       *)
Await(f) ==
  /\ caller[f] = "queued"
  /\ \/ answer[f] # "none" /\ Returns(f, answer[f])
     \/ (f \notin cancelled => Closed) /\ Returns(f, "failed")
  /\ UNCHANGED <<cancelled, copy, answer, laneVars, runVars>>

CancelRequest(f) ==
  /\ caller[f] \in {"idle", "admitted", "queued"} /\ cancelled' = cancelled \union {f}
  /\ UNCHANGED <<caller, copy, answer, laneVars, runVars>>

CancelWriter ==
  /\ ~ctxDone /\ ctxDone' = TRUE
  /\ UNCHANGED <<callerVars, copy, answer, laneVars, run, hand, pending, written>>
-----------------------------------------------------------------------------
(* run.                                                                    *)

IsHead(f) ==
  f \in queued /\ \A g \in (queued \intersect LaneOf(f)) \ {f} : ticket[f] < ticket[g]

Take(f) == IsHead(f) /\ queued' = queued \ {f} /\ hand' = f

TakeAudio == (\E f \in Audio : Take(f)) /\ run' = "taken"

NoAudio == queued \intersect Audio = {}

(* The top of the loop: audio, then the pending control, else wait.        *)
Top ==
  /\ run = "top"
  /\ \/ ctxDone /\ run' = "closing" /\ UNCHANGED <<queued, hand, pending>>
     \/ ~ctxDone /\ TakeAudio /\ UNCHANGED pending
     \/ /\ ~ctxDone /\ NoAudio /\ pending = None
        /\ run' = "select" /\ UNCHANGED <<queued, hand, pending>>
     \/ /\ ~ctxDone /\ NoAudio /\ pending # None
        /\ hand' = pending /\ pending' = None /\ run' = "taken" /\ UNCHANGED queued
  /\ UNCHANGED <<callerVars, copy, answer, ticket, tickets, ctxDone, written>>

(* The blocking select: any case that is ready.                            *)
Select ==
  /\ run = "select"
  /\ \/ ctxDone /\ run' = "closing" /\ UNCHANGED <<queued, hand>>
     \/ TakeAudio
     \/ (\E f \in Control : Take(f)) /\ run' = "recheck"
  /\ UNCHANGED <<callerVars, copy, answer, ticket, tickets, ctxDone, pending, written>>

(* A control that was taken yields to the audio that has come meanwhile.   *)
Recheck ==
  /\ run = "recheck"
  /\ \/ TakeAudio /\ pending' = hand
     \/ NoAudio /\ run' = "taken" /\ UNCHANGED <<queued, hand, pending>>
  /\ UNCHANGED <<callerVars, copy, answer, ticket, tickets, ctxDone, written>>

(* The request in hand is over: its bytes are cleared, its caller told.    *)
Finish(result) ==
  /\ copy' = [copy EXCEPT ![hand] = "cleared"] /\ answer' = [answer EXCEPT ![hand] = result]
  /\ hand' = None

(* Not written: the writer or the request is done, or the audio expired.   *)
Drop ==
  /\ run = "taken" /\ Finish("failed")
  /\ \/ ctxDone /\ run' = "closing"
     \/ ~ctxDone /\ (hand \notin cancelled => hand \in Audio) /\ run' = "top"
  /\ UNCHANGED <<callerVars, laneVars, ctxDone, pending, written>>

StartWrite ==
  /\ run = "taken" /\ ~ctxDone /\ hand \notin cancelled /\ run' = "writing"
  /\ written' = written \union {hand}
  /\ UNCHANGED <<callerVars, copy, answer, laneVars, ctxDone, hand, pending>>

(* The transport returns, in half a second at most.  It may return nil     *)
(* although the context has ended: that is not reported as a success.      *)
EndWrite ==
  /\ run = "writing" /\ run' = "top"
  /\ \E result \in {"ok", "failed"} :
       (result = "ok" => ~ctxDone /\ hand \notin cancelled) /\ Finish(result)
  /\ UNCHANGED <<callerVars, laneVars, ctxDone, pending, written>>
-----------------------------------------------------------------------------
(* shutdown.                                                               *)

Close ==
  /\ run = "closing" /\ run' = "draining"
  /\ UNCHANGED <<callerVars, copy, answer, laneVars, ctxDone, hand, pending, written>>

Discarded == queued \union ({pending} \ {None})

(* The lock is had when no caller is being admitted; then the pending      *)
(* control and the lanes are cleared and their callers told.               *)
Drain ==
  /\ run = "draining" /\ \A f \in Frames : caller[f] # "admitted"
  /\ copy' = [f \in Frames |-> IF f \in Discarded THEN "cleared" ELSE copy[f]]
  /\ answer' = [f \in Frames |-> IF f \in Discarded THEN "failed" ELSE answer[f]]
  /\ queued' = {} /\ pending' = None /\ run' = "over"
  /\ UNCHANGED <<callerVars, ticket, tickets, ctxDone, hand, written>>
-----------------------------------------------------------------------------
RunStep == Top \/ Select \/ Recheck \/ Drop \/ StartWrite \/ EndWrite \/ Close \/ Drain

CallerStep(f) == Enter(f) \/ Enqueue(f) \/ NotAdmitted(f) \/ Await(f) \/ CancelRequest(f)

Next == RunStep \/ CancelWriter \/ \E f \in Frames : CallerStep(f)

Spec == Init /\ [][Next]_vars
-----------------------------------------------------------------------------
(* Bytes are never cleared under a write, although the caller that gave    *)
(* them may have left.                                                     *)
BytesIntactWhileWritten == run = "writing" => copy[hand] = "intact"

(* When the writer is over, no request's bytes are left anywhere: neither  *)
(* in a lane, nor set aside, nor with a caller that was just entering.     *)
NothingKept == run = "over" => \A f \in Frames : copy[f] # "intact"

(* A frame goes to the socket once at most, and after every frame of its   *)
(* lane that entered earlier and was written at all, although a control    *)
(* may be set aside for audio.                                             *)
WrittenInTurn ==
  [][run # "writing" /\ run' = "writing" =>
       /\ hand \notin written
       /\ \A g \in written \intersect LaneOf(hand) : ticket[g] < ticket[hand]]_vars

(* A control goes to the socket only when no audio was waiting at the last *)
(* moment before.                                                          *)
ControlYields == [][run # "taken" /\ run' = "taken" /\ hand' \in Control => NoAudio]_vars
=============================================================================
