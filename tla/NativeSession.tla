--------------------------- MODULE NativeSession ---------------------------
(***************************************************************************)
(* One provider session of internal/nativevoice/session.go: the goroutines *)
(* of a voice turn write input through one writer goroutine, a receiver    *)
(* goroutine queues what the provider sends, and the output gate holds the *)
(* provider's answer back until the turn commits it.                       *)
(*                                                                         *)
(* The provider's events are numbered in the order they are decoded:       *)
(* stream[n] is the kind of event n, and the two slices of the code are    *)
(* the sets ready and held of event numbers still queued.  Output moved    *)
(* from held to ready by CommitOutput goes behind what is already there,   *)
(* which mark records (see Position).                                      *)
(***************************************************************************)
EXTENDS Integers, Sequences, FiniteSets

CONSTANTS
  Callers,        \* goroutines that call the input and commit operations
  NoCaller,       \* nobody holds the input token / the writer has no request
  MaxStream,      \* bound: events the provider sends
  MaxFrames,      \* config.MaxInputBytes, in 20 ms frames
  MaxPending,     \* config.MaxPendingEvents
  MaxWire         \* bound: no input operation starts after this many writes

ASSUME NativeSessionAssumption ==
  /\ NoCaller \notin Callers
  /\ {MaxStream, MaxFrames, MaxPending, MaxWire} \subseteq Nat

VARIABLES
  stream,         \* kinds of the events decoded so far
  ready, held,    \* numbers of the queued events
  taken,          \* numbers of the events Receive returned, in order (history)
  mark,           \* Len(stream) when CommitOutput opened the gate, 0 before
  buffered,       \* bufferedBytes, one unit per event with content
  committed, discarded, capFinal, capDelivered,   \* the output gate
  terminal,       \* terminalErr # nil
  ctxDone,        \* the session context is cancelled
  killPending,    \* an expired operation context is about to call terminate
  inputActive, activityStarted, activityEnded, frames,
  token,          \* holder of the inputLock
  op,             \* what each caller is doing
  writer,         \* the writer goroutine and the request it owns
  wire,           \* inputs handed to raw.SendRealtimeInput, in order (history)
  receiver        \* the goroutine in Receive: "idle", "parked" or "woken"

gateVars  == <<committed, discarded, capFinal, capDelivered>>
queueVars == <<stream, ready, held, taken, mark, buffered>>
inputVars == <<inputActive, activityStarted, activityEnded, frames>>
lifeVars  == <<terminal, ctxDone, killPending>>
sendVars  == <<token, op, writer, wire>>
vars == <<queueVars, gateVars, inputVars, lifeVars, sendVars, receiver>>

-----------------------------------------------------------------------------
(* Events.  "output" stands for PCM and output captions alike.             *)

GatedKinds == {"output", "turnComplete"}
Kinds == GatedKinds \union {"caption", "finalCaption", "interrupted"}

Gated(n) == stream[n] \in GatedKinds
Sized(n) == stream[n] \notin {"turnComplete", "interrupted"}
Bytes(S) == Cardinality({n \in S : Sized(n)})

(* Slot of event n in the ready slice: what was queued while the gate was  *)
(* closed precedes the held output appended when it opened.                *)
Position(n) == IF Gated(n) \/ n > mark THEN mark + n ELSE n

NextReady(n) == n \in ready /\ \A m \in ready : Position(n) <= Position(m)

(* The event lists one provider message decodes to: an input caption, then *)
(* either the interruption alone or output and the end of the turn.        *)
Messages ==
  {c \o r : c \in {<< >>, <<"caption">>, <<"finalCaption">>},
            r \in {<< >>, <<"interrupted">>, <<"output">>, <<"turnComplete">>,
                   <<"output", "turnComplete">>}} \ {<< >>}

InputOps == {"start", "pcm", "end"}
Idle     == [kind |-> "none", at |-> "idle"]
Ops      == [kind : InputOps \union {"commit"},
             at : {"lock", "locked", "offer", "await", "ok", "failed"}] \union {Idle}
WriterIdle == [at |-> "idle", kind |-> "none", from |-> NoCaller, live |-> FALSE]
WriterStopped == [WriterIdle EXCEPT !.at = "stopped"]
Requests == [at : {"taken", "sending"}, kind : InputOps, from : Callers, live : BOOLEAN]
            \union {WriterIdle, WriterStopped}

QueueTypes ==
  /\ stream \in Seq(Kinds) /\ Len(stream) <= MaxStream
  /\ ready \subseteq 1..Len(stream) /\ held \subseteq 1..Len(stream)
  /\ taken \in Seq(1..Len(stream))
  /\ mark \in 0..Len(stream) /\ buffered \in Int

FlagTypes ==
  /\ committed \in BOOLEAN /\ discarded \in BOOLEAN
  /\ capFinal \in BOOLEAN /\ capDelivered \in BOOLEAN
  /\ terminal \in BOOLEAN /\ ctxDone \in BOOLEAN /\ killPending \in BOOLEAN
  /\ inputActive \in BOOLEAN /\ activityStarted \in BOOLEAN /\ activityEnded \in BOOLEAN

SendTypes ==
  /\ frames \in 0..MaxFrames
  /\ token \in Callers \union {NoCaller}
  /\ op \in [Callers -> Ops] /\ writer \in Requests
  /\ wire \in Seq(InputOps)
  /\ receiver \in {"idle", "parked", "woken"}

TypeOK == QueueTypes /\ FlagTypes /\ SendTypes
-----------------------------------------------------------------------------
Init ==
  /\ stream = << >> /\ ready = {} /\ held = {} /\ taken = << >>
  /\ mark = 0 /\ buffered = 0
  /\ committed = FALSE /\ discarded = FALSE
  /\ capFinal = FALSE /\ capDelivered = FALSE
  /\ terminal = FALSE /\ ctxDone = FALSE /\ killPending = FALSE
  /\ inputActive = FALSE /\ activityStarted = FALSE /\ activityEnded = FALSE
  /\ frames = 0
  /\ token = NoCaller /\ op = [c \in Callers |-> Idle]
  /\ writer = WriterIdle /\ wire = << >>
  /\ receiver = "idle"

(* signalLocked: every goroutine waiting in Receive looks again.           *)
Signalled == IF receiver = "parked" THEN "woken" ELSE receiver

(* terminate: the first error wipes both queues; CancelSession follows.    *)
Terminated ==
  /\ terminal' = TRUE /\ UNCHANGED ctxDone
  /\ IF terminal THEN UNCHANGED <<ready, held, buffered, receiver>>
     ELSE /\ ready' = {} /\ held' = {} /\ buffered' = 0
          /\ receiver' = Signalled

(* Mutant: the byte count forgets output that was already readable.        *)
OutputDroppedHeldBytes ==
  LET dropped == {n \in ready \union held : Gated(n)} IN
  /\ ready' = ready \ dropped /\ held' = held \ dropped
  /\ buffered' = buffered - Bytes(held)

(* discardOutputLocked, on the two queues and their byte count.            *)
OutputDropped ==
  LET dropped == {n \in ready \union held : Gated(n)} IN
  /\ ready' = ready \ dropped /\ held' = held \ dropped
  /\ buffered' = buffered - Bytes(dropped)

-----------------------------------------------------------------------------
(* Input operations: StartActivity, SendPCM20ms, EndActivity.              *)

Call(c, k) ==
  /\ op[c] = Idle /\ (k \in InputOps => Len(wire) < MaxWire)
  /\ op' = [op EXCEPT ![c] = [kind |-> k, at |-> "lock"]]
  /\ UNCHANGED <<queueVars, gateVars, inputVars, lifeVars, token, writer, wire, receiver>>

(* Mutant: the lock is granted without a second look at the context.       *)
MayLockBlindly(c) == TRUE

(* LockContext: CommitOutput waits under the session context, the input    *)
(* operations under a context that learns of its end a little later.       *)
MayLock(c) == op[c].kind = "commit" => ~ctxDone

AcquireToken(c) ==
  /\ op[c].at = "lock" /\ token = NoCaller /\ MayLock(c)
  /\ token' = c /\ op' = [op EXCEPT ![c].at = "locked"]
  /\ UNCHANGED <<queueVars, gateVars, inputVars, lifeVars, writer, wire, receiver>>

GiveUpToken(c) ==
  /\ op[c].at = "lock"
  /\ op[c].kind = "commit" => ctxDone
  /\ op' = [op EXCEPT ![c] = Idle]
  /\ UNCHANGED <<queueVars, gateVars, inputVars, lifeVars, token, writer, wire, receiver>>

(* Mutant: the request outlives the operation that offered it.             *)
ReturnOnly(c) ==
  /\ op' = [op EXCEPT ![c] = Idle] /\ token' = NoCaller /\ UNCHANGED writer

(* Leaving an operation: the token goes back, an abandoned request dies.   *)
Return(c) ==
  /\ op' = [op EXCEPT ![c] = Idle] /\ token' = NoCaller
  /\ writer' = IF writer.from = c THEN [writer EXCEPT !.live = FALSE] ELSE writer

(* Mutant: an activity may start again.                                    *)
WrongStateWhileActive(k) == IF k = "start" THEN inputActive ELSE ~inputActive

WrongState(k) ==
  IF k = "start" THEN inputActive \/ activityStarted ELSE ~inputActive

RoomForFrame == frames < MaxFrames

RefuseInput(c) ==
  /\ op[c].at = "locked" /\ op[c].kind \in InputOps
  /\ terminal \/ WrongState(op[c].kind)
  /\ Return(c)
  /\ UNCHANGED <<queueVars, gateVars, inputVars, lifeVars, wire, receiver>>

InputLimit(c) ==
  /\ op[c] = [kind |-> "pcm", at |-> "locked"]
  /\ ~terminal /\ inputActive /\ ~RoomForFrame
  /\ Terminated /\ Return(c)
  /\ UNCHANGED <<stream, taken, mark, gateVars, inputVars, killPending, wire>>

(* StartActivity empties the output gate before it writes.                 *)
BeginInput(c) ==
  /\ op[c].at = "locked" /\ op[c].kind \in InputOps
  /\ ~terminal /\ ~WrongState(op[c].kind)
  /\ op[c].kind = "pcm" => RoomForFrame
  /\ op' = [op EXCEPT ![c].at = "offer"]
  /\ IF op[c].kind = "start"
     THEN /\ OutputDropped
          /\ committed' = FALSE /\ discarded' = FALSE
          /\ capFinal' = FALSE /\ capDelivered' = FALSE
     ELSE UNCHANGED <<ready, held, buffered, gateVars>>
  /\ UNCHANGED <<stream, taken, mark, inputVars, lifeVars, token, writer, wire, receiver>>

HandOver(c) ==
  /\ op[c].at = "offer" /\ writer = WriterIdle
  /\ writer' = [at |-> "taken", kind |-> op[c].kind, from |-> c, live |-> TRUE]
  /\ op' = [op EXCEPT ![c].at = "await"]
  /\ UNCHANGED <<queueVars, gateVars, inputVars, lifeVars, token, wire, receiver>>

(* Mutant: no deadline while the writer owns the request.                  *)
InSendUntilHandOver(c) == op[c].at \in {"offer", "ok", "failed"}

InSend(c) == op[c].at \in {"offer", "await", "ok", "failed"}

(* The operation context ends first: SendTimeout, the caller's cancellation *)
(* or the session's.  Once sendProvider has armed it, that kills the session. *)
ExpireSend(c) ==
  /\ InSend(c)
  /\ Return(c)
  /\ \/ killPending' = TRUE
     \/ op[c].at = "offer" /\ UNCHANGED killPending
     \/ op[c].at = "failed" /\ UNCHANGED killPending
  /\ UNCHANGED <<queueVars, gateVars, inputVars, terminal, ctxDone, wire, receiver>>

InputDone(c) ==
  \/ /\ op[c].kind = "start"
     /\ inputActive' = TRUE /\ activityStarted' = TRUE /\ activityEnded' = FALSE
     /\ UNCHANGED frames
  \/ /\ op[c].kind = "pcm" /\ frames' = frames + 1
     /\ UNCHANGED <<inputActive, activityStarted, activityEnded>>
  \/ /\ op[c].kind = "end"
     /\ inputActive' = FALSE /\ activityEnded' = TRUE
     /\ UNCHANGED <<activityStarted, frames>>

(* sendProvider answers with the writer's result ...                       *)
SendSucceeds(c) ==
  /\ op[c].at = "ok" /\ ~ctxDone
  /\ InputDone(c) /\ Return(c)
  /\ UNCHANGED <<queueVars, gateVars, lifeVars, wire, receiver>>

(* ... or, woken by the session's end, with currentTerminalError(): an     *)
(* error once terminate has run, nil - success - before it has.            *)
SendSeesSessionEnd(c) ==
  /\ InSend(c) /\ ctxDone
  /\ IF terminal THEN UNCHANGED inputVars ELSE InputDone(c)
  /\ Return(c)
  /\ UNCHANGED <<queueVars, gateVars, lifeVars, wire, receiver>>

-----------------------------------------------------------------------------
(* writerLoop.  Draining after the end answers like ExpireSend without a   *)
(* kill, so it needs no action of its own.                                 *)

Answer(ok) ==
  op' = IF writer.live
        THEN [op EXCEPT ![writer.from].at = IF ok THEN "ok" ELSE "failed"]
        ELSE op

WriterStops ==
  /\ writer.at \in {"idle", "taken"} /\ ctxDone
  /\ writer' = WriterStopped
  /\ IF writer.at = "taken" THEN Answer(FALSE) ELSE UNCHANGED op
  /\ UNCHANGED <<queueVars, gateVars, inputVars, lifeVars, token, wire, receiver>>

WriterSkips ==
  /\ writer.at = "taken" /\ ~ctxDone /\ ~writer.live
  /\ writer' = WriterIdle
  /\ UNCHANGED <<queueVars, gateVars, inputVars, lifeVars, token, op, wire, receiver>>

WriterSends ==
  /\ writer.at = "taken" /\ ~ctxDone /\ writer.live
  /\ writer' = [writer EXCEPT !.at = "sending"]
  /\ wire' = Append(wire, writer.kind)
  /\ UNCHANGED <<queueVars, gateVars, inputVars, lifeVars, token, op, receiver>>

WriterSent ==
  /\ writer.at = "sending" /\ ~ctxDone /\ writer.live
  /\ writer' = WriterIdle /\ Answer(TRUE)
  /\ UNCHANGED <<queueVars, gateVars, inputVars, lifeVars, token, wire, receiver>>

(* The write failed, or came back after its operation or session ended.    *)
WriterFails ==
  /\ writer.at = "sending"
  /\ Answer(FALSE) /\ Terminated /\ writer' = WriterStopped
  /\ UNCHANGED <<stream, taken, mark, gateVars, inputVars, killPending, token, wire>>

-----------------------------------------------------------------------------
(* The output gate and Receive.                                            *)

(* Mutant: the gate opens on a final caption that nobody has read.         *)
CommitAllowedOnceFinal ==
  /\ ~terminal /\ ~inputActive /\ activityEnded
  /\ ~discarded /\ capFinal /\ ~committed

CommitAllowed ==
  /\ ~terminal /\ ~inputActive /\ activityEnded
  /\ ~discarded /\ capFinal /\ capDelivered /\ ~committed
ReleaseSignals == held # {}

CommitOutput(c) ==
  /\ op[c] = [kind |-> "commit", at |-> "locked"]
  /\ IF ~CommitAllowed
     THEN UNCHANGED <<committed, ready, held, mark, receiver>>
     ELSE /\ committed' = TRUE
          /\ ready' = ready \union held /\ held' = {}
          /\ mark' = Len(stream)
          /\ receiver' = IF ReleaseSignals THEN Signalled ELSE receiver
  /\ Return(c)
  /\ UNCHANGED <<stream, taken, buffered, discarded, capFinal, capDelivered,
                 inputVars, lifeVars, wire>>

DiscardOutput ==
  /\ OutputDropped
  /\ committed' = FALSE /\ discarded' = TRUE
  /\ UNCHANGED <<stream, taken, mark, capFinal, capDelivered, inputVars, lifeVars,
                 sendVars, receiver>>

Take(n) ==
  /\ receiver # "parked" /\ NextReady(n)
  /\ ready' = ready \ {n} /\ taken' = Append(taken, n)
  /\ buffered' = buffered - Bytes({n})
  /\ capDelivered' = (capDelivered \/ stream[n] = "finalCaption")
  /\ receiver' = "idle"
  /\ UNCHANGED <<stream, held, mark, committed, discarded, capFinal, inputVars,
                 lifeVars, sendVars>>

Park ==
  /\ receiver # "parked" /\ ready = {} /\ ~terminal
  /\ receiver' = "parked"
  /\ UNCHANGED <<queueVars, gateVars, inputVars, lifeVars, sendVars>>

(* Receive returns empty-handed: its own context ended, or the session did. *)
LeaveReceive ==
  /\ \/ receiver = "parked"
     \/ receiver = "woken" /\ ready = {} /\ terminal
  /\ receiver' = "idle"
  /\ UNCHANGED <<queueVars, gateVars, inputVars, lifeVars, sendVars>>

(* Mutant: a closed gate lets the end of the turn through.                 *)
WithheldOutputOnly(k, open) == k = "output" /\ ~open

Withheld(k, open) == k \in GatedKinds /\ ~open

(* enqueueEvents for the events m of one provider message: an interruption *)
(* drops queued output and shuts the gate; output behind a shut gate goes. *)
Cut(m)    == \E i \in DOMAIN m : m[i] = "interrupted"
Shut(m)   == discarded \/ Cut(m)
Open(m)   == committed /\ ~Cut(m)
Old(m)    == {n \in ready \union held : Cut(m) /\ Gated(n)}
Kept(m)   == {i \in DOMAIN m : ~(Shut(m) /\ m[i] \in GatedKinds)}
Fresh(S)  == {Len(stream) + i : i \in S}
ToRead(m) == {i \in Kept(m) : ~Withheld(m[i], Open(m))}
KeptContent(m) == {i \in Kept(m) : m[i] \notin {"turnComplete", "interrupted"}}
FinalCaption(m) == \E i \in DOMAIN m : m[i] = "finalCaption"

Overflows(m) ==
  Cardinality(ready \ Old(m)) + Cardinality(held \ Old(m)) + Cardinality(Kept(m)) > MaxPending

Enqueue(m) ==
  /\ ready' = (ready \ Old(m)) \union Fresh(ToRead(m))
  /\ held'  = (held \ Old(m)) \union Fresh(Kept(m) \ ToRead(m))
  /\ buffered' = (buffered - Bytes(Old(m)))
       + Cardinality(KeptContent(m))
  /\ receiver' = IF ready \ Old(m) = {} /\ ToRead(m) # {} THEN Signalled ELSE receiver
  /\ UNCHANGED <<terminal, ctxDone>>

ProviderMessage(m) ==
  /\ Len(stream) + Len(m) <= MaxStream
  /\ ~terminal
  /\ stream' = stream \o m
  /\ committed' = Open(m) /\ discarded' = Shut(m)
  /\ capFinal' = (capFinal \/ FinalCaption(m))
  /\ IF Overflows(m) THEN Terminated ELSE Enqueue(m)
  /\ UNCHANGED <<taken, mark, capDelivered, inputVars, killPending, sendVars>>

-----------------------------------------------------------------------------
(* The end of a session.                                                   *)

(* Session timeout or the opener's context: terminate follows on its own.  *)
SessionExpires ==
  /\ ~ctxDone /\ ctxDone' = TRUE
  /\ UNCHANGED <<queueVars, gateVars, inputVars, terminal, killPending, sendVars, receiver>>

CancelSession ==
  /\ terminal /\ ~ctxDone /\ ctxDone' = TRUE
  /\ UNCHANGED <<queueVars, gateVars, inputVars, terminal, killPending, sendVars, receiver>>

(* Mutant: the watcher looks only after the activity has started.          *)
WatchStartedSession ==
  /\ ctxDone /\ ~terminal /\ activityStarted /\ Terminated
  /\ UNCHANGED <<stream, taken, mark, gateVars, inputVars, killPending, sendVars>>

WatchSession ==
  /\ ctxDone /\ ~terminal /\ Terminated
  /\ UNCHANGED <<stream, taken, mark, gateVars, inputVars, killPending, sendVars>>

KillExpired ==
  /\ killPending /\ Terminated /\ killPending' = FALSE
  /\ UNCHANGED <<stream, taken, mark, gateVars, inputVars, sendVars>>

(* Close, a provider failure, or a message decodeMessage refuses.          *)
Close ==
  /\ ~terminal /\ Terminated
  /\ UNCHANGED <<stream, taken, mark, gateVars, inputVars, killPending, sendVars>>

-----------------------------------------------------------------------------
(* Steps of operation c after the call: code that runs to its end.         *)
Proceed(c) ==
  \/ GiveUpToken(c) \/ RefuseInput(c) \/ InputLimit(c) \/ BeginInput(c)
  \/ ExpireSend(c) \/ SendSucceeds(c) \/ SendSeesSessionEnd(c) \/ CommitOutput(c)

Writer == WriterStops \/ WriterSkips \/ WriterSends \/ WriterSent \/ WriterFails

Next ==
  \/ \E c \in Callers :
       \/ \E k \in InputOps \union {"commit"} : Call(c, k)
       \/ AcquireToken(c) \/ HandOver(c) \/ Proceed(c)
  \/ Writer
  \/ DiscardOutput \/ Park \/ LeaveReceive
  \/ \E n \in ready : Take(n)
  \/ \E m \in Messages : ProviderMessage(m)
  \/ SessionExpires \/ CancelSession \/ WatchSession \/ KillExpired \/ Close

Spec == Init /\ [][Next]_vars

(* Operations run under SendTimeout, a Go channel hands the input token to *)
(* its waiters in turn, and the watcher goroutines are always scheduled.   *)
(* Nothing makes a raw provider write return, or the provider speak.       *)
Fairness ==
  /\ \A c \in Callers : WF_vars(Proceed(c)) /\ SF_vars(AcquireToken(c))
  /\ WF_vars(CancelSession) /\ WF_vars(WatchSession) /\ WF_vars(KillExpired)
  /\ WF_vars(receiver = "woken" /\ (LeaveReceive \/ \E n \in ready : Take(n)))

FairSpec == Spec /\ Fairness
-----------------------------------------------------------------------------
(* Properties.                                                             *)

TakenKinds == [i \in DOMAIN taken |-> stream[taken[i]]]

(* No answer of the model can be read before the turn is committed: an     *)
(* output event waits in ready only while CommitOutput holds, which needs  *)
(* the final input caption received and delivered and the input closed.    *)
GateClosed ==
  \A n \in ready : Gated(n) =>
    committed /\ ~discarded /\ capFinal /\ capDelivered /\ activityEnded

(* Opening the gate leaves nothing behind it: held output would otherwise  *)
(* be overtaken by what arrives later, or never be read.                   *)
HeldUntilCommit == committed => held = {}

(* What Receive returned, in hindsight: the model's output comes after the *)
(* final input caption, and in the order in which the provider sent it.    *)
ReleasedAfterCaption ==
  \A i \in DOMAIN taken : Gated(taken[i]) =>
    \E j \in 1..(i - 1) : TakenKinds[j] = "finalCaption"

(* The model's output is returned in the order in which the provider sent  *)
(* it, although part of it waited in held and part was never held.         *)
OutputInOrder ==
  \A i, j \in DOMAIN taken :
    i < j /\ Gated(taken[i]) /\ Gated(taken[j]) => taken[i] < taken[j]

(* enqueueEvents signals only an empty-to-readable change; no receiver may *)
(* sleep over an event, nor over the end of the session.                   *)
NoLostWakeup == receiver = "parked" => ready = {} /\ ~terminal

(* bufferedBytes, adjusted in five places, is what the queues hold: drift  *)
(* would shrink MaxPendingBytes for the rest of the session, or lift it.   *)
BufferedExact == buffered = Bytes(ready \union held)

(* Nothing is queued again once terminate has wiped the queues, and the    *)
(* queues together respect MaxPendingEvents.                               *)
TerminalScrubs == terminal => ready = {} /\ held = {}
PendingBounded == Cardinality(ready) + Cardinality(held) <= MaxPending

(* Inputs reach the provider one at a time, as start pcm* end, although a  *)
(* caller that gave up may leave its request behind with the writer.  Only *)
(* a session about to be killed for an expired operation may see a repeat. *)
WireOrder ==
  ~killPending /\ ~terminal =>
  /\ wire # << >> => wire[1] = "start"
  /\ \A i \in 2..Len(wire) : wire[i] # "start"
  /\ \A i \in 1..(Len(wire) - 1) : wire[i] # "end"

(* A committed turn rests on an ActivityEnd that was really written, even  *)
(* though EndActivity may report success without writing (see below).      *)
CommittedInputReachedProvider ==
  committed => \E i \in DOMAIN wire : wire[i] = "end"

(* The comment above EndActivity: "A nil return means                      *)
(* SendRealtimeInput(ActivityEnd) has completed".                          *)
EndMeansSent == activityEnded => \E i \in DOMAIN wire : wire[i] = "end"

(* Why the gate holds for any number of callers and events: operations are *)
(* serialised by the token, the activity runs once, and the commit flag    *)
(* implies everything CommitOutput asked for.                              *)
TokenHeld == \A c \in Callers : op[c].at \notin {"idle", "lock"} => token = c
SendsGuarded ==
  \A c \in Callers : InSend(c) =>
    /\ op[c].kind \in InputOps
    /\ op[c].kind = "start" <=> ~activityStarted
    /\ op[c].kind = "pcm" => frames < MaxFrames
WriterOwns == writer.live => writer.from \in Callers /\ op[writer.from].at = "await"
CommitRests ==
  /\ committed => /\ ~discarded /\ capFinal /\ capDelivered
                  /\ activityEnded /\ ~inputActive
  /\ activityEnded \/ inputActive => activityStarted
  /\ \A n \in ready : Gated(n) => committed
QueuesSettled == HeldUntilCommit /\ TerminalScrubs /\ NoLostWakeup

(* The inductive invariant: all of the above together.                     *)
IInv == TypeOK /\ TokenHeld /\ SendsGuarded /\ WriterOwns /\ CommitRests /\ QueuesSettled

(* Every input operation and commit returns, although the raw write may    *)
(* block for ever.                                                         *)
OpsReturn == \A c \in Callers : (op[c].at # "idle") ~> (op[c].at = "idle")

(* A session whose context ends is terminated, whoever notices it first,   *)
(* and its receiver is then released.                                      *)
EndTerminates == (killPending \/ ctxDone) ~> (terminal /\ ctxDone /\ receiver = "idle")
=============================================================================
