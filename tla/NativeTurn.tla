------------------------------ MODULE NativeTurn ------------------------------
(***************************************************************************)
(* One turn of the native voice path: Service.processLive of               *)
(* internal/nativeflow with its sender goroutine.  The provider's output   *)
(* stays held until the caption of the person's words is final and was     *)
(* found ordinary; a coaching request, a refusal of proxy answers or an    *)
(* unsafe text sends the turn to the staged path instead, either through   *)
(* the caption handoff or by asking the browser to replay it.              *)
(*                                                                         *)
(* The provider session is what nativevoice shows its caller (NativeSession *)
(* has its inside): captions at any time, model output only after          *)
(* CommitOutput.  A caption is the cumulative text, of which the code asks *)
(* three questions.                                                        *)
(***************************************************************************)
EXTENDS FiniteSets

VARIABLES
  turn,       \* the request: staged state, checkpoint callback, handoff wired
  pc, result,
  input,      \* the audio channel: closed by the browser's commit frame
  sender,     \* the streamInput goroutine
  session,    \* the provider session of this turn
  out,        \* its output gate
  captionDone, \* it delivered a final caption of the input
  caption,    \* the caption a final event carried
  tainted,    \* providerAnswerTainted
  asked,      \* history: some caption asked for coaching or refused proxy answers
  gate,       \* inputGatePassed
  handoff,    \* stagedHandoff
  authorized, \* respondentCheckpointAuthorized
  checkpoint, \* a respondent checkpoint was published
  heard,      \* whose voice the person heard
  captioned,  \* len(caption) > 0
  ready,      \* the browser was told to capture
  ctxOver     \* the request's context

envVars == <<turn, input, ctxOver>>
sessionVars == <<session, out, captionDone>>
gateVars == <<caption, tainted, asked, gate>>
stagedVars == <<handoff, authorized, checkpoint>>
vars == <<envVars, pc, result, sender, sessionVars, gateVars, stagedVars,
          heard, captioned, ready>>

Captions == [coach : BOOLEAN, optOut : BOOLEAN, eligible : BOOLEAN]
Unread == [coach |-> FALSE, optOut |-> FALSE, eligible |-> FALSE]

TypeOK ==
  /\ turn \in [staged : BOOLEAN, control : BOOLEAN, bridge : BOOLEAN]
  /\ pc \in {"prepare", "drain", "acquire", "start", "receive", "await", "handoff",
             "finish", "returned"}
  /\ result \in {"none", "error", "fallback", "native", "staged"}
  /\ input \in {"open", "closed"} /\ sender \in {"off", "sending", "done", "failed"}
  /\ session \in {"none", "open", "over"} /\ out \in {"held", "committed", "discarded"}
  /\ caption \in Captions /\ heard \subseteq {"native", "staged"}
  /\ handoff \in {"none", "open", "committed", "finished", "cancelled"}
  /\ {captionDone, tainted, asked, gate, authorized, checkpoint, captioned, ready, ctxOver}
       \subseteq BOOLEAN
  /\ (handoff = "committed") = (pc = "handoff") /\ (result = "none") = (pc # "returned")
-----------------------------------------------------------------------------
Init ==
  /\ turn \in [staged : BOOLEAN, control : BOOLEAN, bridge : BOOLEAN]
  /\ pc = "prepare" /\ result = "none" /\ input = "open" /\ sender = "off"
  /\ session = "none" /\ out = "held" /\ captionDone = FALSE
  /\ caption = Unread /\ tainted = FALSE /\ asked = FALSE /\ gate = FALSE
  /\ handoff = "none" /\ authorized = FALSE /\ checkpoint = FALSE
  /\ heard = {} /\ captioned = FALSE /\ ready = FALSE /\ ctxOver = FALSE

(* Every return runs the deferred cleanup: the handoff is cancelled, which *)
(* a finished one ignores, and the session goes back to the pool.          *)
Cleaned == IF handoff \in {"open", "committed"} THEN "cancelled" ELSE handoff

Return(r) ==
  /\ pc' = "returned" /\ result' = r /\ handoff' = Cleaned
  /\ session' = IF session = "open" THEN "over" ELSE session
  /\ UNCHANGED <<envVars, sender, captionDone, gateVars, authorized, checkpoint,
                 heard, captioned, ready>>

Fail == Return("error") /\ UNCHANGED out
FailDiscarding == Return("error") /\ out' = "discarded"
-----------------------------------------------------------------------------
(* Up to the start of capture.                                             *)

(* A staged turn that cannot donate its caption drains the capture and     *)
(* asks for a replay.                                                      *)
PrepareState ==
  /\ pc = "prepare"
  /\ \/ Fail
     \/ /\ pc' = IF turn.staged /\ ~(turn.bridge /\ turn.control) THEN "drain" ELSE "acquire"
        /\ ready' = (pc' = "drain")
        /\ UNCHANGED <<envVars, result, sender, sessionVars, gateVars, stagedVars,
                       heard, captioned>>

(* Mutant: the replay is asked for before the browser committed its turn.  *)
DrainAtOnce == pc = "drain" /\ Return("fallback") /\ UNCHANGED out

Drain ==
  /\ pc = "drain"
  /\ \/ input = "closed" /\ Return("fallback") /\ UNCHANGED out
     \/ ctxOver /\ Fail

(* acquire; a staged turn opens its handoff while the provider connects.   *)
Acquire ==
  /\ pc = "acquire"
  /\ \/ Fail
     \/ /\ pc' = "start" /\ session' = "open"
        /\ handoff' = IF turn.staged THEN "open" ELSE handoff
        /\ UNCHANGED <<envVars, result, sender, out, captionDone, gateVars, authorized,
                       checkpoint, heard, captioned, ready>>

StartActivity ==
  /\ pc = "start"
  /\ \/ Fail
     \/ /\ ~ctxOver /\ session = "open"
        /\ pc' = "receive" /\ ready' = TRUE /\ sender' = "sending"
        /\ UNCHANGED <<envVars, result, sessionVars, gateVars, stagedVars, heard, captioned>>
-----------------------------------------------------------------------------
(* streamInput: ends with EndActivity once the channel is closed, or with  *)
(* an error that discards the output and closes the session.               *)
SenderEnds ==
  /\ sender = "sending" /\ input = "closed" /\ session = "open" /\ sender' = "done"
  /\ UNCHANGED <<envVars, pc, result, sessionVars, gateVars, stagedVars, heard,
                 captioned, ready>>

SenderFails ==
  /\ sender = "sending" /\ sender' = "failed"
  /\ session' = "over" /\ out' = "discarded"
  /\ UNCHANGED <<envVars, pc, result, captionDone, gateVars, stagedVars, heard,
                 captioned, ready>>
-----------------------------------------------------------------------------
(* The receive loop.                                                       *)

Taint(c) == tainted \/ c.coach \/ c.optOut

CanDonate(c) == turn.bridge /\ (turn.control \/ c.optOut)

Donating(c) ==
  CanDonate(c) /\ (turn.staged \/ c.coach \/ c.optOut \/ handoff # "none")

(* Mutant: every final caption goes to the gate.                           *)
DecisiveAlways(final) == final

Decisive(final) == final /\ ~gate

(* A caption of the person's words.  Opening or feeding the handoff may    *)
(* fail; only the first final caption goes on to the gate.                 *)
InputCaption(c, final) ==
  /\ pc = "receive" /\ ~ctxOver
  /\ tainted' = Taint(c) /\ asked' = (asked \/ c.coach \/ c.optOut)
  /\ captionDone' = (captionDone \/ final)
  /\ \/ /\ Donating(c) /\ pc' = "returned" /\ result' = "error" /\ out' = "discarded"
        /\ handoff' = Cleaned /\ session' = "over"
        /\ UNCHANGED <<caption, gate>>
     \/ /\ handoff' = IF Donating(c) THEN "open" ELSE handoff
        /\ pc' = IF Decisive(final) THEN "await" ELSE pc
        /\ caption' = IF Decisive(final) THEN c ELSE caption
        /\ UNCHANGED <<gate, result, out, session>>
  /\ UNCHANGED <<envVars, sender, authorized, checkpoint, heard, captioned, ready>>

(* A caption the code refuses: too long, or not valid text.                *)
BadCaption == pc = "receive" /\ ~ctxOver /\ Fail

(* The session failed or ended, or the caller left.                        *)
ReceiveFails == pc = "receive" /\ (session = "over" \/ ctxOver) /\ Fail

(* What the session shows only after CommitOutput.                         *)
Readable == pc = "receive" /\ out = "committed" /\ ~ctxOver

OutputCaption ==
  /\ Readable
  /\ IF ~gate THEN Fail
     ELSE /\ captioned' = TRUE
          /\ UNCHANGED <<envVars, pc, result, sender, sessionVars, gateVars, stagedVars,
                         heard, ready>>

AudioPCM ==
  /\ Readable
  /\ \/ Fail
     \/ /\ gate /\ heard' = heard \union {"native"}
        /\ UNCHANGED <<envVars, pc, result, sender, sessionVars, gateVars, stagedVars,
                       captioned, ready>>

TurnComplete ==
  /\ Readable /\ gate /\ pc' = "finish"
  /\ UNCHANGED <<envVars, result, sender, sessionVars, gateVars, stagedVars, heard,
                 captioned, ready>>

(* An interruption discards, in the session, what was not yet read.        *)
Interrupted == pc = "receive" /\ ~ctxOver /\ FailDiscarding

(* The exchange is committed to the conversation only with a whole reply.  *)
Finish ==
  /\ pc = "finish"
  /\ \/ Fail
     \/ /\ gate /\ "native" \in heard /\ captioned
        /\ Return("native") /\ UNCHANGED out
-----------------------------------------------------------------------------
(* The gate, on the first final caption, once the sender is done.          *)

Rejects(c) ==
  \/ ~c.eligible
  \/ c.coach /\ ~turn.control
  \/ tainted /\ ~turn.staged /\ ~c.coach /\ ~c.optOut

Donates(c) == ~Rejects(c) /\ (turn.staged \/ c.coach \/ c.optOut)

AwaitFails ==
  /\ pc = "await"
  /\ \/ sender = "failed" /\ FailDiscarding
     \/ ctxOver /\ Fail

Reject ==
  /\ pc = "await" /\ sender = "done" /\ Rejects(caption)
  /\ Return("fallback") /\ out' = "discarded"

(* Mutant: a refusal of proxy answers keeps the authority of a staged turn. *)
AuthorizesStaged(c) == turn.staged \/ c.coach

Authorizes(c) == ~c.optOut /\ (turn.staged \/ c.coach)

(* The final caption goes to the staged path; the provider stays silent.   *)
Donate ==
  /\ pc = "await" /\ sender = "done" /\ Donates(caption)
  /\ \/ FailDiscarding
     \/ handoff = "none" /\ ~turn.bridge /\ Return("fallback") /\ out' = "discarded"
     \/ /\ handoff = "open" \/ turn.bridge
        /\ out' = "discarded" /\ handoff' = "committed" /\ pc' = "handoff"
        /\ authorized' = Authorizes(caption)
        /\ UNCHANGED <<envVars, result, sender, session, captionDone, gateVars, checkpoint,
                       heard, captioned, ready>>

(* CommitOutput refuses an interrupted, failed or closed session.          *)
Approve ==
  /\ pc = "await" /\ sender = "done" /\ ~Rejects(caption) /\ ~Donates(caption)
  /\ \/ Fail
     \/ /\ session = "open" /\ out = "held" /\ captionDone
        /\ out' = "committed" /\ gate' = TRUE /\ pc' = "receive"
        /\ handoff' = Cleaned
        /\ UNCHANGED <<envVars, result, sender, session, captionDone, caption, tainted,
                       asked, authorized, checkpoint, heard, captioned, ready>>
-----------------------------------------------------------------------------
(* The handoff's Commit, as its caller sees it: the callbacks it may make  *)
(* before it returns (CaptionHandoff has its inside).                      *)

PublishCheckpoint ==
  /\ pc = "handoff" /\ turn.control /\ authorized /\ checkpoint' = TRUE
  /\ UNCHANGED <<envVars, pc, result, sender, sessionVars, gateVars, handoff, authorized,
                 heard, captioned, ready>>

StagedAudio ==
  /\ pc = "handoff" /\ ~ctxOver /\ heard' = heard \union {"staged"}
  /\ UNCHANGED <<envVars, pc, result, sender, sessionVars, gateVars, stagedVars,
                 captioned, ready>>

HandoffReturns ==
  /\ pc = "handoff" /\ \E r \in {"staged", "error"} :
       /\ pc' = "returned" /\ result' = r /\ handoff' = "finished"
       /\ session' = "over"
       /\ UNCHANGED <<envVars, sender, out, captionDone, gateVars, authorized, checkpoint,
                      heard, captioned, ready>>
-----------------------------------------------------------------------------
(* The environment.                                                        *)

(* The browser captures once it was told to; its commit frame ends it.     *)
CommitFrame ==
  /\ input = "open" /\ ready /\ input' = "closed"
  /\ UNCHANGED <<turn, ctxOver, pc, result, sender, sessionVars, gateVars, stagedVars,
                 heard, captioned, ready>>

CallerLeaves ==
  /\ ~ctxOver /\ pc # "returned" /\ ctxOver' = TRUE
  /\ UNCHANGED <<turn, input, pc, result, sender, sessionVars, gateVars, stagedVars,
                 heard, captioned, ready>>

(* The provider, or the service's shutdown, ends the session.              *)
SessionEnds ==
  /\ session = "open" /\ session' = "over"
  /\ UNCHANGED <<envVars, pc, result, sender, out, captionDone, gateVars, stagedVars,
                 heard, captioned, ready>>

TurnStep ==
  \/ PrepareState \/ Drain \/ Acquire \/ StartActivity
  \/ BadCaption \/ ReceiveFails \/ OutputCaption \/ AudioPCM \/ TurnComplete \/ Interrupted
  \/ \E c \in Captions, final \in BOOLEAN : InputCaption(c, final)
  \/ AwaitFails \/ Reject \/ Donate \/ Approve
  \/ PublishCheckpoint \/ StagedAudio \/ HandoffReturns \/ Finish

Next ==
  \/ TurnStep \/ SenderEnds \/ SenderFails
  \/ CommitFrame \/ CallerLeaves \/ SessionEnds

Spec == Init /\ [][Next]_vars

(* Each call the turn blocks in honours its context: acquire, Receive, the *)
(* wait for the sender, Commit.                                            *)
Fairness ==
  /\ WF_vars(PrepareState) /\ WF_vars(Drain) /\ WF_vars(Acquire) /\ WF_vars(StartActivity)
  /\ WF_vars(ReceiveFails) /\ WF_vars(AwaitFails) /\ WF_vars(Reject) /\ WF_vars(Donate)
  /\ WF_vars(Approve) /\ WF_vars(HandoffReturns) /\ WF_vars(Finish)

FairSpec == Spec /\ Fairness
-----------------------------------------------------------------------------
(* Who is heard: once, and only whom the gate decided for.                 *)
Verdict ==
  IF gate THEN "native"
  ELSE IF handoff \in {"committed", "finished"} THEN "staged"
  ELSE IF pc = "returned" THEN "silent" ELSE "pending"

Voice == INSTANCE TurnVoice WITH
  Voices <- {"native", "staged"}, verdict <- Verdict, heard <- heard,
  over <- (pc = "returned")

(* The turn implements TurnVoice: it decides once between the provider and *)
(* the staged path, only that voice is heard, and none after it returned.  *)
RefinesTurnVoice == Voice!Spec

(* The gate opens for a turn whose final caption is ordinary, in which no  *)
(* earlier caption asked for coaching or refused proxy answers, and whose  *)
(* every frame had been sent: a withdrawn request leaves the provider mute. *)
GateOpensOnOrdinary ==
  [][gate' /\ ~gate => /\ caption.eligible /\ ~caption.coach /\ ~caption.optOut
                       /\ ~turn.staged /\ ~asked /\ sender = "done"]_vars

(* A replay is asked for only when nothing was heard and the browser has   *)
(* committed: voice_live.go treats any other fallback as a failure, and a  *)
(* replay after speech would speak twice.                                  *)
ReplayIsSilent == result = "fallback" => input = "closed" /\ heard = {}

(* A turn in which the person refused proxy answers publishes no           *)
(* respondent checkpoint, even in a session that is already staged.        *)
RefusalGivesNoCheckpoint ==
  checkpoint => ~caption.optOut /\ (turn.staged \/ caption.coach) /\ input = "closed"

(* What a turn may ask of the browser, and of the person's authority, once *)
(* it leaves the provider: a silent replay, and no refused checkpoint.     *)
FallbackIsReplayable == ReplayIsSilent /\ RefusalGivesNoCheckpoint

(* A handoff is committed or cancelled by the time the turn returns: no    *)
(* private synthesis outlives its turn.                                    *)
HandoffSettled == pc = "returned" => handoff \in {"none", "finished", "cancelled"}

(* However it stands, a turn whose caller left returns.                    *)
TurnReturns == ctxOver ~> pc = "returned"

(* "Never release that provider's later output": once a caption tainted    *)
(* the session, the provider is not heard.                                 *)
TaintedIsSilent == [][asked => ("native" \in heard' => "native" \in heard)]_vars
=============================================================================
