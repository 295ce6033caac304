------------------------------ MODULE LiveTurn ------------------------------
(***************************************************************************)
(* One streaming turn, Pipeline.processLive in internal/voiceflow: while   *)
(* the person speaks, recognition events may start one speculation over    *)
(* the interim transcript; when the floor is committed the turn adopts the *)
(* speculation or runs the agent, and one synthesis is heard.              *)
(*                                                                         *)
(* A transcript is a sequence of words, a reply a model value.  Each       *)
(* synthesis is seen through its AudioRelease gate: "absent", "sealed",    *)
(* "open" or "dead" (SpeculativeAudio shows how a buffer keeps it).        *)
(***************************************************************************)
EXTENDS Integers, Sequences, FiniteSets

CONSTANTS
  Words, Replies,
  Silence,            \* no spoken reply
  Prompt,             \* lowConfidencePrompt
  MaxFragments,       \* bound: final fragments
  TransportDeadline   \* input.ProcessingDeadline is given

LiveTurnAssumption ==
  /\ Silence \notin Replies /\ Prompt \notin Replies /\ Silence # Prompt
  /\ MaxFragments \in Nat /\ TransportDeadline \in BOOLEAN

VARIABLES
  recv,         \* the receive loop: "open", "eof", "error"
  finals, interim,
  endpoint,     \* providerSpeechEndPending
  notified,     \* endpointNotified
  tracked,      \* the candidate seen last
  attempted,    \* speculationAttempted
  sender,       \* the PCM sender: "running" or its result
  audio,        \* the input: "none" or "some" PCM, closed after "some" or "none"
  stopped,      \* transcriptionCtx is cancelled
  budget,       \* the processing deadline: "none", "ready", "invalid"
  ctxDone, late,\* the turn's context ended; the processing deadline passed
  spec,         \* the speculation and the goroutine that runs it
  synth,        \* the syntheses of the turn
  pc,           \* the turn
  voice,        \* the synthesis, or the agent call, it has in hand
  reply,        \* the decided spoken reply
  heard         \* syntheses of which PCM was delivered

eventVars == <<recv, finals, interim, endpoint, notified, tracked, attempted>>
inputVars == <<sender, audio, stopped, budget, ctxDone, late>>
turnVars == <<pc, voice, reply, heard>>
vars == <<eventVars, inputVars, spec, synth, turnVars>>

Ids == {"spec", "first", "second", "direct"}
Decisions == Replies \union {Silence}
Absent == [gate |-> "absent", reply |-> Silence]
NoSpec == [at |-> "none", text |-> << >>, reply |-> Silence, dropped |-> FALSE]
Finals == {"done", "failed"}

Texts == UNION {[1..n -> Words] : n \in 0..(MaxFragments + 1)}

TypeOK ==
  /\ recv \in {"open", "eof", "error"} /\ finals \in Texts /\ interim \in Texts
  /\ {endpoint, notified, attempted, stopped, ctxDone, late} \subseteq BOOLEAN
  /\ tracked \in Texts
  /\ sender \in {"running", "committed", "nothing", "closeFailed", "failed"}
  /\ audio \in {"none", "some", "closed", "closedEmpty"}
  /\ budget \in {"none", "ready", "invalid"}
  /\ spec \in [at : {"none", "thinking", "decided", "failed"}, text : Texts,
               reply : Decisions, dropped : BOOLEAN]
  /\ attempted \/ spec.at = "none"
  /\ synth \in [Ids -> [gate : {"absent", "sealed", "open", "dead"},
                        reply : Decisions \union {Prompt}]]
  /\ pc \in {"listen", "decide", "outcome", "infer", "release", "speak", "play"} \union Finals
  /\ voice \in Ids /\ reply \in Decisions \union {Prompt} /\ heard \subseteq Ids
-----------------------------------------------------------------------------
Init ==
  /\ recv = "open" /\ finals = << >> /\ interim = << >>
  /\ endpoint = FALSE /\ notified = FALSE /\ tracked = << >> /\ attempted = FALSE
  /\ sender = "running" /\ audio = "none" /\ stopped = FALSE
  /\ budget = "none" /\ ctxDone = FALSE /\ late = FALSE
  /\ spec = NoSpec /\ synth = [i \in Ids |-> Absent]
  /\ pc = "listen" /\ voice = "spec" /\ reply = Silence /\ heard = {}

Committed == audio \in {"closed", "closedEmpty"}
CtxOver == ctxDone \/ late
SpecLives == spec.at # "none" /\ ~spec.dropped

Kill(s, ids) ==
  [i \in Ids |-> IF i \in ids /\ s[i].gate # "absent" THEN [s[i] EXCEPT !.gate = "dead"]
                 ELSE s[i]]

(* liveSpeculation.cancel: its PCM is discarded before anything goes on.   *)
DropSpec == spec' = [spec EXCEPT !.dropped = TRUE] /\ synth' = Kill(synth, {"spec"})

(* The deferred cancels and aborts of a turn that returns.                 *)
Return(result) ==
  /\ pc' = result /\ spec' = [spec EXCEPT !.dropped = TRUE]
  /\ synth' = Kill(synth, Ids)
-----------------------------------------------------------------------------
(* Recognition events.                                                     *)

(* invalidateRevisedSpeculation: a nonempty revision revokes it at once.    *)
Revise(text) ==
  IF SpecLives /\ text # << >> /\ text # spec.text THEN DropSpec
  ELSE UNCHANGED <<spec, synth>>

(* startLiveSpeculation: nothing once the floor is committed, nor for a    *)
(* text whose committed run would carry other metadata.                    *)
Start(text) ==
  /\ attempted' = TRUE
  /\ \/ UNCHANGED spec
     \/ ~Committed /\ text # << >> /\ spec' = [NoSpec EXCEPT !.at = "thinking", !.text = text]

(* candidateTracker.observe: too short or unstable, new, or seen again; it *)
(* is ready when 160 ms have passed since the first sighting.              *)
Track(text) ==
  \/ tracked' = << >> /\ UNCHANGED <<attempted, spec>>
  \/ /\ text # << >> /\ tracked' = text
     /\ UNCHANGED <<attempted, spec>> \/ (text = tracked /\ Start(text))

(* candidateTracker.observeFinal: the provider closed the utterance.       *)
TrackFinal(text) ==
  /\ tracked' = text
  /\ IF text = << >> THEN UNCHANGED <<attempted, spec>> ELSE Start(text)

Listening == pc = "listen" /\ recv = "open"

Interim(w) ==
  /\ Listening /\ interim' = w
  /\ IF attempted THEN Revise(finals \o w) /\ UNCHANGED <<tracked, attempted>>
     ELSE Track(finals \o w) /\ UNCHANGED synth
  /\ UNCHANGED <<recv, finals, endpoint, notified, inputVars, turnVars>>

(* notifyEndpoint: the client may stop listening.                          *)
Hint(ended, fragments) == notified \/ (ended /\ fragments # << >>)

SpeechEnd ==
  /\ Listening /\ endpoint' = TRUE /\ notified' = Hint(TRUE, finals)
  /\ IF attempted THEN UNCHANGED <<tracked, attempted, spec>> ELSE TrackFinal(finals)
  /\ UNCHANGED <<recv, finals, interim, inputVars, synth, turnVars>>

EmptyFinal ==
  /\ Listening /\ interim' = << >>
  /\ tracked' = IF attempted THEN tracked ELSE << >>
  /\ UNCHANGED <<recv, finals, endpoint, notified, attempted, inputVars, spec, synth, turnVars>>

Final(w) ==
  /\ Listening /\ Len(finals) < MaxFragments
  /\ finals' = Append(finals, w) /\ interim' = << >>
  /\ notified' = Hint(endpoint, finals')
  /\ IF attempted THEN Revise(finals') /\ UNCHANGED <<tracked, attempted>>
     ELSE /\ IF endpoint THEN TrackFinal(finals') ELSE Track(finals')
          /\ UNCHANGED synth
  /\ UNCHANGED <<recv, endpoint, inputVars, turnVars>>

EndOfStream ==
  /\ Listening /\ recv' = "eof"
  /\ UNCHANGED <<finals, interim, endpoint, notified, tracked, attempted, inputVars, spec,
                 synth, turnVars>>

(* A broken or cancelled stream, or a transcript that is too long.         *)
ReceiveFails ==
  /\ Listening /\ recv' = "error" /\ stopped' = TRUE
  /\ UNCHANGED <<finals, interim, endpoint, notified, tracked, attempted, sender, audio,
                 budget, ctxDone, late, spec, synth, turnVars>>
-----------------------------------------------------------------------------
(* The sender, the client that feeds it, and the clocks.                   *)

SendPCM ==
  /\ audio = "none" /\ sender = "running" /\ audio' = "some"
  /\ UNCHANGED <<eventVars, sender, stopped, budget, ctxDone, late, spec, synth, turnVars>>

ClientCommits ==
  /\ audio \in {"none", "some"}
  /\ audio' = IF audio = "some" THEN "closed" ELSE "closedEmpty"
  /\ UNCHANGED <<eventVars, sender, stopped, budget, ctxDone, late, spec, synth, turnVars>>

(* The channel is drained and closed; without the transport's deadline the *)
(* processing time counts from here.                                       *)
SenderCommits ==
  /\ sender = "running" /\ Committed
  /\ sender' \in {IF audio = "closed" THEN "committed" ELSE "nothing", "closeFailed"}
  /\ budget' = IF TransportDeadline THEN budget ELSE "ready"
  /\ UNCHANGED <<eventVars, audio, stopped, ctxDone, late, spec, synth, turnVars>>

SenderFails ==
  /\ sender = "running" /\ sender' = "failed"
  /\ UNCHANGED <<eventVars, audio, stopped, budget, ctxDone, late, spec, synth, turnVars>>

DeadlineArrives ==
  /\ TransportDeadline /\ Committed /\ budget = "none"
  /\ \/ budget' = "ready" /\ UNCHANGED stopped
     \/ budget' = "invalid" /\ stopped' = TRUE
  /\ UNCHANGED <<eventVars, sender, audio, ctxDone, late, spec, synth, turnVars>>

(* Mutant: the timer is stopped when the sender has committed.             *)
ReserveArmedUntilSent == budget = "ready" /\ pc = "listen" /\ sender = "running"

ReserveArmed == budget = "ready" /\ pc = "listen"

(* Transcription may not eat the time reserved for the response.           *)
ReserveFires ==
  /\ ReserveArmed /\ ~stopped /\ stopped' = TRUE
  /\ UNCHANGED <<eventVars, sender, audio, budget, ctxDone, late, spec, synth, turnVars>>

DeadlinePasses ==
  /\ budget = "ready" /\ ~late /\ late' = TRUE
  /\ UNCHANGED <<eventVars, sender, audio, stopped, budget, ctxDone, spec, synth, turnVars>>

EndContext ==
  /\ ~ctxDone /\ ctxDone' = TRUE /\ stopped' = TRUE
  /\ UNCHANGED <<eventVars, sender, audio, budget, late, spec, synth, turnVars>>
-----------------------------------------------------------------------------
(* The speculation's goroutine: the agent may seal a reply early, decides, *)
(* and leaves a synthesis of the decided reply behind a sealed gate.       *)

(* Mutant: a sealed reply starts synthesis in a cancelled speculation.     *)
MayStageAlways == TRUE

MayStage == ~spec.dropped /\ ~ctxDone

Sealed(r) == [gate |-> "sealed", reply |-> r]

StageSpec(r) ==
  /\ spec.at = "thinking" /\ synth["spec"] = Absent /\ MayStage
  /\ synth' = [synth EXCEPT !["spec"] = Sealed(r)]
  /\ UNCHANGED <<eventVars, inputVars, spec, turnVars>>

(* Mutant: whatever was sealed is kept, whatever was decided.              *)
AfterDecisionStaged(r) == IF synth["spec"] = Absent THEN Sealed(r) ELSE synth["spec"]

AfterDecision(r) == IF synth["spec"].reply = r THEN synth["spec"] ELSE Sealed(r)

DecideSpec(r) ==
  /\ spec.at = "thinking"
  /\ \/ /\ r = Silence /\ synth' = Kill(synth, {"spec"})
        /\ spec' = [spec EXCEPT !.at = "decided", !.reply = r]
     \/ /\ r # Silence /\ MayStage
        /\ synth' = [synth EXCEPT !["spec"] = AfterDecision(r)]
        /\ spec' = [spec EXCEPT !.at = "decided", !.reply = r]
     \/ /\ synth' = Kill(synth, {"spec"})
        /\ spec' = [spec EXCEPT !.at = "failed"]
  /\ UNCHANGED <<eventVars, inputVars, turnVars>>

(* A provider failure or the end of its context discards a private buffer. *)
SynthesisDies(i) ==
  /\ synth[i].gate = "sealed" /\ synth' = Kill(synth, {i})
  /\ UNCHANGED <<eventVars, inputVars, spec, turnVars>>
-----------------------------------------------------------------------------
(* The turn after the recognition stream has ended.                        *)

(* Recognition, input and budget are all in; any failure ends the turn.    *)
Join ==
  /\ pc = "listen" /\ recv # "open" /\ sender # "running"
  /\ recv = "eof" /\ sender # "failed" => budget # "none" \/ ctxDone
  /\ IF /\ recv = "eof" /\ sender \in {"committed", "nothing"}
        /\ budget = "ready" /\ ~CtxOver
     THEN pc' = "decide" /\ UNCHANGED <<spec, synth>>
     ELSE Return("failed")
  /\ UNCHANGED <<eventVars, inputVars, voice, reply, heard>>

Adoptable == endpoint /\ spec.text = finals

DecideRecognition ==
  /\ pc = "decide"
  /\ \/ \* nothing recognised, or not safely: silence or a fixed prompt
        \E r \in {Silence, Prompt} :
          /\ DropSpec /\ reply' = r
          /\ pc' = IF r = Silence THEN "done" ELSE "speak"
          /\ UNCHANGED voice
     \/ /\ finals # << >> /\ SpecLives /\ Adoptable
        /\ pc' = "outcome" /\ UNCHANGED <<spec, synth, reply, voice>>
     \/ /\ finals # << >> /\ ~(SpecLives /\ Adoptable)
        /\ DropSpec /\ pc' = "infer" /\ voice' = "first" /\ UNCHANGED reply
  /\ UNCHANGED <<eventVars, inputVars, heard>>

AdoptOutcome ==
  /\ pc = "outcome" /\ spec.at = "decided"
  /\ reply' = spec.reply
  /\ IF spec.reply = Silence THEN Return("done")
     ELSE pc' = "release" /\ UNCHANGED <<spec, synth>>
  /\ UNCHANGED <<eventVars, inputVars, voice, heard>>

RejectOutcome ==
  /\ pc = "outcome" /\ (spec.at = "failed" \/ CtxOver)
  /\ DropSpec /\ pc' = "infer" /\ voice' = "first"
  /\ UNCHANGED <<eventVars, inputVars, reply, heard>>

(* The agent's call over the committed transcript may seal its reply too.  *)
StageCandidate(r) ==
  /\ pc = "infer" /\ synth[voice] = Absent /\ ~CtxOver
  /\ synth' = [synth EXCEPT ![voice] = Sealed(r)]
  /\ UNCHANGED <<eventVars, inputVars, spec, turnVars>>

(* An expired state token: the same turn once more, with new authority.    *)
RetryExpired ==
  /\ pc = "infer" /\ voice = "first" /\ ~CtxOver
  /\ voice' = "second" /\ synth' = Kill(synth, {"first"})
  /\ UNCHANGED <<eventVars, inputVars, spec, pc, reply, heard>>

InferFails ==
  /\ pc = "infer" /\ Return("failed")
  /\ UNCHANGED <<eventVars, inputVars, voice, reply, heard>>

(* Only an ordinary reply equal to the sealed one may use its synthesis.   *)
InferDecides(r) ==
  /\ pc = "infer" /\ reply' = r
  /\ \/ r = Silence /\ Return("done")
     \/ /\ r # Silence /\ synth[voice].reply = r
        /\ pc' = "release" /\ UNCHANGED <<spec, synth>>
     \/ /\ r # Silence
        /\ pc' = "speak" /\ synth' = Kill(synth, {voice}) /\ UNCHANGED spec
  /\ UNCHANGED <<eventVars, inputVars, voice, heard>>

(* Before anything was released: the decision stands and is synthesised    *)
(* again; a publication authority that was withdrawn also voids it.        *)
ReleaseRefused ==
  /\ pc = "release" /\ synth' = Kill(synth, {voice})
  /\ \/ pc' = "speak" /\ UNCHANGED <<voice, spec>>
     \/ /\ voice = "spec" /\ pc' = "infer" /\ voice' = "first"
        /\ spec' = [spec EXCEPT !.dropped = TRUE]
  /\ UNCHANGED <<eventVars, inputVars, reply, heard>>

Release ==
  /\ pc = "release"
  /\ IF synth[voice].gate = "sealed"
     THEN /\ synth' = [synth EXCEPT ![voice].gate = "open"]
          /\ pc' = "play" /\ UNCHANGED spec
     ELSE Return("failed")
  /\ UNCHANGED <<eventVars, inputVars, voice, reply, heard>>

(* streamCommittedSynthesis: straight to the listener.                     *)
Speak ==
  /\ pc = "speak"
  /\ IF CtxOver THEN Return("failed") /\ UNCHANGED voice
     ELSE /\ voice' = "direct" /\ pc' = "play" /\ UNCHANGED spec
          /\ synth' = [synth EXCEPT !["direct"] = [gate |-> "open", reply |-> reply]]
  /\ UNCHANGED <<eventVars, inputVars, reply, heard>>

Deliver(i) ==
  /\ synth[i].gate = "open" /\ i \notin heard /\ heard' = heard \union {i}
  /\ UNCHANGED <<eventVars, inputVars, spec, synth, pc, voice, reply>>

(* Mutant: a release that failed falls back to a second synthesis.         *)
PlayRetried ==
  /\ pc = "play" /\ voice # "direct" /\ pc' = "speak" /\ synth' = Kill(synth, {voice})
  /\ UNCHANGED <<eventVars, inputVars, spec, voice, reply, heard>>

PlayEnds ==
  /\ pc = "play"
  /\ \E result \in Finals : Return(result)
  /\ UNCHANGED <<eventVars, inputVars, voice, reply, heard>>
-----------------------------------------------------------------------------
Sender == SenderCommits \/ SenderFails
TurnStep == Join \/ DecideRecognition \/ AdoptOutcome \/ RejectOutcome \/ Speak
ProviderReturns == InferFails \/ ReleaseRefused \/ Release \/ PlayEnds

Next ==
  \/ \E w \in {<< >>} \union {<<x>> : x \in Words} : Interim(w)
  \/ EmptyFinal \/ \E w \in Words : Final(w)
  \/ SpeechEnd \/ EndOfStream \/ ReceiveFails
  \/ SendPCM \/ ClientCommits \/ Sender
  \/ DeadlineArrives \/ ReserveFires \/ DeadlinePasses \/ EndContext
  \/ \E r \in Replies : StageSpec(r) \/ StageCandidate(r)
  \/ \E r \in Decisions : DecideSpec(r) \/ InferDecides(r)
  \/ \E i \in Ids : SynthesisDies(i)
  \/ \E i \in Ids : Deliver(i)
  \/ RetryExpired \/ TurnStep \/ ProviderReturns

Spec == Init /\ [][Next]_vars

(* The turn's own steps and its timer run; recogniser, agent and synthesis *)
(* return once their context has ended, the sender once its channel has.   *)
Fairness ==
  /\ WF_vars(TurnStep) /\ WF_vars(ReserveFires)
  /\ WF_vars((stopped \/ Committed) /\ Sender)
  /\ WF_vars(stopped /\ ReceiveFails) /\ WF_vars(CtxOver /\ ProviderReturns)

FairSpec == Spec /\ Fairness
-----------------------------------------------------------------------------
(* Properties.                                                             *)

(* The person hears one synthesis, never a dropped one followed by its     *)
(* replacement: the reply is not begun twice.                              *)
OneVoice == Cardinality(heard) <= 1 /\ Cardinality({i \in Ids : synth[i].gate = "open"}) <= 1

(* What is heard is the reply that was decided for this turn, although the *)
(* speculation sealed a reply before the agent had decided.                *)
DecidedIsHeard == \A i \in heard : synth[i].reply = reply

(* A revoked speculation is silent from that moment on, although its       *)
(* goroutine, its provider and its early seal go on in the background.     *)
RevokedIsSilent == spec.dropped => synth["spec"].gate \in {"absent", "dead"}

(* Only the decided reply is heard, and of a revoked one nothing more.     *)
HeardIsDecided == DecidedIsHeard /\ RevokedIsSilent

(* The hint is given once speech has ended with something recognised,      *)
(* whichever of the two events came first.                                 *)
EndpointHinted == endpoint /\ finals # << >> => notified

(* A turn whose context or processing deadline has passed returns, wherever *)
(* it is waiting: on the recogniser, the sender, the budget, the           *)
(* speculation, the agent or a synthesis.                                  *)
TurnReturns == CtxOver ~> (pc \in Finals)
=============================================================================
