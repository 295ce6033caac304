---------------------------- MODULE CaptionHandoff ----------------------------
(***************************************************************************)
(* The bridge from the native path to the staged one (captionHandoff of    *)
(* internal/voiceflow): captions are observed while the person speaks and  *)
(* may start one speculation; Commit adopts it for an exactly equal final  *)
(* caption or runs the agent; respondent speech needs a checkpoint the     *)
(* transport accepted and a publication authority; Cancel may come from    *)
(* any goroutine.  PCM crosses publicationMu one callback at a time.       *)
(*                                                                         *)
(* Three voices can deliver PCM: the speculation's synthesis, the private  *)
(* candidate of the committed run, and a direct synthesis.  Each is seen   *)
(* through its AudioRelease gate, as in LiveTurn.                          *)
(***************************************************************************)
CONSTANTS
  Texts,      \* captions, canonicalised
  Cancellers, \* goroutines that call Cancel
  None

Voices == {"spec", "candidate", "direct"}

HandoffAssumption ==
  None \notin Texts \union Cancellers \union Voices \union {"commit"} /\ "commit" \notin Cancellers

VARIABLES
  caption, finalObserved,   \* latestCaption
  attempted, spec,          \* the speculation: text, state, decision, authority
  gate,                     \* voice -> absent, sealed, open, dead
  frame,                    \* ProcessingCommitted: the browser's commit frame
  committed, canceled, finished, audioAuthorized,
  ctxOver,                  \* the handoff's context
  pc, voice,                \* the Commit call, and the voice it is to release
  decision,                 \* what it is about to say: respondent, speaks
  checkpoint, authority,    \* accepted by the transport; of Commit's initiative
  outputDelivered,          \* some onAudio has returned nil
  term, pub,                \* holders of terminalMu and publicationMu
  deliver,                  \* voice -> where its deliverAudio call stands
  cancel,                   \* canceller -> where its Cancel call stands
  heard                     \* voices of which onAudio accepted PCM

captionVars == <<caption, finalObserved, attempted>>
flagVars == <<committed, canceled, finished, audioAuthorized, ctxOver>>
commitVars == <<pc, voice, decision, checkpoint, authority>>
publishVars == <<outputDelivered, pub, deliver, heard>>
vars == <<captionVars, spec, gate, frame, flagVars, commitVars, publishVars, term, cancel>>

Decisions == [respondent : BOOLEAN, speaks : BOOLEAN]
Undecided == [respondent |-> FALSE, speaks |-> FALSE]
NoSpec == [at |-> "none", text |-> None, decision |-> Undecided, authority |-> "none"]

TypeOK ==
  /\ caption \in Texts \union {None} /\ {finalObserved, attempted, frame} \subseteq BOOLEAN
  /\ spec \in [at : {"none", "thinking", "decided", "failed"}, text : Texts \union {None},
               decision : Decisions, authority : {"none", "prepared"}]
  /\ gate \in [Voices -> {"absent", "sealed", "open", "dead"}]
  /\ {committed, canceled, finished, audioAuthorized, ctxOver, checkpoint,
      outputDelivered} \subseteq BOOLEAN
  /\ pc \in {"idle", "match", "infer", "authorize", "commitInitiative", "grant", "release",
             "speak", "finish", "drain", "returned"}
  /\ voice \in Voices \union {None} /\ decision \in Decisions
  /\ authority \in {"none", "prepared", "committed"}
  /\ term \in Cancellers \union {"commit", None} /\ pub \in Voices \union {None}
  /\ deliver \in [Voices -> {"out", "wait", "in", "call"}]
  /\ cancel \in [Cancellers -> {"idle", "revoke", "drain", "returned"}]
  /\ heard \subseteq Voices
  /\ \A v \in Voices : (pub = v) = (deliver[v] \in {"in", "call"})
-----------------------------------------------------------------------------
(* OpenCaptionHandoff. *)
Init ==
  /\ caption = None /\ finalObserved = FALSE /\ attempted = FALSE /\ spec = NoSpec
  /\ gate = [v \in Voices |-> "absent"] /\ frame = FALSE
  /\ committed = FALSE /\ canceled = FALSE /\ finished = FALSE
  /\ audioAuthorized = FALSE /\ ctxOver = FALSE
  /\ pc = "idle" /\ voice = None /\ decision = Undecided
  /\ checkpoint = FALSE /\ authority = "none" /\ outputDelivered = FALSE
  /\ term = None /\ pub = None /\ deliver = [v \in Voices |-> "out"]
  /\ cancel = [c \in Cancellers |-> "idle"] /\ heard = {}

Kill(v) == gate' = [gate EXCEPT ![v] = IF @ = "absent" THEN @ ELSE "dead"]

(* invalidateRevisedSpeculation.                                           *)
Revise(c) ==
  IF spec.at # "none" /\ spec.text # c THEN spec' = NoSpec /\ Kill("spec")
  ELSE UNCHANGED <<spec, gate>>

Observe(c, final) ==
  /\ pc = "idle" /\ ~ctxOver /\ ~canceled /\ ~committed /\ ~finished /\ ~finalObserved
  /\ caption' = c /\ finalObserved' = final
  /\ IF attempted THEN Revise(c) /\ UNCHANGED attempted
     ELSE /\ attempted' = TRUE /\ UNCHANGED gate
          /\ \/ UNCHANGED spec
             \/ ~frame /\ spec' = [NoSpec EXCEPT !.at = "thinking", !.text = c]
  /\ UNCHANGED <<frame, flagVars, commitVars, publishVars, term, cancel>>

(* The speculation's goroutine; a respondent's reply prepares its          *)
(* authority, unless its synthesis had already started from a sealed reply. *)
SpecDecides(d) ==
  /\ spec.at = "thinking"
  /\ \/ spec' = [spec EXCEPT !.at = "failed"] /\ UNCHANGED gate
     \/ /\ ~ctxOver \/ ~d.speaks
        /\ \E a \in {"none"} \union (IF d.respondent /\ d.speaks THEN {"prepared"} ELSE {}) :
             spec' = [spec EXCEPT !.at = "decided", !.decision = d, !.authority = a]
        /\ gate' = IF d.speaks THEN [gate EXCEPT !["spec"] = "sealed"] ELSE gate
  /\ UNCHANGED <<captionVars, frame, flagVars, commitVars, publishVars, term, cancel>>
-----------------------------------------------------------------------------
(* Commit.                                                                 *)

MayCommit == ~ctxOver /\ frame /\ ~canceled /\ ~committed /\ finalObserved

CommitStarts ==
  /\ pc = "idle" /\ MayCommit /\ committed' = TRUE /\ pc' = "match"
  /\ UNCHANGED <<captionVars, spec, gate, frame, canceled, finished, audioAuthorized, ctxOver,
                 voice, decision, checkpoint, authority, publishVars, term, cancel>>

(* A call that comes too early or too late changes nothing.                *)
CommitRefused ==
  /\ pc = "idle" /\ finalObserved /\ ~MayCommit /\ pc' = "returned"
  /\ UNCHANGED <<captionVars, spec, gate, frame, flagVars, voice, decision, checkpoint,
                 authority, publishVars, term, cancel>>

Matches == spec.at # "none" /\ spec.text = caption

Adopt ==
  /\ pc = "match" /\ Matches /\ spec.at = "decided"
  /\ decision' = spec.decision /\ authority' = spec.authority /\ pc' = "authorize"
  /\ voice' = IF spec.decision.speaks THEN "spec" ELSE None
  /\ UNCHANGED <<captionVars, spec, gate, frame, flagVars, checkpoint, publishVars, term, cancel>>

DropSpec ==
  /\ pc = "match" /\ (~Matches \/ spec.at = "failed" \/ ctxOver)
  /\ Kill("spec") /\ pc' = "infer" /\ spec' = NoSpec
  /\ UNCHANGED <<captionVars, frame, flagVars, voice, decision, checkpoint, authority,
                 publishVars, term, cancel>>

(* The agent's run over the final caption; only an ordinary reply equal to *)
(* the sealed one keeps the synthesis that was started for it.             *)
Infer(d) ==
  /\ pc = "infer" /\ ~ctxOver /\ decision' = d /\ pc' = "authorize"
  /\ \/ voice' = (IF d.speaks THEN "direct" ELSE None) /\ UNCHANGED gate
     \/ /\ d.speaks /\ ~d.respondent /\ voice' = "candidate"
        /\ gate' = [gate EXCEPT !["candidate"] = "sealed"]
  /\ UNCHANGED <<captionVars, spec, frame, flagVars, checkpoint, authority, publishVars, term,
                 cancel>>

InferFails ==
  /\ pc = "infer" /\ pc' = "finish"
  /\ UNCHANGED <<captionVars, spec, gate, frame, flagVars, voice, decision, checkpoint,
                 authority, publishVars, term, cancel>>

(* Mutant: an adopted decision is taken to have its checkpoint already.    *)
AcceptUnlessPrepared ==
  /\ pc = "authorize" /\ ~ctxOver
  /\ checkpoint' = (decision.respondent /\ authority = "none")
  /\ pc' = IF decision.respondent /\ decision.speaks THEN "commitInitiative" ELSE "grant"
  /\ authority' = IF pc' = "commitInitiative" THEN "prepared" ELSE authority
  /\ UNCHANGED <<captionVars, spec, gate, frame, flagVars, voice, decision, publishVars, term,
                 cancel>>

(* authorizeOutput, from here to Grant: a checkpoint the transport         *)
(* accepted, then the one use of the authority, then the flag.             *)
AcceptCheckpoint ==
  /\ pc = "authorize" /\ ~ctxOver
  /\ checkpoint' = decision.respondent
  /\ pc' = IF decision.respondent /\ decision.speaks THEN "commitInitiative" ELSE "grant"
  /\ authority' = IF pc' = "commitInitiative" THEN "prepared" ELSE authority
  /\ UNCHANGED <<captionVars, spec, gate, frame, flagVars, voice, decision, publishVars, term,
                 cancel>>

CommitInitiative ==
  /\ pc = "commitInitiative" /\ ~ctxOver /\ authority' = "committed" /\ pc' = "grant"
  /\ UNCHANGED <<captionVars, spec, gate, frame, flagVars, voice, decision, checkpoint,
                 publishVars, term, cancel>>

MayGrant == committed /\ ~finished /\ ~canceled /\ ~ctxOver

After == IF voice = None THEN "finish" ELSE IF voice = "direct" THEN "speak" ELSE "release"

Grant ==
  /\ pc = "grant" /\ MayGrant
  /\ audioAuthorized' = TRUE /\ pc' = After
  /\ UNCHANGED <<captionVars, spec, gate, frame, committed, canceled, finished, ctxOver, voice,
                 decision, checkpoint, authority, publishVars, term, cancel>>

(* The transport refuses the checkpoint, the lease is over, the handoff    *)
(* was cancelled: Commit returns an error and its voice is discarded.      *)
Unauthorized ==
  /\ pc \in {"authorize", "commitInitiative", "grant"} /\ pc' = "finish"
  /\ gate' = [v \in Voices |-> IF gate[v] = "absent" THEN "absent" ELSE "dead"]
  /\ UNCHANGED <<captionVars, spec, frame, flagVars, voice, decision, checkpoint, authority,
                 publishVars, term, cancel>>

(* Only TTS is retried: the adopted one if nothing crossed the boundary,   *)
(* the candidate only if its release was not even attempted.               *)
Retriable == IF voice = "spec" THEN ~outputDelivered
                               ELSE gate[voice] = "sealed" /\ ~ctxOver

(* The prepared synthesis is at its commit boundary.                       *)
Release ==
  /\ pc = "release" /\ gate[voice] = "sealed" /\ ~ctxOver
  /\ gate' = [gate EXCEPT ![voice] = "open"]
  /\ UNCHANGED <<captionVars, spec, frame, flagVars, commitVars, publishVars, term, cancel>>

(* The provider failed, so its goroutine is done, or the context ended.    *)
ReleaseFails ==
  /\ pc = "release" /\ (deliver[voice] = "out" \/ ctxOver) /\ Kill(voice)
  /\ IF Retriable THEN pc' = "speak" /\ voice' = "direct"
                  ELSE pc' = "finish" /\ UNCHANGED voice
  /\ UNCHANGED <<captionVars, spec, frame, flagVars, decision, checkpoint, authority,
                 publishVars, term, cancel>>

ReleaseDone ==
  /\ pc = "release" /\ deliver[voice] = "out" /\ voice \in heard /\ pc' = "finish"
  /\ UNCHANGED <<captionVars, spec, gate, frame, flagVars, voice, decision, checkpoint,
                 authority, publishVars, term, cancel>>

StartDirect ==
  /\ pc = "speak" /\ gate["direct"] = "absent" /\ ~ctxOver
  /\ gate' = [gate EXCEPT !["direct"] = "open"]
  /\ UNCHANGED <<captionVars, spec, frame, flagVars, commitVars, publishVars, term, cancel>>

(* streamCommittedSynthesis ends, well or not.                             *)
SpeakEnds ==
  /\ pc = "speak" /\ (deliver["direct"] = "out" \/ ctxOver) /\ pc' = "finish"
  /\ UNCHANGED <<captionVars, spec, gate, frame, flagVars, voice, decision, checkpoint,
                 authority, publishVars, term, cancel>>

(* finishCommitted, deferred: the end of every Commit that started.        *)
FinishMark ==
  /\ pc = "finish" /\ term = None /\ term' = "commit"
  /\ finished' = TRUE /\ audioAuthorized' = FALSE /\ ctxOver' = TRUE /\ pc' = "drain"
  /\ gate' = [v \in Voices |-> IF gate[v] = "absent" THEN "absent" ELSE "dead"]
  /\ UNCHANGED <<captionVars, spec, frame, committed, canceled, voice, decision, checkpoint,
                 authority, publishVars, cancel>>

(* Mutant: the flags are thought to be enough.                             *)
DrainedAtOnce == TRUE

(* awaitPublicationDrain.                                                  *)
Drained == pub = None

FinishDrain ==
  /\ pc = "drain" /\ Drained /\ term' = None /\ pc' = "returned"
  /\ UNCHANGED <<captionVars, spec, gate, frame, flagVars, voice, decision, checkpoint,
                 authority, publishVars, cancel>>
-----------------------------------------------------------------------------
(* deliverAudio, by the goroutine that writes a released voice.            *)

DeliverStart(v) ==
  /\ deliver[v] = "out" /\ gate[v] = "open" /\ ~ctxOver
  /\ deliver' = [deliver EXCEPT ![v] = "wait"]
  /\ UNCHANGED <<captionVars, spec, gate, frame, flagVars, commitVars, outputDelivered, pub,
                 heard, term, cancel>>

DeliverEnter(v) ==
  /\ deliver[v] = "wait" /\ pub = None /\ pub' = v
  /\ deliver' = [deliver EXCEPT ![v] = "in"]
  /\ UNCHANGED <<captionVars, spec, gate, frame, flagVars, commitVars, outputDelivered, heard,
                 term, cancel>>

MayPublish == committed /\ ~canceled /\ ~finished /\ audioAuthorized /\ ~ctxOver

(* Mutant: the state is read under the lock of the terminal operations.    *)
DeliverCheckTerminal(v) ==
  /\ deliver[v] = "in" /\ term = None
  /\ IF MayPublish
     THEN deliver' = [deliver EXCEPT ![v] = "call"] /\ UNCHANGED <<pub, gate>>
     ELSE deliver' = [deliver EXCEPT ![v] = "out"] /\ pub' = None /\ Kill(v)
  /\ UNCHANGED <<captionVars, spec, frame, flagVars, commitVars, outputDelivered, heard, term,
                 cancel>>

DeliverCheck(v) ==
  /\ deliver[v] = "in"
  /\ IF MayPublish
     THEN deliver' = [deliver EXCEPT ![v] = "call"] /\ UNCHANGED <<pub, gate>>
     ELSE deliver' = [deliver EXCEPT ![v] = "out"] /\ pub' = None /\ Kill(v)
  /\ UNCHANGED <<captionVars, spec, frame, flagVars, commitVars, outputDelivered, heard, term,
                 cancel>>

(* onAudio returns: nil, and the chunk is the transport's, or an error.    *)
DeliverReturns(v) ==
  /\ deliver[v] = "call" /\ deliver' = [deliver EXCEPT ![v] = "out"] /\ pub' = None
  /\ \/ outputDelivered' = TRUE /\ heard' = heard \union {v} /\ UNCHANGED gate
     \/ Kill(v) /\ UNCHANGED <<outputDelivered, heard>>
  /\ UNCHANGED <<captionVars, spec, frame, flagVars, commitVars, term, cancel>>
-----------------------------------------------------------------------------
(* Cancel, and the environment.                                            *)

CancelMark(c) ==
  /\ cancel[c] = "idle" /\ term = None /\ term' = c
  /\ IF canceled \/ finished
     THEN cancel' = [cancel EXCEPT ![c] = "drain"] /\ UNCHANGED <<canceled, audioAuthorized>>
     ELSE /\ cancel' = [cancel EXCEPT ![c] = "revoke"]
          /\ canceled' = TRUE /\ audioAuthorized' = FALSE
  /\ UNCHANGED <<captionVars, spec, gate, frame, committed, finished, ctxOver, commitVars,
                 publishVars>>

(* Outside mu: the context, and the speculation unless Commit took it.     *)
CancelRevoke(c) ==
  /\ cancel[c] = "revoke" /\ cancel' = [cancel EXCEPT ![c] = "drain"] /\ ctxOver' = TRUE
  /\ IF committed THEN UNCHANGED <<spec, gate>> ELSE spec' = NoSpec /\ Kill("spec")
  /\ UNCHANGED <<captionVars, frame, committed, canceled, finished, audioAuthorized,
                 commitVars, publishVars, term>>

CancelDrain(c) ==
  /\ cancel[c] = "drain" /\ Drained
  /\ cancel' = [cancel EXCEPT ![c] = "returned"] /\ term' = None
  /\ UNCHANGED <<captionVars, spec, gate, frame, flagVars, commitVars, publishVars>>

CommitFrame ==
  /\ ~frame /\ frame' = TRUE
  /\ UNCHANGED <<captionVars, spec, gate, flagVars, commitVars, publishVars, term, cancel>>

RequestEnds ==
  /\ ~ctxOver /\ ctxOver' = TRUE
  /\ UNCHANGED <<captionVars, spec, gate, frame, committed, canceled, finished,
                 audioAuthorized, commitVars, publishVars, term, cancel>>

CommitStep ==
  \/ CommitStarts \/ CommitRefused \/ Adopt \/ DropSpec \/ InferFails
  \/ \E d \in Decisions : Infer(d)
  \/ AcceptCheckpoint \/ CommitInitiative \/ Grant \/ Unauthorized
  \/ Release \/ ReleaseFails \/ ReleaseDone \/ StartDirect \/ SpeakEnds \/ FinishMark \/ FinishDrain

DeliverStep(v) ==
  DeliverStart(v) \/ DeliverEnter(v) \/ DeliverCheck(v) \/ DeliverReturns(v)

Next ==
  \/ \E c \in Texts, final \in BOOLEAN : Observe(c, final)
  \/ \E d \in Decisions : SpecDecides(d)
  \/ CommitStep
  \/ \E v \in Voices : DeliverStep(v)
  \/ \E c \in Cancellers : CancelMark(c) \/ CancelRevoke(c) \/ CancelDrain(c)
  \/ CommitFrame \/ RequestEnds

Spec == Init /\ [][Next]_vars

(* A Cancel that holds terminalMu goes on; the transport's callback        *)
(* returns, since its own write has a deadline.                            *)
Fairness ==
  /\ \A v \in Voices : WF_vars(DeliverEnter(v)) /\ WF_vars(DeliverCheck(v)) /\ WF_vars(DeliverReturns(v))
  /\ \A c \in Cancellers :
       WF_vars(CancelRevoke(c)) /\ WF_vars(CancelDrain(c))

FairSpec == Spec /\ Fairness
-----------------------------------------------------------------------------
Ended == (pc = "returned" /\ finished) \/ \E c \in Cancellers : cancel[c] = "returned"

(* When Cancel, or a Commit that started, has returned, no PCM callback is *)
(* running and none starts any more: what it published is complete.        *)
SilentAfterReturn == Ended => \A v \in Voices : deliver[v] # "call"

(* What is heard was decided for the exact final caption, after the        *)
(* browser's commit frame: the speculation's voice only if no caption      *)
(* revised what it was started for.                                        *)
HeardForFinalCaption ==
  heard # {} => committed /\ finalObserved /\ frame
                /\ ("spec" \in heard => spec.text = caption)

(* Respondent speech starts after the transport accepted its checkpoint    *)
(* and the single use of the authority; a retry of the synthesis included. *)
AuthorizedBeforeSpeech ==
  \A v \in Voices : deliver[v] = "call" /\ decision.respondent =>
    checkpoint /\ authority = "committed"

(* A PCM callback runs only after the checkpoint and before the handoff    *)
(* has returned.                                                           *)
CheckpointFirst == AuthorizedBeforeSpeech /\ SilentAfterReturn

(* One reply is heard: a synthesis is replaced only while nothing of it    *)
(* crossed the boundary.                                                   *)
OneVoice == \A v, w \in heard : v = w

(* Cancel returns, whoever else holds terminalMu or publicationMu.         *)
CancelReturns == \A c \in Cancellers : cancel[c] = "revoke" ~> cancel[c] = "returned"
=============================================================================
