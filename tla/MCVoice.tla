------------------------------- MODULE MCVoice -------------------------------
(* The voice paths of a turn, the cache its speech comes from, and the end *)
(* of the long-term memory behind it, for TLC, side by side: a behaviour   *)
(* chooses one part and leaves the others in their initial states.  The    *)
(* parts: the speculative audio of a reply, the handoff of a caption, the  *)
(* turn of a native provider session, the cache of synthesized speech, and *)
(* the long-term memory (what it remembers is checked in MCStores).        *)
EXTENDS SpeculativeAudio

CONSTANTS Texts, Cancellers, None,          \* of CaptionHandoff
          Workers, Senders, QueueCapacity, Capabilities, MaxGeneration, \* of LongMemory
          one, two, cue1, cue2, reply1, reply2,
          Callers, Cues, Replies, Long, MaxEntries, MaxBytes, MaxEntry, Longest \* of PcmCache

VARIABLES part,
  ch_caption, ch_finalObserved, ch_attempted, ch_spec, ch_gate, ch_frame, ch_committed,
  ch_canceled, ch_finished, ch_audioAuthorized, ch_ctxOver, ch_pc, ch_voice, ch_decision,
  ch_checkpoint, ch_authority, ch_outputDelivered, ch_term, ch_pub, ch_deliver, ch_cancel,
  ch_heard,
  nt_turn, nt_pc, nt_result, nt_input, nt_sender, nt_session, nt_out, nt_captionDone, nt_caption,
  nt_tainted, nt_asked, nt_gate, nt_handoff, nt_authorized, nt_checkpoint, nt_heard, nt_captioned,
  nt_ready, nt_ctxOver,
  lm_consent, lm_record, lm_issued, lm_uses, lm_sessions, lm_sender, lm_jobs, lm_closed,
  lm_cancelled, lm_worker,
  pc_phase, pc_protected, pc_entries, pc_order, pc_totalBytes, pc_circuit, pc_asked, pc_warmed, pc_call

Handoff == INSTANCE CaptionHandoff WITH
    caption <- ch_caption, finalObserved <- ch_finalObserved, attempted <- ch_attempted,
    spec <- ch_spec, gate <- ch_gate, frame <- ch_frame, committed <- ch_committed,
    canceled <- ch_canceled, finished <- ch_finished, audioAuthorized <- ch_audioAuthorized,
    ctxOver <- ch_ctxOver, pc <- ch_pc, voice <- ch_voice, decision <- ch_decision,
    checkpoint <- ch_checkpoint, authority <- ch_authority,
    outputDelivered <- ch_outputDelivered, term <- ch_term, pub <- ch_pub,
    deliver <- ch_deliver, cancel <- ch_cancel, heard <- ch_heard
ch_vars == <<ch_caption, ch_finalObserved, ch_attempted, ch_spec, ch_gate, ch_frame,
            ch_committed, ch_canceled, ch_finished, ch_audioAuthorized, ch_ctxOver,
            ch_pc, ch_voice, ch_decision, ch_checkpoint, ch_authority,
            ch_outputDelivered, ch_term, ch_pub, ch_deliver, ch_cancel, ch_heard>>

Native == INSTANCE NativeTurn WITH
    turn <- nt_turn, pc <- nt_pc, result <- nt_result, input <- nt_input, sender <- nt_sender,
    session <- nt_session, out <- nt_out, captionDone <- nt_captionDone, caption <- nt_caption,
    tainted <- nt_tainted, asked <- nt_asked, gate <- nt_gate, handoff <- nt_handoff,
    authorized <- nt_authorized, checkpoint <- nt_checkpoint, heard <- nt_heard,
    captioned <- nt_captioned, ready <- nt_ready, ctxOver <- nt_ctxOver
nt_vars == <<nt_turn, nt_pc, nt_result, nt_input, nt_sender, nt_session, nt_out,
            nt_captionDone, nt_caption, nt_tainted, nt_asked, nt_gate, nt_handoff,
            nt_authorized, nt_checkpoint, nt_heard, nt_captioned, nt_ready, nt_ctxOver>>

Memory == INSTANCE LongMemory WITH
    Capacity <- QueueCapacity, consent <- lm_consent, record <- lm_record, issued <- lm_issued,
    uses <- lm_uses, sessions <- lm_sessions, sender <- lm_sender, jobs <- lm_jobs,
    closed <- lm_closed, cancelled <- lm_cancelled, worker <- lm_worker
lm_vars == <<lm_consent, lm_record, lm_issued, lm_uses, lm_sessions, lm_sender, lm_jobs,
            lm_closed, lm_cancelled, lm_worker>>

Cache == INSTANCE PcmCache WITH
    phase <- pc_phase, protected <- pc_protected, entries <- pc_entries, order <- pc_order,
    totalBytes <- pc_totalBytes, circuit <- pc_circuit, asked <- pc_asked, warmed <- pc_warmed,
    call <- pc_call
pc_vars == <<pc_phase, pc_protected, pc_entries, pc_order, pc_totalBytes, pc_circuit, pc_asked,
            pc_warmed, pc_call>>

ASSUME VoiceAssumption ==
  SpeculativeAudioAssumption /\ Handoff!HandoffAssumption
  /\ Memory!LongMemoryAssumption /\ Cache!PcmCacheAssumption

MCInit ==
  /\ part \in {"speculation", "handoff", "native", "memory", "cache"}
  /\ Init /\ Handoff!Init /\ Native!Init /\ Memory!Init /\ Cache!Init
  /\ part # "speculation" => ~prepared
  /\ part # "native" => nt_turn = [staged |-> FALSE, control |-> FALSE, bridge |-> FALSE]

MCNext ==
  \/ part = "speculation" /\ Next /\ UNCHANGED <<part, ch_vars, nt_vars, lm_vars, pc_vars>>
  \/ part = "handoff" /\ Handoff!Next /\ UNCHANGED <<part, vars, nt_vars, lm_vars, pc_vars>>
  \/ part = "native" /\ Native!Next /\ UNCHANGED <<part, vars, ch_vars, lm_vars, pc_vars>>
  \/ part = "memory" /\ Memory!Next /\ UNCHANGED <<part, vars, ch_vars, nt_vars, pc_vars>>
  \/ part = "cache" /\ Cache!Next /\ UNCHANGED <<part, vars, ch_vars, nt_vars, lm_vars>>

MCVars == <<part, vars, ch_vars, nt_vars, lm_vars, pc_vars>>

\* The fairness of the part that was chosen: the modules' own.
MCFairness ==
  /\ WF_vars(part = "speculation" /\ Write)
  /\ WF_vars(part = "speculation" /\ (Fail \/ CloseDone))
  /\ WF_vars(part = "speculation" /\ Turn)
  /\ WF_vars(part = "speculation" /\ WatchContext)
  /\ WF_vars(part = "speculation" /\ ctxDone /\ (StreamEnds \/ StreamFails))
  /\ WF_vars(part = "speculation" /\ (Adopt \/ DropSpeculation))
  /\ WF_vars(part = "speculation" /\ EndTurnContext)
  /\ WF_vars(part = "speculation" /\ cancelDue /\ CancelSynthesis)
  /\ \A v \in Handoff!Voices :
       /\ WF_ch_vars(part = "handoff" /\ Handoff!DeliverEnter(v))
       /\ WF_ch_vars(part = "handoff" /\ Handoff!DeliverCheck(v))
       /\ WF_ch_vars(part = "handoff" /\ Handoff!DeliverReturns(v))
  /\ \A c \in Cancellers :
       /\ WF_ch_vars(part = "handoff" /\ Handoff!CancelRevoke(c))
       /\ WF_ch_vars(part = "handoff" /\ Handoff!CancelDrain(c))
  /\ WF_nt_vars(part = "native" /\ Native!PrepareState)
  /\ WF_nt_vars(part = "native" /\ Native!Drain)
  /\ WF_nt_vars(part = "native" /\ Native!Acquire)
  /\ WF_nt_vars(part = "native" /\ Native!StartActivity)
  /\ WF_nt_vars(part = "native" /\ Native!ReceiveFails)
  /\ WF_nt_vars(part = "native" /\ Native!AwaitFails)
  /\ WF_nt_vars(part = "native" /\ Native!Reject)
  /\ WF_nt_vars(part = "native" /\ Native!Donate)
  /\ WF_nt_vars(part = "native" /\ Native!Approve)
  /\ WF_nt_vars(part = "native" /\ Native!HandoffReturns)
  /\ WF_nt_vars(part = "native" /\ Native!Finish)
  /\ WF_lm_vars(part = "memory" /\ Memory!CancelWorkers)
  /\ \A w \in Workers :
       /\ WF_lm_vars(part = "memory" /\ Memory!Take(w))
       /\ WF_lm_vars(part = "memory" /\ Memory!Process(w))
       /\ WF_lm_vars(part = "memory" /\ Memory!Stop(w))

MCSpec == MCInit /\ [][MCNext]_MCVars /\ MCFairness
-----------------------------------------------------------------------------
(* Checkpoint before speech, and silence once the handoff has returned.    *)
CheckpointFirst == Handoff!CheckpointFirst
(* The turn that adopts or drops a speculation ends, and Cancel returns,   *)
(* whatever the callbacks do.                                              *)
CallsReturn ==
  /\ part = "speculation" => TurnEnds
  /\ part = "handoff" => Handoff!CancelReturns

(* The native turn falls back only to what can be replayed, and a refusal  *)
(* leaves no checkpoint behind.                                            *)
FallbackIsReplayable == Native!FallbackIsReplayable
(* The native turn refines TurnVoice.                                      *)
RefinesTurnVoice == Native!RefinesTurnVoice

(* Closing the long-term memory ends.                                      *)
CloseEnds == Memory!CloseEnds

(* The cache keeps its cues, its accounts and only whole renderings, one   *)
(* call at a time probes the direct route, and a refused put loses nothing.*)
CacheHolds == [](part = "cache" => Cache!CacheSound) /\ [][Cache!LostOnlyToStored]_pc_vars
=============================================================================
