-------------------------------- MODULE MCLive --------------------------------
(* The two sides of a live turn for TLC, side by side: a behaviour chooses *)
(* one part and leaves the other in its initial state.  The parts: the     *)
(* turn of the pipeline and the handler of the connection.                 *)
EXTENDS Naturals, Sequences

CONSTANTS Words, Replies, Silence, Prompt, MaxFragments, TransportDeadline,  \* of LiveTurn
          MaxFrames, MaxPcm, None                                            \* of VoiceLive

VARIABLES part,
  lt_recv, lt_finals, lt_interim, lt_endpoint, lt_notified, lt_tracked, lt_attempted, lt_sender,
  lt_audio, lt_stopped, lt_budget, lt_ctxDone, lt_late, lt_spec, lt_synth, lt_pc, lt_voice,
  lt_reply, lt_heard,
  vl_mode, vl_h, vl_ctxOver, vl_captureOver, vl_reader, vl_item, vl_frames, vl_inputClosed,
  vl_commitSignal, vl_gate, vl_gateMu, vl_committed, vl_pcm, vl_held, vl_strictClosed, vl_pipe,
  vl_inputReady, vl_endpoint, vl_audio, vl_coach, vl_outcome, vl_last, vl_sent, vl_lease

Turn == INSTANCE LiveTurn WITH
    recv <- lt_recv, finals <- lt_finals, interim <- lt_interim, endpoint <- lt_endpoint,
    notified <- lt_notified, tracked <- lt_tracked, attempted <- lt_attempted,
    sender <- lt_sender, audio <- lt_audio, stopped <- lt_stopped, budget <- lt_budget,
    ctxDone <- lt_ctxDone, late <- lt_late, spec <- lt_spec, synth <- lt_synth, pc <- lt_pc,
    voice <- lt_voice, reply <- lt_reply, heard <- lt_heard
lt_vars == <<lt_recv, lt_finals, lt_interim, lt_endpoint, lt_notified, lt_tracked,
            lt_attempted, lt_sender, lt_audio, lt_stopped, lt_budget, lt_ctxDone,
            lt_late, lt_spec, lt_synth, lt_pc, lt_voice, lt_reply, lt_heard>>

Handler == INSTANCE VoiceLive WITH
    mode <- vl_mode, h <- vl_h, ctxOver <- vl_ctxOver, captureOver <- vl_captureOver,
    reader <- vl_reader, item <- vl_item, frames <- vl_frames, inputClosed <- vl_inputClosed,
    commitSignal <- vl_commitSignal, gate <- vl_gate, gateMu <- vl_gateMu,
    committed <- vl_committed, pcm <- vl_pcm, held <- vl_held, strictClosed <- vl_strictClosed,
    pipe <- vl_pipe, inputReady <- vl_inputReady, endpoint <- vl_endpoint, audio <- vl_audio,
    coach <- vl_coach, outcome <- vl_outcome, last <- vl_last, sent <- vl_sent,
    lease <- vl_lease
vl_vars == <<vl_mode, vl_h, vl_ctxOver, vl_captureOver, vl_reader, vl_item, vl_frames,
            vl_inputClosed, vl_commitSignal, vl_gate, vl_gateMu, vl_committed, vl_pcm,
            vl_held, vl_strictClosed, vl_pipe, vl_inputReady, vl_endpoint, vl_audio,
            vl_coach, vl_outcome, vl_last, vl_sent, vl_lease>>

ASSUME LiveTurnsAssumption == Turn!LiveTurnAssumption /\ Handler!LiveAssumption

Init ==
  /\ part \in {"turn", "handler"} /\ Turn!Init /\ Handler!Init
  /\ part # "handler" => vl_mode = CHOOSE m \in Handler!Modes : TRUE

Next ==
  \/ part = "turn" /\ Turn!Next /\ UNCHANGED <<part, vl_vars>>
  \/ part = "handler" /\ Handler!Next /\ UNCHANGED <<part, lt_vars>>

vars == <<part, lt_vars, vl_vars>>

\* The fairness of the part that was chosen: the modules' own.
Fairness ==
  /\ WF_lt_vars(part = "turn" /\ Turn!TurnStep)
  /\ WF_lt_vars(part = "turn" /\ Turn!ReserveFires)
  /\ WF_lt_vars(part = "turn" /\ (lt_stopped \/ Turn!Committed) /\ Turn!Sender)
  /\ WF_lt_vars(part = "turn" /\ lt_stopped /\ Turn!ReceiveFails)
  /\ WF_lt_vars(part = "turn" /\ Turn!CtxOver /\ Turn!ProviderReturns)
  /\ WF_vl_vars(part = "handler" /\ Handler!HandlerStep)
  /\ WF_vl_vars(part = "handler" /\ Handler!LiveTimeout)
  /\ WF_vl_vars(part = "handler" /\ Handler!AudioWrite)
  /\ WF_vl_vars(part = "handler" /\ Handler!CoachWrite)
  /\ WF_vl_vars(part = "handler" /\ Handler!ReaderStops)

Spec == Init /\ [][Next]_vars /\ Fairness
-----------------------------------------------------------------------------
(* The person hears one synthesis of a turn, whatever was speculated.      *)
OneVoice == Turn!OneVoice
(* What is heard was decided for what was said, and nothing is heard of a  *)
(* reply that was taken back.                                              *)
HeardIsDecided == Turn!HeardIsDecided
(* A turn whose time is over returns.                                      *)
TurnReturns == Turn!TurnReturns

(* The live handler writes no speech before its input is committed, and a  *)
(* final frame that agrees with its checkpoint.                            *)
SpeechIsReleased == Handler!SpeechIsReleased
(* The live handler refines LiveWire.                                      *)
RefinesLiveWire == Handler!RefinesLiveWire
(* The live handler returns and gives its lease back.                      *)
HandlerEnds == part = "handler" => Handler!HandlerEnds
=============================================================================
