------------------------ MODULE NativeSessionProofs ------------------------
(***************************************************************************)
(* The invariants of NativeSession for any number of callers, events and   *)
(* frames.  IInv is inductive: TokenHeld and WriterOwns say which caller   *)
(* may act, SendsGuarded carries the checks made under the token across    *)
(* the provider write, and CommitRests follows from them.                  *)
(***************************************************************************)
EXTENDS NativeSession, FiniteSetTheorems, TLAPS

USE DEF InputOps

(* The byte count of a set of queued events is a number.                   *)
LEMMA BytesType ==
  ASSUME NEW S, S \subseteq 1..Len(stream), stream \in Seq(Kinds)
  PROVE  Bytes(S) \in Int
<1> DEFINE T == {n \in S : Sized(n)}
<1>1. Len(stream) \in Nat  OBVIOUS
<1>2. IsFiniteSet(1..Len(stream))  BY <1>1, FS_Interval
<1>3. IsFiniteSet(T)  BY <1>2, FS_Subset
<1>4. Cardinality(T) \in Nat  BY <1>3, FS_CardinalityType
<1> QED  BY <1>4 DEF Bytes

(* What one provider message yields is a sequence of event kinds.          *)
LEMMA MessageKinds ==
  ASSUME NEW m \in Messages
  PROVE  m \in Seq(Kinds)
<1>1. PICK c \in {<< >>, <<"caption">>, <<"finalCaption">>},
           r \in {<< >>, <<"interrupted">>, <<"output">>, <<"turnComplete">>,
                  <<"output", "turnComplete">>} : m = c \o r
  BY DEF Messages
<1>a. {"caption", "finalCaption", "interrupted", "output", "turnComplete"} \subseteq Kinds
  BY DEF Kinds, GatedKinds
<1>b. << >> \in Seq(Kinds)  OBVIOUS
<1>c. \A k \in Kinds : <<k>> \in Seq(Kinds)  OBVIOUS
<1>d. \A k, l \in Kinds : <<k, l>> \in Seq(Kinds)  OBVIOUS
<1>2. c \in Seq(Kinds)
  <2>1. CASE c = << >>  BY <2>1, <1>b
  <2>2. CASE c # << >>  BY <2>2, <1>a, <1>c
  <2> QED  BY <2>1, <2>2
<1>3. r \in Seq(Kinds)
  <2>1. CASE r = << >>  BY <2>1, <1>b
  <2>2. CASE r = <<"output", "turnComplete">>  BY <2>2, <1>a, <1>d
  <2>3. CASE r \in {<<"interrupted">>, <<"output">>, <<"turnComplete">>}  BY <2>3, <1>a, <1>c
  <2> QED  BY <2>1, <2>2, <2>3
<1> QED  BY <1>1, <1>2, <1>3

(* A session that was just opened satisfies the invariant.                 *)
LEMMA InitIInv == Init => IInv
<1> SUFFICES ASSUME Init PROVE IInv  OBVIOUS
<1> USE DEF Init, Idle, WriterIdle
<1>1. TypeOK
  <2>1. QueueTypes
    <3>1. Len(stream) = 0 /\ stream \in Seq(Kinds)  OBVIOUS
    <3>2. taken \in Seq(1..Len(stream))  OBVIOUS
    <3> QED  BY <3>1, <3>2, NativeSessionAssumption DEF QueueTypes
  <2>2. FlagTypes  BY DEF FlagTypes
  <2>3. SendTypes
    <3>1. op \in [Callers -> Ops]  BY DEF Ops
    <3>2. writer \in Requests  BY DEF Requests
    <3>3. wire \in Seq(InputOps)  OBVIOUS
    <3> QED  BY <3>1, <3>2, <3>3, NativeSessionAssumption DEF SendTypes
  <2> QED  BY <2>1, <2>2, <2>3 DEF TypeOK
<1>2. TokenHeld /\ SendsGuarded  BY DEF TokenHeld, SendsGuarded, InSend
<1>3. WriterOwns /\ CommitRests  BY DEF WriterOwns, CommitRests
<1>4. QueuesSettled  BY DEF QueuesSettled, HeldUntilCommit, TerminalScrubs, NoLostWakeup
<1> QED  BY <1>1, <1>2, <1>3, <1>4 DEF IInv

(* The flags of the gate, the input and the session's life stay Boolean.   *)
LEMMA FlagTypesStep == FlagTypes /\ [Next]_vars => FlagTypes'
<1> SUFFICES ASSUME FlagTypes, [Next]_vars PROVE FlagTypes'  OBVIOUS
<1>1. CASE \E c \in Callers, k \in InputOps \union {"commit"} : Call(c, k)
  BY <1>1 DEF FlagTypes, Call, vars, gateVars, inputVars, lifeVars
<1>2. CASE \E c \in Callers : AcquireToken(c)
  BY <1>2 DEF FlagTypes, AcquireToken, vars, gateVars, inputVars, lifeVars
<1>3. CASE \E c \in Callers : HandOver(c)
  BY <1>3 DEF FlagTypes, HandOver, vars, gateVars, inputVars, lifeVars
<1>4. CASE \E c \in Callers : GiveUpToken(c)
  BY <1>4 DEF FlagTypes, GiveUpToken, vars, gateVars, inputVars, lifeVars
<1>5. CASE \E c \in Callers : RefuseInput(c)
  BY <1>5 DEF FlagTypes, RefuseInput, vars, gateVars, inputVars, lifeVars, Return
<1>6. CASE \E c \in Callers : InputLimit(c)
  BY <1>6 DEF FlagTypes, InputLimit, vars, gateVars, inputVars, lifeVars, Terminated, Return
<1>7. CASE \E c \in Callers : BeginInput(c)
  <2> PICK c \in Callers : BeginInput(c)  BY <1>7
  <2>1. CASE op[c].kind = "start"
    BY <2>1 DEF FlagTypes, BeginInput, inputVars, lifeVars, OutputDropped
  <2>2. CASE op[c].kind # "start"
    BY <2>2 DEF FlagTypes, BeginInput, gateVars, inputVars, lifeVars
  <2> QED  BY <2>1, <2>2
<1>8. CASE \E c \in Callers : ExpireSend(c)
  BY <1>8 DEF FlagTypes, ExpireSend, vars, gateVars, inputVars, lifeVars, Return, InSend
<1>9. CASE \E c \in Callers : SendSucceeds(c)
  BY <1>9 DEF FlagTypes, SendSucceeds, vars, gateVars, inputVars, lifeVars, InputDone, Return, Idle
<1>10. CASE \E c \in Callers : SendSeesSessionEnd(c)
  BY ZenonT(30), <1>10 DEF FlagTypes, SendSeesSessionEnd, vars, gateVars, inputVars, lifeVars, InputDone, Return
<1>11. CASE \E c \in Callers : CommitOutput(c)
  BY <1>11 DEF FlagTypes, CommitOutput, vars, gateVars, inputVars, lifeVars, Return
<1>12. CASE WriterStops
  BY <1>12 DEF FlagTypes, WriterStops, vars, gateVars, inputVars, lifeVars
<1>13. CASE WriterSkips
  BY <1>13 DEF FlagTypes, WriterSkips, vars, gateVars, inputVars, lifeVars
<1>14. CASE WriterSends
  BY <1>14 DEF FlagTypes, WriterSends, vars, gateVars, inputVars, lifeVars
<1>15. CASE WriterSent
  BY <1>15 DEF FlagTypes, WriterSent, vars, gateVars, inputVars, lifeVars
<1>16. CASE WriterFails
  BY <1>16 DEF FlagTypes, WriterFails, vars, gateVars, inputVars, lifeVars, Terminated
<1>17. CASE DiscardOutput
  BY <1>17 DEF FlagTypes, DiscardOutput, vars, gateVars, inputVars, lifeVars, OutputDropped
<1>18. CASE Park
  BY <1>18 DEF FlagTypes, Park, vars, gateVars, inputVars, lifeVars
<1>19. CASE LeaveReceive
  BY <1>19 DEF FlagTypes, LeaveReceive, vars, gateVars, inputVars, lifeVars
<1>20. CASE SessionExpires
  BY <1>20 DEF FlagTypes, SessionExpires, vars, gateVars, inputVars, lifeVars
<1>21. CASE CancelSession
  BY <1>21 DEF FlagTypes, CancelSession, vars, gateVars, inputVars, lifeVars
<1>22. CASE WatchSession
  BY <1>22 DEF FlagTypes, WatchSession, vars, gateVars, inputVars, lifeVars, Terminated
<1>23. CASE KillExpired
  BY <1>23 DEF FlagTypes, KillExpired, vars, gateVars, inputVars, lifeVars, Terminated
<1>24. CASE Close
  BY <1>24 DEF FlagTypes, Close, vars, gateVars, inputVars, lifeVars, Terminated
<1>25. CASE \E n \in ready : Take(n)
  BY <1>25 DEF FlagTypes, Take, vars, gateVars, inputVars, lifeVars
<1>26. CASE \E m \in Messages : ProviderMessage(m)
  <2>1. PICK m \in Messages : ProviderMessage(m)  BY <1>26
  <2>2. committed' \in BOOLEAN /\ discarded' \in BOOLEAN /\ capFinal' \in BOOLEAN
    <3>1. committed' = Open(m) /\ discarded' = Shut(m) /\ capFinal' = (capFinal \/ FinalCaption(m))
      BY <2>1 DEF ProviderMessage
    <3> QED  BY <3>1 DEF Open, Shut
  <2>3. terminal' \in BOOLEAN /\ ctxDone' \in BOOLEAN
    BY <2>1 DEF ProviderMessage, FlagTypes, Terminated, Enqueue
  <2>4. UNCHANGED <<capDelivered, killPending, inputActive, activityStarted, activityEnded>>
    BY <2>1 DEF ProviderMessage, inputVars
  <2> QED  BY <2>2, <2>3, <2>4 DEF FlagTypes
<1>27. CASE UNCHANGED vars
  BY <1>27 DEF FlagTypes, vars, gateVars, inputVars, lifeVars
<1> QED
  BY <1>1, <1>2, <1>3, <1>4, <1>5, <1>6, <1>7, <1>8, <1>9, <1>10, <1>11, <1>12, <1>13, <1>14, <1>15, <1>16, <1>17, <1>18, <1>19, <1>20, <1>21, <1>22, <1>23, <1>24, <1>25, <1>26, <1>27 DEF Next, Proceed, Writer

(* Who may act: each step either leaves the operations alone, or moves the *)
(* one that holds the token, or the one the writer is about to answer.     *)
LEMMA ControlStep == IInv /\ [Next]_vars => (TokenHeld /\ SendsGuarded /\ WriterOwns)'
<1> SUFFICES ASSUME IInv, [Next]_vars PROVE (TokenHeld /\ SendsGuarded /\ WriterOwns)'  OBVIOUS
<1>1. CASE \E c \in Callers, k \in InputOps \union {"commit"} : Call(c, k)
  BY <1>1 DEF IInv, TypeOK, SendTypes, TokenHeld, SendsGuarded, WriterOwns, InSend, Ops, Idle, Requests, WriterIdle, WriterStopped, Call, inputVars, sendVars
<1>2. CASE \E c \in Callers : AcquireToken(c)
  BY <1>2, NativeSessionAssumption DEF IInv, TypeOK, SendTypes, TokenHeld, SendsGuarded, WriterOwns, InSend, Ops, Idle, Requests, WriterIdle, WriterStopped, AcquireToken, inputVars, sendVars
<1>3. CASE \E c \in Callers : HandOver(c)
  BY <1>3 DEF IInv, TypeOK, SendTypes, TokenHeld, SendsGuarded, WriterOwns, InSend, Ops, Idle, Requests, WriterIdle, WriterStopped, HandOver, inputVars, sendVars
<1>4. CASE \E c \in Callers : GiveUpToken(c)
  BY <1>4 DEF IInv, TypeOK, SendTypes, TokenHeld, SendsGuarded, WriterOwns, InSend, Ops, Idle, Requests, WriterIdle, WriterStopped, GiveUpToken, inputVars, sendVars
<1>5. CASE \E c \in Callers : RefuseInput(c)
  BY <1>5 DEF IInv, TypeOK, SendTypes, TokenHeld, SendsGuarded, WriterOwns, InSend, Ops, Idle, Requests, WriterIdle, WriterStopped, RefuseInput, Return, Idle, inputVars, sendVars
<1>6. CASE \E c \in Callers : InputLimit(c)
  BY <1>6 DEF IInv, TypeOK, SendTypes, TokenHeld, SendsGuarded, WriterOwns, InSend, Ops, Idle, Requests, WriterIdle, WriterStopped, InputLimit, Terminated, Return, Idle, inputVars, sendVars
<1>7. CASE \E c \in Callers : BeginInput(c)
  BY <1>7 DEF IInv, TypeOK, SendTypes, TokenHeld, SendsGuarded, WriterOwns, InSend, Ops, Idle, Requests, WriterIdle, WriterStopped, CommitRests, BeginInput, WrongState, RoomForFrame, inputVars, sendVars
<1>8. CASE \E c \in Callers : ExpireSend(c)
  BY <1>8 DEF IInv, TypeOK, SendTypes, TokenHeld, SendsGuarded, WriterOwns, InSend, Ops, Idle, Requests, WriterIdle, WriterStopped, ExpireSend, Return, InSend, Idle, inputVars, sendVars
<1>9. CASE \E c \in Callers : SendSucceeds(c)
  BY <1>9 DEF IInv, TypeOK, SendTypes, TokenHeld, SendsGuarded, WriterOwns, InSend, Ops, Idle, Requests, WriterIdle, WriterStopped, SendSucceeds, InputDone, Return, Idle, inputVars, sendVars
<1>10. CASE \E c \in Callers : SendSeesSessionEnd(c)
  BY <1>10 DEF IInv, TypeOK, SendTypes, TokenHeld, SendsGuarded, WriterOwns, InSend, Ops, Idle, Requests, WriterIdle, WriterStopped, SendSeesSessionEnd, InputDone, Return, Idle, inputVars, sendVars
<1>11. CASE \E c \in Callers : CommitOutput(c)
  BY <1>11 DEF IInv, TypeOK, SendTypes, TokenHeld, SendsGuarded, WriterOwns, InSend, Ops, Idle, Requests, WriterIdle, WriterStopped, CommitOutput, Return, Idle, inputVars, sendVars
<1>12. CASE WriterStops
  BY <1>12 DEF IInv, TypeOK, SendTypes, TokenHeld, SendsGuarded, WriterOwns, InSend, Ops, Idle, Requests, WriterIdle, WriterStopped, WriterStops, Answer, inputVars, sendVars
<1>13. CASE WriterSkips
  BY <1>13 DEF IInv, TypeOK, SendTypes, TokenHeld, SendsGuarded, WriterOwns, InSend, Ops, Idle, Requests, WriterIdle, WriterStopped, WriterSkips, inputVars, sendVars
<1>14. CASE WriterSends
  BY <1>14 DEF IInv, TypeOK, SendTypes, TokenHeld, SendsGuarded, WriterOwns, InSend, Ops, Idle, Requests, WriterIdle, WriterStopped, WriterSends, inputVars, sendVars
<1>15. CASE WriterSent
  BY <1>15 DEF IInv, TypeOK, SendTypes, TokenHeld, SendsGuarded, WriterOwns, InSend, Ops, Idle, Requests, WriterIdle, WriterStopped, WriterSent, Answer, inputVars, sendVars
<1>16. CASE WriterFails
  BY <1>16 DEF IInv, TypeOK, SendTypes, TokenHeld, SendsGuarded, WriterOwns, InSend, Ops, Idle, Requests, WriterIdle, WriterStopped, WriterFails, Terminated, Answer, inputVars, sendVars
<1>17. CASE DiscardOutput
  BY <1>17 DEF IInv, TypeOK, SendTypes, TokenHeld, SendsGuarded, WriterOwns, InSend, Ops, Idle, Requests, WriterIdle, WriterStopped, DiscardOutput, sendVars, inputVars
<1>18. CASE Park
  BY <1>18 DEF IInv, TypeOK, SendTypes, TokenHeld, SendsGuarded, WriterOwns, InSend, Ops, Idle, Requests, WriterIdle, WriterStopped, Park, sendVars, inputVars
<1>19. CASE LeaveReceive
  BY <1>19 DEF IInv, TypeOK, SendTypes, TokenHeld, SendsGuarded, WriterOwns, InSend, Ops, Idle, Requests, WriterIdle, WriterStopped, LeaveReceive, sendVars, inputVars
<1>20. CASE SessionExpires
  BY <1>20 DEF IInv, TypeOK, SendTypes, TokenHeld, SendsGuarded, WriterOwns, InSend, Ops, Idle, Requests, WriterIdle, WriterStopped, SessionExpires, sendVars, inputVars
<1>21. CASE CancelSession
  BY <1>21 DEF IInv, TypeOK, SendTypes, TokenHeld, SendsGuarded, WriterOwns, InSend, Ops, Idle, Requests, WriterIdle, WriterStopped, CancelSession, sendVars, inputVars
<1>22. CASE WatchSession
  BY <1>22 DEF IInv, TypeOK, SendTypes, TokenHeld, SendsGuarded, WriterOwns, InSend, Ops, Idle, Requests, WriterIdle, WriterStopped, WatchSession, Terminated, sendVars, inputVars
<1>23. CASE KillExpired
  BY <1>23 DEF IInv, TypeOK, SendTypes, TokenHeld, SendsGuarded, WriterOwns, InSend, Ops, Idle, Requests, WriterIdle, WriterStopped, KillExpired, Terminated, sendVars, inputVars
<1>24. CASE Close
  BY <1>24 DEF IInv, TypeOK, SendTypes, TokenHeld, SendsGuarded, WriterOwns, InSend, Ops, Idle, Requests, WriterIdle, WriterStopped, Close, Terminated, sendVars, inputVars
<1>25. CASE \E n \in ready : Take(n)
  BY <1>25 DEF IInv, TypeOK, SendTypes, TokenHeld, SendsGuarded, WriterOwns, InSend, Ops, Idle, Requests, WriterIdle, WriterStopped, Take, sendVars, inputVars
<1>26. CASE \E m \in Messages : ProviderMessage(m)
  BY <1>26 DEF IInv, TypeOK, SendTypes, TokenHeld, SendsGuarded, WriterOwns, InSend, Ops, Idle, Requests, WriterIdle, WriterStopped, ProviderMessage, Terminated, Enqueue, sendVars, inputVars
<1>27. CASE UNCHANGED vars
  BY <1>27 DEF IInv, TypeOK, SendTypes, TokenHeld, SendsGuarded, WriterOwns, InSend, Ops, Idle, Requests, WriterIdle, WriterStopped, vars, sendVars, inputVars
<1> QED
  BY <1>1, <1>2, <1>3, <1>4, <1>5, <1>6, <1>7, <1>8, <1>9, <1>10, <1>11,
     <1>12, <1>13, <1>14, <1>15, <1>16, <1>17, <1>18, <1>19, <1>20, <1>21,
     <1>22, <1>23, <1>24, <1>25, <1>26, <1>27 DEF Next, Proceed, Writer

(* A caller's operation advances or ends; the request it leaves dies.       *)
LEMMA OpAdvances ==
  ASSUME SendTypes, NEW c \in Callers,
         NEW a \in {"lock", "locked", "offer", "await", "ok", "failed"},
         op[c].kind \in InputOps \union {"commit"}
  PROVE  [op EXCEPT ![c].at = a] \in [Callers -> Ops]
BY DEF SendTypes, Ops, Idle

(* An operation that returns leaves token, caller and writer well typed.   *)
LEMMA ReturnTypes ==
  ASSUME SendTypes, NEW c \in Callers, Return(c)
  PROVE  /\ op' \in [Callers -> Ops] /\ token' \in Callers \union {NoCaller}
         /\ writer' \in Requests
<1>1. op' \in [Callers -> Ops]  BY DEF SendTypes, Return, Ops
<1>2. writer' \in Requests
  <2>1. CASE writer.from = c
    <3>1. writer \in [at : {"taken", "sending"}, kind : InputOps, from : Callers, live : BOOLEAN]
      BY <2>1, NativeSessionAssumption DEF SendTypes, Requests, WriterIdle, WriterStopped
    <3>2. writer' = [writer EXCEPT !.live = FALSE]  BY <2>1 DEF Return
    <3> QED  BY <3>1, <3>2 DEF Requests
  <2>2. CASE writer.from # c  BY <2>2 DEF SendTypes, Return
  <2> QED  BY <2>1, <2>2
<1> QED  BY <1>1, <1>2 DEF Return

(* Requests and operations keep their shape.                               *)
LEMMA SendTypesStep == SendTypes /\ SendsGuarded /\ WriterOwns /\ [Next]_vars => SendTypes'
<1> SUFFICES ASSUME SendTypes /\ SendsGuarded /\ WriterOwns, [Next]_vars PROVE SendTypes'  OBVIOUS
<1>1. CASE \E c \in Callers, k \in InputOps \union {"commit"} : Call(c, k)
  <2>1. PICK c \in Callers, k \in InputOps \union {"commit"} : Call(c, k)  BY <1>1
  <2>2. op' \in [Callers -> Ops]  BY <2>1 DEF Call, SendTypes, Ops
  <2> QED  BY <2>1, <2>2 DEF Call, SendTypes, inputVars
<1>2. CASE \E c \in Callers : AcquireToken(c)
  <2>1. PICK c \in Callers : AcquireToken(c)  BY <1>2
  <2>2. op[c].kind \in InputOps \union {"commit"}
    BY <2>1 DEF AcquireToken, SendTypes, Ops, Idle
  <2>3. op' \in [Callers -> Ops]  BY <2>1, <2>2, OpAdvances DEF AcquireToken
  <2> QED  BY <2>1, <2>3 DEF AcquireToken, SendTypes, inputVars
<1>3. CASE \E c \in Callers : HandOver(c)
  BY <1>3 DEF SendTypes, SendsGuarded, WriterOwns, InSend, Ops, Idle, Requests, WriterIdle, WriterStopped, HandOver, sendVars, inputVars
<1>4. CASE \E c \in Callers : GiveUpToken(c)
  BY <1>4 DEF SendTypes, SendsGuarded, WriterOwns, InSend, Ops, Idle, Requests, WriterIdle, WriterStopped, GiveUpToken, sendVars, inputVars
<1>5. CASE \E c \in Callers : RefuseInput(c)
  <2>1. PICK c \in Callers : RefuseInput(c)  BY <1>5
  <2>2. Return(c) /\ UNCHANGED <<frames, wire>>  BY <2>1 DEF RefuseInput, inputVars
  <2>3. receiver' \in {"idle", "parked", "woken"}  BY <2>1 DEF RefuseInput, SendTypes
  <2> QED  BY <2>2, <2>3, ReturnTypes DEF SendTypes
<1>6. CASE \E c \in Callers : InputLimit(c)
  <2>1. PICK c \in Callers : InputLimit(c)  BY <1>6
  <2>2. Return(c) /\ UNCHANGED <<frames, wire>>  BY <2>1 DEF InputLimit, inputVars
  <2>3. receiver' \in {"idle", "parked", "woken"}  BY <2>1 DEF InputLimit, Terminated, Signalled, SendTypes
  <2> QED  BY <2>2, <2>3, ReturnTypes DEF SendTypes
<1>7. CASE \E c \in Callers : BeginInput(c)
  <2>1. PICK c \in Callers : BeginInput(c)  BY <1>7
  <2>2. op' \in [Callers -> Ops]  BY <2>1, OpAdvances DEF BeginInput
  <2>3. UNCHANGED <<frames, token, writer, wire, receiver>>  BY <2>1 DEF BeginInput, inputVars
  <2> QED  BY <2>2, <2>3 DEF SendTypes
<1>8. CASE \E c \in Callers : ExpireSend(c)
  <2>1. PICK c \in Callers : ExpireSend(c)  BY <1>8
  <2>2. Return(c) /\ UNCHANGED <<frames, wire>>  BY <2>1 DEF ExpireSend, inputVars
  <2>3. receiver' \in {"idle", "parked", "woken"}  BY <2>1 DEF ExpireSend, SendTypes
  <2> QED  BY <2>2, <2>3, ReturnTypes DEF SendTypes
<1>9. CASE \E c \in Callers : SendSucceeds(c)
  <2>1. PICK c \in Callers : SendSucceeds(c)  BY <1>9
  <2>2. Return(c) /\ UNCHANGED <<wire, receiver>>  BY <2>1 DEF SendSucceeds
  <2>3. frames' \in 0..MaxFrames
    BY <2>1, NativeSessionAssumption DEF SendSucceeds, InputDone, InSend, SendsGuarded, SendTypes, inputVars
  <2> QED  BY <2>2, <2>3, ReturnTypes DEF SendTypes
<1>10. CASE \E c \in Callers : SendSeesSessionEnd(c)
  <2>1. PICK c \in Callers : SendSeesSessionEnd(c)  BY <1>10
  <2>2. Return(c) /\ UNCHANGED <<wire, receiver>>  BY <2>1 DEF SendSeesSessionEnd
  <2>3. frames' \in 0..MaxFrames
    BY <2>1, NativeSessionAssumption DEF SendSeesSessionEnd, InputDone, InSend, SendsGuarded, SendTypes, inputVars
  <2> QED  BY <2>2, <2>3, ReturnTypes DEF SendTypes
<1>11. CASE \E c \in Callers : CommitOutput(c)
  <2>1. PICK c \in Callers : CommitOutput(c)  BY <1>11
  <2>2. Return(c) /\ UNCHANGED <<frames, wire>>  BY <2>1 DEF CommitOutput, inputVars
  <2>3. receiver' \in {"idle", "parked", "woken"}  BY <2>1 DEF CommitOutput, Signalled, SendTypes
  <2> QED  BY <2>2, <2>3, ReturnTypes DEF SendTypes
<1>12. CASE WriterStops
  BY <1>12 DEF SendTypes, SendsGuarded, WriterOwns, InSend, Ops, Idle, Requests, WriterIdle, WriterStopped, WriterStops, Answer, sendVars, inputVars
<1>13. CASE WriterSkips
  BY <1>13 DEF SendTypes, SendsGuarded, WriterOwns, InSend, Ops, Idle, Requests, WriterIdle, WriterStopped, WriterSkips, sendVars, inputVars
<1>14. CASE WriterSends
  BY <1>14 DEF SendTypes, SendsGuarded, WriterOwns, InSend, Ops, Idle, Requests, WriterIdle, WriterStopped, WriterSends, sendVars, inputVars
<1>15. CASE WriterSent
  BY <1>15 DEF SendTypes, SendsGuarded, WriterOwns, InSend, Ops, Idle, Requests, WriterIdle, WriterStopped, WriterSent, Answer, sendVars, inputVars
<1>16. CASE WriterFails
  BY <1>16 DEF SendTypes, SendsGuarded, WriterOwns, InSend, Ops, Idle, Requests, WriterIdle, WriterStopped, WriterFails, Terminated, Answer, Signalled, sendVars, inputVars
<1>17. CASE DiscardOutput
  BY <1>17 DEF SendTypes, SendsGuarded, WriterOwns, InSend, Ops, Idle, Requests, WriterIdle, WriterStopped, DiscardOutput, OutputDropped, sendVars, inputVars
<1>18. CASE Park
  BY <1>18 DEF SendTypes, SendsGuarded, WriterOwns, InSend, Ops, Idle, Requests, WriterIdle, WriterStopped, Park, sendVars, inputVars
<1>19. CASE LeaveReceive
  BY <1>19 DEF SendTypes, SendsGuarded, WriterOwns, InSend, Ops, Idle, Requests, WriterIdle, WriterStopped, LeaveReceive, sendVars, inputVars
<1>20. CASE SessionExpires
  BY <1>20 DEF SendTypes, SendsGuarded, WriterOwns, InSend, Ops, Idle, Requests, WriterIdle, WriterStopped, SessionExpires, sendVars, inputVars
<1>21. CASE CancelSession
  BY <1>21 DEF SendTypes, SendsGuarded, WriterOwns, InSend, Ops, Idle, Requests, WriterIdle, WriterStopped, CancelSession, sendVars, inputVars
<1>22. CASE WatchSession
  BY <1>22 DEF SendTypes, SendsGuarded, WriterOwns, InSend, Ops, Idle, Requests, WriterIdle, WriterStopped, WatchSession, Terminated, Signalled, sendVars, inputVars
<1>23. CASE KillExpired
  BY <1>23 DEF SendTypes, SendsGuarded, WriterOwns, InSend, Ops, Idle, Requests, WriterIdle, WriterStopped, KillExpired, Terminated, Signalled, sendVars, inputVars
<1>24. CASE Close
  BY <1>24 DEF SendTypes, SendsGuarded, WriterOwns, InSend, Ops, Idle, Requests, WriterIdle, WriterStopped, Close, Terminated, Signalled, sendVars, inputVars
<1>25. CASE \E n \in ready : Take(n)
  BY <1>25 DEF SendTypes, SendsGuarded, WriterOwns, InSend, Ops, Idle, Requests, WriterIdle, WriterStopped, Take, sendVars, inputVars
<1>26. CASE \E m \in Messages : ProviderMessage(m)
  BY <1>26 DEF SendTypes, SendsGuarded, WriterOwns, InSend, Ops, Idle, Requests, WriterIdle, WriterStopped, ProviderMessage, Terminated, Enqueue, Signalled, sendVars, inputVars
<1>27. CASE UNCHANGED vars
  BY <1>27 DEF SendTypes, SendsGuarded, WriterOwns, InSend, Ops, Idle, Requests, WriterIdle, WriterStopped, vars, sendVars, inputVars
<1> QED
  BY <1>1, <1>2, <1>3, <1>4, <1>5, <1>6, <1>7, <1>8, <1>9, <1>10, <1>11,
     <1>12, <1>13, <1>14, <1>15, <1>16, <1>17, <1>18, <1>19, <1>20, <1>21,
     <1>22, <1>23, <1>24, <1>25, <1>26, <1>27 DEF Next, Proceed, Writer

(* discardOutputLocked and terminate only take events away.                *)
LEMMA DropTypes ==
  ASSUME QueueTypes, OutputDropped
  PROVE  ready' \subseteq ready /\ held' \subseteq held /\ buffered' \in Int
<1> DEFINE dropped == {n \in ready \union held : Gated(n)}
<1>1. dropped \subseteq 1..Len(stream) /\ stream \in Seq(Kinds)  BY DEF QueueTypes
<1>2. Bytes(dropped) \in Int  BY <1>1, BytesType
<1> QED  BY <1>2 DEF QueueTypes, OutputDropped

(* terminate takes events out of the queues and adds none.                 *)
LEMMA TerminatedTypes ==
  ASSUME QueueTypes, Terminated
  PROVE  ready' \subseteq ready /\ held' \subseteq held /\ buffered' \in Int
<1>1. CASE terminal  BY <1>1 DEF QueueTypes, Terminated
<1>2. CASE ~terminal  BY <1>2 DEF QueueTypes, Terminated
<1> QED  BY <1>1, <1>2

(* Decoding a message extends stream; its events get the next numbers.     *)
LEMMA MessageNumbers ==
  ASSUME QueueTypes, NEW m \in Messages, ProviderMessage(m)
  PROVE  /\ stream' \in Seq(Kinds) /\ Len(stream') = Len(stream) + Len(m)
         /\ \A n \in 1..Len(stream) : stream'[n] = stream[n]
         /\ \A i \in 1..Len(m) : stream'[Len(stream) + i] = m[i]
         /\ \A S : S \subseteq 1..Len(m) => Fresh(S) \subseteq 1..Len(stream')
         /\ m \in Seq(Kinds) /\ Len(m) \in Nat /\ Len(stream) \in Nat
<1>1. m \in Seq(Kinds)  BY MessageKinds
<1>2. stream \in Seq(Kinds) /\ stream' = stream \o m  BY DEF QueueTypes, ProviderMessage
<1>3. /\ stream' \in Seq(Kinds) /\ Len(stream') = Len(stream) + Len(m)
      /\ Len(m) \in Nat /\ Len(stream) \in Nat  BY <1>1, <1>2
<1>4. \A n \in 1..Len(stream) : stream'[n] = stream[n]  BY <1>1, <1>2
<1>5. \A i \in 1..Len(m) : stream'[Len(stream) + i] = m[i]  BY <1>1, <1>2
<1>6. \A S : S \subseteq 1..Len(m) => Fresh(S) \subseteq 1..Len(stream')  BY <1>3 DEF Fresh
<1> QED  BY <1>1, <1>3, <1>4, <1>5, <1>6

(* enqueueEvents queues numbers of events that have been decoded.          *)
LEMMA EnqueueTypes ==
  ASSUME QueueTypes, NEW m \in Messages, ProviderMessage(m), Enqueue(m)
  PROVE  /\ ready' \subseteq 1..Len(stream') /\ held' \subseteq 1..Len(stream')
         /\ buffered' \in Int
<1>0. /\ Len(m) \in Nat /\ Len(stream) \in Nat /\ Len(stream') = Len(stream) + Len(m)
      /\ m \in Seq(Kinds)
      /\ \A S : S \subseteq 1..Len(m) => Fresh(S) \subseteq 1..Len(stream')
  BY MessageNumbers
<1>1. Kept(m) \subseteq 1..Len(m) /\ ToRead(m) \subseteq Kept(m)  BY <1>0 DEF Kept, ToRead
<1>2. ready' \subseteq 1..Len(stream') /\ held' \subseteq 1..Len(stream')
  <2>1. 1..Len(stream) \subseteq 1..Len(stream')  BY <1>0
  <2>2. Fresh(ToRead(m)) \subseteq 1..Len(stream')
        /\ Fresh(Kept(m) \ ToRead(m)) \subseteq 1..Len(stream')  BY <1>0, <1>1
  <2> QED  BY <2>1, <2>2 DEF Enqueue, QueueTypes
<1>3. Bytes(Old(m)) \in Int
  <2>1. Old(m) \subseteq 1..Len(stream) /\ stream \in Seq(Kinds)  BY DEF Old, QueueTypes
  <2> QED  BY <2>1, BytesType
<1>4. Cardinality(KeptContent(m)) \in Nat
  <2>1. IsFiniteSet(1..Len(m))  BY <1>0, FS_Interval
  <2>2. IsFiniteSet(KeptContent(m))  BY <1>1, <2>1, FS_Subset DEF KeptContent
  <2> QED  BY <2>2, FS_CardinalityType
<1>5. buffered' = (buffered - Bytes(Old(m))) + Cardinality(KeptContent(m))
  BY DEF Enqueue
<1>6. buffered \in Int  BY DEF QueueTypes
<1> QED  BY <1>2, <1>3, <1>4, <1>5, <1>6

(* Queued numbers stay numbers of decoded events.                          *)
LEMMA QueueTypesStep == QueueTypes /\ [Next]_vars => QueueTypes'
<1> SUFFICES ASSUME QueueTypes, [Next]_vars PROVE QueueTypes'  OBVIOUS
<1>1. CASE \E c \in Callers, k \in InputOps \union {"commit"} : Call(c, k)
  BY <1>1 DEF QueueTypes, Call, queueVars
<1>2. CASE \E c \in Callers : AcquireToken(c)
  BY <1>2 DEF QueueTypes, AcquireToken, queueVars
<1>3. CASE \E c \in Callers : HandOver(c)
  BY <1>3 DEF QueueTypes, HandOver, queueVars
<1>4. CASE \E c \in Callers : GiveUpToken(c)
  BY <1>4 DEF QueueTypes, GiveUpToken, queueVars
<1>5. CASE \E c \in Callers : RefuseInput(c)
  BY <1>5 DEF QueueTypes, RefuseInput, Return, queueVars
<1>6. CASE \E c \in Callers : InputLimit(c)
  <2>1. Terminated /\ UNCHANGED <<stream, taken, mark>>  BY <1>6 DEF InputLimit
  <2> QED  BY <2>1, TerminatedTypes DEF QueueTypes
<1>7. CASE \E c \in Callers : BeginInput(c)
  <2>1. PICK c \in Callers : BeginInput(c)  BY <1>7
  <2>2. CASE op[c].kind = "start"
    BY <2>1, <2>2, DropTypes DEF BeginInput, QueueTypes
  <2>3. CASE op[c].kind # "start"  BY <2>1, <2>3 DEF BeginInput, QueueTypes
  <2> QED  BY <2>2, <2>3
<1>8. CASE \E c \in Callers : ExpireSend(c)
  BY <1>8 DEF QueueTypes, ExpireSend, Return, InSend, queueVars
<1>9. CASE \E c \in Callers : SendSucceeds(c)
  BY <1>9 DEF QueueTypes, SendSucceeds, InputDone, Return, queueVars
<1>10. CASE \E c \in Callers : SendSeesSessionEnd(c)
  BY <1>10 DEF QueueTypes, SendSeesSessionEnd, InputDone, Return, queueVars
<1>11. CASE \E c \in Callers : CommitOutput(c)
  BY <1>11 DEF QueueTypes, CommitOutput, Return, Signalled, queueVars
<1>12. CASE WriterStops
  BY <1>12 DEF QueueTypes, WriterStops, Answer, queueVars
<1>13. CASE WriterSkips
  BY <1>13 DEF QueueTypes, WriterSkips, queueVars
<1>14. CASE WriterSends
  BY <1>14 DEF QueueTypes, WriterSends, queueVars
<1>15. CASE WriterSent
  BY <1>15 DEF QueueTypes, WriterSent, Answer, queueVars
<1>16. CASE WriterFails
  BY <1>16, TerminatedTypes DEF WriterFails, QueueTypes
<1>17. CASE DiscardOutput
  BY <1>17, DropTypes DEF DiscardOutput, QueueTypes
<1>18. CASE Park
  BY <1>18 DEF QueueTypes, Park, queueVars
<1>19. CASE LeaveReceive
  BY <1>19 DEF QueueTypes, LeaveReceive, queueVars
<1>20. CASE SessionExpires
  BY <1>20 DEF QueueTypes, SessionExpires, queueVars
<1>21. CASE CancelSession
  BY <1>21 DEF QueueTypes, CancelSession, queueVars
<1>22. CASE WatchSession
  BY <1>22, TerminatedTypes DEF WatchSession, QueueTypes
<1>23. CASE KillExpired
  BY <1>23, TerminatedTypes DEF KillExpired, QueueTypes
<1>24. CASE Close
  BY <1>24, TerminatedTypes DEF Close, QueueTypes
<1>25. CASE \E n \in ready : Take(n)
  BY <1>25 DEF QueueTypes, Take, queueVars
<1>26. CASE \E m \in Messages : ProviderMessage(m)
  <2>1. PICK m \in Messages : ProviderMessage(m)  BY <1>26
  <2>m. /\ Len(m) \in Nat /\ Len(stream) \in Nat /\ Len(stream') = Len(stream) + Len(m)
        /\ stream' \in Seq(Kinds)  BY <2>1, MessageNumbers
  <2>2. 1..Len(stream) \subseteq 1..Len(stream')  BY <2>m
  <2>3. taken' \in Seq(1..Len(stream'))
    BY <2>1, <2>2 DEF ProviderMessage, QueueTypes
  <2>4. stream' \in Seq(Kinds) /\ Len(stream') <= MaxStream /\ mark' \in 0..Len(stream')
    BY <2>1, <2>m DEF ProviderMessage, QueueTypes
  <2>5. ready' \subseteq 1..Len(stream') /\ held' \subseteq 1..Len(stream') /\ buffered' \in Int
    <3>1. CASE Overflows(m)
      <4>1. Terminated  BY <2>1, <3>1 DEF ProviderMessage
      <4> QED  BY <2>2, <4>1, TerminatedTypes DEF QueueTypes
    <3>2. CASE ~Overflows(m)
      <4>1. Enqueue(m)  BY <2>1, <3>2 DEF ProviderMessage
      <4> QED  BY <2>1, <4>1, EnqueueTypes
    <3> QED  BY <3>1, <3>2
  <2> QED  BY <2>3, <2>4, <2>5 DEF QueueTypes
<1>27. CASE UNCHANGED vars
  BY <1>27 DEF QueueTypes, vars, queueVars
<1> QED
  BY <1>1, <1>2, <1>3, <1>4, <1>5, <1>6, <1>7, <1>8, <1>9, <1>10, <1>11,
     <1>12, <1>13, <1>14, <1>15, <1>16, <1>17, <1>18, <1>19, <1>20, <1>21,
     <1>22, <1>23, <1>24, <1>25, <1>26, <1>27 DEF Next, Proceed, Writer

(* The commit flag implies what CommitOutput asked for, until StartActivity  *)
(* or a discard resets it together with the output it let through.         *)
LEMMA CommitRestsStep == IInv /\ [Next]_vars => CommitRests'
<1> SUFFICES ASSUME IInv, [Next]_vars PROVE CommitRests'  OBVIOUS
<1>1. CASE \E c \in Callers, k \in InputOps \union {"commit"} : Call(c, k)
  BY <1>1 DEF IInv, CommitRests, Gated, Call, gateVars, inputVars, queueVars, sendVars
<1>2. CASE \E c \in Callers : AcquireToken(c)
  BY <1>2 DEF IInv, CommitRests, Gated, AcquireToken, gateVars, inputVars, queueVars, sendVars
<1>3. CASE \E c \in Callers : HandOver(c)
  BY <1>3 DEF IInv, CommitRests, Gated, HandOver, gateVars, inputVars, queueVars, sendVars
<1>4. CASE \E c \in Callers : GiveUpToken(c)
  BY <1>4 DEF IInv, CommitRests, Gated, GiveUpToken, gateVars, inputVars, queueVars, sendVars
<1>5. CASE \E c \in Callers : RefuseInput(c)
  BY <1>5 DEF IInv, CommitRests, Gated, RefuseInput, Return, gateVars, inputVars, queueVars, sendVars
<1>6. CASE \E c \in Callers : InputLimit(c)
  BY <1>6 DEF IInv, CommitRests, Gated, InputLimit, Terminated, Return, Signalled, gateVars, inputVars, queueVars, sendVars
<1>7. CASE \E c \in Callers : BeginInput(c)
  BY <1>7 DEF IInv, CommitRests, Gated, BeginInput, OutputDropped, WrongState, TokenHeld, gateVars, inputVars, queueVars, sendVars
<1>8. CASE \E c \in Callers : ExpireSend(c)
  BY <1>8 DEF IInv, CommitRests, Gated, ExpireSend, Return, InSend, gateVars, inputVars, queueVars, sendVars
<1>9. CASE \E c \in Callers : SendSucceeds(c)
  <2>1. PICK c \in Callers : SendSucceeds(c)  BY <1>9
  <2>2. UNCHANGED <<stream, ready, committed, discarded, capFinal, capDelivered>>
    BY <2>1 DEF SendSucceeds, queueVars, gateVars
  <2>3. InSend(c) /\ (InputDone(c) \/ UNCHANGED inputVars)
    BY <2>1 DEF SendSucceeds, InSend
  <2>4. (activityEnded \/ inputActive => activityStarted)'
    BY <2>3 DEF IInv, TypeOK, FlagTypes, SendsGuarded, CommitRests, InputDone, inputVars
  <2>5. (committed => activityEnded /\ ~inputActive)'
    <3>1. SUFFICES ASSUME committed' PROVE activityEnded' /\ ~inputActive'  OBVIOUS
    <3>2. activityEnded /\ ~inputActive /\ activityStarted
      BY <2>2, <3>1 DEF IInv, CommitRests
    <3>3. op[c].kind # "start"  BY <2>3, <3>2 DEF IInv, SendsGuarded
    <3>4. CASE UNCHANGED <<inputActive, activityEnded>>  BY <3>2, <3>4
    <3>5. CASE inputActive' = FALSE /\ activityEnded' = TRUE  BY <3>5
    <3> QED  BY <2>3, <3>3, <3>4, <3>5 DEF InputDone, inputVars
  <2> QED  BY <2>2, <2>4, <2>5 DEF IInv, CommitRests, Gated
<1>10. CASE \E c \in Callers : SendSeesSessionEnd(c)
  <2>1. PICK c \in Callers : SendSeesSessionEnd(c)  BY <1>10
  <2>2. UNCHANGED <<stream, ready, committed, discarded, capFinal, capDelivered>>
    BY <2>1 DEF SendSeesSessionEnd, queueVars, gateVars
  <2>3. InSend(c) /\ (InputDone(c) \/ UNCHANGED inputVars)
    BY <2>1 DEF SendSeesSessionEnd, InSend
  <2>4. (activityEnded \/ inputActive => activityStarted)'
    BY <2>3 DEF IInv, TypeOK, FlagTypes, SendsGuarded, CommitRests, InputDone, inputVars
  <2>5. (committed => activityEnded /\ ~inputActive)'
    <3>1. SUFFICES ASSUME committed' PROVE activityEnded' /\ ~inputActive'  OBVIOUS
    <3>2. activityEnded /\ ~inputActive /\ activityStarted
      BY <2>2, <3>1 DEF IInv, CommitRests
    <3>3. op[c].kind # "start"  BY <2>3, <3>2 DEF IInv, SendsGuarded
    <3>4. CASE UNCHANGED <<inputActive, activityEnded>>  BY <3>2, <3>4
    <3>5. CASE inputActive' = FALSE /\ activityEnded' = TRUE  BY <3>5
    <3> QED  BY <2>3, <3>3, <3>4, <3>5 DEF InputDone, inputVars
  <2> QED  BY <2>2, <2>4, <2>5 DEF IInv, CommitRests, Gated
<1>11. CASE \E c \in Callers : CommitOutput(c)
  BY <1>11 DEF IInv, CommitRests, Gated, CommitOutput, Return, CommitAllowed, gateVars, inputVars, queueVars, sendVars
<1>12. CASE WriterStops
  BY <1>12 DEF IInv, CommitRests, Gated, WriterStops, Answer, gateVars, inputVars, queueVars, sendVars
<1>13. CASE WriterSkips
  BY <1>13 DEF IInv, CommitRests, Gated, WriterSkips, gateVars, inputVars, queueVars, sendVars
<1>14. CASE WriterSends
  BY <1>14 DEF IInv, CommitRests, Gated, WriterSends, gateVars, inputVars, queueVars, sendVars
<1>15. CASE WriterSent
  BY <1>15 DEF IInv, CommitRests, Gated, WriterSent, Answer, gateVars, inputVars, queueVars, sendVars
<1>16. CASE WriterFails
  BY <1>16 DEF IInv, CommitRests, Gated, WriterFails, Terminated, Answer, Signalled, gateVars, inputVars, queueVars, sendVars
<1>17. CASE DiscardOutput
  BY <1>17 DEF IInv, CommitRests, Gated, DiscardOutput, OutputDropped, gateVars, inputVars, queueVars, sendVars
<1>18. CASE Park
  BY <1>18 DEF IInv, CommitRests, Gated, Park, gateVars, inputVars, queueVars, sendVars
<1>19. CASE LeaveReceive
  BY <1>19 DEF IInv, CommitRests, Gated, LeaveReceive, gateVars, inputVars, queueVars, sendVars
<1>20. CASE SessionExpires
  BY <1>20 DEF IInv, CommitRests, Gated, SessionExpires, gateVars, inputVars, queueVars, sendVars
<1>21. CASE CancelSession
  BY <1>21 DEF IInv, CommitRests, Gated, CancelSession, gateVars, inputVars, queueVars, sendVars
<1>22. CASE WatchSession
  BY <1>22 DEF IInv, CommitRests, Gated, WatchSession, Terminated, Signalled, gateVars, inputVars, queueVars, sendVars
<1>23. CASE KillExpired
  BY <1>23 DEF IInv, CommitRests, Gated, KillExpired, Terminated, Signalled, gateVars, inputVars, queueVars, sendVars
<1>24. CASE Close
  BY <1>24 DEF IInv, CommitRests, Gated, Close, Terminated, Signalled, gateVars, inputVars, queueVars, sendVars
<1>25. CASE \E n \in ready : Take(n)
  <2>1. PICK n \in ready : Take(n)  BY <1>25
  <2>2. capDelivered => capDelivered'  BY <2>1 DEF Take
  <2>3. ready' \subseteq ready
        /\ UNCHANGED <<stream, committed, discarded, capFinal, activityEnded, inputActive,
                       activityStarted>>  BY <2>1 DEF Take, inputVars
  <2> QED  BY <2>2, <2>3 DEF IInv, CommitRests, Gated
<1>26. CASE \E m \in Messages : ProviderMessage(m)
  <2>1. PICK m \in Messages : ProviderMessage(m)  BY <1>26
  <2>2. QueueTypes  BY DEF IInv, TypeOK
  <2>3. committed' => committed /\ ~Cut(m)  BY <2>1 DEF ProviderMessage, Open
  <2>4. committed' => ~discarded' /\ capFinal' /\ capDelivered' /\ activityEnded' /\ ~inputActive'
    BY <2>1, <2>3 DEF ProviderMessage, Shut, IInv, CommitRests, inputVars
  <2>5. (activityEnded \/ inputActive => activityStarted)'
    BY <2>1 DEF ProviderMessage, IInv, CommitRests, inputVars
  <2>6. ASSUME NEW n \in ready', Gated(n)' PROVE committed'
    <3>1. CASE Overflows(m)
      BY <2>1, <2>6, <3>1 DEF ProviderMessage, Terminated
    <3>2. CASE ~Overflows(m)
      <4>1. Enqueue(m)  BY <2>1, <3>2 DEF ProviderMessage
      <4>2. CASE n \in ready \ Old(m)
        <5>1. Gated(n)  BY <2>1, <2>2, <2>6, <4>2, MessageNumbers DEF Gated, QueueTypes
        <5>2. committed /\ ~Cut(m)  BY <5>1, <4>2 DEF IInv, CommitRests, Old
        <5> QED  BY <2>1, <5>2 DEF ProviderMessage, Open
      <4>3. CASE n \in Fresh(ToRead(m))
        <5>1. PICK i \in ToRead(m) : n = Len(stream) + i  BY <4>3 DEF Fresh
        <5>2. i \in 1..Len(m)  BY <5>1, <2>1, <2>2, MessageNumbers DEF ToRead, Kept
        <5>3. m[i] \in GatedKinds  BY <5>1, <5>2, <2>1, <2>2, <2>6, MessageNumbers DEF Gated
        <5>4. Open(m)  BY <5>1, <5>3 DEF ToRead, Withheld
        <5> QED  BY <2>1, <5>4 DEF ProviderMessage
      <4> QED  BY <2>6, <4>1, <4>2, <4>3 DEF Enqueue
    <3> QED  BY <3>1, <3>2
  <2> QED  BY <2>4, <2>5, <2>6 DEF CommitRests
<1>27. CASE UNCHANGED vars
  BY <1>27 DEF IInv, CommitRests, Gated, vars, gateVars, inputVars, queueVars, sendVars
<1> QED
  BY <1>1, <1>2, <1>3, <1>4, <1>5, <1>6, <1>7, <1>8, <1>9, <1>10, <1>11,
     <1>12, <1>13, <1>14, <1>15, <1>16, <1>17, <1>18, <1>19, <1>20, <1>21,
     <1>22, <1>23, <1>24, <1>25, <1>26, <1>27 DEF Next, Proceed, Writer

(* Held output is empty behind an open gate, a dead session queues nothing, *)
(* and a parked receiver has nothing to read.                              *)
LEMMA QueuesSettledStep == IInv /\ [Next]_vars => QueuesSettled'
<1> SUFFICES ASSUME IInv, [Next]_vars PROVE QueuesSettled'  OBVIOUS
<1>1. CASE \E c \in Callers, k \in InputOps \union {"commit"} : Call(c, k)
  BY <1>1 DEF IInv, CommitRests, QueuesSettled, HeldUntilCommit, TerminalScrubs, NoLostWakeup, SendTypes, TypeOK, Call, gateVars, inputVars, queueVars, sendVars, lifeVars
<1>2. CASE \E c \in Callers : AcquireToken(c)
  BY <1>2 DEF IInv, CommitRests, QueuesSettled, HeldUntilCommit, TerminalScrubs, NoLostWakeup, SendTypes, TypeOK, AcquireToken, gateVars, inputVars, queueVars, sendVars, lifeVars
<1>3. CASE \E c \in Callers : HandOver(c)
  BY <1>3 DEF IInv, CommitRests, QueuesSettled, HeldUntilCommit, TerminalScrubs, NoLostWakeup, SendTypes, TypeOK, HandOver, gateVars, inputVars, queueVars, sendVars, lifeVars
<1>4. CASE \E c \in Callers : GiveUpToken(c)
  BY <1>4 DEF IInv, CommitRests, QueuesSettled, HeldUntilCommit, TerminalScrubs, NoLostWakeup, SendTypes, TypeOK, GiveUpToken, gateVars, inputVars, queueVars, sendVars, lifeVars
<1>5. CASE \E c \in Callers : RefuseInput(c)
  BY <1>5 DEF IInv, CommitRests, QueuesSettled, HeldUntilCommit, TerminalScrubs, NoLostWakeup, SendTypes, TypeOK, RefuseInput, Return, gateVars, inputVars, queueVars, sendVars, lifeVars
<1>6. CASE \E c \in Callers : InputLimit(c)
  BY <1>6 DEF IInv, CommitRests, QueuesSettled, HeldUntilCommit, TerminalScrubs, NoLostWakeup, SendTypes, TypeOK, InputLimit, Terminated, Return, Signalled, gateVars, inputVars, queueVars, sendVars, lifeVars
<1>7. CASE \E c \in Callers : BeginInput(c)
  BY <1>7 DEF IInv, CommitRests, QueuesSettled, HeldUntilCommit, TerminalScrubs, NoLostWakeup, SendTypes, TypeOK, BeginInput, OutputDropped, gateVars, inputVars, queueVars, sendVars, lifeVars
<1>8. CASE \E c \in Callers : ExpireSend(c)
  BY <1>8 DEF IInv, CommitRests, QueuesSettled, HeldUntilCommit, TerminalScrubs, NoLostWakeup, SendTypes, TypeOK, ExpireSend, Return, InSend, gateVars, inputVars, queueVars, sendVars, lifeVars
<1>9. CASE \E c \in Callers : SendSucceeds(c)
  BY <1>9 DEF IInv, CommitRests, QueuesSettled, HeldUntilCommit, TerminalScrubs, NoLostWakeup, SendTypes, TypeOK, SendSucceeds, InputDone, Return, gateVars, inputVars, queueVars, sendVars, lifeVars
<1>10. CASE \E c \in Callers : SendSeesSessionEnd(c)
  BY <1>10 DEF IInv, CommitRests, QueuesSettled, HeldUntilCommit, TerminalScrubs, NoLostWakeup, SendTypes, TypeOK, SendSeesSessionEnd, InputDone, Return, gateVars, inputVars, queueVars, sendVars, lifeVars
<1>11. CASE \E c \in Callers : CommitOutput(c)
  BY <1>11 DEF IInv, CommitRests, QueuesSettled, HeldUntilCommit, TerminalScrubs, NoLostWakeup, SendTypes, TypeOK, CommitOutput, Return, CommitAllowed, Signalled, ReleaseSignals, gateVars, inputVars, queueVars, sendVars, lifeVars
<1>12. CASE WriterStops
  BY <1>12 DEF IInv, CommitRests, QueuesSettled, HeldUntilCommit, TerminalScrubs, NoLostWakeup, SendTypes, TypeOK, WriterStops, Answer, gateVars, inputVars, queueVars, sendVars, lifeVars
<1>13. CASE WriterSkips
  BY <1>13 DEF IInv, CommitRests, QueuesSettled, HeldUntilCommit, TerminalScrubs, NoLostWakeup, SendTypes, TypeOK, WriterSkips, gateVars, inputVars, queueVars, sendVars, lifeVars
<1>14. CASE WriterSends
  BY <1>14 DEF IInv, CommitRests, QueuesSettled, HeldUntilCommit, TerminalScrubs, NoLostWakeup, SendTypes, TypeOK, WriterSends, gateVars, inputVars, queueVars, sendVars, lifeVars
<1>15. CASE WriterSent
  BY <1>15 DEF IInv, CommitRests, QueuesSettled, HeldUntilCommit, TerminalScrubs, NoLostWakeup, SendTypes, TypeOK, WriterSent, Answer, gateVars, inputVars, queueVars, sendVars, lifeVars
<1>16. CASE WriterFails
  BY <1>16 DEF IInv, CommitRests, QueuesSettled, HeldUntilCommit, TerminalScrubs, NoLostWakeup, SendTypes, TypeOK, WriterFails, Terminated, Answer, Signalled, gateVars, inputVars, queueVars, sendVars, lifeVars
<1>17. CASE DiscardOutput
  BY <1>17 DEF IInv, CommitRests, QueuesSettled, HeldUntilCommit, TerminalScrubs, NoLostWakeup, SendTypes, TypeOK, DiscardOutput, OutputDropped, gateVars, inputVars, queueVars, sendVars, lifeVars
<1>18. CASE Park
  BY <1>18 DEF IInv, CommitRests, QueuesSettled, HeldUntilCommit, TerminalScrubs, NoLostWakeup, SendTypes, TypeOK, Park, gateVars, inputVars, queueVars, sendVars, lifeVars
<1>19. CASE LeaveReceive
  BY <1>19 DEF IInv, CommitRests, QueuesSettled, HeldUntilCommit, TerminalScrubs, NoLostWakeup, SendTypes, TypeOK, LeaveReceive, gateVars, inputVars, queueVars, sendVars, lifeVars
<1>20. CASE SessionExpires
  BY <1>20 DEF IInv, CommitRests, QueuesSettled, HeldUntilCommit, TerminalScrubs, NoLostWakeup, SendTypes, TypeOK, SessionExpires, gateVars, inputVars, queueVars, sendVars, lifeVars
<1>21. CASE CancelSession
  BY <1>21 DEF IInv, CommitRests, QueuesSettled, HeldUntilCommit, TerminalScrubs, NoLostWakeup, SendTypes, TypeOK, CancelSession, gateVars, inputVars, queueVars, sendVars, lifeVars
<1>22. CASE WatchSession
  BY <1>22 DEF IInv, CommitRests, QueuesSettled, HeldUntilCommit, TerminalScrubs, NoLostWakeup, SendTypes, TypeOK, WatchSession, Terminated, Signalled, gateVars, inputVars, queueVars, sendVars, lifeVars
<1>23. CASE KillExpired
  BY <1>23 DEF IInv, CommitRests, QueuesSettled, HeldUntilCommit, TerminalScrubs, NoLostWakeup, SendTypes, TypeOK, KillExpired, Terminated, Signalled, gateVars, inputVars, queueVars, sendVars, lifeVars
<1>24. CASE Close
  BY <1>24 DEF IInv, CommitRests, QueuesSettled, HeldUntilCommit, TerminalScrubs, NoLostWakeup, SendTypes, TypeOK, Close, Terminated, Signalled, gateVars, inputVars, queueVars, sendVars, lifeVars
<1>25. CASE \E n \in ready : Take(n)
  BY <1>25 DEF IInv, CommitRests, QueuesSettled, HeldUntilCommit, TerminalScrubs, NoLostWakeup, SendTypes, TypeOK, Take, gateVars, inputVars, queueVars, sendVars, lifeVars
<1>26. CASE \E m \in Messages : ProviderMessage(m)
  <2>1. PICK m \in Messages : ProviderMessage(m)  BY <1>26
  <2>2. QueueTypes /\ SendTypes  BY DEF IInv, TypeOK
  <2>3. CASE Overflows(m)
    <3>1. ready' = {} /\ held' = {} /\ receiver' = Signalled
      BY <2>1, <2>3 DEF ProviderMessage, Terminated
    <3> QED  BY <2>2, <3>1
        DEF QueuesSettled, HeldUntilCommit, TerminalScrubs, NoLostWakeup, Signalled, SendTypes
  <2>4. CASE ~Overflows(m)
    <3>1. Enqueue(m) /\ ~terminal /\ ~terminal'
      BY <2>1, <2>4 DEF ProviderMessage, Enqueue
    <3>2. committed' => held' = {}
      <4>1. SUFFICES ASSUME committed' PROVE held' = {}  OBVIOUS
      <4>2. Open(m) /\ committed  BY <4>1, <2>1 DEF ProviderMessage, Open
      <4>3. Kept(m) \ ToRead(m) = {}  BY <4>2 DEF ToRead, Withheld
      <4>4. held = {}  BY <4>2 DEF IInv, QueuesSettled, HeldUntilCommit
      <4> QED  BY <3>1, <4>3, <4>4 DEF Enqueue, Fresh
    <3>3. receiver' = "parked" => ready' = {}
      <4>1. SUFFICES ASSUME receiver' = "parked" PROVE ready' = {}  OBVIOUS
      <4>2. receiver = "parked" /\ ready = {}
        BY <4>1, <3>1 DEF Enqueue, Signalled, IInv, QueuesSettled, NoLostWakeup
      <4>3. ToRead(m) = {}  BY <4>1, <4>2, <3>1 DEF Enqueue, Signalled
      <4> QED  BY <3>1, <4>2, <4>3 DEF Enqueue, Fresh
    <3> QED  BY <3>1, <3>2, <3>3
        DEF QueuesSettled, HeldUntilCommit, TerminalScrubs, NoLostWakeup
  <2> QED  BY <2>3, <2>4
<1>27. CASE UNCHANGED vars
  BY <1>27 DEF IInv, CommitRests, QueuesSettled, HeldUntilCommit, TerminalScrubs, NoLostWakeup, SendTypes, TypeOK, vars, gateVars, inputVars, queueVars, sendVars, lifeVars
<1> QED
  BY <1>1, <1>2, <1>3, <1>4, <1>5, <1>6, <1>7, <1>8, <1>9, <1>10, <1>11,
     <1>12, <1>13, <1>14, <1>15, <1>16, <1>17, <1>18, <1>19, <1>20, <1>21,
     <1>22, <1>23, <1>24, <1>25, <1>26, <1>27 DEF Next, Proceed, Writer

(* The invariant is inductive: one lemma per group of its conjuncts.       *)
LEMMA StepIInv == IInv /\ [Next]_vars => IInv'
<1> SUFFICES ASSUME IInv, [Next]_vars PROVE IInv'  OBVIOUS
<1>1. TypeOK'
  BY QueueTypesStep, FlagTypesStep, SendTypesStep DEF IInv, TypeOK
<1>2. (TokenHeld /\ SendsGuarded /\ WriterOwns)'  BY ControlStep
<1>3. CommitRests' /\ QueuesSettled'  BY CommitRestsStep, QueuesSettledStep
<1> QED  BY <1>1, <1>2, <1>3 DEF IInv

(* The invariant holds in every state of every session: the token          *)
(* serialises the operations, the activity runs once, and the commit flag  *)
(* implies all that CommitOutput asked for.                                *)
THEOREM Invariance == Spec => []IInv
BY InitIInv, StepIInv, PTL DEF Spec

(* Every variable keeps its type for every value of the constants.         *)
THEOREM TypeCorrect == Spec => []TypeOK
<1>1. IInv => TypeOK  BY DEF IInv
<1> QED  BY <1>1, Invariance, PTL

(* Model output becomes readable only in a turn that was committed, with   *)
(* its final caption delivered and its input ended.                        *)
THEOREM GateSafety == Spec => []GateClosed
<1>1. IInv => GateClosed  BY DEF IInv, CommitRests, GateClosed
<1> QED  BY <1>1, Invariance, PTL

(* An open gate leaves nothing held back.                                  *)
THEOREM NothingLeftBehind == Spec => []HeldUntilCommit
<1>1. IInv => HeldUntilCommit  BY DEF IInv, QueuesSettled
<1> QED  BY <1>1, Invariance, PTL

(* No receiver sleeps over an event or over the end of the session.        *)
THEOREM ReceiverAwake == Spec => []NoLostWakeup
<1>1. IInv => NoLostWakeup  BY DEF IInv, QueuesSettled
<1> QED  BY <1>1, Invariance, PTL

(* Nothing stays queued in a terminated session.                           *)
THEOREM Scrubbed == Spec => []TerminalScrubs
<1>1. IInv => TerminalScrubs  BY DEF IInv, QueuesSettled
<1> QED  BY <1>1, Invariance, PTL
-----------------------------------------------------------------------------
(* The writes.  An operation that reports success has been written, and    *)
(* while nothing has begun to end the session the wire tells what the      *)
(* activity flags tell.                                                    *)

Written(k) == \E i \in DOMAIN wire : wire[i] = k

(* A write of kind k that the session's flags do not show yet.             *)
InFlight(k) ==
  \E c \in Callers : op[c].kind = k /\
    \/ op[c].at = "ok"
    \/ writer.live /\ writer.from = c /\ writer.at = "sending"

WritesRest ==
  /\ \A c \in Callers : op[c].at = "ok" => Written(op[c].kind)
  /\ writer.at = "sending" => Written(writer.kind)
  /\ writer.live => writer.at \in {"taken", "sending"} /\ writer.kind = op[writer.from].kind

(* EndActivity may report success without a write only once the session's  *)
(* context has ended; a commit that waits for the token then gives up, and *)
(* one that holds it saw the flag before.                                  *)
EndRests ==
  /\ activityEnded => Written("end") \/ ctxDone
  /\ \A c \in Callers :
       op[c] = [kind |-> "commit", at |-> "locked"] /\ activityEnded => Written("end")
  /\ committed => Written("end")

ActivityRests ==
  /\ \A c \in Callers : InSend(c) /\ op[c].kind # "start" => inputActive
  /\ \A c \in Callers : op[c].at = "failed" => ctxDone \/ terminal
  /\ ~killPending /\ ~terminal /\ ~ctxDone =>
       /\ activityStarted => wire # << >>
       /\ wire # << >> => activityStarted \/ InFlight("start")
       /\ Written("end") => (activityStarted /\ ~inputActive) \/ InFlight("end")

WireInv == WritesRest /\ EndRests /\ ActivityRests /\ WireOrder

(* A step beside the writes: operations, writer and activity stay, the     *)
(* session may come closer to its end, the gate may shut.                  *)
Aside ==
  /\ UNCHANGED <<sendVars, inputVars>>
  /\ terminal => terminal'
  /\ ctxDone => ctxDone'
  /\ killPending => killPending' \/ terminal'
  /\ committed' => committed

(* What happens beside the writes leaves what is known of them.            *)
LEMMA AsideStep == WireInv /\ Aside => WireInv'
BY DEF WireInv, WritesRest, EndRests, ActivityRests, WireOrder, Written, InFlight, InSend,
       Aside, sendVars, inputVars

(* The gate, the receiver, the provider and the session's end act beside   *)
(* the writes.                                                             *)
LEMMA BesideTheWrites ==
  ASSUME \/ DiscardOutput \/ Park \/ LeaveReceive \/ \E n \in ready : Take(n)
         \/ \E m \in Messages : ProviderMessage(m)
         \/ SessionExpires \/ CancelSession \/ WatchSession \/ KillExpired \/ Close
         \/ UNCHANGED vars
  PROVE  Aside
<1> USE DEF Aside, gateVars, inputVars, lifeVars, sendVars
<1>1. CASE DiscardOutput \/ Park \/ LeaveReceive
  BY <1>1 DEF DiscardOutput, Park, LeaveReceive
<1>2. CASE \E n \in ready : Take(n)
  <2>1. UNCHANGED <<inputVars, lifeVars, sendVars, committed>>  BY <1>2 DEF Take
  <2> QED  BY <2>1
<1>3. CASE \E m \in Messages : ProviderMessage(m)
  <2>1. PICK m \in Messages : ProviderMessage(m)  BY <1>3
  <2>2. /\ UNCHANGED <<inputVars, killPending, sendVars>> /\ ~terminal
        /\ committed' = Open(m)  BY <2>1 DEF ProviderMessage
  <2>3. UNCHANGED ctxDone  BY <2>1 DEF ProviderMessage, Terminated, Enqueue
  <2> QED  BY <2>2, <2>3 DEF Open
<1>4. CASE SessionExpires \/ CancelSession \/ WatchSession \/ KillExpired \/ Close
  BY <1>4 DEF SessionExpires, CancelSession, WatchSession, KillExpired, Close, Terminated
<1>5. CASE UNCHANGED vars  BY <1>5 DEF vars
<1> QED  BY <1>1, <1>2, <1>3, <1>4, <1>5

(* Only a live request is written: one of its kind, behind all others.     *)
LEMMA WriterSendsStep == IInv /\ WireInv /\ WriterSends => WireInv'
<1> SUFFICES ASSUME IInv, WireInv, WriterSends PROVE WireInv'  OBVIOUS
<1> DEFINE c == writer.from
<1>1. /\ c \in Callers /\ op[c].at = "await" /\ token = c /\ InSend(c)
      /\ writer.kind = op[c].kind /\ writer.kind \in InputOps
  BY NativeSessionAssumption DEF IInv, TypeOK, SendTypes, WriterOwns, TokenHeld, SendsGuarded,
     WireInv, WritesRest, WriterSends, InSend
<1>2. /\ wire \in Seq(InputOps) /\ wire' = Append(wire, writer.kind)
      /\ writer' = [writer EXCEPT !.at = "sending"] /\ ~ctxDone /\ writer.live
      /\ writer.at = "taken" /\ UNCHANGED <<gateVars, inputVars, lifeVars, token, op>>
  BY DEF IInv, TypeOK, SendTypes, WriterSends
<1>3. \A k : Written(k)' <=> Written(k) \/ k = writer.kind  BY <1>2 DEF Written
<1>4. writer \in [at : {"taken", "sending"}, kind : InputOps, from : Callers, live : BOOLEAN]
  BY <1>2 DEF IInv, TypeOK, SendTypes, Requests, WriterIdle, WriterStopped
<1>5. writer'.at = "sending" /\ writer'.kind = writer.kind /\ writer'.from = c /\ writer'.live
  BY <1>2, <1>4
<1>6. WritesRest'  BY <1>1, <1>2, <1>3, <1>5 DEF WireInv, WritesRest
<1>7. EndRests'  BY <1>2, <1>3 DEF WireInv, EndRests, gateVars, inputVars, lifeVars
<1>8. InFlight(writer.kind)'  BY <1>1, <1>2, <1>5 DEF InFlight
<1>9. \A k : ~InFlight(k)
  BY <1>1, <1>2 DEF InFlight, IInv, TokenHeld
<1>10. ActivityRests'
  <2>1. activityStarted <=> writer.kind # "start"  BY <1>1 DEF IInv, SendsGuarded
  <2>2. ~killPending /\ ~terminal /\ writer.kind # "end" => ~Written("end")
    BY <1>1, <1>2, <1>9, <2>1 DEF WireInv, ActivityRests
  <2>3. wire' # << >>  BY <1>2
  <2> QED  BY <1>2, <1>3, <1>8, <2>1, <2>2, <2>3
      DEF WireInv, ActivityRests, InSend, inputVars, lifeVars
<1>11. WireOrder'
  <2>1. SUFFICES ASSUME ~killPending, ~terminal PROVE WireOrder'
    BY <1>2 DEF WireOrder, lifeVars
  <2>2. wire = << >> <=> writer.kind = "start"
    BY <1>1, <1>2, <1>9, <2>1 DEF WireInv, ActivityRests, IInv, SendsGuarded
  <2>3. ~Written("end")
    BY <1>1, <1>2, <1>9, <2>1 DEF WireInv, ActivityRests, IInv, SendsGuarded
  <2> QED  BY <1>2, <2>1, <2>2, <2>3 DEF WireInv, WireOrder, Written
<1> QED  BY <1>6, <1>7, <1>10, <1>11 DEF WireInv

(* Every other step of an operation or of the writer leaves the wire, and  *)
(* what it changes of the flags is what it wrote.                          *)
LEMMA WireStep == IInv /\ WireInv /\ [Next]_vars => WireInv'
<1> SUFFICES ASSUME IInv, WireInv, [Next]_vars PROVE WireInv'  OBVIOUS
<1> USE NativeSessionAssumption DEF WireInv, WritesRest, EndRests, ActivityRests, WireOrder,
    Written, InFlight, IInv, TypeOK, SendTypes, FlagTypes, TokenHeld, SendsGuarded, WriterOwns,
    CommitRests, InSend, Ops, Idle, Requests, WriterIdle, WriterStopped, gateVars, inputVars,
    lifeVars, sendVars
<1>1. CASE \E c \in Callers, k \in InputOps \union {"commit"} : Call(c, k)
  BY <1>1, SMTT(60) DEF Call
<1>2. CASE \E c \in Callers : AcquireToken(c)
  BY <1>2, SMTT(60) DEF AcquireToken, MayLock
<1>3. CASE \E c \in Callers : HandOver(c)
  BY <1>3, SMTT(60) DEF HandOver
<1>4. CASE \E c \in Callers : GiveUpToken(c)
  BY <1>4, SMTT(60) DEF GiveUpToken
<1>5. CASE \E c \in Callers : RefuseInput(c)
  BY <1>5, SMTT(60) DEF RefuseInput, Return
<1>6. CASE \E c \in Callers : InputLimit(c)
  BY <1>6, SMTT(60) DEF InputLimit, Return, Terminated
<1>7. CASE \E c \in Callers : BeginInput(c)
  BY <1>7, SMTT(60) DEF BeginInput, WrongState
<1>8. CASE \E c \in Callers : ExpireSend(c)
  BY <1>8, SMTT(60) DEF ExpireSend, Return
<1>9. CASE \E c \in Callers : SendSucceeds(c)
  BY <1>9, SMTT(60) DEF SendSucceeds, InputDone, Return
<1>10. CASE \E c \in Callers : SendSeesSessionEnd(c)
  BY <1>10, SMTT(60) DEF SendSeesSessionEnd, InputDone, Return
<1>11. CASE \E c \in Callers : CommitOutput(c)
  BY <1>11, SMTT(60) DEF CommitOutput, CommitAllowed, Return
<1>12. CASE WriterStops
  BY <1>12, SMTT(60) DEF WriterStops, Answer
<1>13. CASE WriterSkips
  BY <1>13, SMTT(60) DEF WriterSkips
<1>14. CASE WriterSent
  BY <1>14, SMTT(60) DEF WriterSent, Answer
<1>15. CASE WriterFails
  BY <1>15, SMTT(60) DEF WriterFails, Terminated, Answer
<1>16. CASE WriterSends  BY <1>16, WriterSendsStep
<1>17. CASE \/ DiscardOutput \/ Park \/ LeaveReceive \/ \E n \in ready : Take(n)
            \/ \E m \in Messages : ProviderMessage(m)
            \/ SessionExpires \/ CancelSession \/ WatchSession \/ KillExpired \/ Close
            \/ UNCHANGED vars
  BY <1>17, BesideTheWrites, AsideStep
<1> QED
  BY <1>1, <1>2, <1>3, <1>4, <1>5, <1>6, <1>7, <1>8, <1>9, <1>10, <1>11, <1>12,
     <1>13, <1>14, <1>15, <1>16, <1>17 DEF Next, Proceed, Writer

(* A session that was just opened has written nothing.                     *)
LEMMA InitWire == Init => WireInv
BY DEF Init, WireInv, WritesRest, EndRests, ActivityRests, WireOrder, Written, InFlight, InSend,
       Idle, WriterIdle

(* What was written and what the flags say agree in every session.         *)
THEOREM WireAlways == Spec => []WireInv
BY InitWire, WireStep, Invariance, PTL DEF Spec

(* Inputs reach the provider as start pcm* end, whoever gave up on the way. *)
THEOREM WireOrderAlways == Spec => []WireOrder
<1>1. WireInv => WireOrder  BY DEF WireInv
<1> QED  BY <1>1, WireAlways, PTL

(* A committed turn rests on an ActivityEnd that was written, although     *)
(* EndActivity may report success without a write.                         *)
THEOREM CommittedWasSent == Spec => []CommittedInputReachedProvider
<1>1. WireInv => CommittedInputReachedProvider
  BY DEF WireInv, EndRests, Written, CommittedInputReachedProvider
<1> QED  BY <1>1, WireAlways, PTL
-----------------------------------------------------------------------------
(* The order in which Receive returns the model's output.                  *)

(* Output that is still queued was decoded after all output that was read. *)
QueuedAfterTaken ==
  \A i \in DOMAIN taken, n \in ready \union held :
    Gated(taken[i]) /\ Gated(n) => taken[i] < n

(* capDelivered remembers that Receive returned the final caption.         *)
CaptionTaken == capDelivered => \E j \in DOMAIN taken : stream[taken[j]] = "finalCaption"

OutputBehindCaption ==
  \A i \in DOMAIN taken : Gated(taken[i]) =>
    \E j \in 1..(i - 1) : stream[taken[j]] = "finalCaption"

OrderInv == QueuedAfterTaken /\ OutputInOrder /\ CaptionTaken /\ OutputBehindCaption

(* A step that reads nothing and decodes nothing: at most it empties.      *)
Unread ==
  /\ UNCHANGED <<stream, taken>>
  /\ ready' \union held' \subseteq ready \union held
  /\ capDelivered' => capDelivered

(* A step that reads nothing leaves the order of what was read.            *)
LEMMA UnreadStep == OrderInv /\ Unread => OrderInv'
BY DEF OrderInv, QueuedAfterTaken, OutputInOrder, CaptionTaken, OutputBehindCaption,
       Gated, Unread

(* All steps but Receive's and the provider's read nothing.                *)
LEMMA OthersReadNothing ==
  ASSUME IInv, [Next]_vars, ~ \E n \in ready : Take(n), ~ \E m \in Messages : ProviderMessage(m)
  PROVE  Unread
<1> USE DEF Unread, queueVars, gateVars
<1>1. ASSUME NEW c \in Callers, NEW k \in InputOps \union {"commit"}, Call(c, k) PROVE Unread
  BY <1>1 DEF Call
<1>2. ASSUME NEW c \in Callers, AcquireToken(c) \/ HandOver(c) \/ GiveUpToken(c) PROVE Unread
  BY <1>2 DEF AcquireToken, HandOver, GiveUpToken
<1>3. ASSUME NEW c \in Callers, RefuseInput(c) \/ ExpireSend(c) \/ SendSucceeds(c) \/ SendSeesSessionEnd(c)
      PROVE Unread
  BY <1>3 DEF RefuseInput, ExpireSend, SendSucceeds, SendSeesSessionEnd
<1>4. ASSUME NEW c \in Callers, BeginInput(c) PROVE Unread
  BY <1>4 DEF BeginInput, OutputDropped
<1>5. ASSUME NEW c \in Callers, CommitOutput(c) PROVE Unread
  BY <1>5 DEF CommitOutput
<1>6. ASSUME NEW c \in Callers, InputLimit(c) PROVE Unread
  BY <1>6 DEF InputLimit, Terminated
<1>7. ASSUME WriterStops \/ WriterSkips \/ WriterSends \/ WriterSent PROVE Unread
  <2>1. UNCHANGED <<queueVars, gateVars>>
    BY <1>7 DEF WriterStops, WriterSkips, WriterSends, WriterSent
  <2> QED  BY <2>1
<1>8. ASSUME DiscardOutput PROVE Unread  BY <1>8 DEF DiscardOutput, OutputDropped
<1>9. ASSUME Park \/ LeaveReceive \/ SessionExpires \/ CancelSession PROVE Unread
  BY <1>9 DEF Park, LeaveReceive, SessionExpires, CancelSession
<1>10. ASSUME WriterFails \/ WatchSession \/ KillExpired \/ Close PROVE Unread
  <2>1. Terminated /\ UNCHANGED <<stream, taken, gateVars>>
    BY <1>10 DEF WriterFails, WatchSession, KillExpired, Close
  <2> QED  BY <2>1 DEF Terminated
<1>11. ASSUME UNCHANGED vars PROVE Unread  BY <1>11 DEF vars
<1> QED
  BY <1>1, <1>2, <1>3, <1>4, <1>5, <1>6, <1>7, <1>8, <1>9, <1>10, <1>11 DEF Next, Proceed, Writer

(* Receive takes the first of the readable output, and nothing is held     *)
(* back then.                                                              *)
LEMMA TakeInOrder ==
  ASSUME IInv, OrderInv, NEW n \in ready, Take(n)
  PROVE  OrderInv'
<1>1. /\ taken \in Seq(1..Len(stream)) /\ n \in 1..Len(stream) /\ mark \in Nat
      /\ ready \subseteq 1..Len(stream) /\ held \subseteq 1..Len(stream) /\ Len(stream) \in Nat
  BY DEF IInv, TypeOK, QueueTypes
<1>2. /\ taken' = Append(taken, n) /\ ready' = ready \ {n} /\ UNCHANGED <<stream, held, mark>>
      /\ capDelivered' = (capDelivered \/ stream[n] = "finalCaption")
      /\ \A m \in ready : Position(n) <= Position(m)
  BY DEF Take, NextReady
<1>3. /\ Len(taken') = Len(taken) + 1 /\ taken'[Len(taken) + 1] = n /\ Len(taken) \in Nat
      /\ \A i \in 1..Len(taken) : taken'[i] = taken[i]
      /\ DOMAIN taken' = 1..(Len(taken) + 1) /\ DOMAIN taken = 1..Len(taken)
  BY <1>1, <1>2
<1>4. Gated(n) => held = {} /\ capDelivered
  BY DEF IInv, CommitRests, QueuesSettled, HeldUntilCommit
<1>5. ASSUME NEW m \in ready, Gated(n), Gated(m), m # n PROVE n < m
  BY <1>1, <1>2, <1>5 DEF Position
<1>6. QueuedAfterTaken'
  BY <1>1, <1>2, <1>3, <1>4, <1>5 DEF OrderInv, QueuedAfterTaken, Gated
<1>7. OutputInOrder'
  BY <1>1, <1>2, <1>3 DEF OrderInv, OutputInOrder, QueuedAfterTaken, Gated
<1>8. CaptionTaken'
  <2>1. SUFFICES ASSUME capDelivered' PROVE \E j \in DOMAIN taken' : stream[taken'[j]] = "finalCaption"
    BY <1>2 DEF CaptionTaken
  <2>2. CASE capDelivered
    <3>1. PICK j \in DOMAIN taken : stream[taken[j]] = "finalCaption"
      BY <2>2 DEF OrderInv, CaptionTaken
    <3> QED  BY <1>3, <3>1
  <2>3. CASE stream[n] = "finalCaption"  BY <1>3, <2>3
  <2> QED  BY <1>2, <2>1, <2>2, <2>3
<1>9. OutputBehindCaption'
  <2>1. SUFFICES ASSUME NEW i \in DOMAIN taken', Gated(taken'[i])
                 PROVE  \E j \in 1..(i - 1) : stream[taken'[j]] = "finalCaption"
    BY <1>2 DEF OutputBehindCaption, Gated
  <2>2. CASE i \in 1..Len(taken)
    <3>1. PICK j \in 1..(i - 1) : stream[taken[j]] = "finalCaption"
      BY <1>3, <2>1, <2>2 DEF OrderInv, OutputBehindCaption
    <3> QED  BY <1>3, <2>2, <3>1
  <2>3. CASE i = Len(taken) + 1
    <3>1. PICK j \in DOMAIN taken : stream[taken[j]] = "finalCaption"
      BY <1>3, <1>4, <2>1, <2>3 DEF OrderInv, CaptionTaken
    <3> QED  BY <1>3, <2>3, <3>1
  <2> QED  BY <1>3, <2>1, <2>2, <2>3
<1> QED  BY <1>6, <1>7, <1>8, <1>9 DEF OrderInv

(* What the provider sends comes behind all that was decoded.              *)
LEMMA MessageInOrder ==
  ASSUME IInv, OrderInv, NEW m \in Messages, ProviderMessage(m)
  PROVE  OrderInv'
<1>1. QueueTypes /\ taken \in Seq(1..Len(stream))  BY DEF IInv, TypeOK, QueueTypes
<1>2. UNCHANGED <<taken, capDelivered>>  BY DEF ProviderMessage
<1>3. /\ Len(stream) \in Nat /\ \A n \in 1..Len(stream) : stream'[n] = stream[n]
      /\ m \in Seq(Kinds) /\ Len(m) \in Nat  BY <1>1, MessageNumbers
<1>4. \A i \in DOMAIN taken : taken[i] \in 1..Len(stream)  BY <1>1
<1>5. ASSUME NEW n \in ready' \union held'
      PROVE  n \in ready \union held \/ (n \in Int /\ n > Len(stream))
  <2>1. CASE Overflows(m)
    BY <1>5, <2>1 DEF ProviderMessage, Terminated
  <2>2. CASE ~Overflows(m)
    <3>1. Enqueue(m)  BY <2>2 DEF ProviderMessage
    <3>2. Kept(m) \subseteq 1..Len(m)  BY <1>3 DEF Kept
    <3> QED  BY <1>3, <1>5, <3>1, <3>2 DEF Enqueue, Fresh, ToRead
  <2> QED  BY <2>1, <2>2
<1>6. ready \union held \subseteq 1..Len(stream)  BY <1>1 DEF QueueTypes
<1>7. QueuedAfterTaken'
  <2>1. SUFFICES ASSUME NEW i \in DOMAIN taken, NEW n \in ready' \union held',
                        Gated(taken[i])', Gated(n)'
                 PROVE taken[i] < n
    BY <1>2 DEF QueuedAfterTaken
  <2>2. CASE n \in ready \union held
    BY <1>2, <1>3, <1>4, <1>6, <2>1, <2>2 DEF OrderInv, QueuedAfterTaken, Gated
  <2>3. CASE n \in Int /\ n > Len(stream)
    BY <1>3, <1>4, <2>3
  <2> QED  BY <1>5, <2>2, <2>3
<1>8. OutputInOrder'
  BY <1>2, <1>3, <1>4 DEF OrderInv, OutputInOrder, Gated
<1>9. CaptionTaken' /\ OutputBehindCaption'
  <2>1. \A i \in DOMAIN taken : stream'[taken[i]] = stream[taken[i]]  BY <1>3, <1>4
  <2>2. DOMAIN taken = 1..Len(taken) /\ Len(taken) \in Nat  BY <1>1
  <2> QED  BY <1>2, <2>1, <2>2 DEF OrderInv, CaptionTaken, OutputBehindCaption, Gated
<1> QED  BY <1>7, <1>8, <1>9 DEF OrderInv

(* Before anything was read the order holds.                               *)
LEMMA InitOrder == Init => OrderInv
BY DEF Init, OrderInv, QueuedAfterTaken, OutputInOrder, CaptionTaken, OutputBehindCaption

(* The order in which output is read holds in every session.               *)
THEOREM OrderAlways == Spec => []OrderInv
<1>1. OrderInv /\ IInv /\ [Next]_vars => OrderInv'
  BY UnreadStep, OthersReadNothing, TakeInOrder, MessageInOrder
<1> QED  BY <1>1, InitOrder, Invariance, PTL DEF Spec

(* Receive returns the model's output in the order the provider sent it,   *)
(* although part of it waited in held and part was never held.             *)
THEOREM OutputOrdered == Spec => []OutputInOrder
<1>1. OrderInv => OutputInOrder  BY DEF OrderInv
<1> QED  BY <1>1, OrderAlways, PTL

(* No output is returned before the final caption of the person's speech.  *)
THEOREM CaptionFirst == Spec => []ReleasedAfterCaption
<1>1. OrderInv /\ TypeOK => ReleasedAfterCaption
  <2>1. SUFFICES ASSUME OrderInv, TypeOK PROVE ReleasedAfterCaption  OBVIOUS
  <2>2. DOMAIN taken = 1..Len(taken) /\ Len(taken) \in Nat
    BY <2>1 DEF TypeOK, QueueTypes
  <2>3. \A i \in DOMAIN taken : \A j \in 1..(i - 1) : TakenKinds[j] = stream[taken[j]]
    BY <2>2 DEF TakenKinds
  <2> QED  BY <2>1, <2>3 DEF OrderInv, OutputBehindCaption, ReleasedAfterCaption
<1> QED  BY <1>1, OrderAlways, TypeCorrect, PTL
=============================================================================
