---------------------------- MODULE GuildProofs ----------------------------
(***************************************************************************)
(* Theorems about Guild, for any number of tracks, channels, workers,      *)
(* clients and requests.                                                   *)
(***************************************************************************)
EXTENDS Guild, FiniteSetTheorems, TLAPS

USE DEF Actors, MaybeTrack, MaybeChannel

LEMMA RoundDivTyped ==
    ASSUME NEW a \in Int
    PROVE  RoundDiv(a, 2) \in Int
BY DEF RoundDiv

LEMMA SpreadKeyTyped ==
    ASSUME NEW prev \in Int, NEW next \in Int
    PROVE  SpreadKey(prev, next, 1, 1) \in Int
<1>1. prev * (1 + 1) + (next - prev) * 1 \in Int  OBVIOUS
<1>2. 1 + 1 = 2  OBVIOUS
<1> QED  BY <1>1, <1>2, RoundDivTyped DEF SpreadKey

LEMMA ScanKeyTyped ==
    ASSUME NEW q, q \subseteq Tracks, NEW key \in [Tracks -> Int], NEW p
    PROVE  ScanKey(q, key, p) \subseteq Int \cup {NoKey}
BY DEF ScanKey, AtPosition

LEMMA OrdKeyRangeTyped ==
    ASSUME NEW qlen, NEW pos, NEW prev \in Int \cup {NoKey}, NEW next \in Int \cup {NoKey}
    PROVE  OrdKeyRange(qlen, pos, prev, next) \in [prev : Int, next : Int, first : BOOLEAN]
BY OrdKeyConstants DEF OrdKeyRange, DefaultRange, KeyRange

LEMMA InitTyped == Init => TypeOK
<1> USE OrdKeyConstants, GuildConstants, HandlerConstants, CrashConstants
<1> SUFFICES ASSUME Init PROVE TypeOK  OBVIOUS
<1> USE DEF Init
<1>1. StateTypeOK
  <2> USE DEF StateInit
  <2>1. queue \subseteq Tracks  OBVIOUS
  <2>2. ord \in [Tracks -> Int]
    <3>1. PICK rank \in [queue -> 1 .. Cardinality(queue)] :
             ord = [t \in Tracks |-> IF t \in queue THEN rank[t] * (EdgeOrdKeyDiff \div 2) ELSE 0]
      OBVIOUS
    <3>2. EdgeOrdKeyDiff \div 2 \in Int  OBVIOUS
    <3>3. \A t \in queue : rank[t] \in Int  OBVIOUS
    <3>4. \A t \in queue : rank[t] * (EdgeOrdKeyDiff \div 2) \in Int  BY <3>2, <3>3
    <3> QED  BY <3>1, <3>4
  <2>3. row \in GuildRow  BY DEF GuildRow
  <2> QED  BY <2>1, <2>2, <2>3 DEF StateTypeOK
<1>2. ConnTypeOK  BY DEF ConnInit, ConnTypeOK, NotConnecting, Call, ConnectSteps
<1>3. LoopTypeOK  BY DEF LoopInit, LoopTypeOK, LoopSteps
<1>4. WorkerTypeOK  BY DEF WorkerInit, WorkerTypeOK, NotWorking, Working, WorkerSteps
<1>5. RpcTypeOK  BY DEF RpcInit, RpcTypeOK, NoCall, Request, MakeCall, CallType, CallSteps, NoRange, KeyRange
<1> QED  BY <1>1, <1>2, <1>3, <1>4, <1>5 DEF TypeOK

LEMMA DropRowsTyped ==
    ASSUME StateTypeOK, NEW gone, DropRows(gone)
    PROVE  queue' \subseteq queue /\ ord' \in [Tracks -> Int]
BY DEF StateTypeOK, DropRows

LEMMA RequeueRowTyped ==
    ASSUME StateTypeOK, NEW t, RequeueRow(t)
    PROVE  queue' = queue /\ ord' \in [Tracks -> Int]
<1> USE OrdKeyConstants
<1>1. RequeueKeys(queue, ord) \subseteq Int  BY DEF StateTypeOK, RequeueKeys
<1> QED  BY <1>1 DEF StateTypeOK, RequeueRow

(* What the actions of PlayLoop and VoiceConnect leave well typed.         *)
LEMMA LoopTyped == TypeOK /\ DoLoop => TypeOK'
<1> SUFFICES ASSUME TypeOK, DoLoop PROVE TypeOK'  OBVIOUS
<1> USE DEF TypeOK, DoLoop, queueVars, wires, voice, rpcVars, StateTypeOK, LoopTypeOK, LoopSteps
<1>1. UNCHANGED <<worker, rpcVars, crashes>>  OBVIOUS
<1>2. WorkerTypeOK' /\ RpcTypeOK' /\ crashes' \in 0 .. MaxCrashes
  BY <1>1 DEF WorkerTypeOK, RpcTypeOK
<1>3. CASE Reload
  BY <1>2, <1>3 DEF Reload, CleanOnResync, ConnTypeOK
<1>4. CASE NextTrack
  <2>1. CurrentTrack \subseteq Tracks  BY DEF CurrentTrack, Heads
  <2>2. remote' \in MaybeTrack /\ (lpc' = "init" => remote' \in Tracks)
    BY <1>4, <2>1 DEF NextTrack
  <2>3. ConnTypeOK'  BY <1>4 DEF NextTrack, ConnectCalled, Call, ConnTypeOK, ConnectSteps
  <2>4. lpc' \in {"init", "drained", "top"}  BY <1>4 DEF NextTrack
  <2>5. UNCHANGED <<queueVars, row, mail, wires, voice, managed, old>>  BY <1>4 DEF NextTrack
  <2>6. StateTypeOK'  BY <2>5
  <2>7. LoopTypeOK'  BY <2>2, <2>4, <2>5
  <2> QED  BY <1>2, <2>3, <2>6, <2>7
<1>5. CASE Drained
  BY <1>2, <1>5 DEF Drained, ConnectDone, NotConnecting, Call, ConnTypeOK, ConnectSteps
<1>6. CASE WaitQueue
  BY <1>2, <1>6 DEF WaitQueue, ConnTypeOK
<1>7. CASE Initialize
  BY <1>2, <1>7 DEF Initialize, ConnTypeOK
<1>8. CASE Discard
  BY <1>2, <1>8, DropRowsTyped DEF Discard, ConnTypeOK
<1>9. CASE CheckVoice
  BY <1>2, <1>9 DEF CheckVoice, ConnTypeOK
<1>10. CASE CheckChannel
  BY <1>2, <1>10 DEF CheckChannel, ConnectCalled, Call, ConnTypeOK, ConnectSteps, GuildRow
<1>11. CASE Joined
  BY <1>2, <1>11 DEF Joined, ConnectDone, NotConnecting, Call, ConnTypeOK, ConnectSteps
<1>12. CASE WaitVoice
  BY <1>2, <1>12 DEF WaitVoice, ConnTypeOK
<1>13. CASE Burst
  <2>1. remote \in Tracks  BY <1>13 DEF Burst
  <2>2. LoopTypeOK'  BY <1>13, <2>1 DEF Burst, RememberThenClean
  <2> QED  BY <1>2, <1>13, <2>2 DEF Burst, ConnTypeOK
<1>14. CASE ReadLoopFlag
  BY <1>2, <1>14 DEF ReadLoopFlag, ConnTypeOK
<1>15. CASE Finish
  BY <1>2, <1>15, DropRowsTyped, RequeueRowTyped DEF Finish, ConnTypeOK
<1>16. CASE Gate
  BY <1>2, <1>16 DEF Gate, ConnTypeOK
<1>17. CASE PutBack
  BY <1>2, <1>17 DEF PutBack, ReturnPlaying, ReturnResync, ConnTypeOK
<1> QED
  BY <1>3, <1>4, <1>5, <1>6, <1>7, <1>8, <1>9, <1>10, <1>11, <1>12, <1>13,
     <1>14, <1>15, <1>16, <1>17 DEF LoopStep

LEMMA ConnectTyped == ASSUME NEW a \in Actors, TypeOK, DoConnect(a) PROVE TypeOK'
<1> USE DEF TypeOK, DoConnect, queueVars, wires, voice, rpcVars, loopVars, StateTypeOK,
            ConnTypeOK, ConnectSteps, GoTo, GuildRow
<1>1. LoopTypeOK' /\ WorkerTypeOK' /\ RpcTypeOK' /\ crashes' \in 0 .. MaxCrashes
  BY DEF LoopTypeOK, WorkerTypeOK, RpcTypeOK
<1>2. CASE StoreChannel(a)
  <2>1. conn[a].channel \in MaybeChannel  OBVIOUS
  <2>2. row' \in GuildRow  BY <1>2, <2>1 DEF StoreChannel
  <2>3. ConnTypeOK'  BY <1>2 DEF StoreChannel
  <2> QED  BY <1>1, <1>2, <2>2, <2>3 DEF StoreChannel
<1>3. CASE InspectVC(a)
  <2>1. \E step \in ConnectSteps : GoTo(a, step)  BY <1>3 DEF InspectVC
  <2>2. ConnTypeOK'  BY <2>1
  <2> QED  BY <1>1, <1>3, <2>2 DEF InspectVC
<1>4. CASE LeaveVC(a)
  <2>1. vc' \in MaybeChannel /\ panicked' \in BOOLEAN  BY <1>4 DEF LeaveVC
  <2>2. (\E step \in ConnectSteps : GoTo(a, step)) \/ conn' = conn  BY <1>4 DEF LeaveVC
  <2>3. ConnTypeOK'  BY <2>2
  <2> QED  BY <1>1, <1>4, <2>1, <2>3 DEF LeaveVC
<1>5. CASE JoinVC(a)
  <2>1. vc' \in MaybeChannel  BY <1>5 DEF JoinVC
  <2>2. ConnTypeOK'  BY <1>5 DEF JoinVC
  <2> QED  BY <1>1, <1>5, <2>1, <2>2 DEF JoinVC
<1> QED  BY <1>2, <1>3, <1>4, <1>5 DEF Connect

LEMMA WorkerTyped == ASSUME NEW w \in Workers, TypeOK, DoWorker(w) PROVE TypeOK'
<1> USE DEF TypeOK, DoWorker, queueVars, wires, voice, rpcVars, loopVars, StateTypeOK,
            WorkerTypeOK, WorkerSteps
<1>1. RpcTypeOK' /\ crashes' \in 0 .. MaxCrashes  BY DEF RpcTypeOK
<1>2. CASE ReadRow(w)
  <2>1. row.channel \in MaybeChannel /\ row.paused \in BOOLEAN  BY DEF GuildRow
  <2>2. ConnTypeOK'
    <3>1. CASE ConnectCalled(w, row.channel)
      BY <2>1, <3>1 DEF ConnectCalled, Call, ConnTypeOK, ConnectSteps
    <3>2. CASE UNCHANGED conn
      BY <3>2 DEF ConnTypeOK
    <3> QED  BY <1>2, <3>1, <3>2 DEF ReadRow
  <2>3. WorkerTypeOK'
    <3>1. Working("connecting", row.paused) \in [step : WorkerSteps, paused : BOOLEAN]
      BY <2>1, Zenon DEF Working
    <3>2. NotWorking \in [step : WorkerSteps, paused : BOOLEAN]
      BY DEF NotWorking, Working
    <3>3. \E x \in [step : WorkerSteps, paused : BOOLEAN] : worker' = [worker EXCEPT ![w] = x]
      BY <1>2, <3>1, <3>2, Zenon DEF ReadRow
    <3> QED  BY <3>3
  <2>4. LoopTypeOK'  BY <1>2 DEF ReadRow, EnsureGuild, LoopTypeOK, LoopSteps
  <2> QED  BY <1>1, <1>2, <2>2, <2>3, <2>4 DEF ReadRow
<1>3. CASE Connected(w)
  <2>1. ConnTypeOK'
    BY <1>3 DEF Connected, ConnectDone, NotConnecting, Call, ConnTypeOK, ConnectSteps
  <2>2. WorkerTypeOK'
    <3>1. CASE worker' = [worker EXCEPT ![w].step = "signal"]
      BY <3>1
    <3>2. CASE worker' = [worker EXCEPT ![w] = NotWorking]
      BY <3>2 DEF NotWorking, Working
    <3> QED  BY <1>3, <3>1, <3>2 DEF Connected
  <2> QED  BY <1>1, <1>3, <2>1, <2>2 DEF Connected, LoopTypeOK
<1>4. CASE SignalResync(w)
  BY <1>1, <1>4 DEF SignalResync, ConnTypeOK, LoopTypeOK
<1>5. CASE SetGate(w)
  <2>1. WorkerTypeOK'  BY <1>5 DEF SetGate, NotWorking, Working
  <2>2. playing' \in BOOLEAN /\ gateWanted' \in BOOLEAN
    BY <1>5, Zenon DEF SetGate, ApplyPause
  <2> QED  BY <1>1, <1>5, <2>1, <2>2 DEF SetGate, ConnTypeOK, LoopTypeOK
<1> QED  BY <1>2, <1>3, <1>4, <1>5 DEF WorkerStep

LEMMA DeliveryTyped ==
    ASSUME TypeOK,
           DoDeliver \/ DoSkip \/ (\E w \in Workers : DoReceive(w) \/ DoTakeOver(w))
    PROVE  TypeOK'
<1> USE DEF TypeOK, queueVars, wires, voice, rpcVars, loopVars, StateTypeOK
<1>1. CASE DoDeliver
  BY <1>1 DEF DoDeliver, DeliverCurrent, EnsureGuild, ConnTypeOK, LoopTypeOK, LoopSteps,
              WorkerTypeOK, RpcTypeOK
<1>2. CASE DoSkip
  BY <1>2 DEF DoSkip, SkipMessage, ConnTypeOK, LoopTypeOK, WorkerTypeOK, RpcTypeOK
<1>3. ASSUME NEW w \in Workers, DoReceive(w) PROVE TypeOK'
  BY <1>3 DEF DoReceive, DeliverGuild, Working, ConnTypeOK, LoopTypeOK, WorkerTypeOK,
              WorkerSteps, RpcTypeOK
<1>4. ASSUME NEW w \in Workers, DoTakeOver(w) PROVE TypeOK'
  BY <1>4 DEF DoTakeOver, StartManaging, Working, ConnTypeOK, LoopTypeOK, WorkerTypeOK,
              WorkerSteps, RpcTypeOK
<1> QED  BY <1>1, <1>2, <1>3, <1>4

LEMMA CrashTyped == TypeOK /\ Crash => TypeOK'
<1> SUFFICES ASSUME TypeOK, Crash PROVE TypeOK'  OBVIOUS
<1> USE DEF TypeOK, Crash
<1>1. StateTypeOK'  BY DEF StateTypeOK
<1>2. ConnTypeOK'  BY DEF ConnTypeOK, NotConnecting, Call, ConnectSteps
<1>3. LoopTypeOK'  BY DEF LoopTypeOK, LoopSteps
<1>4. WorkerTypeOK'  BY DEF WorkerTypeOK, NotWorking, Working, WorkerSteps
<1>5. RpcTypeOK'  BY DEF RpcTypeOK, rpcVars
<1>6. crashes' \in 0 .. MaxCrashes  BY CrashConstants
<1> QED  BY <1>1, <1>2, <1>3, <1>4, <1>5, <1>6

LEMMA NoRangeTyped == NoRange \in [prev : Int, next : Int, first : BOOLEAN]
BY DEF NoRange, KeyRange

LEMMA PlainCallTyped ==
    ASSUME NEW op \in AllOps, NEW step \in CallSteps, NEW ch \in MaybeChannel
    PROVE  Request(op, step) \in CallType /\ ChannelRequest(op, step, ch) \in CallType
BY NoRangeTyped DEF Request, ChannelRequest, MakeCall, CallType

LEMMA BeginTyped == ASSUME NEW c \in Clients, TypeOK, DoBegin(c) PROVE TypeOK'
<1> USE DEF TypeOK, DoBegin
<1> USE HandlerConstants
<1>1. ASSUME NEW request \in CallType, Accept(c, request)
      PROVE  TypeOK'
  <2>1. StateTypeOK'  BY <1>1 DEF Accept, StateTypeOK, queueVars, wires, voice
  <2>2. ConnTypeOK' /\ LoopTypeOK' /\ WorkerTypeOK' /\ crashes' \in 0 .. MaxCrashes
    BY DEF ConnTypeOK, LoopTypeOK, WorkerTypeOK, loopVars
  <2>3. RpcTypeOK'
    <3>1. call' \in [Clients -> CallType]  BY <1>1 DEF Accept, RpcTypeOK
    <3>2. budget' \in 0 .. MaxCalls  BY <1>1 DEF Accept, RpcTypeOK
    <3> QED  BY <3>1, <3>2 DEF RpcTypeOK
  <2> QED  BY <2>1, <2>2, <2>3
<1> USE DEF AllOps, CallSteps
<1>2. ASSUME NEW op, NEW step \in CallSteps, Accept(c, Request(op, step)) PROVE TypeOK'
  <2>1. op \in AllOps  BY <1>2 DEF Accept, Request, MakeCall
  <2>2. Request(op, step) \in CallType
    BY <2>1, NoRangeTyped DEF Request, MakeCall, CallType
  <2> QED  BY <1>1, <1>2, <2>2
<1>3. CASE Join(c)
  <2>1. PICK ch \in Channels : Accept(c, ChannelRequest("join", "setChannel", ch))
    BY <1>3 DEF Join
  <2> QED  BY <1>1, <2>1, PlainCallTyped
<1>4. CASE Leave(c)  BY <1>2, <1>4 DEF Leave
<1>5. CASE Pause(c)
  <2>1. PauseRequest("pause", TRUE) \in CallType
    BY NoRangeTyped DEF PauseRequest, MakeCall, CallType
  <2> QED  BY <1>1, <1>5, <2>1 DEF Pause
<1>6. CASE Resume(c)
  <2>1. PauseRequest("resume", FALSE) \in CallType
    BY NoRangeTyped DEF PauseRequest, MakeCall, CallType
  <2> QED  BY <1>1, <1>6, <2>1 DEF Resume
<1>7. CASE LoopOp(c)  BY <1>2, <1>7 DEF LoopOp
<1>8. CASE Stop(c)  BY <1>2, <1>8 DEF Stop
<1>9. CASE Skip(c)  BY <1>2, <1>9 DEF Skip
<1>10. CASE Seek(c)  BY <1>2, <1>10 DEF Seek
<1>11. CASE Remove(c)
  <2>1. PICK p \in Positions : Accept(c, RemoveRequest(IF p < 0 THEN 0 ELSE p))
    BY <1>11 DEF Remove
  <2>2. RemoveRequest(IF p < 0 THEN 0 ELSE p) \in CallType
    BY NoRangeTyped DEF RemoveRequest, MakeCall, CallType
  <2> QED  BY <1>1, <2>1, <2>2
<1>12. CASE Play(c)
  <2>1. PICK ch \in Channels, p \in Positions : Accept(c, PlayRequest(ch, row.channel, p))
    BY <1>12 DEF Play
  <2>2. row.channel \in MaybeChannel  BY DEF StateTypeOK, GuildRow
  <2>3. PlayRequest(ch, row.channel, p) \in CallType
    BY <2>2, NoRangeTyped DEF PlayRequest, MakeCall, CallType
  <2> QED  BY <1>1, <2>1, <2>3
<1> QED
  BY <1>3, <1>4, <1>5, <1>6, <1>7, <1>8, <1>9, <1>10, <1>11, <1>12 DEF Begin

LEMMA RpcTyped == ASSUME NEW c \in Clients, TypeOK, DoRpc(c) PROVE TypeOK'
<1> USE DEF TypeOK, DoRpc
<1>1. ConnTypeOK' /\ LoopTypeOK' /\ WorkerTypeOK' /\ crashes' \in 0 .. MaxCrashes
  BY DEF ConnTypeOK, LoopTypeOK, WorkerTypeOK, loopVars
<1>2. UNCHANGED <<wires, voice, managed>>  OBVIOUS
<1>3. /\ call[c].step \in CallSteps /\ call[c].channel \in MaybeChannel
      /\ call[c].snap \in MaybeChannel /\ call[c].paused \in BOOLEAN
      /\ call[c].position \in Int /\ call[c].qlen \in Nat
      /\ call[c].range \in [prev : Int, next : Int, first : BOOLEAN]
      /\ call[c].track \in MaybeTrack
  BY DEF RpcTypeOK, CallType
<1>4. ASSUME NEW r \in CallType, call' = [call EXCEPT ![c] = r], budget' = budget
      PROVE  RpcTypeOK'
  BY <1>4 DEF RpcTypeOK
<1>5. ASSUME Return(c), budget' = budget PROVE RpcTypeOK'
  <2>1. NoCall \in CallType
    BY DEF NoCall, Request, MakeCall, CallType, CallSteps, NoRange, KeyRange
  <2> QED  BY <1>4, <1>5, <2>1 DEF Return
<1>6. ASSUME NEW step \in CallSteps, Goto(c, step), budget' = budget PROVE RpcTypeOK'
  BY <1>6 DEF Goto, RpcTypeOK, CallType
<1> USE DEF CallSteps
<1>10. CASE SetChannel(c)
  <2>1. StateTypeOK'  BY <1>2, <1>3, <1>10 DEF SetChannel, StateTypeOK, GuildRow, queueVars, wires, voice
  <2>2. RpcTypeOK'  BY <1>6, <1>10 DEF SetChannel
  <2> QED  BY <1>1, <2>1, <2>2
<1>11. CASE SetPaused(c)
  <2>1. row' \in GuildRow  BY <1>3, <1>11, Zenon DEF SetPaused, StateTypeOK, GuildRow
  <2>2. StateTypeOK'  BY <1>2, <1>11, <2>1 DEF SetPaused, StateTypeOK, queueVars, wires, voice
  <2>3. RpcTypeOK'  BY <1>6, <1>11 DEF SetPaused
  <2> QED  BY <1>1, <2>2, <2>3
<1>12. CASE ToggleLoop(c)
  <2>1. row' \in GuildRow  BY <1>12 DEF ToggleLoop, StateTypeOK, GuildRow
  <2>2. StateTypeOK'  BY <1>2, <1>12, <2>1 DEF ToggleLoop, StateTypeOK, queueVars, wires, voice
  <2>3. RpcTypeOK'  BY <1>5, <1>12 DEF ToggleLoop
  <2> QED  BY <1>1, <2>2, <2>3
<1>13. CASE DeleteAll(c)
  <2>1. StateTypeOK'
    BY <1>2, <1>13, DropRowsTyped DEF DeleteAll, StateTypeOK, wires, voice
  <2>2. RpcTypeOK'  BY <1>6, <1>13 DEF DeleteAll
  <2> QED  BY <1>1, <2>1, <2>2
<1>14. CASE ReadHead(c)
  <2>1. StateTypeOK'  BY <1>2, <1>14 DEF ReadHead, StateTypeOK, queueVars, wires, voice
  <2>2. CASE Return(c)  BY <1>1, <1>5, <1>14, <2>1, <2>2 DEF ReadHead
  <2>3. ASSUME NEW t \in CurrentTrack, 
               call' = [call EXCEPT ![c] = [call[c] EXCEPT !.step = "readLoop", !.track = t]]
        PROVE  RpcTypeOK'
    <3>1. t \in Tracks  BY DEF CurrentTrack, Heads, StateTypeOK
    <3>2. [call[c] EXCEPT !.step = "readLoop", !.track = t] \in CallType
      BY <3>1 DEF RpcTypeOK, CallType
    <3> QED  BY <1>4, <1>14, <2>3, <3>2 DEF ReadHead
  <2> QED  BY <1>1, <1>14, <2>1, <2>2, <2>3 DEF ReadHead
<1>15. CASE ReadLoop(c)
  <2>1. StateTypeOK'  BY <1>2, <1>15 DEF ReadLoop, StateTypeOK, queueVars, wires, voice
  <2>2. RpcTypeOK'  BY <1>6, <1>15 DEF ReadLoop
  <2> QED  BY <1>1, <2>1, <2>2
<1>16. CASE DeleteOrRequeue(c)
  <2>1. queue' \subseteq queue /\ ord' \in [Tracks -> Int]
    BY <1>16, DropRowsTyped, RequeueRowTyped DEF DeleteOrRequeue
  <2>2. StateTypeOK'  BY <1>2, <1>16, <2>1 DEF DeleteOrRequeue, StateTypeOK, wires, voice
  <2>3. RpcTypeOK'  BY <1>6, <1>16 DEF DeleteOrRequeue
  <2> QED  BY <1>1, <2>2, <2>3
<1>17. CASE RemoveAt(c)
  <2>1. queue' \subseteq queue /\ ord' \in [Tracks -> Int] /\ silent' \subseteq Tracks
    BY <1>17, DropRowsTyped DEF RemoveAt, StateTypeOK, AtPosition
  <2>2. StateTypeOK'  BY <1>2, <1>17, <2>1 DEF RemoveAt, StateTypeOK, wires, voice
  <2>3. RpcTypeOK'  BY <1>5, <1>6, <1>17 DEF RemoveAt
  <2> QED  BY <1>1, <2>2, <2>3
<1>18. CASE CountTracks(c)
  <2>1. StateTypeOK'  BY <1>2, <1>18 DEF CountTracks, StateTypeOK, queueVars, wires, voice
  <2>2. Cardinality(queue) \in Nat
    BY GuildConstants, FS_Subset, FS_CardinalityType DEF StateTypeOK
  <2>3. [call[c] EXCEPT !.step = "rows", !.qlen = Cardinality(queue)] \in CallType
    BY <2>2 DEF RpcTypeOK, CallType
  <2>4. RpcTypeOK'  BY <1>4, <1>18, <2>3 DEF CountTracks
  <2> QED  BY <1>1, <2>1, <2>4
<1>19. CASE ReadKeys(c)
  <2>1. StateTypeOK'  BY <1>2, <1>19 DEF ReadKeys, StateTypeOK, queueVars, wires, voice
  <2> DEFINE pos == ClampPosition(call[c].position, call[c].qlen)
  <2>2. PICK prev \in ScanKey(queue, ord, pos - 1), next \in ScanKey(queue, ord, pos) :
           call' = [call EXCEPT ![c] =
             InsertRequest(call[c].channel, call[c].snap, OrdKeyRange(call[c].qlen, pos, prev, next))]
    BY <1>19, Zenon DEF ReadKeys
  <2>3. OrdKeyRange(call[c].qlen, pos, prev, next) \in [prev : Int, next : Int, first : BOOLEAN]
    <3>1. queue \subseteq Tracks /\ ord \in [Tracks -> Int]  BY DEF StateTypeOK
    <3> QED  BY <3>1, ScanKeyTyped, OrdKeyRangeTyped
  <2>4. InsertRequest(call[c].channel, call[c].snap, OrdKeyRange(call[c].qlen, pos, prev, next))
          \in CallType
    BY <1>3, <2>3 DEF InsertRequest, MakeCall, CallType, AllOps
  <2>5. RpcTypeOK'  BY <1>4, <1>19, <2>2, <2>4 DEF ReadKeys
  <2> QED  BY <1>1, <2>1, <2>5
<1>19a. CASE FailToReadKeys(c)
  <2>1. StateTypeOK'  BY <1>2, <1>19a DEF FailToReadKeys, StateTypeOK, queueVars, wires, voice
  <2>2. DefaultRange \in [prev : Int, next : Int, first : BOOLEAN]
    BY OrdKeyConstants DEF DefaultRange, KeyRange
  <2>3. InsertRequest(call[c].channel, call[c].snap, DefaultRange) \in CallType
    BY <1>3, <2>2 DEF InsertRequest, MakeCall, CallType, AllOps
  <2>4. RpcTypeOK'  BY <1>4, <1>19a, <2>3 DEF FailToReadKeys
  <2> QED  BY <1>1, <2>1, <2>4
<1>20. CASE InsertTrack(c)
  <2>1. PICK t \in unused :
           /\ queue' = queue \cup {t}
           /\ ord' = [ord EXCEPT ![t] = SpreadKey(call[c].range.prev, call[c].range.next, 1, 1)]
           /\ unused' = unused \ {t}
           /\ silent' \subseteq silent \cup {t}
           /\ \/ call' = [call EXCEPT ![c] = NoCall]
              \/ call' = [call EXCEPT ![c] = Request("play", "pubBoth")]
              \/ call' = [call EXCEPT ![c] = ChannelRequest("play", "setChannel", call[c].channel)]
    BY <1>20 DEF InsertTrack
  <2>2. SpreadKey(call[c].range.prev, call[c].range.next, 1, 1) \in Int
    BY <1>3, SpreadKeyTyped
  <2>3. StateTypeOK'
    BY <1>2, <1>20, <2>1, <2>2 DEF InsertTrack, StateTypeOK, wires, voice
  <2>4. NoCall \in CallType
    BY DEF NoCall, Request, MakeCall, CallType, NoRange, KeyRange
  <2>5. /\ Request("play", "pubBoth") \in CallType
        /\ ChannelRequest("play", "setChannel", call[c].channel) \in CallType
    BY <1>3, PlainCallTyped DEF AllOps
  <2>6. RpcTypeOK'
    BY <1>4, <1>20, <2>1, <2>4, <2>5 DEF InsertTrack
  <2> QED  BY <1>1, <2>3, <2>6
<1>21. CASE SendGuild(c)
  <2>1. StateTypeOK'
    BY <1>2, <1>21 DEF SendGuild, PublishGuild, StateTypeOK, queueVars, wires, voice
  <2>2. RpcTypeOK'  BY <1>5, <1>6, <1>21 DEF SendGuild
  <2> QED  BY <1>1, <2>1, <2>2
<1>22. CASE SendCurrent(c)
  <2>1. StateTypeOK'
    BY <1>2, <1>22 DEF SendCurrent, PublishCurrent, StateTypeOK, queueVars, wires, voice
  <2>2. RpcTypeOK'  BY <1>5, <1>22 DEF SendCurrent
  <2> QED  BY <1>1, <2>1, <2>2
<1>23. CASE SendBoth(c)
  <2>1. StateTypeOK'
    BY <1>2, <1>23 DEF SendBoth, PublishBoth, StateTypeOK, queueVars, wires, voice
  <2>2. RpcTypeOK'  BY <1>5, <1>23 DEF SendBoth
  <2> QED  BY <1>1, <2>1, <2>2
<1>24. CASE FailRequest(c)
  <2>1. StateTypeOK'  BY <1>2, <1>24 DEF FailRequest, StateTypeOK, queueVars, wires, voice
  <2>2. RpcTypeOK'  BY <1>5, <1>24 DEF FailRequest
  <2> QED  BY <1>1, <2>1, <2>2
<1> QED
  BY <1>10, <1>11, <1>12, <1>13, <1>14, <1>15, <1>16, <1>17, <1>18, <1>19, <1>19a, <1>20,
     <1>21, <1>22, <1>23, <1>24 DEF RpcStep

LEMMA StepTyped == TypeOK /\ [Next]_vars => TypeOK'
<1> SUFFICES ASSUME TypeOK, [Next]_vars PROVE TypeOK'  OBVIOUS
<1>1. CASE UNCHANGED vars
  BY <1>1 DEF vars, TypeOK, StateTypeOK, ConnTypeOK, LoopTypeOK, WorkerTypeOK, RpcTypeOK,
              queueVars, wires, voice, loopVars, rpcVars
<1>2. CASE Next
  BY <1>2, LoopTyped, ConnectTyped, WorkerTyped, DeliveryTyped, CrashTyped, BeginTyped, RpcTyped
     DEF Next
<1> QED  BY <1>1, <1>2

(* Every variable keeps its type; with it, stop() always has a track to    *)
(* delete or requeue, and a burst one to send.                             *)
THEOREM TypeCorrect == Spec => []TypeOK
BY InitTyped, StepTyped, PTL DEF Spec

(***************************************************************************)
(* WakeupDue and PlaysHead.                                                *)
(***************************************************************************)

LEMMA InitHead == Init => HeadInv
BY InitTyped DEF Init, HeadInv, Placed, WakeupDue, PlaysHead, LoopInit, WorkerInit, RpcInit,
                 StateInit, NotWorking, Working, NoCall, Request, MakeCall

(* Steps that leave the queue, the signals and the requests alone and load *)
(* no track.                                                               *)
LEMMA HeadStable ==
    ASSUME HeadInv, TypeOK', Placed', ReloadDue => ReloadDue', UNCHANGED <<queue, ord, silent>>,
           remote' \in {remote, NoTrack},
           lpc' \in {"drained", "waitQueue"} => lpc \in {"drained", "waitQueue"} \/ queue = {}
    PROVE  HeadInv'
<1> USE DEF HeadInv
<1>1. WakeupDue'  BY DEF WakeupDue
<1>2. PlaysHead'  BY DEF PlaysHead
<1> QED  BY <1>1, <1>2

LEMMA LoopHead == HeadInv /\ DoLoop => HeadInv'
<1> SUFFICES ASSUME HeadInv, DoLoop PROVE HeadInv'  OBVIOUS
<1>1. TypeOK'  BY LoopTyped DEF HeadInv
<1> USE DEF HeadInv, DoLoop, queueVars, wires, voice, rpcVars
<1>2. UNCHANGED <<worker, call>>  OBVIOUS
<1>3. ASSUME UNCHANGED <<resyncPlaying, mail>>, lpc # "putResync" PROVE ReloadDue => ReloadDue'
  BY <1>2, <1>3 DEF ReloadDue, WillAnnounce
<1>4. ASSUME managed' = managed, managed,
             lpc' \in {"absent", "next", "drained", "waitQueue", "finish", "delete", "requeue"}
                => remote' = NoTrack
      PROVE  Placed'
  BY <1>2, <1>4 DEF Placed
<1>5. ASSUME lpc # "absent" PROVE managed
  BY <1>5 DEF Placed
<1>6. CASE Reload
  <2>1. Placed'  BY <1>4, <1>5, <1>6 DEF Reload, Placed
  <2>2. CASE resyncPlaying
    BY <1>1, <1>6, <2>1, <2>2 DEF Reload, CleanOnResync, WakeupDue, PlaysHead
  <2>3. CASE ~resyncPlaying
    <3>1. UNCHANGED <<resyncPlaying, remote>>
      BY <1>6, <2>3, Zenon DEF Reload, CleanOnResync, TypeOK, StateTypeOK
    <3> QED  BY <1>1, <1>3, <1>6, <2>1, <3>1, HeadStable DEF Reload
  <2> QED  BY <2>2, <2>3
<1>7. CASE NextTrack
  <2>1. remote' \in CurrentTrack \cup {NoTrack}
    BY <1>7 DEF NextTrack, Placed
  <2>2. Placed'  BY <1>4, <1>5, <1>7 DEF NextTrack, Placed
  <2>3. WakeupDue'  BY <1>7 DEF NextTrack, WakeupDue
  <2>4. PlaysHead'  BY <1>7, <2>1 DEF NextTrack, PlaysHead, CurrentTrack, Heads
  <2> QED  BY <1>1, <2>2, <2>3, <2>4
<1>8. CASE Drained
  <2>1. Placed'  BY <1>4, <1>5, <1>8 DEF Drained, Placed
  <2> QED  BY <1>1, <1>3, <1>8, <2>1, HeadStable DEF Drained
<1>9. CASE WaitQueue
  <2>1. Placed'  BY <1>4, <1>5, <1>9 DEF WaitQueue, Placed
  <2>2. remote' = NoTrack  BY <1>9 DEF WaitQueue, Placed
  <2> QED  BY <1>1, <1>9, <2>1, <2>2 DEF WaitQueue, WakeupDue, PlaysHead
<1>10. CASE Initialize
  <2>1. Placed'  BY <1>4, <1>5, <1>10 DEF Initialize, Placed
  <2> QED  BY <1>1, <1>3, <1>10, <2>1, HeadStable DEF Initialize
<1>11. CASE Discard
  <2>1. Placed'  BY <1>4, <1>5, <1>11 DEF Discard, Placed
  <2> QED  BY <1>1, <1>11, <2>1 DEF Discard, WakeupDue, PlaysHead
<1>12. CASE CheckVoice
  <2>1. Placed'  BY <1>4, <1>5, <1>12 DEF CheckVoice, Placed
  <2> QED  BY <1>1, <1>3, <1>12, <2>1, HeadStable DEF CheckVoice
<1>13. CASE CheckChannel
  <2>1. Placed'  BY <1>4, <1>5, <1>13 DEF CheckChannel, Placed
  <2> QED  BY <1>1, <1>3, <1>13, <2>1, HeadStable DEF CheckChannel
<1>14. CASE Joined
  <2>1. Placed'  BY <1>4, <1>5, <1>14 DEF Joined, Placed
  <2> QED  BY <1>1, <1>3, <1>14, <2>1, HeadStable DEF Joined
<1>15. CASE WaitVoice
  <2>1. Placed'  BY <1>4, <1>5, <1>15 DEF WaitVoice, Placed
  <2> QED  BY <1>1, <1>3, <1>15, <2>1, HeadStable DEF WaitVoice
<1>16. CASE Burst
  <2>1. Placed'  BY <1>4, <1>5, <1>16 DEF Burst, RememberThenClean, Placed
  <2> QED  BY <1>1, <1>3, <1>16, <2>1, HeadStable DEF Burst, RememberThenClean
<1>17. CASE ReadLoopFlag
  <2>1. Placed'  BY <1>4, <1>5, <1>17 DEF ReadLoopFlag, Placed
  <2> QED  BY <1>1, <1>3, <1>17, <2>1, HeadStable DEF ReadLoopFlag
<1>18. CASE Finish
  <2>1. remote = NoTrack /\ UNCHANGED remote  BY <1>18 DEF Finish, Placed
  <2>2. Placed'  BY <1>4, <1>5, <1>18, <2>1 DEF Finish
  <2> QED  BY <1>1, <1>18, <2>1, <2>2 DEF Finish, WakeupDue, PlaysHead
<1>19. CASE Gate
  <2>1. Placed'  BY <1>4, <1>5, <1>19 DEF Gate, Placed
  <2>2. ReloadDue => ReloadDue'  BY <1>2, <1>19 DEF Gate, ReloadDue, WillAnnounce
  <2> QED  BY <1>1, <1>19, <2>1, <2>2, HeadStable DEF Gate
<1>20. CASE PutBack
  <2>1. Placed'  BY <1>4, <1>5, <1>20 DEF PutBack, Placed
  <2>2. ReloadDue => ReloadDue'
    BY <1>2, <1>20 DEF PutBack, ReturnPlaying, ReturnResync, ReloadDue, WillAnnounce
  <2> QED  BY <1>1, <1>20, <2>1, <2>2, HeadStable DEF PutBack
<1> QED
  BY <1>6, <1>7, <1>8, <1>9, <1>10, <1>11, <1>12, <1>13, <1>14, <1>15, <1>16,
     <1>17, <1>18, <1>19, <1>20 DEF LoopStep

LEMMA ConnectHead == ASSUME NEW a \in Actors, HeadInv, DoConnect(a) PROVE HeadInv'
<1>1. TypeOK'  BY ConnectTyped DEF HeadInv
<1>2. UNCHANGED <<queueVars, mail, wires, managed, loopVars, worker, rpcVars>>
  BY DEF DoConnect, Connect, StoreChannel, InspectVC, LeaveVC, JoinVC, voice
<1> QED
  BY <1>1, <1>2 DEF HeadInv, Placed, WakeupDue, PlaysHead, ReloadDue, WillAnnounce,
                    queueVars, wires, loopVars, rpcVars

LEMMA WorkerHead == ASSUME NEW w \in Workers, HeadInv, DoWorker(w) PROVE HeadInv'
<1>1. TypeOK'  BY WorkerTyped DEF HeadInv
<1>2. UNCHANGED <<queueVars, mail, resyncPlaying, managed, remote, old, rpcVars>>
  BY DEF DoWorker, WorkerStep, ReadRow, Connected, SignalResync, SetGate, wires, loopVars
<1>3. \/ UNCHANGED lpc
      \/ lpc = "absent" /\ lpc' = "top"
  BY DEF DoWorker, WorkerStep, ReadRow, Connected, SignalResync, SetGate, EnsureGuild, loopVars
<1>4. worker[w].step # "idle"
  BY DEF DoWorker, WorkerStep, ReadRow, Connected, SignalResync, SetGate
<1>5. managed  BY <1>4 DEF HeadInv, Placed
<1>6. Placed'  BY <1>2, <1>3, <1>5 DEF HeadInv, Placed, rpcVars
<1>7. ReloadDue <=> ReloadDue'  BY <1>2, <1>3 DEF ReloadDue, WillAnnounce, rpcVars
<1> QED
  BY <1>1, <1>2, <1>3, <1>6, <1>7 DEF HeadInv, WakeupDue, PlaysHead, queueVars

LEMMA DeliveryHead ==
    ASSUME HeadInv,
           DoDeliver \/ DoSkip \/ (\E w \in Workers : DoReceive(w) \/ DoTakeOver(w))
    PROVE  HeadInv'
<1>1. TypeOK'  BY DeliveryTyped DEF HeadInv
<1> USE DEF HeadInv, queueVars, wires, loopVars, rpcVars
<1>2. CASE DoDeliver
  <2>1. Placed'  BY <1>2 DEF DoDeliver, DeliverCurrent, EnsureGuild, Placed
  <2>2. ReloadDue'  BY <1>2 DEF DoDeliver, DeliverCurrent, ReloadDue
  <2> QED  BY <1>1, <2>1, <2>2 DEF WakeupDue, PlaysHead
<1>3. CASE DoSkip
  <2>1. lpc = "absent" /\ remote = NoTrack  BY <1>3 DEF DoSkip, SkipMessage, Placed
  <2>2. lpc' = "absent" /\ remote' = NoTrack  BY <1>3, <2>1 DEF DoSkip, SkipMessage
  <2>3. Placed'  BY <1>3 DEF DoSkip, SkipMessage, Placed
  <2> QED  BY <1>1, <2>2, <2>3 DEF WakeupDue, PlaysHead
<1>4. ASSUME NEW w \in Workers, DoReceive(w) PROVE HeadInv'
  <2>1. Placed'
    BY <1>4 DEF DoReceive, DeliverGuild, Placed, TypeOK, WorkerTypeOK
  <2>2. ReloadDue <=> ReloadDue'
    BY <1>4 DEF DoReceive, DeliverGuild, ReloadDue, WillAnnounce, TypeOK, StateTypeOK
  <2> QED  BY <1>1, <1>4, <2>1, <2>2 DEF DoReceive, DeliverGuild, WakeupDue, PlaysHead
<1>5. ASSUME NEW w \in Workers, DoTakeOver(w) PROVE HeadInv'
  <2>1. Placed'
    BY <1>5 DEF DoTakeOver, StartManaging, Placed, TypeOK, WorkerTypeOK
  <2>2. ReloadDue <=> ReloadDue'
    BY <1>5 DEF DoTakeOver, StartManaging, ReloadDue, WillAnnounce
  <2> QED  BY <1>1, <1>5, <2>1, <2>2 DEF DoTakeOver, StartManaging, WakeupDue, PlaysHead
<1> QED  BY <1>2, <1>3, <1>4, <1>5

LEMMA CrashHead == HeadInv /\ Crash => HeadInv'
<1> SUFFICES ASSUME HeadInv, Crash PROVE HeadInv'  OBVIOUS
<1>1. TypeOK'  BY CrashTyped DEF HeadInv
<1>2. Placed'  BY DEF Crash, HeadInv, Placed, NotWorking, Working, rpcVars
<1>3. lpc' = "absent" /\ remote' = NoTrack  BY DEF Crash
<1> QED  BY <1>1, <1>2, <1>3 DEF HeadInv, WakeupDue, PlaysHead

LEMMA BeginHead == ASSUME NEW c \in Clients, HeadInv, DoBegin(c) PROVE HeadInv'
<1>1. TypeOK'  BY BeginTyped DEF HeadInv
<1>2. PICK request :
        /\ At(c, "idle")
        /\ call' = [call EXCEPT ![c] = request]
        /\ UNCHANGED <<queueVars, row, mail>>
        /\ request.step = "deleteAll" => request.op = "stop"
  <2>1. ASSUME NEW request, Accept(c, request), request.step = "deleteAll" => request.op = "stop"
        PROVE  \E req : /\ At(c, "idle")
                        /\ call' = [call EXCEPT ![c] = req]
                        /\ UNCHANGED <<queueVars, row, mail>>
                        /\ req.step = "deleteAll" => req.op = "stop"
    BY <2>1 DEF Accept
  <2> QED
    BY <2>1 DEF DoBegin, Begin, Join, Leave, Pause, Resume, LoopOp, Stop, Skip, Seek, Remove, Play,
                Request, ChannelRequest, PauseRequest, RemoveRequest, PlayRequest, MakeCall
<1>3. UNCHANGED <<wires, managed, loopVars, worker>>  BY DEF DoBegin
<1>4. Placed'
  BY <1>2, <1>3 DEF HeadInv, Placed, TypeOK, RpcTypeOK, loopVars
<1>5. ReloadDue => ReloadDue'
  <2>1. \A d \in Clients : WillAnnounce(d) => d # c /\ call'[d] = call[d]
    BY <1>2 DEF WillAnnounce, At, HeadInv, TypeOK, RpcTypeOK
  <2> QED  BY <1>2, <1>3, <2>1 DEF ReloadDue, WillAnnounce, wires, loopVars
<1> QED
  BY <1>1, <1>2, <1>3, <1>4, <1>5, HeadStable DEF queueVars, loopVars, HeadInv, WakeupDue

(* A request step that is about to announce, or has announced, a change.   *)
LEMMA HeadAnnounced ==
    ASSUME TypeOK', Placed', ReloadDue'
    PROVE  HeadInv'
BY DEF HeadInv, WakeupDue, PlaysHead

(* A request step that adds no announced track and moves or drops none.    *)
LEMMA HeadCalm ==
    ASSUME HeadInv, TypeOK', Placed', ReloadDue => ReloadDue', UNCHANGED <<lpc, remote>>,
           queue' \ silent' \subseteq queue \ silent,
           silent \subseteq silent',
           remote \in queue => remote \in queue' \cup silent',
           \A t \in queue' \cap queue : ord'[t] = ord[t]
    PROVE  HeadInv'
<1>1. WakeupDue'  BY DEF HeadInv, WakeupDue
<1>2. PlaysHead'
  <2> SUFFICES ASSUME remote # NoTrack, remote \notin silent', ~ReloadDue'
               PROVE  remote \in queue' /\ \A t \in queue' \ silent' : ord'[remote] <= ord'[t]
    BY DEF PlaysHead
  <2>1. remote \in queue /\ \A t \in queue \ silent : ord[remote] <= ord[t]
    BY DEF HeadInv, PlaysHead
  <2>2. remote \in queue'  BY <2>1
  <2>3. ASSUME NEW t \in queue' \ silent' PROVE ord'[remote] <= ord'[t]
    BY <2>1, <2>2, <2>3
  <2> QED  BY <2>2, <2>3
<1> QED  BY <1>1, <1>2 DEF HeadInv

LEMMA RpcHead ==
    ASSUME "request" \notin Faults, NEW c \in Clients, HeadInv, DoRpc(c)
    PROVE  HeadInv'
<1>1. TypeOK'  BY RpcTyped DEF HeadInv
<1>2. UNCHANGED <<resyncPlaying, managed, lpc, remote, worker>>
  BY DEF DoRpc, wires, loopVars
<1>3. DOMAIN call = Clients  BY DEF HeadInv, TypeOK, RpcTypeOK
<1>4. ASSUME NEW r, call' = [call EXCEPT ![c] = r], r.step # "deleteAll"
      PROVE  Placed'
  BY <1>2, <1>3, <1>4 DEF HeadInv, Placed
<1>5. ASSUME NEW r, call' = [call EXCEPT ![c] = r], ~WillAnnounce(c), mail'.current >= mail.current
      PROVE  ReloadDue => ReloadDue'
  <2>1. \A d \in Clients : WillAnnounce(d) => d # c /\ call'[d] = call[d]
    BY <1>3, <1>5 DEF WillAnnounce
  <2>2. mail.current > 0 => mail'.current > 0
    BY <1>1, <1>5 DEF HeadInv, TypeOK, StateTypeOK
  <2> QED  BY <1>2, <2>1, <2>2 DEF ReloadDue, WillAnnounce
<1>6. ASSUME WillAnnounce(c)' PROVE ReloadDue'
  BY <1>6 DEF ReloadDue
<1>7. mail.current >= mail.current  BY DEF HeadInv, TypeOK, StateTypeOK
<1> USE DEF DoRpc, At
<1>10. ASSUME NEW step \in CallSteps, Goto(c, step), step # "deleteAll"
       PROVE  /\ Placed'
              /\ call'[c].step = step /\ call'[c].op = call[c].op
  <2> DEFINE r == [call[c] EXCEPT !.step = step]
  <2>1. call[c] \in CallType  BY DEF HeadInv, TypeOK, RpcTypeOK
  <2>2. r.step = step /\ r.op = call[c].op /\ call' = [call EXCEPT ![c] = r]  BY <1>10, <2>1 DEF Goto, CallType
  <2>3. call'[c] = r  BY <1>3, <2>2
  <2> HIDE DEF r
  <2>4. Placed'  BY <1>4, <1>10, <2>2
  <2> QED  BY <2>2, <2>3, <2>4
<1>11. ASSUME Return(c) PROVE Placed'
  <2>1. NoCall.step # "deleteAll"  BY DEF NoCall, Request, MakeCall
  <2> QED  BY <1>4, <1>11, <2>1 DEF Return
<1> USE DEF CallSteps
<1>12. CASE SetChannel(c)
  <2>1. CASE call[c].op = "play"
    BY <1>1, <1>6, <1>10, <1>12, <2>1, HeadAnnounced DEF SetChannel, WillAnnounce
  <2>2. CASE call[c].op # "play"
    <3>1. ~WillAnnounce(c)  BY <1>12, <2>2 DEF SetChannel, WillAnnounce
    <3>2. ReloadDue => ReloadDue'  BY <1>5, <1>7, <1>12, <2>2, <3>1 DEF SetChannel, Goto
    <3> QED
      BY <1>1, <1>2, <1>10, <1>12, <2>2, <3>2, HeadCalm DEF SetChannel, queueVars
  <2> QED  BY <2>1, <2>2
<1>13. CASE SetPaused(c)
  <2>1. CASE call[c].op = "stop"
    BY <1>1, <1>6, <1>10, <1>13, <2>1, HeadAnnounced DEF SetPaused, WillAnnounce
  <2>2. CASE call[c].op # "stop"
    <3>1. ~WillAnnounce(c)  BY <1>13, <2>2 DEF SetPaused, WillAnnounce
    <3>2. ReloadDue => ReloadDue'  BY <1>5, <1>7, <1>13, <3>1 DEF SetPaused, Goto
    <3> QED
      BY <1>1, <1>2, <1>10, <1>13, <3>2, HeadCalm DEF SetPaused, queueVars
  <2> QED  BY <2>1, <2>2
<1>14. CASE ToggleLoop(c)
  <2>1. ~WillAnnounce(c)  BY <1>14 DEF ToggleLoop, WillAnnounce
  <2>2. ReloadDue => ReloadDue'  BY <1>5, <1>7, <1>14, <2>1 DEF ToggleLoop, Return
  <2> QED  BY <1>1, <1>2, <1>11, <1>14, <2>2, HeadCalm DEF ToggleLoop, queueVars
<1>15. CASE DeleteAll(c)
  <2>1. call[c].op = "stop"  BY <1>15 DEF DeleteAll, HeadInv, Placed
  <2> QED
    BY <1>1, <1>6, <1>10, <1>15, <2>1, HeadAnnounced DEF DeleteAll, WillAnnounce
<1>16. CASE ReadHead(c)
  <2>1. ~WillAnnounce(c)  BY <1>16 DEF ReadHead, WillAnnounce
  <2>2. PICK r : call' = [call EXCEPT ![c] = r] /\ r.step # "deleteAll"
    <3>1. CASE Return(c)
      <4>1. NoCall.step # "deleteAll"  BY DEF NoCall, Request, MakeCall
      <4> QED  BY <3>1, <4>1 DEF Return
    <3>2. ASSUME NEW t, call' = [call EXCEPT ![c] = [call[c] EXCEPT !.step = "readLoop", !.track = t]]
          PROVE  \E r : call' = [call EXCEPT ![c] = r] /\ r.step # "deleteAll"
      <4>1. call[c] \in CallType  BY DEF HeadInv, TypeOK, RpcTypeOK
      <4>2. [call[c] EXCEPT !.step = "readLoop", !.track = t].step = "readLoop"
        BY <4>1 DEF CallType
      <4> QED  BY <3>2, <4>2
    <3> QED  BY <1>16, <3>1, <3>2 DEF ReadHead
  <2>3. ReloadDue => ReloadDue'  BY <1>5, <1>7, <1>16, <2>1, <2>2 DEF ReadHead
  <2> QED  BY <1>1, <1>2, <1>4, <1>16, <2>2, <2>3, HeadCalm DEF ReadHead, queueVars
<1>17. CASE ReadLoop(c)
  <2>1. ~WillAnnounce(c)  BY <1>17 DEF ReadLoop, WillAnnounce
  <2>2. ReloadDue => ReloadDue'  BY <1>5, <1>7, <1>17, <2>1 DEF ReadLoop, Goto
  <2> QED  BY <1>1, <1>2, <1>10, <1>17, <2>2, HeadCalm DEF ReadLoop, queueVars
<1>18. CASE DeleteOrRequeue(c)
  BY <1>1, <1>6, <1>10, <1>18, HeadAnnounced DEF DeleteOrRequeue, WillAnnounce
<1>19. CASE RemoveAt(c)
  <2>1. CASE call[c].position = 0
    BY <1>1, <1>6, <1>10, <1>19, <2>1, HeadAnnounced DEF RemoveAt, WillAnnounce
  <2>2. CASE call[c].position # 0
    <3>1. ~WillAnnounce(c)  BY <1>19 DEF RemoveAt, WillAnnounce
    <3>2. Return(c) /\ UNCHANGED mail  BY <1>19, <2>2 DEF RemoveAt
    <3>3. ReloadDue => ReloadDue'  BY <1>5, <1>7, <3>1, <3>2 DEF Return
    <3>4. \/ \E t : DropRows({t}) /\ silent' = silent \cup {t}
          \/ UNCHANGED <<queue, ord, silent>>
      BY <1>19, <2>2 DEF RemoveAt
    <3>5. /\ queue' \subseteq queue /\ silent \subseteq silent'
          /\ queue \subseteq queue' \cup silent'
          /\ \A t \in queue' : ord'[t] = ord[t]
      BY <3>4 DEF DropRows, HeadInv, TypeOK, StateTypeOK
    <3> QED  BY <1>1, <1>2, <1>11, <3>2, <3>3, <3>5, HeadCalm
  <2> QED  BY <2>1, <2>2
<1>20. CASE CountTracks(c)
  <2>1. ~WillAnnounce(c)  BY <1>20 DEF CountTracks, WillAnnounce
  <2> DEFINE r == [call[c] EXCEPT !.step = "rows", !.qlen = Cardinality(queue)]
  <2>2. r.step = "rows"  BY DEF HeadInv, TypeOK, RpcTypeOK, CallType
  <2>3. call' = [call EXCEPT ![c] = r] /\ UNCHANGED <<queueVars, mail>>
    BY <1>20 DEF CountTracks
  <2> HIDE DEF r
  <2>4. Placed'  BY <1>4, <2>2, <2>3
  <2>5. ReloadDue => ReloadDue'  BY <1>5, <1>7, <2>1, <2>3
  <2> QED  BY <1>1, <1>2, <2>3, <2>4, <2>5, HeadCalm DEF queueVars
<1>21. CASE ReadKeys(c)
  <2>1. ~WillAnnounce(c)  BY <1>21 DEF ReadKeys, WillAnnounce
  <2> DEFINE pos == ClampPosition(call[c].position, call[c].qlen)
  <2>2. PICK r : call' = [call EXCEPT ![c] = r] /\ r.step = "insert"
    <3>1. PICK prev \in ScanKey(queue, ord, pos - 1), next \in ScanKey(queue, ord, pos) :
              call' = [call EXCEPT ![c] = InsertRequest(call[c].channel, call[c].snap,
                                             OrdKeyRange(call[c].qlen, pos, prev, next))]
      BY <1>21, Zenon DEF ReadKeys
    <3> DEFINE q == InsertRequest(call[c].channel, call[c].snap,
                                  OrdKeyRange(call[c].qlen, pos, prev, next))
    <3>2. q.step = "insert"  BY DEF InsertRequest, MakeCall
    <3>3. call' = [call EXCEPT ![c] = q]  BY <3>1
    <3> HIDE DEF q
    <3> QED  BY <3>2, <3>3
  <2>3. UNCHANGED <<queueVars, mail>>  BY <1>21 DEF ReadKeys
  <2>4. Placed'  BY <1>4, <2>2
  <2>5. ReloadDue => ReloadDue'  BY <1>5, <1>7, <2>1, <2>2, <2>3
  <2> QED  BY <1>1, <1>2, <2>3, <2>4, <2>5, HeadCalm DEF queueVars
<1>21a. CASE FailToReadKeys(c)
  <2>1. ~WillAnnounce(c)  BY <1>21a DEF FailToReadKeys, WillAnnounce
  <2> DEFINE r == InsertRequest(call[c].channel, call[c].snap, DefaultRange)
  <2>2. r.step = "insert"  BY DEF InsertRequest, MakeCall
  <2>3. call' = [call EXCEPT ![c] = r] /\ UNCHANGED <<queueVars, mail>>
    BY <1>21a DEF FailToReadKeys
  <2> HIDE DEF r
  <2>4. Placed'  BY <1>4, <2>2, <2>3
  <2>5. ReloadDue => ReloadDue'  BY <1>5, <1>7, <2>1, <2>2, <2>3
  <2> QED  BY <1>1, <1>2, <2>3, <2>4, <2>5, HeadCalm DEF queueVars
<1>22. CASE InsertTrack(c)
  <2>1. CASE call[c].range.first
    <3>1. PICK r : /\ call' = [call EXCEPT ![c] = r]
                   /\ r.step # "deleteAll"
                   /\ r.step = "pubBoth" \/ (r.op = "play" /\ r.step = "setChannel")
      <4>1. \/ call' = [call EXCEPT ![c] = Request("play", "pubBoth")]
            \/ call' = [call EXCEPT ![c] = ChannelRequest("play", "setChannel", call[c].channel)]
        BY <1>22, <2>1 DEF InsertTrack
      <4>2. Request("play", "pubBoth").step = "pubBoth"
        BY DEF Request, MakeCall
      <4>3. /\ ChannelRequest("play", "setChannel", call[c].channel).op = "play"
            /\ ChannelRequest("play", "setChannel", call[c].channel).step = "setChannel"
        BY DEF ChannelRequest, MakeCall
      <4> QED  BY <4>1, <4>2, <4>3
    <3>2. call'[c] = r  BY <1>3, <3>1
    <3>3. WillAnnounce(c)'  BY <3>1, <3>2 DEF WillAnnounce
    <3> QED  BY <1>1, <1>4, <1>6, <3>1, <3>3, HeadAnnounced
  <2>2. CASE ~call[c].range.first
    <3>1. ~WillAnnounce(c)  BY <1>22 DEF InsertTrack, WillAnnounce
    <3>2. Return(c) /\ UNCHANGED mail  BY <1>22, <2>2 DEF InsertTrack, Return
    <3>3. ReloadDue => ReloadDue'  BY <1>5, <1>7, <3>1, <3>2 DEF Return
    <3>4. PICK t \in unused : /\ queue' = queue \cup {t} /\ silent' = silent \cup {t}
                              /\ \E key : ord' = [ord EXCEPT ![t] = key]
      BY <1>22, <2>2 DEF InsertTrack
    <3>5. \A u \in queue : ord'[u] = ord[u]
      BY <3>4 DEF HeadInv, TypeOK, StateTypeOK
    <3> QED  BY <1>1, <1>2, <1>11, <3>2, <3>3, <3>4, <3>5, HeadCalm
  <2> QED  BY <2>1, <2>2
<1>23. CASE SendGuild(c)
  <2>1. CASE call[c].op = "stop"
    BY <1>1, <1>6, <1>10, <1>23, <2>1, HeadAnnounced DEF SendGuild, WillAnnounce
  <2>2. CASE call[c].op # "stop"
    <3>1. ~WillAnnounce(c)  BY <1>23, <2>2 DEF SendGuild, WillAnnounce
    <3>2. Return(c) /\ mail'.current = mail.current
      BY <1>23, <2>2 DEF SendGuild, PublishGuild, HeadInv, TypeOK, StateTypeOK
    <3>3. ReloadDue => ReloadDue'  BY <1>5, <1>7, <3>1, <3>2 DEF Return
    <3> QED  BY <1>1, <1>2, <1>11, <1>23, <3>2, <3>3, HeadCalm DEF SendGuild, queueVars
  <2> QED  BY <2>1, <2>2
<1>24. CASE SendCurrent(c) \/ SendBoth(c)
  <2>1. mail'.current > 0
    BY <1>24 DEF SendCurrent, SendBoth, PublishCurrent, PublishBoth, HeadInv, TypeOK, StateTypeOK
  <2>2. ReloadDue'  BY <2>1 DEF ReloadDue
  <2> QED  BY <1>1, <1>11, <1>24, <2>2, HeadAnnounced DEF SendCurrent, SendBoth
<1>25. ~FailRequest(c)  BY DEF FailRequest
<1> QED
  BY <1>12, <1>13, <1>14, <1>15, <1>16, <1>17, <1>18, <1>19, <1>20, <1>21, <1>21a, <1>22,
     <1>23, <1>24, <1>25 DEF RpcStep

LEMMA StepHead ==
    ASSUME "request" \notin Faults, HeadInv, [Next]_vars
    PROVE  HeadInv'
<1>1. CASE UNCHANGED vars
  <2>1. TypeOK'  BY <1>1, StepTyped DEF HeadInv
  <2>2. Placed' /\ (ReloadDue => ReloadDue')
    BY <1>1 DEF vars, HeadInv, Placed, ReloadDue, WillAnnounce, wires, loopVars, rpcVars
  <2> QED  BY <1>1, <2>1, <2>2, HeadCalm DEF vars, queueVars, loopVars
<1>2. CASE Next
  BY <1>2, LoopHead, ConnectHead, WorkerHead, DeliveryHead, CrashHead, BeginHead, RpcHead DEF Next
<1> QED  BY <1>1, <1>2

(* No lost wake-up: whatever the requests, their interleaving and the      *)
(* crashes, a play loop that goes to sleep on, or sleeps on, an empty      *)
(* queue has a signal due for any announced track in the queue - provided  *)
(* a request that began to change the queue is not cut short.              *)
THEOREM NoLostWakeup ==
    ASSUME "request" \notin Faults
    PROVE  Spec => []WakeupDue
<1>1. HeadInv /\ [Next]_vars => HeadInv'  BY StepHead
<1>2. HeadInv => WakeupDue  BY DEF HeadInv
<1> QED  BY InitHead, <1>1, <1>2, PTL DEF Spec

(* The play loop plays the head of the queue or has a reload due, under    *)
(* the same proviso.                                                       *)
THEOREM AlwaysPlaysHead ==
    ASSUME "request" \notin Faults
    PROVE  Spec => []PlaysHead
<1>1. HeadInv /\ [Next]_vars => HeadInv'  BY StepHead
<1>2. HeadInv => PlaysHead  BY DEF HeadInv
<1> QED  BY InitHead, <1>1, <1>2, PTL DEF Spec

(***************************************************************************)
(* The gate.                                                               *)
(***************************************************************************)
LEMMA LoopKeepsGate == ASSUME ResumeKept, DoLoop PROVE ResumeKept'
<1>1. gateWanted' = gateWanted
  BY DEF DoLoop, LoopStep, Reload, NextTrack, Drained, WaitQueue, Initialize, Discard, CheckVoice,
         CheckChannel, Joined, WaitVoice, Burst, ReadLoopFlag, Finish, Gate, PutBack, wires
<1>2. CASE Gate
  <2>1. gateWanted => playing  BY <1>2 DEF Gate, ResumeKept
  <2>2. lpc' = "putPlaying" \/ playing' = playing  BY <1>2 DEF Gate
  <2> QED  BY <1>1, <2>1, <2>2 DEF ResumeKept
<1>3. CASE PutBack
  BY <1>1, <1>3 DEF PutBack, ReturnPlaying, ResumeKept
<1>4. CASE LoopStep /\ ~Gate /\ ~PutBack
  <2>1. playing' = playing /\ lpc # "putPlaying"
    BY <1>4 DEF LoopStep, Reload, NextTrack, Drained, WaitQueue, Initialize, Discard, CheckVoice,
                CheckChannel, Joined, WaitVoice, Burst, ReadLoopFlag, Finish, wires
  <2> QED  BY <1>1, <2>1 DEF ResumeKept
<1> QED  BY <1>2, <1>3, <1>4 DEF DoLoop

LEMMA WorkerKeepsGate ==
    ASSUME TypeOK, NEW w \in Workers, ResumeKept, DoWorker(w) PROVE ResumeKept'
<1>1. CASE SetGate(w)
  <2>1. playing' = gateWanted'  BY <1>1 DEF SetGate, ApplyPause
  <2> QED  BY <2>1 DEF ResumeKept
<1>2. CASE ReadRow(w) \/ Connected(w) \/ SignalResync(w)
  <2>1. UNCHANGED <<playing, gateWanted>> /\ (lpc = "putPlaying" => lpc' = lpc)
    BY <1>2 DEF ReadRow, EnsureGuild, Connected, SignalResync, wires, loopVars
  <2> QED  BY <2>1 DEF ResumeKept
<1> QED  BY <1>1, <1>2 DEF DoWorker, WorkerStep

LEMMA StepKeepsGate == TypeOK /\ ResumeKept /\ [Next]_vars => ResumeKept'
<1> SUFFICES ASSUME TypeOK, ResumeKept, [Next]_vars PROVE ResumeKept'  OBVIOUS
<1>1. ASSUME UNCHANGED <<playing, gateWanted>>, lpc = "putPlaying" => lpc' = lpc PROVE ResumeKept'
  BY <1>1 DEF ResumeKept
<1>2. CASE Crash
  BY <1>2 DEF Crash, ResumeKept
<1>3. CASE DoDeliver \/ DoSkip
  BY <1>1, <1>3 DEF DoDeliver, DeliverCurrent, EnsureGuild, DoSkip, SkipMessage, wires, loopVars
<1>4. ASSUME NEW a \in Actors, DoConnect(a) PROVE ResumeKept'
  BY <1>1, <1>4 DEF DoConnect, Connect, StoreChannel, InspectVC, LeaveVC, JoinVC, wires, loopVars
<1>5. ASSUME NEW w \in Workers, DoReceive(w) \/ DoTakeOver(w) PROVE ResumeKept'
  BY <1>1, <1>5 DEF DoReceive, DeliverGuild, DoTakeOver, StartManaging, wires, loopVars
<1>6. ASSUME NEW c \in Clients, DoBegin(c) \/ DoRpc(c) PROVE ResumeKept'
  BY <1>1, <1>6 DEF DoBegin, DoRpc, wires, loopVars
<1>7. CASE UNCHANGED vars
  BY <1>1, <1>7 DEF vars, wires, loopVars
<1> QED
  BY <1>2, <1>3, <1>4, <1>5, <1>6, <1>7, LoopKeepsGate, WorkerKeepsGate DEF Next

(* The gate a resync of a playing guild opened stays open until a resync   *)
(* of a paused one closes it: the loop takes the token to look whether it  *)
(* is there, and always returns it, with any number of resyncs overlapping *)
(* and every fault.                                                        *)
THEOREM OpenGateKept == Spec => []ResumeKept
<1>1. Init => TypeOK /\ ResumeKept  BY InitTyped DEF Init, StateInit, ResumeKept
<1>2. TypeOK /\ ResumeKept /\ [Next]_vars => (TypeOK /\ ResumeKept)'
  BY StepTyped, StepKeepsGate
<1> QED  BY <1>1, <1>2, PTL DEF Spec
=============================================================================
