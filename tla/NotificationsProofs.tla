------------------------ MODULE NotificationsProofs ------------------------
(***************************************************************************)
(* Theorems about Notifications, for any number of tracks, clients and     *)
(* requests: it is Guild with something observed, and no change is left    *)
(* that nobody will tell of.                                               *)
(***************************************************************************)
EXTENDS Notifications, GuildProofs

(* Every step is one of Guild, or none of it.                              *)
LEMMA NotedStep == [NotedNext]_notedVars => [Next]_vars
BY DEF NotedNext, NotedLoop, NotedRpc, NotedLoss, NotedConnect, NotedWorker, NotedReceive,
       NotedStart, NotedDeliver, NotedBegin, Notify, notedVars, Next

(* Observing notifications changes nothing of what a guild does, so all    *)
(* that is proved of Guild holds here.                                     *)
THEOREM NotedGuild == NotedSpec => Spec
BY NotedStep, PTL DEF NotedSpec, NotedInit, Spec

(* Only requests that say so change the pause flag; no track fails to be   *)
(* initialized.                                                            *)
PauseOps ==
    \A c \in Clients : call[c].step = "setPaused" => call[c].op \in {"pause", "resume", "stop"}

NotedInv == HeadInv /\ PauseOps /\ lpc # "discard" /\ NewsDue

(* Somebody is about to tell.                                              *)
ToldOf == ReloadDue \/ \E c \in Clients : WillNotify(c)
Due(c) == WillAnnounce(c) \/ WillNotify(c)

LEMMA InitNoted == NotedInit => NotedInv
<1> SUFFICES ASSUME NotedInit PROVE NotedInv  OBVIOUS
<1>1. HeadInv  BY InitHead DEF NotedInit
<1>2. PauseOps  BY DEF NotedInit, Init, RpcInit, PauseOps, NoCall, Request, MakeCall
<1>3. lpc # "discard"  BY DEF NotedInit, Init, LoopInit
<1> QED  BY <1>1, <1>2, <1>3 DEF NotedInv, NewsDue, NotedInit

(* A step after which nothing is news, and one that keeps who will tell.   *)
LEMMA NewsKept ==
    ASSUME NewsDue, ToldOf => ToldOf', news' \in {news, "none", "sending", "lost"}
    PROVE  NewsDue'
BY DEF NewsDue, ToldOf

LEMMA NotedLoopStep ==
    ASSUME "extract" \notin Faults, NotedInv, NotedLoop
    PROVE  PauseOps' /\ lpc' # "discard" /\ NewsDue'
<1> USE DEF NotedLoop, DoLoop, queueVars, wires, voice, rpcVars
<1>1. UNCHANGED call  OBVIOUS
<1>2. PauseOps'  BY <1>1 DEF NotedInv, PauseOps
<1>3. lpc' # "discard"
  BY DEF NotedInv, LoopStep, Reload, NextTrack, Drained, WaitQueue, Initialize, Discard, CheckVoice,
         CheckChannel, Joined, WaitVoice, Burst, ReadLoopFlag, Finish, Gate, PutBack
<1>4. CASE LoopNotifies
  <2>1. news' = "sending"  BY <1>4 DEF Note
  <2> QED  BY <1>2, <1>3, <2>1 DEF NewsDue
<1>5. CASE ~LoopNotifies
  <2>1. UNCHANGED Visible
    BY <1>5 DEF NotedInv, LoopNotifies, Visible, LoopStep, Reload, NextTrack, Drained, WaitQueue,
                Initialize, Discard, CheckVoice, CheckChannel, Joined, WaitVoice, Burst,
                ReadLoopFlag, Finish, Gate, PutBack
  <2>2. ReloadDue => ReloadDue'
    <3>1. CASE Gate \/ PutBack
      BY <1>1, <3>1 DEF Gate, PutBack, ReturnPlaying, ReturnResync, ReloadDue, WillAnnounce
    <3>2. CASE Reload
      <4>1. ~resyncPlaying  BY <1>5, <3>2 DEF Reload, LoopNotifies
      <4> QED  BY <1>1, <3>2, <4>1 DEF Reload, ReloadDue, WillAnnounce
    <3>3. CASE ~(Gate \/ PutBack \/ Reload)
      <4>1. UNCHANGED <<resyncPlaying, mail>> /\ lpc # "putResync"
        BY <1>5, <3>3 DEF LoopNotifies, LoopStep, NextTrack, Drained, WaitQueue, Initialize, Discard,
                          CheckVoice, CheckChannel, Joined, WaitVoice, Burst, ReadLoopFlag, Finish
      <4> QED  BY <1>1, <4>1 DEF ReloadDue, WillAnnounce
    <3> QED  BY <3>1, <3>2, <3>3
  <2>3. ToldOf => ToldOf'  BY <1>1, <2>2 DEF ToldOf, WillNotify, At
  <2>4. news' = news  BY <1>5, <2>1 DEF Note
  <2> QED  BY <1>2, <1>3, <2>3, <2>4, NewsKept DEF NotedInv
<1> QED  BY <1>4, <1>5

(* A request that goes from one statement to the next.                     *)
LEMMA RpcGoes ==
    ASSUME TypeOK, PauseOps, NEW c \in Clients, NEW r, call' = [call EXCEPT ![c] = r],
           r.step = "setPaused" => r.op = "stop",
           UNCHANGED <<resyncPlaying, lpc>>, mail'.current >= mail.current, mail'.current \in Nat,
           Due(c) => Due(c)' \/ mail'.current > 0
    PROVE  PauseOps' /\ (ToldOf => ToldOf')
<1>1. call'[c] = r /\ \A d \in Clients : d # c => call'[d] = call[d]
  BY DEF TypeOK, RpcTypeOK
<1>2. PauseOps'  BY <1>1 DEF PauseOps
<1>3. \A d \in Clients : d # c /\ Due(d) => Due(d)'
  BY <1>1 DEF Due, WillAnnounce, WillNotify, At
<1>4. mail.current > 0 => mail'.current > 0  BY DEF TypeOK, StateTypeOK
<1>5. \A d \in Clients : Due(d) => Due(d)' \/ mail'.current > 0  BY <1>3
<1>6. (\E d \in Clients : Due(d)') \/ mail'.current > 0 => ToldOf'  BY DEF ToldOf, ReloadDue, Due
<1>7. ToldOf => (\E d \in Clients : Due(d)) \/ mail.current > 0 \/ resyncPlaying \/ lpc = "putResync"
  BY DEF ToldOf, ReloadDue, Due
<1>8. resyncPlaying' \/ lpc' = "putResync" => ToldOf'  BY DEF ToldOf, ReloadDue
<1> QED  BY <1>2, <1>4, <1>5, <1>6, <1>7, <1>8

LEMMA NotedRpcStep ==
    ASSUME "request" \notin Faults, NotedInv, NEW c \in Clients, NotedRpc(c)
    PROVE  PauseOps' /\ lpc' # "discard" /\ NewsDue'
<1>1. DoRpc(c) /\ Note(HandlerNotifies(c)) /\ ~FailRequest(c)
  BY DEF NotedRpc, FailRequest
<1>2. TypeOK /\ TypeOK' /\ PauseOps /\ mail'.current \in Nat /\ call[c] \in CallType
  <2>1. TypeOK /\ PauseOps  BY DEF NotedInv, HeadInv
  <2>2. TypeOK'  BY <1>1, <2>1, RpcTyped
  <2> QED  BY <2>1, <2>2 DEF TypeOK, StateTypeOK, RpcTypeOK
<1>3. UNCHANGED <<resyncPlaying, lpc>> /\ lpc' # "discard"
  BY <1>1 DEF DoRpc, wires, loopVars, NotedInv
(* It is enough to follow the request.                                     *)
<1>4. ASSUME NEW r, call' = [call EXCEPT ![c] = r], r.step = "setPaused" => r.op = "stop",
             mail'.current >= mail.current,
             Due(c) => Due(c)' \/ mail'.current > 0 \/ HandlerNotifies(c),
             UNCHANGED Visible \/ Due(c)' \/ HandlerNotifies(c)
      PROVE  PauseOps' /\ lpc' # "discard" /\ NewsDue'
  <2>1. PauseOps'
    <3>1. call'[c] = r /\ \A d \in Clients : d # c => call'[d] = call[d]
      BY <1>2, <1>4 DEF TypeOK, RpcTypeOK
    <3> QED  BY <1>2, <1>4, <3>1 DEF PauseOps
  <2>2. CASE HandlerNotifies(c)
    <3>1. news' = "sending"  BY <1>1, <2>2 DEF Note
    <3> QED  BY <1>3, <2>1, <3>1 DEF NewsDue
  <2>3. CASE ~HandlerNotifies(c)
    <3>1. ToldOf => ToldOf'  BY <1>2, <1>3, <1>4, <2>3, RpcGoes
    <3>2. CASE UNCHANGED Visible
      <4>1. news' = news  BY <1>1, <2>3, <3>2 DEF Note
      <4> QED  BY <1>3, <2>1, <3>1, <4>1, NewsKept DEF NotedInv
    <3>3. CASE Due(c)'
      <4>1. ToldOf'  BY <3>3 DEF ToldOf, ReloadDue, Due
      <4> QED  BY <1>3, <2>1, <4>1 DEF NewsDue, ToldOf
    <3> QED  BY <1>4, <2>3, <3>2, <3>3
  <2> QED  BY <2>2, <2>3
<1>5. NoCall.step = "idle"  BY DEF NoCall, Request, MakeCall
<1>6. mail.current >= mail.current  BY <1>2 DEF TypeOK, StateTypeOK
<1> USE DEF DoRpc, At
<1>7. ASSUME NEW step \in CallSteps, Goto(c, step)
      PROVE  \E r : call' = [call EXCEPT ![c] = r] /\ r.step = step /\ r.op = call[c].op
                    /\ call'[c].step = step /\ call'[c].op = call[c].op
  <2> DEFINE r == [call[c] EXCEPT !.step = step]
  <2>1. r.step = step /\ r.op = call[c].op /\ call' = [call EXCEPT ![c] = r]
    BY <1>2, <1>7 DEF Goto, CallType
  <2> HIDE DEF r
  <2>2. call'[c] = r  BY <1>2, <2>1 DEF TypeOK, RpcTypeOK
  <2> QED  BY <2>1, <2>2
<1> USE DEF CallSteps
<1>8. CASE SetChannel(c)
  <2>1. PICK r : /\ call' = [call EXCEPT ![c] = r] /\ r.step # "setPaused"
                 /\ call[c].op = "play" => Due(c)'
    BY <1>7, <1>8 DEF SetChannel, Due, WillAnnounce
  <2>2. UNCHANGED <<Visible, mail>>
    BY <1>2, <1>8 DEF SetChannel, Visible, queueVars, TypeOK, StateTypeOK, GuildRow
  <2>3. Due(c) => call[c].op = "play"  BY <1>8 DEF SetChannel, Due, WillAnnounce, WillNotify
  <2> QED  BY <1>4, <1>6, <2>1, <2>2, <2>3
<1>9. CASE SetPaused(c)
  <2>1. call[c].op \in {"pause", "resume", "stop"}  BY <1>2, <1>9 DEF SetPaused, PauseOps
  <2>2. PICK r : call' = [call EXCEPT ![c] = r] /\ r.step = "pubGuild" /\ Due(c)'
    BY <1>7, <1>9, <2>1 DEF SetPaused, Due, WillNotify
  <2> QED  BY <1>4, <1>6, <1>9, <2>2 DEF SetPaused
<1>10. CASE ToggleLoop(c)
  <2>1. HandlerNotifies(c)  BY <1>1, <1>10 DEF ToggleLoop, HandlerNotifies
  <2> QED  BY <1>4, <1>5, <1>6, <1>10, <2>1 DEF ToggleLoop, Return
<1>11. CASE DeleteAll(c)
  <2>1. call[c].op = "stop"  BY <1>11 DEF DeleteAll, NotedInv, HeadInv, Placed
  <2>2. PICK r : call' = [call EXCEPT ![c] = r] /\ r.op = "stop" /\ Due(c)'
    BY <1>7, <1>11, <2>1 DEF DeleteAll, Due, WillAnnounce
  <2> QED  BY <1>4, <1>6, <1>11, <2>2 DEF DeleteAll
<1>12. CASE ReadHead(c) \/ ReadLoop(c) \/ CountTracks(c) \/ ReadKeys(c)
                \/ FailToReadKeys(c)
  <2>1. ~Due(c)  BY <1>12 DEF ReadHead, ReadLoop, CountTracks, ReadKeys, FailToReadKeys,
                  Due, WillAnnounce, WillNotify
  <2>2. UNCHANGED <<Visible, mail>>
    BY <1>12 DEF ReadHead, ReadLoop, CountTracks, ReadKeys, FailToReadKeys,
                  Visible, queueVars
  <2>3. PICK r : call' = [call EXCEPT ![c] = r] /\ r.step # "setPaused"
    <3>1. CASE ReadHead(c)
      <4>1. ASSUME NEW t, call' = [call EXCEPT ![c] = [call[c] EXCEPT !.step = "readLoop", !.track = t]]
            PROVE  \E r : call' = [call EXCEPT ![c] = r] /\ r.step # "setPaused"
        <5>1. [call[c] EXCEPT !.step = "readLoop", !.track = t].step = "readLoop"
          BY <1>2 DEF CallType
        <5> QED  BY <4>1, <5>1
      <4> QED  BY <1>5, <3>1, <4>1 DEF ReadHead, Return
    <3>2. CASE ReadLoop(c)  BY <1>7, <3>2 DEF ReadLoop
    <3>3. CASE CountTracks(c)
      <4> DEFINE r == [call[c] EXCEPT !.step = "rows", !.qlen = Cardinality(queue)]
      <4>1. r.step = "rows"  BY <1>2 DEF CallType
      <4>2. call' = [call EXCEPT ![c] = r]  BY <3>3 DEF CountTracks
      <4> HIDE DEF r
      <4> QED  BY <4>1, <4>2
    <3>4. CASE ReadKeys(c)
      <4> DEFINE pos == ClampPosition(call[c].position, call[c].qlen)
      <4>1. PICK prev \in ScanKey(queue, ord, pos - 1), next \in ScanKey(queue, ord, pos) :
                call' = [call EXCEPT ![c] = InsertRequest(call[c].channel, call[c].snap,
                                               OrdKeyRange(call[c].qlen, pos, prev, next))]
        BY <3>4, Zenon DEF ReadKeys
      <4> DEFINE q == InsertRequest(call[c].channel, call[c].snap,
                                    OrdKeyRange(call[c].qlen, pos, prev, next))
      <4>2. q.step = "insert"  BY DEF InsertRequest, MakeCall
      <4>3. call' = [call EXCEPT ![c] = q]  BY <4>1
      <4> HIDE DEF q
      <4> QED  BY <4>2, <4>3
    <3>5. CASE FailToReadKeys(c)
      <4> DEFINE r == InsertRequest(call[c].channel, call[c].snap, DefaultRange)
      <4>1. r.step = "insert"  BY DEF InsertRequest, MakeCall
      <4>2. call' = [call EXCEPT ![c] = r]  BY <3>5 DEF FailToReadKeys
      <4> HIDE DEF r
      <4> QED  BY <4>1, <4>2
    <3> QED  BY <1>12, <3>1, <3>2, <3>3, <3>4, <3>5
  <2> QED  BY <1>4, <1>6, <2>1, <2>2, <2>3
<1>13. CASE DeleteOrRequeue(c)
  <2>1. PICK r : call' = [call EXCEPT ![c] = r] /\ r.step = "pubCurrent" /\ Due(c)'
    BY <1>7, <1>13 DEF DeleteOrRequeue, Due, WillAnnounce
  <2> QED  BY <1>4, <1>6, <1>13, <2>1 DEF DeleteOrRequeue
<1>14. CASE RemoveAt(c)
  <2>1. CASE call[c].position = 0
    <3>1. PICK r : call' = [call EXCEPT ![c] = r] /\ r.step = "pubCurrent" /\ Due(c)'
      BY <1>7, <1>14, <2>1 DEF RemoveAt, Due, WillAnnounce
    <3> QED  BY <1>4, <1>6, <1>14, <3>1 DEF RemoveAt
  <2>2. CASE call[c].position # 0
    <3>1. HandlerNotifies(c)  BY <1>1, <1>14, <2>2 DEF RemoveAt, HandlerNotifies
    <3> QED  BY <1>4, <1>5, <1>6, <1>14, <2>2, <3>1 DEF RemoveAt, Return
  <2> QED  BY <2>1, <2>2
<1>15. CASE InsertTrack(c)
  <2>1. CASE call[c].range.first
    <3>1. PICK r : /\ call' = [call EXCEPT ![c] = r]
                   /\ r.step = "pubBoth" \/ (r.op = "play" /\ r.step = "setChannel")
      <4>1. \/ call' = [call EXCEPT ![c] = Request("play", "pubBoth")]
            \/ call' = [call EXCEPT ![c] = ChannelRequest("play", "setChannel", call[c].channel)]
        BY <1>15, <2>1 DEF InsertTrack
      <4>2. Request("play", "pubBoth").step = "pubBoth"
        BY DEF Request, MakeCall
      <4>3. /\ ChannelRequest("play", "setChannel", call[c].channel).op = "play"
            /\ ChannelRequest("play", "setChannel", call[c].channel).step = "setChannel"
        BY DEF ChannelRequest, MakeCall
      <4> QED  BY <4>1, <4>2, <4>3
    <3>2. call'[c] = r  BY <1>2, <3>1 DEF TypeOK, RpcTypeOK
    <3>3. Due(c)'  BY <3>1, <3>2 DEF Due, WillAnnounce
    <3> QED  BY <1>4, <1>6, <1>15, <3>1, <3>3 DEF InsertTrack
  <2>2. CASE ~call[c].range.first
    <3>1. HandlerNotifies(c)  BY <1>1, <1>15, <2>2 DEF InsertTrack, HandlerNotifies
    <3> QED  BY <1>4, <1>5, <1>6, <1>15, <2>2, <3>1 DEF InsertTrack
  <2> QED  BY <2>1, <2>2
<1>16. CASE SendGuild(c)
  <2>1. mail'.current >= mail.current /\ UNCHANGED Visible
    BY <1>2, <1>16 DEF SendGuild, PublishGuild, Visible, queueVars, TypeOK, StateTypeOK
  <2>2. PICK r : call' = [call EXCEPT ![c] = r] /\ r.step # "setPaused"
    BY <1>5, <1>7, <1>16 DEF SendGuild, Return
  <2>3. Due(c) => HandlerNotifies(c)
    BY <1>1, <1>16 DEF SendGuild, Due, WillAnnounce, WillNotify, HandlerNotifies
  <2> QED  BY <1>4, <2>1, <2>2, <2>3
<1>17. CASE SendCurrent(c) \/ SendBoth(c)
  <2>1. mail'.current > 0 /\ mail'.current >= mail.current /\ UNCHANGED Visible
    BY <1>2, <1>17 DEF SendCurrent, SendBoth, PublishCurrent, PublishBoth, Visible, queueVars,
                       TypeOK, StateTypeOK
  <2> QED  BY <1>4, <1>5, <1>17, <2>1 DEF SendCurrent, SendBoth, Return
<1> QED
  BY <1>1, <1>8, <1>9, <1>10, <1>11, <1>12, <1>13, <1>14, <1>15, <1>16, <1>17 DEF RpcStep

LEMMA NotedBeginStep ==
    ASSUME NotedInv, NEW c \in Clients, NotedBegin(c)
    PROVE  PauseOps' /\ lpc' # "discard" /\ NewsDue'
<1>1. PICK request :
        /\ At(c, "idle")
        /\ call' = [call EXCEPT ![c] = request]
        /\ UNCHANGED mail
        /\ request.step = "setPaused" => request.op \in {"pause", "resume", "stop"}
  <2>1. ASSUME NEW request, Accept(c, request),
               request.step = "setPaused" => request.op \in {"pause", "resume", "stop"}
        PROVE  \E req : /\ At(c, "idle")
                        /\ call' = [call EXCEPT ![c] = req]
                        /\ UNCHANGED mail
                        /\ req.step = "setPaused" => req.op \in {"pause", "resume", "stop"}
    BY <2>1 DEF Accept
  <2> QED
    BY <2>1 DEF NotedBegin, DoBegin, Begin, Join, Leave, Pause, Resume, LoopOp, Stop, Skip, Seek, Remove,
                Play, Request, ChannelRequest, PauseRequest, RemoveRequest, PlayRequest, MakeCall
<1>2. call'[c] = request /\ \A d \in Clients : d # c => call'[d] = call[d]
  BY <1>1 DEF NotedInv, HeadInv, TypeOK, RpcTypeOK
<1>3. UNCHANGED <<resyncPlaying, lpc, news>>  BY DEF NotedBegin, DoBegin, wires, loopVars
<1>4. PauseOps'  BY <1>1, <1>2 DEF NotedInv, PauseOps
<1>5. ToldOf => ToldOf'
  <2>1. \A d \in Clients : WillAnnounce(d) \/ WillNotify(d) => d # c /\ call'[d] = call[d]
    BY <1>1, <1>2 DEF WillAnnounce, WillNotify, At
  <2> QED  BY <1>1, <1>3, <2>1 DEF ToldOf, ReloadDue, WillAnnounce, WillNotify, At
<1> QED  BY <1>3, <1>4, <1>5, NewsKept DEF NotedInv

LEMMA StepNoted ==
    ASSUME "request" \notin Faults, "extract" \notin Faults, NotedInv, [NotedNext]_notedVars
    PROVE  NotedInv'
<1>1. HeadInv'  BY NotedStep, StepHead DEF NotedInv
<1>2. SUFFICES PauseOps' /\ lpc' # "discard" /\ NewsDue'  BY <1>1 DEF NotedInv
<1> USE DEF NotedInv
(* Steps of others than the loop and requests.                             *)
<1>3. ASSUME UNCHANGED <<call, news>>, lpc' \in {lpc, "top"}, lpc' = lpc \/ lpc # "putResync",
             ReloadDue => ReloadDue'
      PROVE  PauseOps' /\ lpc' # "discard" /\ NewsDue'
  <2>1. PauseOps'  BY <1>3 DEF PauseOps
  <2>2. ToldOf => ToldOf'  BY <1>3 DEF ToldOf, WillNotify, At
  <2> QED  BY <1>3, <2>1, <2>2, NewsKept
<1>4. CASE NotedLoop  BY <1>4, NotedLoopStep
<1>5. CASE NotedDeliver
  <2>1. ReloadDue'  BY <1>5 DEF NotedDeliver, DoDeliver, DeliverCurrent, ReloadDue
  <2> QED  BY <1>3, <1>5, <2>1 DEF NotedDeliver, DoDeliver, DeliverCurrent, EnsureGuild, rpcVars
<1>6. CASE NotedLoss
  <2>1. news' = "lost" /\ UNCHANGED call /\ lpc' \in {lpc, "absent"}
    BY <1>6 DEF NotedLoss, Crash, DoSkip, SkipMessage, rpcVars, loopVars
  <2> QED  BY <2>1 DEF PauseOps, NewsDue
<1>7. CASE Notify
  <2>1. news' = "none" /\ UNCHANGED <<call, lpc>>
    BY <1>7 DEF Notify, vars, rpcVars, loopVars
  <2> QED  BY <2>1 DEF PauseOps, NewsDue
<1>8. ASSUME NEW a \in Actors, NotedConnect(a) PROVE PauseOps' /\ lpc' # "discard" /\ NewsDue'
  <2>1. UNCHANGED <<mail, resyncPlaying, lpc, call, news>>
    BY <1>8 DEF NotedConnect, DoConnect, Connect, StoreChannel, InspectVC, LeaveVC, JoinVC,
                wires, loopVars, rpcVars
  <2> QED  BY <1>3, <2>1 DEF ReloadDue, WillAnnounce
<1>9. ASSUME NEW w \in Workers, NotedWorker(w) PROVE PauseOps' /\ lpc' # "discard" /\ NewsDue'
  <2>1. UNCHANGED <<mail, resyncPlaying, call, news>>
    BY <1>9 DEF NotedWorker, DoWorker, WorkerStep, ReadRow, Connected, SignalResync, SetGate,
                wires, rpcVars
  <2>2. \/ UNCHANGED lpc
        \/ lpc = "absent" /\ lpc' = "top"
    BY <1>9 DEF NotedWorker, DoWorker, WorkerStep, ReadRow, Connected, SignalResync, SetGate,
                EnsureGuild, loopVars
  <2> QED  BY <1>3, <2>1, <2>2 DEF ReloadDue, WillAnnounce
<1>10. ASSUME NEW w \in Workers, NotedReceive(w) \/ NotedStart(w)
       PROVE  PauseOps' /\ lpc' # "discard" /\ NewsDue'
  <2>1. UNCHANGED <<resyncPlaying, lpc, call, news>> /\ mail'.current = mail.current
    BY <1>10 DEF NotedReceive, DoReceive, DeliverGuild, NotedStart, DoTakeOver, StartManaging,
                 wires, loopVars, rpcVars, HeadInv, TypeOK, StateTypeOK
  <2> QED  BY <1>3, <2>1 DEF ReloadDue, WillAnnounce
<1>11. ASSUME NEW c \in Clients, NotedBegin(c) PROVE PauseOps' /\ lpc' # "discard" /\ NewsDue'
  BY <1>11, NotedBeginStep
<1>12. ASSUME NEW c \in Clients, NotedRpc(c) PROVE PauseOps' /\ lpc' # "discard" /\ NewsDue'
  BY <1>12, NotedRpcStep
<1>13. CASE UNCHANGED notedVars
  <2>1. UNCHANGED <<mail, resyncPlaying, lpc, call, news>>
    BY <1>13 DEF notedVars, vars, wires, loopVars, rpcVars
  <2> QED  BY <1>3, <2>1 DEF ReloadDue, WillAnnounce
<1> QED
  BY <1>4, <1>5, <1>6, <1>7, <1>8, <1>9, <1>10, <1>11, <1>12, <1>13 DEF NotedNext

(* No lost notification: with any number of tracks, clients and requests,  *)
(* overlapping as they may, resyncs and deaths of the process, a visible   *)
(* change nobody was told of has a resync on its way to the loop or a      *)
(* request about to notify - provided no request is cut short and no track *)
(* fails to be initialized, which the loop deletes without a word.         *)
THEOREM NoChangeUntold ==
    ASSUME "request" \notin Faults, "extract" \notin Faults
    PROVE  NotedSpec => []NewsDue
<1>1. NotedInv /\ [NotedNext]_notedVars => NotedInv'  BY StepNoted
<1>2. NotedInv => NewsDue  BY DEF NotedInv
<1> QED  BY InitNoted, <1>1, <1>2, PTL DEF NotedSpec
=============================================================================
