----------------------------- MODULE Handlers -----------------------------
(***************************************************************************)
(* The gRPC handlers that change a guild: join.go, pause.go, stop.go,      *)
(* skip.go, remove.go, seek.go, loop.go and play.go of service/.  A        *)
(* request runs in a goroutine of any instance; each of its statements is  *)
(* one query, update or publish, and requests interleave between them.     *)
(*                                                                         *)
(* authenticateWithGuild SELECTs the guild row before the handler runs;    *)
(* call.snap is the channel it saw.                                        *)
(***************************************************************************)
EXTENDS GuildState

CONSTANTS
    Ops,          \* the operations clients ask for
    Positions,    \* the positions they pass to Play and Remove
    MaxCalls      \* bound: requests in a behaviour

AllOps == {"join", "leave", "pause", "resume", "stop", "skip", "remove", "seek", "loop", "play"}

ASSUME HandlerConstants ==
    /\ Ops \subseteq AllOps
    /\ Positions \subseteq Int
    /\ MaxCalls \in Nat

VARIABLES
    call,         \* the request each client has in progress
    budget        \* requests left

rpcVars == <<call, budget>>

CallSteps ==
    {"idle", "setChannel", "setPaused", "toggleLoop", "deleteAll", "readHead", "readLoop",
     "delete", "requeue", "removeAt", "count", "rows", "insert",
     "pubGuild", "pubCurrent", "pubBoth"}

NoRange == KeyRange(0, 0, FALSE)

MakeCall(op, step, channel, snap, paused, position, range) ==
    [op |-> op, step |-> step, channel |-> channel, snap |-> snap, paused |-> paused,
     position |-> position, qlen |-> 0, range |-> range, track |-> NoTrack]

Request(op, step)              == MakeCall(op, step, NoChannel, NoChannel, FALSE, 0, NoRange)
ChannelRequest(op, step, ch)   == MakeCall(op, step, ch, NoChannel, FALSE, 0, NoRange)
PauseRequest(op, paused)       == MakeCall(op, "setPaused", NoChannel, NoChannel, paused, 0, NoRange)
RemoveRequest(p)               == MakeCall("remove", "removeAt", NoChannel, NoChannel, FALSE, p, NoRange)
PlayRequest(ch, snap, p)       == MakeCall("play", "count", ch, snap, FALSE, p, NoRange)
InsertRequest(ch, snap, range) == MakeCall("play", "insert", ch, snap, FALSE, 0, range)

NoCall == Request("none", "idle")

CallType ==
    [op : AllOps \cup {"none"}, step : CallSteps, channel : MaybeChannel, snap : MaybeChannel,
     paused : BOOLEAN, position : Int, qlen : Nat,
     range : [prev : Int, next : Int, first : BOOLEAN], track : MaybeTrack]

RpcTypeOK ==
    /\ call \in [Clients -> CallType]
    /\ budget \in 0 .. MaxCalls

RpcInit == call = [c \in Clients |-> NoCall] /\ budget = MaxCalls

At(c, step)  == call[c].step = step
Goto(c, step) == call' = [call EXCEPT ![c].step = step]
Return(c)    == call' = [call EXCEPT ![c] = NoCall]

(* A request arrives and is authenticated.                                 *)
Accept(c, request) ==
    /\ At(c, "idle")
    /\ budget > 0
    /\ request.op \in Ops
    /\ budget' = budget - 1
    /\ call' = [call EXCEPT ![c] = request]
    /\ UNCHANGED <<queueVars, row, mail>>

(* Join and Leave do nothing when the snapshot already says so.            *)
Join(c) ==
    \E ch \in Channels :
        /\ row.channel # ch
        /\ Accept(c, ChannelRequest("join", "setChannel", ch))

Leave(c) ==
    /\ row.channel # NoChannel
    /\ Accept(c, Request("leave", "setChannel"))

Pause(c)  == Accept(c, PauseRequest("pause", TRUE))
Resume(c) == Accept(c, PauseRequest("resume", FALSE))
LoopOp(c) == Accept(c, Request("loop", "toggleLoop"))
Stop(c)   == Accept(c, Request("stop", "deleteAll"))
Skip(c)   == Accept(c, Request("skip", "readHead"))

(* The UPDATE of the position comes first; positions are not in this model. *)
Seek(c) == Accept(c, Request("seek", "pubCurrent"))

Remove(c) ==
    \E p \in Positions :
        Accept(c, RemoveRequest(IF p < 0 THEN 0 ELSE p))

Play(c) ==
    \E ch \in Channels, p \in Positions :
        Accept(c, PlayRequest(ch, row.channel, p))

Begin(c) ==
    \/ Join(c) \/ Leave(c) \/ Pause(c) \/ Resume(c) \/ LoopOp(c) \/ Stop(c)
    \/ Skip(c) \/ Seek(c) \/ Remove(c) \/ Play(c)

(***************************************************************************)
(* The statements of a request in progress.                                *)
(***************************************************************************)
SetChannel(c) ==
    /\ At(c, "setChannel")
    /\ row' = [row EXCEPT !.channel = call[c].channel]
    /\ Goto(c, IF call[c].op = "play" THEN "pubBoth" ELSE "pubGuild")
    /\ UNCHANGED <<queueVars, mail, budget>>

(* updatePauseState, its publish and notification follow.                  *)
SetPaused(c) ==
    /\ At(c, "setPaused")
    /\ row' = [row EXCEPT !.paused = call[c].paused]
    /\ Goto(c, "pubGuild")
    /\ UNCHANGED <<queueVars, mail, budget>>

ToggleLoop(c) ==
    /\ At(c, "toggleLoop")
    /\ row' = [row EXCEPT !.loop = ~@]
    /\ Return(c)
    /\ UNCHANGED <<queueVars, mail, budget>>

DeleteAll(c) ==
    /\ At(c, "deleteAll")
    /\ DropRows(queue)
    /\ Goto(c, "setPaused")
    /\ UNCHANGED <<unused, silent, row, mail, budget>>

(* Skip.  With an empty queue DeleteOrRequeue of the zero track finds no   *)
(* guild row and the request fails.                                        *)
ReadHead(c) ==
    /\ At(c, "readHead")
    /\ \/ \E t \in CurrentTrack :
             call' = [call EXCEPT ![c] = [call[c] EXCEPT !.step = "readLoop", !.track = t]]
       \/ queue = {} /\ Return(c)
    /\ UNCHANGED <<queueVars, row, mail, budget>>

ReadLoop(c) ==
    /\ At(c, "readLoop")
    /\ Goto(c, IF row.loop THEN "requeue" ELSE "delete")
    /\ UNCHANGED <<queueVars, row, mail, budget>>

DeleteOrRequeue(c) ==
    /\ \/ At(c, "delete") /\ DropRows({call[c].track})
       \/ At(c, "requeue") /\ RequeueRow(call[c].track)
    /\ Goto(c, "pubCurrent")
    /\ UNCHANGED <<unused, silent, row, mail, budget>>

(* One DELETE of the row at the position, if there is one; only position 0 *)
(* is announced.                                                           *)
RemoveAt(c) ==
    /\ At(c, "removeAt")
    /\ LET p    == call[c].position
           rows == AtPosition(queue, ord, p)
       IN  /\ \/ \E t \in rows :
                    /\ DropRows({t})
                    /\ silent' = IF p = 0 THEN silent ELSE silent \cup {t}
              \/ rows = {} /\ UNCHANGED <<queue, ord, silent>>
           /\ IF p = 0 THEN Goto(c, "pubCurrent") ELSE Return(c)
    /\ UNCHANGED <<unused, row, mail, budget>>

(* addTracks: count the rows, read the neighbours' keys, insert.           *)
CountTracks(c) ==
    /\ At(c, "count")
    /\ call' = [call EXCEPT ![c] = [call[c] EXCEPT !.step = "rows", !.qlen = Cardinality(queue)]]
    /\ UNCHANGED <<queueVars, row, mail, budget>>

ReadKeys(c) ==
    /\ At(c, "rows")
    /\ LET pos == ClampPosition(call[c].position, call[c].qlen) IN
       \E prev \in ScanKey(queue, ord, pos - 1), next \in ScanKey(queue, ord, pos) :
          call' = [call EXCEPT ![c] =
             InsertRequest(call[c].channel, call[c].snap, OrdKeyRange(call[c].qlen, pos, prev, next))]
    /\ UNCHANGED <<queueVars, row, mail, budget>>

(* chooseOrdKeyRange fails no request: when it cannot query or scan the    *)
(* keys, the track goes where the first one of an empty queue does.        *)
FailToReadKeys(c) ==
    /\ At(c, "rows") /\ call[c].qlen # 0
    /\ call' = [call EXCEPT ![c] = InsertRequest(call[c].channel, call[c].snap, DefaultRange)]
    /\ UNCHANGED <<queueVars, row, mail, budget>>

(* A track that affects the head of the queue is announced, after storing  *)
(* the channel when the snapshot had another one (queueStartResync).       *)
InsertTrack(c) ==
    /\ At(c, "insert")
    /\ LET r == call[c].range IN
       \E t \in unused :
          /\ queue' = queue \cup {t}
          /\ ord' = [ord EXCEPT ![t] = SpreadKey(r.prev, r.next, 1, 1)]
          /\ unused' = unused \ {t}
          /\ silent' = IF r.first THEN silent ELSE silent \cup {t}
          /\ call' = [call EXCEPT ![c] =
                IF ~r.first THEN NoCall
                ELSE IF call[c].snap = call[c].channel THEN Request("play", "pubBoth")
                ELSE ChannelRequest("play", "setChannel", call[c].channel)]
    /\ UNCHANGED <<row, mail, budget>>

(* updatePauseState publishes; Stop then goes on to a message of its own.  *)
SendGuild(c) ==
    /\ At(c, "pubGuild")
    /\ PublishGuild
    /\ IF call[c].op = "stop" THEN Goto(c, "pubCurrent") ELSE Return(c)
    /\ UNCHANGED <<queueVars, row, budget>>

(* Slip: Skip, Stop, Remove and Seek announce the guild, not the track.    *)
SendWrongTarget(c) ==
    /\ At(c, "pubCurrent")
    /\ PublishGuild
    /\ Return(c)
    /\ UNCHANGED <<queueVars, row, budget>>

SendCurrent(c) ==
    /\ At(c, "pubCurrent")
    /\ PublishCurrent
    /\ Return(c)
    /\ UNCHANGED <<queueVars, row, budget>>

SendBoth(c) ==
    /\ At(c, "pubBoth")
    /\ PublishBoth
    /\ Return(c)
    /\ UNCHANGED <<queueVars, row, budget>>

(* A query, update or publish fails: the request returns the error, and    *)
(* what it had done stays done.  Not so where the keys are read.           *)
FailRequest(c) ==
    /\ "request" \in Faults
    /\ ~At(c, "idle") /\ ~At(c, "rows")
    /\ Return(c)
    /\ UNCHANGED <<queueVars, row, mail, budget>>

RpcStep(c) ==
    \/ SetChannel(c) \/ SetPaused(c) \/ ToggleLoop(c) \/ DeleteAll(c)
    \/ ReadHead(c) \/ ReadLoop(c) \/ DeleteOrRequeue(c) \/ RemoveAt(c)
    \/ CountTracks(c) \/ ReadKeys(c) \/ FailToReadKeys(c) \/ InsertTrack(c)
    \/ SendGuild(c) \/ SendCurrent(c) \/ SendBoth(c) \/ FailRequest(c)

(* A request that is yet to publish a Current message.                     *)
WillAnnounce(c) ==
    \/ call[c].step \in {"pubCurrent", "pubBoth"}
    \/ call[c].op = "play" /\ call[c].step = "setChannel"
    \/ call[c].op = "stop" /\ call[c].step \in {"setPaused", "pubGuild"}
=============================================================================
