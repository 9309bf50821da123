--------------------------- MODULE VoiceConnect ---------------------------
(***************************************************************************)
(* Guild.connect(channelID) of models/guild_local.go.  The play loop and   *)
(* every resync worker call it, at the same time, on the same Guild: it    *)
(* stores the channel, looks at g.vc under a read lock, lets the lock go,  *)
(* and leaves or joins on what it saw.                                     *)
(***************************************************************************)
EXTENDS GuildState

VARIABLE conn    \* for each caller, how far its call of connect is

Call(step, channel) == [step |-> step, channel |-> channel]
NotConnecting == Call("idle", NoChannel)

ConnectSteps == {"idle", "store", "inspect", "leave", "join", "ok", "failed"}

ConnTypeOK == conn \in [Actors -> [step : ConnectSteps, channel : MaybeChannel]]

ConnInit == conn = [a \in Actors |-> NotConnecting]

ConnectCalled(a, channel)  == conn' = [conn EXCEPT ![a] = Call("store", channel)]
ConnectReturned(a, result) == conn[a].step = result
ConnectDone(a)             == conn' = [conn EXCEPT ![a] = NotConnecting]

GoTo(a, step) == conn' = [conn EXCEPT ![a].step = step]

(* UPDATE guilds SET channel_id.                                           *)
StoreChannel(a) ==
    /\ conn[a].step = "store"
    /\ \/ /\ row' = [row EXCEPT !.channel = conn[a].channel]
          /\ GoTo(a, "inspect")
       \/ /\ "db" \in Faults
          /\ GoTo(a, "failed")
          /\ UNCHANGED row
    /\ UNCHANGED <<queueVars, mail, wires, voice, managed>>

(* getVC, and what to do about what it returns.                            *)
InspectVC(a) ==
    /\ conn[a].step = "inspect"
    /\ GoTo(a, IF conn[a].channel = NoChannel
                 THEN IF vc = NoChannel THEN "ok" ELSE "leave"
                 ELSE IF vc = conn[a].channel THEN "ok" ELSE "join")
    /\ UNCHANGED <<queueVars, row, mail, wires, voice, managed>>

(* vcMu.Lock, g.vc.Disconnect, g.vc = nil, Unlock.  g.vc may have become   *)
(* nil since InspectVC: Disconnect of a nil connection dereferences it.    *)
LeaveVC(a) ==
    /\ conn[a].step = "leave"
    /\ \/ /\ vc = NoChannel
          /\ panicked' = TRUE
          /\ UNCHANGED <<vc, conn>>
       \/ /\ vc # NoChannel
          /\ vc' = NoChannel
          /\ GoTo(a, "ok")
          /\ UNCHANGED panicked
       \/ /\ vc # NoChannel
          /\ "voice" \in Faults
          /\ GoTo(a, "failed")
          /\ UNCHANGED voice
    /\ UNCHANGED <<queueVars, row, mail, wires, managed>>

(* ChannelVoiceJoin, then g.vc = vc under the lock.                        *)
JoinVC(a) ==
    /\ conn[a].step = "join"
    /\ \/ /\ vc' = conn[a].channel
          /\ GoTo(a, "ok")
       \/ /\ "voice" \in Faults
          /\ GoTo(a, "failed")
          /\ UNCHANGED vc
    /\ UNCHANGED <<queueVars, row, mail, wires, panicked, managed>>

Connect(a) == StoreChannel(a) \/ InspectVC(a) \/ LeaveVC(a) \/ JoinVC(a)
=============================================================================
