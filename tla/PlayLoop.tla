----------------------------- MODULE PlayLoop -----------------------------
(***************************************************************************)
(* The play loop of a guild: Guild.playLoop and playLoopPreconditions      *)
(* (models/guild_local.go) driving the Track methods of                    *)
(* models/track_local.go.  One goroutine; lpc is where it is.              *)
(*                                                                         *)
(* A burst of packets is one step.  remote # NoTrack in any state but      *)
(* "init" and "discard" means initialized(): track, ffmpeg and stream are  *)
(* there, and clean drops all three.                                       *)
(***************************************************************************)
EXTENDS VoiceConnect

VARIABLES
    lpc,       \* where the loop is; "absent" before getGuild made the Guild
    remote,    \* Track.remote, the track being played
    old        \* the finished track stop() is about to delete or requeue

loopVars == <<lpc, remote, old>>

LoopSteps ==
    {"absent", "top", "next", "drained", "waitQueue", "init", "discard", "voice",
     "channel", "joining", "waitVoice", "burst", "finish", "delete", "requeue",
     "gate", "putPlaying", "putResync"}

LoopTypeOK ==
    /\ lpc \in LoopSteps
    /\ remote \in MaybeTrack
    /\ old \in MaybeTrack
    /\ lpc \in {"finish", "delete", "requeue"} => old \in Tracks
    /\ lpc \in {"init", "discard", "voice", "channel", "joining", "waitVoice", "burst"}
          => remote \in Tracks

LoopInit == lpc = "absent" /\ remote = NoTrack /\ old = NoTrack

(* getGuild: the first to need the Guild object starts its loop.           *)
EnsureGuild == lpc' = IF lpc = "absent" THEN "top" ELSE lpc

(* Track.clean on a resync.  Slip: the signal is taken, the track stays.   *)
KeepOnResync == remote' = remote
CleanOnResync == remote' = IF resyncPlaying THEN NoTrack ELSE remote

(* The select at the top of playLoopPreconditions, and initialized().      *)
Reload ==
    /\ lpc = "top"
    /\ resyncPlaying' = FALSE
    /\ CleanOnResync
    /\ lpc' = IF remote' = NoTrack THEN "next" ELSE "voice"
    /\ UNCHANGED <<queueVars, row, mail, resync, playing, gateWanted, voice, managed, conn, old>>

(* checkForNextTrack: SELECT the current track; nothing there drains.      *)
NextTrack ==
    /\ lpc = "next"
    /\ \/ /\ remote' \in CurrentTrack
          /\ lpc' = "init"
          /\ UNCHANGED conn
       \/ /\ queue = {}
          /\ lpc' = "drained"
          /\ ConnectCalled(Loop, NoChannel)
          /\ UNCHANGED remote
       \/ /\ "db" \in Faults
          /\ lpc' = "top"
          /\ UNCHANGED <<remote, conn>>
    /\ UNCHANGED <<queueVars, row, mail, wires, voice, managed, old>>

(* Slip: signals from before the wait are thrown away.                     *)
DrainedFlush ==
    /\ lpc = "drained"
    /\ ConnectReturned(Loop, "ok") \/ ConnectReturned(Loop, "failed")
    /\ ConnectDone(Loop)
    /\ lpc' = "waitQueue"
    /\ resyncPlaying' = FALSE
    /\ UNCHANGED <<queueVars, row, mail, resync, playing, gateWanted, voice, managed, remote, old>>

(* connect("") is back; an error is only logged.                           *)
Drained ==
    /\ lpc = "drained"
    /\ ConnectReturned(Loop, "ok") \/ ConnectReturned(Loop, "failed")
    /\ ConnectDone(Loop)
    /\ lpc' = "waitQueue"
    /\ UNCHANGED <<queueVars, row, mail, wires, voice, managed, remote, old>>

WaitQueue ==
    /\ lpc = "waitQueue"
    /\ resyncPlaying
    /\ resyncPlaying' = FALSE
    /\ lpc' = "top"
    /\ UNCHANGED <<queueVars, row, mail, resync, playing, gateWanted, voice, managed, conn, remote, old>>

(* initialize: extract the stream URL, store it, start ffmpeg.             *)
Initialize ==
    /\ lpc = "init"
    /\ lpc' \in {"voice"} \cup (IF "extract" \in Faults THEN {"discard"} ELSE {})
    /\ UNCHANGED <<queueVars, row, mail, wires, voice, managed, conn, remote, old>>

(* Slip: the broken track is deleted and stays loaded.                     *)
DiscardKeepsTrack ==
    /\ lpc = "discard"
    /\ DropRows({remote})
    /\ lpc' = "top"
    /\ UNCHANGED <<unused, silent, row, mail, wires, voice, managed, conn, remote, old>>

(* A track that cannot be initialized is deleted, if the DELETE succeeds,  *)
(* and cleaned.                                                            *)
Discard ==
    /\ lpc = "discard"
    /\ \/ DropRows({remote})
       \/ "db" \in Faults /\ UNCHANGED <<queue, ord>>
    /\ remote' = NoTrack
    /\ lpc' = "top"
    /\ UNCHANGED <<unused, silent, row, mail, wires, voice, managed, conn, old>>

(* vcPrecondition.  An existing connection is given time to get ready and  *)
(* then used, ready or not.                                                *)
CheckVoice ==
    /\ lpc = "voice"
    /\ lpc' = IF vc = NoChannel THEN "channel" ELSE "burst"
    /\ UNCHANGED <<queueVars, row, mail, wires, voice, managed, conn, remote, old>>

(* checkForVC: join the channel of the row, or wait for a guild resync.    *)
CheckChannel ==
    /\ lpc = "channel"
    /\ \/ /\ row.channel # NoChannel
          /\ lpc' = "joining"
          /\ ConnectCalled(Loop, row.channel)
       \/ /\ row.channel = NoChannel
          /\ lpc' = "waitVoice"
          /\ UNCHANGED conn
       \/ /\ "db" \in Faults
          /\ lpc' = "top"
          /\ UNCHANGED conn
    /\ UNCHANGED <<queueVars, row, mail, wires, voice, managed, remote, old>>

Joined ==
    /\ lpc = "joining"
    /\ \/ ConnectReturned(Loop, "ok") /\ lpc' = "burst"
       \/ ConnectReturned(Loop, "failed") /\ lpc' = "top"
    /\ ConnectDone(Loop)
    /\ UNCHANGED <<queueVars, row, mail, wires, voice, managed, remote, old>>

WaitVoice ==
    /\ lpc = "waitVoice"
    /\ resync
    /\ resync' = FALSE
    /\ lpc' = "burst"
    /\ UNCHANGED <<queueVars, row, mail, resyncPlaying, playing, gateWanted, voice, managed, conn, remote, old>>

(* stop() remembers the track, then cleans.  Slip: the other way round.    *)
CleanThenRemember == remote' = NoTrack /\ old' = remote'
RememberThenClean == old' = remote /\ remote' = NoTrack

(* packetPrecondition: a burst is sent; or the stream ended and stop()     *)
(* cleans; or it broke, the stored URL is dropped and the track cleaned.   *)
Burst ==
    /\ lpc = "burst"
    /\ \/ /\ lpc' = "gate"
          /\ UNCHANGED <<remote, old>>
       \/ /\ lpc' = "finish"
          /\ RememberThenClean
       \/ /\ "stream" \in Faults
          /\ lpc' = "top"
          /\ remote' = NoTrack
          /\ UNCHANGED old
    /\ UNCHANGED <<queueVars, row, mail, wires, voice, managed, conn>>

(* stop(): DeleteOrRequeue reads the loop flag, then acts on it.           *)
ReadLoopFlag ==
    /\ lpc = "finish"
    /\ \/ /\ lpc' = IF row.loop THEN "requeue" ELSE "delete"
          /\ UNCHANGED old
       \/ /\ "db" \in Faults
          /\ lpc' = "top"
          /\ old' = NoTrack
    /\ UNCHANGED <<queueVars, row, mail, wires, voice, managed, conn, remote>>

Finish ==
    /\ \/ /\ lpc = "delete"
          /\ DropRows({old})
          /\ lpc' = "gate"
       \/ /\ lpc = "requeue"
          /\ RequeueRow(old)
          /\ lpc' = "gate"
       \/ /\ lpc \in {"delete", "requeue"}
          /\ "db" \in Faults
          /\ lpc' = "top"
          /\ UNCHANGED <<queue, ord>>
    /\ old' = NoTrack
    /\ UNCHANGED <<unused, silent, row, mail, wires, voice, managed, conn, remote>>

(* Slip: a paused loop does not listen to resyncPlaying.                   *)
GateDeaf ==
    /\ lpc = "gate"
    /\ playing
    /\ playing' = FALSE
    /\ lpc' = "putPlaying"
    /\ UNCHANGED <<queueVars, row, mail, resync, resyncPlaying, gateWanted, voice, managed, conn, remote, old>>

(* The select at the end: take the playing token, or the resyncPlaying     *)
(* one, whichever is there.                                                *)
Gate ==
    /\ lpc = "gate"
    /\ \/ /\ playing
          /\ playing' = FALSE
          /\ lpc' = "putPlaying"
          /\ UNCHANGED resyncPlaying
       \/ /\ resyncPlaying
          /\ resyncPlaying' = FALSE
          /\ lpc' = "putResync"
          /\ UNCHANGED playing
    /\ UNCHANGED <<queueVars, row, mail, resync, gateWanted, voice, managed, conn, remote, old>>

(* Put back what was taken; a channel filled meanwhile stays full.         *)
(* Slips: the token is kept.                                               *)
KeepPlaying   == playing' = playing
ReturnPlaying == playing' = TRUE
KeepResync    == resyncPlaying' = resyncPlaying
ReturnResync  == resyncPlaying' = TRUE

PutBack ==
    /\ \/ /\ lpc = "putPlaying"
          /\ ReturnPlaying
          /\ UNCHANGED resyncPlaying
       \/ /\ lpc = "putResync"
          /\ ReturnResync
          /\ UNCHANGED playing
    /\ lpc' = "top"
    /\ UNCHANGED <<queueVars, row, mail, resync, gateWanted, voice, managed, conn, remote, old>>

LoopStep ==
    \/ Reload \/ NextTrack \/ Drained \/ WaitQueue \/ Initialize \/ Discard
    \/ CheckVoice \/ CheckChannel \/ Joined \/ WaitVoice \/ Burst
    \/ ReadLoopFlag \/ Finish \/ Gate \/ PutBack
=============================================================================
