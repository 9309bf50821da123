------------------------------ MODULE Resync ------------------------------
(***************************************************************************)
(* The process that manages the bot: it starts doing so (initFromStore),   *)
(* receives resync messages (handleResync, doResync of service/broker.go)  *)
(* and applies them to the Guild (resyncGuild, ResyncGuildTrack of         *)
(* models/bot_local.go).  Every message and every target in it is handled  *)
(* by a goroutine of its own, so targets are taken in any order and guild  *)
(* resyncs overlap.                                                        *)
(***************************************************************************)
EXTENDS PlayLoop

VARIABLE worker    \* goroutines in ResyncGuild or FullResync, with their snapshot

WorkerSteps == {"idle", "read", "connecting", "signal", "gate"}

Working(step, paused) == [step |-> step, paused |-> paused]
NotWorking == Working("idle", FALSE)

WorkerTypeOK == worker \in [Workers -> [step : WorkerSteps, paused : BOOLEAN]]

WorkerInit == worker = [w \in Workers |-> NotWorking]

(* initFromStore stores the state and starts FullResync.                   *)
StartManaging(w) ==
    /\ ~managed
    /\ worker[w].step = "idle"
    /\ managed' = TRUE
    /\ worker' = [worker EXCEPT ![w] = Working("read", FALSE)]
    /\ UNCHANGED <<queueVars, row, mail, wires, voice, conn, loopVars>>

(* ResyncTargetCurrent: getGuild, then a send that does not block.         *)
DeliverCurrent ==
    /\ managed
    /\ mail.current > 0
    /\ mail' = [mail EXCEPT !.current = @ - 1]
    /\ resyncPlaying' = TRUE
    /\ EnsureGuild
    /\ UNCHANGED <<queueVars, row, resync, playing, gateWanted, voice, managed, conn, remote, old, worker>>

(* ResyncTargetGuild.                                                      *)
DeliverGuild(w) ==
    /\ managed
    /\ mail.guild > 0
    /\ worker[w].step = "idle"
    /\ mail' = [mail EXCEPT !.guild = @ - 1]
    /\ worker' = [worker EXCEPT ![w] = Working("read", FALSE)]
    /\ UNCHANGED <<queueVars, row, wires, voice, managed, conn, loopVars>>

(* A message for a bot this process does not manage is skipped.            *)
SkipMessage ==
    /\ ~managed
    /\ \/ mail.current > 0 /\ mail' = [mail EXCEPT !.current = @ - 1]
       \/ mail.guild > 0 /\ mail' = [mail EXCEPT !.guild = @ - 1]
    /\ UNCHANGED <<queueVars, row, wires, voice, managed, conn, loopVars, worker>>

(* SELECT the guild, getGuild, call connect with what the SELECT returned. *)
ReadRow(w) ==
    /\ worker[w].step = "read"
    /\ \/ /\ worker' = [worker EXCEPT ![w] = Working("connecting", row.paused)]
          /\ ConnectCalled(w, row.channel)
          /\ EnsureGuild
       \/ /\ "db" \in Faults
          /\ worker' = [worker EXCEPT ![w] = NotWorking]
          /\ UNCHANGED <<conn, lpc>>
    /\ UNCHANGED <<queueVars, row, mail, wires, voice, managed, remote, old>>

(* An error of connect ends the resync: neither channel is touched.        *)
Connected(w) ==
    /\ worker[w].step = "connecting"
    /\ \/ /\ ConnectReturned(w, "ok")
          /\ worker' = [worker EXCEPT ![w].step = "signal"]
       \/ /\ ConnectReturned(w, "failed")
          /\ worker' = [worker EXCEPT ![w] = NotWorking]
    /\ ConnectDone(w)
    /\ UNCHANGED <<queueVars, row, mail, wires, voice, managed, loopVars>>

SignalResync(w) ==
    /\ worker[w].step = "signal"
    /\ resync' = TRUE
    /\ worker' = [worker EXCEPT ![w].step = "gate"]
    /\ UNCHANGED <<queueVars, row, mail, resyncPlaying, playing, gateWanted, voice, managed, conn, loopVars>>

(* Slip: a resync of a playing guild takes the token, too.                 *)
TakeToken(w) == playing' = FALSE
ApplyPause(w) == playing' = ~worker[w].paused

(* Paused: take the playing token if it is there.  Not paused: put one.    *)
SetGate(w) ==
    /\ worker[w].step = "gate"
    /\ ApplyPause(w)
    /\ gateWanted' = ~worker[w].paused
    /\ worker' = [worker EXCEPT ![w] = NotWorking]
    /\ UNCHANGED <<queueVars, row, mail, resync, resyncPlaying, voice, managed, conn, loopVars>>

WorkerStep(w) == ReadRow(w) \/ Connected(w) \/ SignalResync(w) \/ SetGate(w)
=============================================================================
