------------------------------- MODULE Guild -------------------------------
(***************************************************************************)
(* One guild of one bot, end to end: requests change its rows and publish  *)
(* resync messages; the process that manages the bot turns them into       *)
(* tokens and calls of connect; the play loop plays.  The managing process *)
(* may die and another take over.                                          *)
(***************************************************************************)
EXTENDS Resync, Handlers

CONSTANT MaxCrashes    \* bound: times the managing process dies

ASSUME CrashConstants == MaxCrashes \in Nat

VARIABLE crashes

vars == <<queueVars, row, mail, wires, voice, managed, conn, loopVars, worker, rpcVars, crashes>>

TypeOK == StateTypeOK /\ ConnTypeOK /\ LoopTypeOK /\ WorkerTypeOK /\ RpcTypeOK /\ crashes \in 0 .. MaxCrashes

Init == StateInit /\ ConnInit /\ LoopInit /\ WorkerInit /\ RpcInit /\ crashes = 0

(* The managing process dies, of a panic or otherwise: all it had in       *)
(* memory is gone, the rows and the messages on their way are not.         *)
Crash ==
    /\ managed
    /\ crashes < MaxCrashes
    /\ crashes' = crashes + 1
    /\ managed' = FALSE
    /\ panicked' = FALSE
    /\ vc' = NoChannel
    /\ resync' = FALSE /\ resyncPlaying' = FALSE /\ playing' = FALSE /\ gateWanted' = FALSE
    /\ conn' = [a \in Actors |-> NotConnecting]
    /\ lpc' = "absent" /\ remote' = NoTrack /\ old' = NoTrack
    /\ worker' = [w \in Workers |-> NotWorking]
    /\ silent' = {}
    /\ UNCHANGED <<queue, ord, unused, row, mail, rpcVars>>

(* Steps of the managing process, and of the process about to be that.     *)
DoLoop        == ~panicked /\ LoopStep /\ UNCHANGED <<worker, rpcVars, crashes>>
DoConnect(a)  == ~panicked /\ Connect(a) /\ UNCHANGED <<loopVars, worker, rpcVars, crashes>>
DoWorker(w)   == ~panicked /\ WorkerStep(w) /\ UNCHANGED <<rpcVars, crashes>>
DoDeliver     == ~panicked /\ DeliverCurrent /\ UNCHANGED <<rpcVars, crashes>>
DoReceive(w)  == ~panicked /\ DeliverGuild(w) /\ UNCHANGED <<rpcVars, crashes>>
DoTakeOver(w) == StartManaging(w) /\ UNCHANGED <<rpcVars, crashes>>
DoSkip        == SkipMessage /\ UNCHANGED <<rpcVars, crashes>>

(* Requests may be served by any instance.                                 *)
DoBegin(c) == Begin(c) /\ UNCHANGED <<wires, voice, managed, conn, loopVars, worker, crashes>>
DoRpc(c)   == RpcStep(c) /\ UNCHANGED <<wires, voice, managed, conn, loopVars, worker, crashes>>

Next ==
    \/ DoLoop \/ DoDeliver \/ DoSkip \/ Crash
    \/ \E a \in Actors : DoConnect(a)
    \/ \E w \in Workers : DoWorker(w) \/ DoReceive(w) \/ DoTakeOver(w)
    \/ \E c \in Clients : DoBegin(c) \/ DoRpc(c)

Spec == Init /\ [][Next]_vars

(* Every goroutine that can run does, messages are handled, a process is   *)
(* there to take over; nobody has to make a request.                       *)
Fairness ==
    /\ WF_vars(DoLoop) /\ WF_vars(DoDeliver)
    /\ \A a \in Actors : WF_vars(DoConnect(a))
    /\ \A w \in Workers : WF_vars(DoWorker(w)) /\ WF_vars(DoReceive(w)) /\ WF_vars(DoTakeOver(w))
    /\ \A c \in Clients : WF_vars(DoRpc(c))

FairSpec == Spec /\ Fairness

(***************************************************************************)
(* Safety.                                                                 *)
(***************************************************************************)

(* A Current resync is on its way to the play loop: in its channel, in the *)
(* loop's hand at the gate, in Redis, or still to be published.            *)
ReloadDue ==
    \/ resyncPlaying
    \/ lpc = "putResync"
    \/ mail.current > 0
    \/ \E c \in Clients : WillAnnounce(c)

(* No lost wake-up: while the loop is on its way to, or in, the wait for a *)
(* resyncPlaying signal (track_local.go, checkForNextTrack), any track in  *)
(* the queue that its Play found affecting the head has a signal due.      *)
WakeupDue ==
    lpc \in {"drained", "waitQueue"} /\ queue \ silent # {} => ReloadDue

(* The loop plays the head of the queue: the track being played has its    *)
(* row and no row that was announced is ahead of it, unless a reload is    *)
(* due.  Skip, Stop, Remove and Play at the head, a requeue behind the     *)
(* loop's back and a track deleted by two parties must all keep this.      *)
PlaysHead ==
    remote # NoTrack /\ remote \notin silent /\ ~ReloadDue
        => /\ remote \in queue
           /\ \A t \in queue \ silent : ord[remote] <= ord[t]

(* Where the loop has no track, which processes have a loop, which request *)
(* deletes everything.                                                     *)
Placed ==
    /\ lpc \in {"absent", "next", "drained", "waitQueue", "finish", "delete", "requeue"}
          => remote = NoTrack
    /\ ~managed => lpc = "absent"
    /\ \A w \in Workers : worker[w].step # "idle" => managed
    /\ \A c \in Clients : call[c].step = "deleteAll" => call[c].op = "stop"

(* The two together, with what makes them inductive.                       *)
HeadInv == TypeOK /\ Placed /\ WakeupDue /\ PlaysHead

(* An open gate stays open: when the last guild resync meant the guild to  *)
(* play, the playing token is in the channel or in the hand of the loop    *)
(* that will put it back.                                                  *)
ResumeKept == gateWanted => playing \/ lpc = "putPlaying"

(***************************************************************************)
(* Liveness, under Fairness.                                               *)
(***************************************************************************)

(* A play loop asleep on an empty queue gets up once an announced track    *)
(* is in it.                                                               *)
QueueWakes ==
    lpc = "waitQueue" /\ queue \ silent # {} ~> lpc # "waitQueue" \/ panicked

(* A track whose row was skipped, stopped or removed at the head stops     *)
(* being played, even while the guild is paused: a resync lets the loop    *)
(* through the gate.  Only a loop waiting for a voice channel keeps it.    *)
RemovedTrackEnds ==
    \A t \in Tracks :
        remote = t /\ t \notin queue \cup silent
            ~> remote # t \/ lpc = "waitVoice" \/ panicked

(***************************************************************************)
(* What the repository says of itself and the code does not always keep.   *)
(***************************************************************************)

(* Nothing is under way but the play loop: no request, no message, no      *)
(* resync.                                                                 *)
Quiet ==
    /\ managed /\ ~panicked
    /\ mail = [current |-> 0, guild |-> 0]
    /\ \A w \in Workers : worker[w] = NotWorking
    /\ \A c \in Clients : call[c] = NoCall

(* Guild.vc is one of the "lockable values" (guild_local.go:64): no caller *)
(* of connect disconnects a connection another caller has set to nil.      *)
NoNilDisconnect == ~panicked

(* The token in Guild.playing verifies "that the track is, indeed,         *)
(* playing" (guild_local.go:234): with the resync of every Pause handled,  *)
(* a paused guild has none.                                                *)
PauseHonoured == Quiet /\ row.paused => ~playing
=============================================================================
