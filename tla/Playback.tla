----------------------------- MODULE Playback -----------------------------
(***************************************************************************)
(* How the packets of a track reach Discord and how its position reaches   *)
(* the database: Track of models/track_local.go and storeLoop of           *)
(* models/guild_local.go.  Three goroutines of a Guild work on it:         *)
(*                                                                         *)
(*   playLoop --packetChan--> sendLoop --g.vc, under vcMu--> Discord       *)
(*            --posChan-----> storeLoop -----------------> tracks.pos      *)
(*                                                                         *)
(* PlayLoop takes a burst of packets as one step; here every packet is     *)
(* one, and the pause gate is always open.  Positions are counted in       *)
(* frames (frameSizeMs).  Live streams, which ffmpeg does not seek in, are *)
(* left out.                                                               *)
(***************************************************************************)
EXTENDS Integers, SequencesExt

CONSTANTS
    Tracks,          \* track ids
    NoTrack,         \* a nil *RemoteTrack
    BurstNum,        \* packetBurstNum: packets in a burst, slots of packetChan
    Length,          \* frames in a track
    SeekTo,          \* the positions clients seek to, in the track or not
    MaxEvents        \* bound: requests, and URLs that do not work, in a behaviour

ASSUME PlaybackConstants ==
    /\ NoTrack \notin Tracks
    /\ BurstNum \in Nat \ {0}
    /\ Length \in Nat
    /\ SeekTo \subseteq Int
    /\ MaxEvents \in Nat

VARIABLES
    queue,          \* the tracks of the guild in the order of their keys
    looping,        \* guilds.loop
    pos,            \* tracks.pos, in frames
    url,            \* tracks.stream_url: "none", "good", or one that fails, "bad"
    mail,           \* a resync of the current track is published
    resyncPlaying,  \* Guild.resyncPlaying holds a token
    (* playLoop *)
    lpc,            \* where it is
    remote,         \* Track.remote and Track.stream: id, Pos, frames to come
    sent,           \* packets of this burst
    packetChan,     \* packets in it, for sendLoop
    (* sendLoop *)
    spc,            \* where it is; "send" holds vcMu for reading
    vc,             \* Guild.vc is not nil
    leaver,         \* a resyncGuild worker waits for vcMu to disconnect
    (* storeLoop *)
    posChan,        \* Guild.posChan, one slot
    storing,        \* positions storeLoop is writing
    events,         \* requests and failing URLs so far
    (* History, read by no action of the program. *)
    current,        \* the stored position is one of the current stream's
    late,           \* positions of older streams stored since that was cleaned
    stale           \* the packets of packetChan, the first, that are of older streams

rows     == <<queue, looping, pos, url>>
loopVars == <<lpc, remote, sent>>
sendVars == <<spc, vc, leaver>>
posVars  == <<posChan, storing>>
history  == <<current, late, stale>>
vars == <<rows, mail, resyncPlaying, loopVars, packetChan, sendVars, posVars, events, history>>

Loaded(id, at, left) == [id |-> id, pos |-> at, left |-> left]
NothingLoaded == Loaded(NoTrack, 0, 0)
PosMsg(id, at, own) == [id |-> id, pos |-> at, own |-> own]
PosMsgs == [id : Tracks, pos : Nat, own : BOOLEAN]

TypeOK ==
    /\ queue \in Seq(Tracks)
    /\ looping \in BOOLEAN
    /\ pos \in [Tracks -> Int]
    /\ url \in [Tracks -> {"none", "good", "bad"}]
    /\ mail \in BOOLEAN /\ resyncPlaying \in BOOLEAN
    /\ lpc \in {"top", "next", "drain", "asleep", "init", "voice", "burst", "count"}
    /\ remote \in [id : Tracks \cup {NoTrack}, pos : Int, left : 0 .. Length]
    /\ sent \in 0 .. BurstNum
    /\ packetChan \in 0 .. BurstNum /\ stale \in 0 .. packetChan
    /\ spc \in {"take", "look", "send"}
    /\ vc \in BOOLEAN
    /\ leaver \in BOOLEAN
    /\ posChan \in Seq(PosMsgs)
    /\ storing \subseteq PosMsgs
    /\ events \in 0 .. MaxEvents
    /\ current \in BOOLEAN /\ late \in Nat

(* NewGuild and NewTrack start the goroutines, on a queue as it was left.  *)
Init ==
    /\ queue \in {<<>>} \cup {<<t>> : t \in Tracks}
    /\ looping \in BOOLEAN
    /\ pos = [t \in Tracks |-> 0]
    /\ url = [t \in Tracks |-> "none"]
    /\ mail = FALSE /\ resyncPlaying = FALSE
    /\ lpc = "top" /\ remote = NothingLoaded /\ sent = 0
    /\ packetChan = 0
    /\ spc = "take" /\ vc = FALSE /\ leaver = FALSE
    /\ posChan = <<>> /\ storing = {}
    /\ events = 0
    /\ current = FALSE /\ late = 0 /\ stale = 0

(* One more of the bounded events.                                         *)
Event == events < MaxEvents /\ events' = events + 1

(***************************************************************************)
(* The rows of the tracks, as playLoop and the requests change them.       *)
(***************************************************************************)
Without(t) ==
    IF Contains(queue, t) THEN RemoveAt(queue, CHOOSE i \in DOMAIN queue : queue[i] = t) ELSE queue

DeleteTrack(t) ==
    /\ queue' = Without(t)
    /\ pos' = [pos EXCEPT ![t] = 0]
    /\ url' = [url EXCEPT ![t] = "none"]

(* RemoteTrack.Requeue: behind the last key, from the beginning.           *)
RequeueTrack(t) ==
    /\ queue' = IF Contains(queue, t) THEN Append(Without(t), t) ELSE queue
    /\ pos' = [pos EXCEPT ![t] = 0]
    /\ UNCHANGED url

DeleteOrRequeue(t) == IF looping THEN RequeueTrack(t) ELSE DeleteTrack(t)

(***************************************************************************)
(* playLoop.                                                               *)
(***************************************************************************)

(* Track.clean.  What is on its way belongs to an older stream now.        *)
Outdated(msg) == PosMsg(msg.id, msg.pos, FALSE)
Clean ==
    /\ remote' = NothingLoaded
    /\ stale' = packetChan /\ UNCHANGED packetChan
    /\ posChan' = [i \in DOMAIN posChan |-> Outdated(posChan[i])]
    /\ storing' = {Outdated(msg) : msg \in storing}
    /\ current' = FALSE
    /\ late' = 0

(* The select at the top: a resync cleans the track.                       *)
Top ==
    /\ lpc = "top"
    /\ resyncPlaying' = FALSE
    /\ IF resyncPlaying THEN Clean ELSE UNCHANGED <<remote, packetChan, posVars, history>>
    /\ lpc' = IF remote'.id = NoTrack THEN "next" ELSE "voice"
    /\ UNCHANGED <<rows, mail, sent, sendVars, events>>

(* checkForNextTrack.                                                      *)
NextTrack ==
    /\ lpc = "next"
    /\ IF queue = <<>>
         THEN lpc' = "drain" /\ UNCHANGED remote
         ELSE lpc' = "init" /\ remote' = Loaded(Head(queue), pos[Head(queue)], 0)
    /\ UNCHANGED <<rows, mail, resyncPlaying, sent, packetChan, sendVars, posVars, events, history>>

(* connect(""): with a connection, its Lock waits until sendLoop is not    *)
(* reading.                                                                *)
Drain ==
    /\ lpc = "drain"
    /\ vc => spc # "send"
    /\ vc' = FALSE
    /\ lpc' = "asleep"
    /\ UNCHANGED <<rows, mail, resyncPlaying, remote, sent, packetChan, spc, leaver, posVars, events, history>>

Wake ==
    /\ lpc = "asleep"
    /\ resyncPlaying
    /\ resyncPlaying' = FALSE
    /\ lpc' = "top"
    /\ UNCHANGED <<rows, mail, remote, sent, packetChan, sendVars, posVars, events, history>>

(* setStreamURL, for a row without a URL; one just extracted may fail.     *)
SetStreamURL(found) ==
    IF url[remote.id] # "none" THEN found = url[remote.id] /\ UNCHANGED events
    ELSE \/ found = "good" /\ UNCHANGED events
         \/ found = "bad" /\ Event

(* What ffmpeg delivers after seeking to the position: all of the track    *)
(* from one before its beginning, nothing from one beyond its end.         *)
Rest(at) == IF at < 0 THEN Length ELSE IF at > Length THEN 0 ELSE Length - at

(* initialize.  Where the extraction, its UPDATE or the start of ffmpeg    *)
(* fails, the track is deleted; a URL that fails shows as an empty stream. *)
Initialize ==
    /\ lpc = "init"
    /\ \/ \E found \in {"good", "bad"} :
             /\ SetStreamURL(found)
             /\ lpc' = "voice"
             /\ url' = IF Contains(queue, remote.id) THEN [url EXCEPT ![remote.id] = found] ELSE url
             /\ remote' = [remote EXCEPT !.left = IF found = "bad" THEN 0 ELSE Rest(remote.pos)]
             /\ UNCHANGED <<queue, pos, packetChan, posVars, history>>
       \/ /\ DeleteTrack(remote.id)
          /\ Clean
          /\ lpc' = "top"
          /\ UNCHANGED events
    /\ UNCHANGED <<looping, mail, resyncPlaying, sent, sendVars>>

(* vcPrecondition: without a connection, join.                             *)
Voice ==
    /\ lpc = "voice"
    /\ vc' = TRUE
    /\ lpc' = "burst"
    /\ UNCHANGED <<rows, mail, resyncPlaying, remote, sent, packetChan, spc, leaver, posVars, events, history>>

ResetURL(t) == url' = IF Contains(queue, t) THEN [url EXCEPT ![t] = "none"] ELSE url

(* sendPacketBurst: read a packet, push it when packetChan has a slot.     *)
Push ==
    /\ lpc = "burst"
    /\ sent < BurstNum
    /\ remote.left > 0
    /\ packetChan < BurstNum
    /\ packetChan' = packetChan + 1
    /\ remote' = [remote EXCEPT !.left = @ - 1]
    /\ lpc' = "count"
    /\ UNCHANGED <<rows, mail, resyncPlaying, sent, sendVars, posVars, events, history>>

BurstDone ==
    /\ lpc = "burst"
    /\ sent = BurstNum
    /\ sent' = 0
    /\ lpc' = "top"
    /\ UNCHANGED <<rows, mail, resyncPlaying, remote, packetChan, sendVars, posVars, events, history>>

(* The stream is at its end.  ffmpeg's exit code says whether to stop() or *)
(* to reset the stored URL; either cleans.                                 *)
EndOfStream ==
    /\ lpc = "burst"
    /\ sent < BurstNum
    /\ remote.left = 0
    /\ sent' = 0
    /\ Clean
    /\ lpc' = "top"
    /\ IF url[remote.id] = "bad"
         THEN ResetURL(remote.id) /\ UNCHANGED <<queue, pos>>
         ELSE DeleteOrRequeue(remote.id)
    /\ UNCHANGED <<looping, mail, resyncPlaying, sendVars, events>>

(* Slips: no compensation; one below zero; a slot for every packet.        *)
Position(at)   == at
Unfloored(at)  == at - packetChan
AnySlot        == Len(posChan) < BurstNum
(* What is still in packetChan has not been heard.                         *)
Heard(at)      == IF packetChan < at THEN at - packetChan ELSE 0
SlotFree       == posChan = <<>>

(* incrementPos: the message is dropped when posChan is full.              *)
Count ==
    /\ lpc = "count"
    /\ LET at == remote.pos + 1 IN
       /\ remote' = [remote EXCEPT !.pos = at]
       /\ posChan' = IF SlotFree THEN Append(posChan, PosMsg(remote.id, Heard(at), TRUE)) ELSE posChan
    /\ sent' = sent + 1
    /\ lpc' = "burst"
    /\ UNCHANGED <<rows, mail, resyncPlaying, packetChan, sendVars, storing, events, history>>

PlayLoop ==
    \/ Top \/ NextTrack \/ Drain \/ Wake \/ Initialize \/ Voice
    \/ Push \/ BurstDone \/ EndOfStream \/ Count

(***************************************************************************)
(* sendLoop, and what it shares vcMu with.                                 *)
(***************************************************************************)
TakePacket ==
    /\ spc = "take"
    /\ packetChan > 0
    /\ packetChan' = packetChan - 1
    /\ stale' = IF stale > 0 THEN stale - 1 ELSE 0
    /\ spc' = "look"
    /\ UNCHANGED <<rows, mail, resyncPlaying, loopVars, vc, leaver, posVars, events, current, late>>

(* RLock, behind any writer that is waiting; drop the packet if there is   *)
(* no connection or discordgo has it not ready.                            *)
WriterWaits == vc /\ (leaver \/ lpc = "drain")
LookAtVC ==
    /\ spc = "look"
    /\ ~WriterWaits
    /\ spc' \in IF vc THEN {"send", "take"} ELSE {"take"}
    /\ UNCHANGED <<rows, mail, resyncPlaying, loopVars, packetChan, vc, leaver, posVars, events, history>>

(* Slip: the send has no timeout, and nobody takes the packet.             *)
SendOnly == FALSE

(* Discord takes the packet, or opusSendTimeout passes; then RUnlock.      *)
SendPacket ==
    /\ spc = "send"
    /\ spc' = "take"
    /\ UNCHANGED <<rows, mail, resyncPlaying, loopVars, packetChan, vc, leaver, posVars, events, history>>

SendLoop == TakePacket \/ LookAtVC \/ SendPacket

(* The Leave a client asked for: resyncGuild calls connect with an empty   *)
(* channel, which sees g.vc and waits for the lock.                        *)
AskToLeave ==
    /\ Event
    /\ vc /\ ~leaver
    /\ leaver' = TRUE
    /\ UNCHANGED <<rows, mail, resyncPlaying, loopVars, packetChan, spc, vc, posVars, history>>

Leave ==
    /\ leaver
    /\ spc # "send"
    /\ leaver' = FALSE
    /\ vc' = FALSE
    /\ UNCHANGED <<rows, mail, resyncPlaying, loopVars, packetChan, spc, posVars, events, history>>

(***************************************************************************)
(* storeLoop.                                                              *)
(***************************************************************************)
(* Slip: the UPDATE runs in a goroutine of its own.                        *)
ReadyForAnother == TRUE
StoreIdle       == storing = {}

(* Receive; go on to store it if the ticker has passed, that is, now and   *)
(* then.                                                                   *)
TakePosition ==
    /\ StoreIdle
    /\ posChan # <<>>
    /\ posChan' = Tail(posChan)
    /\ storing' \in {storing, storing \cup {Head(posChan)}}
    /\ UNCHANGED <<rows, mail, resyncPlaying, loopVars, packetChan, sendVars, events, history>>

(* UPDATE tracks SET pos WHERE id.                                         *)
StorePosition ==
    \E msg \in storing :
       /\ storing' = storing \ {msg}
       /\ pos' = IF Contains(queue, msg.id) THEN [pos EXCEPT ![msg.id] = msg.pos] ELSE pos
       /\ current' = (msg.own /\ Contains(queue, msg.id))
       /\ late' = IF msg.own THEN late ELSE late + 1
       /\ UNCHANGED <<queue, looping, url, mail, resyncPlaying, loopVars, packetChan, sendVars, posChan, events, stale>>

StoreLoop == TakePosition \/ StorePosition

(***************************************************************************)
(* Requests and the resync they publish; URLs that stop working.           *)
(***************************************************************************)
Request ==
    /\ Event
    /\ mail' = TRUE
    /\ current' = FALSE
    /\ UNCHANGED <<looping, resyncPlaying, loopVars, packetChan, sendVars, posVars, late, stale>>

(* Seek: the position of the current track, if there is one, is what the   *)
(* client says; nothing compares it with the track's length, or with 0.    *)
Seek ==
    /\ Request
    /\ \E at \in SeekTo :
          pos' = IF queue = <<>> THEN pos ELSE [pos EXCEPT ![Head(queue)] = at]
    /\ UNCHANGED <<queue, url>>

SkipTrack == queue # <<>> /\ Request /\ DeleteOrRequeue(Head(queue))

PlayTrack ==
    /\ Request
    /\ \E t \in Tracks : ~Contains(queue, t) /\ remote.id # t /\ queue' = Append(queue, t)
    /\ UNCHANGED <<pos, url>>

(* ResyncPlaying.                                                          *)
Deliver ==
    /\ mail
    /\ mail' = FALSE
    /\ resyncPlaying' = TRUE
    /\ UNCHANGED <<rows, loopVars, packetChan, sendVars, posVars, events, history>>

(* A stored URL expires; a stream read from it breaks off.                 *)
Expire ==
    /\ Event
    /\ \E t \in Tracks :
          /\ url[t] = "good"
          /\ url' = [url EXCEPT ![t] = "bad"]
          /\ remote' = IF remote.id = t THEN [remote EXCEPT !.left = 0] ELSE remote
    /\ UNCHANGED <<queue, looping, pos, mail, resyncPlaying, lpc, sent, packetChan, sendVars, posVars, history>>

Outside == Seek \/ SkipTrack \/ PlayTrack \/ Expire \/ AskToLeave

Next == PlayLoop \/ SendLoop \/ StoreLoop \/ Leave \/ Deliver \/ Outside

Spec == Init /\ [][Next]_vars

(* The goroutines run and messages arrive.  Nobody need ask for anything,  *)
(* no URL need fail, Discord need not take a packet.  That only MaxEvents  *)
(* URLs fail is assumed: the code extracts another one without a limit.    *)
Fairness ==
    /\ WF_vars(PlayLoop) /\ WF_vars(TakePacket \/ LookAtVC) /\ WF_vars(SendPacket)
    /\ WF_vars(StoreLoop) /\ WF_vars(Leave) /\ WF_vars(Deliver)

FairSpec == Spec /\ Fairness

(***************************************************************************)
(* Properties.                                                             *)
(***************************************************************************)

(* The position that playLoop has pushed to, and that sendLoop has         *)
(* received to.  A stream asked for from before the beginning starts at    *)
(* the beginning: its frames are ahead of the count, which is below 0.     *)
Pushed   == remote.pos + (IF lpc = "count" THEN 1 ELSE 0)
Received ==
    LET at == Pushed - (packetChan - stale)
    IN  IF at < 0 THEN 0 ELSE at

(* A position on its way to the database, or stored from there, is never   *)
(* ahead of what sendLoop has received of the stream ("compensate for      *)
(* packet buffer", incrementPos), wherever it was sought to: after a       *)
(* restart packets are repeated and none skipped.                          *)
PositionNotAhead ==
    /\ \A i \in DOMAIN posChan : posChan[i].own => posChan[i].pos <= Received
    /\ \A msg \in storing : msg.own => msg.pos <= Received
    /\ current => pos[remote.id] <= Received

(* A Seek, or the requeue of a looped track, can still be overwritten by a *)
(* position of the stream before it.  Once the loop has cleaned that       *)
(* stream, at most two such messages are left: the one in posChan and the  *)
(* one storeLoop holds.                                                    *)
FewLateStores == late <= 2

(* Once a position of the current stream is stored, storeLoop never moves  *)
(* the track back while the stream goes on: neither an older stream's      *)
(* message nor an older message of this one arrives later.                 *)
PositionGrows ==
    [][current /\ storing' # storing /\ remote' = remote /\ Contains(queue, remote.id)
          => current' /\ pos'[remote.id] >= pos[remote.id]]_vars


(* A worker that waits for vcMu to leave gets it: sendLoop holds it for no *)
(* longer than a send may take.                                            *)
LeaverGetsLock == leaver ~> ~leaver
=============================================================================
