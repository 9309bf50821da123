--------------------------- MODULE PlaybackProofs ---------------------------
(***************************************************************************)
(* What holds of Playback with any tracks, bursts and lengths.             *)
(***************************************************************************)
EXTENDS Playback, SequenceTheorems, TLAPS

(* posChan has one slot, and storeLoop holds one message.                  *)
OneQueued  == posChan = <<>> \/ \E msg : posChan = <<msg>>
OneStoring == storing = {} \/ \E msg : storing = {msg}

(* Messages of older streams on their way.                                 *)
OldQueued  == IF posChan # <<>> /\ ~posChan[1].own THEN 1 ELSE 0
OldStoring == IF \E msg \in storing : ~msg.own THEN 1 ELSE 0

LateInv == OneQueued /\ OneStoring /\ late \in Nat /\ late + OldQueued + OldStoring <= 2

(* Clean makes what is on its way old, and starts to count again.          *)
LEMMA CleanLate ==
    ASSUME LateInv, Clean
    PROVE  LateInv'
<1>1. OneQueued'
  <2>1. CASE posChan = <<>>
    <3>1. posChan' = <<>>  BY <2>1 DEF Clean
    <3> QED  BY <3>1 DEF OneQueued
  <2>2. ASSUME NEW msg, posChan = <<msg>> PROVE OneQueued'
    <3>1. posChan' = <<Outdated(msg)>>  BY <2>2 DEF Clean
    <3> QED  BY <3>1 DEF OneQueued
  <2> QED  BY <2>1, <2>2 DEF LateInv, OneQueued
<1>2. OneStoring'
  <2>1. CASE storing = {}
    BY <2>1 DEF Clean, OneStoring
  <2>2. ASSUME NEW msg, storing = {msg} PROVE OneStoring'
    <3>1. storing' = {Outdated(msg)}  BY <2>2 DEF Clean
    <3> QED  BY <3>1 DEF OneStoring
  <2> QED  BY <2>1, <2>2 DEF LateInv, OneStoring
<1>3. late' = 0  BY DEF Clean
<1> QED  BY <1>1, <1>2, <1>3 DEF LateInv, OldQueued, OldStoring

LEMMA StepLate == LateInv /\ [Next]_vars => LateInv'
<1> SUFFICES ASSUME LateInv, [Next]_vars PROVE LateInv'  OBVIOUS
<1>1. CASE UNCHANGED <<posVars, late>>
  BY <1>1 DEF posVars, LateInv, OneQueued, OneStoring, OldQueued, OldStoring
<1>2. CASE Clean
  BY <1>2, CleanLate
<1>3. CASE Count
  <2>1. UNCHANGED <<storing, late>>  BY <1>3 DEF Count, history
  <2>2. CASE posChan = <<>>
    <3>1. posChan' = <<PosMsg(remote.id, Heard(remote.pos + 1), TRUE)>>
      BY <1>3, <2>2 DEF Count, SlotFree
    <3>2. OneQueued' /\ posChan'[1].own  BY <3>1 DEF OneQueued, PosMsg
    <3> QED  BY <2>1, <2>2, <3>2 DEF LateInv, OneStoring, OldQueued, OldStoring
  <2>3. CASE posChan # <<>>
    <3>1. UNCHANGED posChan  BY <1>3, <2>3 DEF Count, SlotFree
    <3> QED  BY <2>1, <3>1 DEF LateInv, OneQueued, OneStoring, OldQueued, OldStoring
  <2> QED  BY <2>2, <2>3
<1>4. CASE TakePosition
  <2>1. storing = {} /\ late' = late  BY <1>4 DEF TakePosition, StoreIdle, history
  <2>2. PICK msg : posChan = <<msg>>  BY <1>4 DEF TakePosition, LateInv, OneQueued
  <2>3. posChan' = <<>> /\ storing' \in {{}, {msg}}  BY <1>4, <2>1, <2>2 DEF TakePosition
  <2>4. OneQueued' /\ OneStoring'  BY <2>3 DEF OneQueued, OneStoring
  <2>5. OldQueued' = 0 /\ OldStoring = 0  BY <2>1, <2>3 DEF OldQueued, OldStoring
  <2>6. OldStoring' <= OldQueued  BY <2>2, <2>3 DEF OldQueued, OldStoring
  <2> QED
    BY <2>1, <2>4, <2>5, <2>6 DEF LateInv, OldQueued, OldStoring
<1>5. CASE StorePosition
  <2>1. PICK msg \in storing : /\ storing' = storing \ {msg}
                               /\ late' = IF msg.own THEN late ELSE late + 1
    BY <1>5 DEF StorePosition
  <2>2. UNCHANGED posChan  BY <1>5 DEF StorePosition
  <2>3. storing = {msg}  BY <2>1 DEF LateInv, OneStoring
  <2>4. storing' = {}  BY <2>1, <2>3
  <2>5. OldStoring' = 0 /\ OldStoring = (IF msg.own THEN 0 ELSE 1)
    BY <2>3, <2>4 DEF OldStoring
  <2>6. OldQueued' = OldQueued /\ OldQueued \in 0 .. 1  BY <2>2 DEF OldQueued
  <2> QED  BY <2>1, <2>2, <2>4, <2>5, <2>6 DEF LateInv, OneQueued, OneStoring
<1>6. ASSUME Top PROVE Clean \/ UNCHANGED <<posVars, late>>
  BY <1>6 DEF Top, history
<1>7. ASSUME Initialize \/ EndOfStream PROVE Clean \/ UNCHANGED <<posVars, late>>
  BY <1>7 DEF Initialize, EndOfStream, history, posVars
<1>8. ASSUME NextTrack \/ Drain \/ Wake \/ Voice \/ Push \/ BurstDone
      PROVE  UNCHANGED <<posVars, late>>
  BY <1>8 DEF NextTrack, Drain, Wake, Voice, Push, BurstDone, history
<1>9. ASSUME SendLoop \/ Leave \/ Deliver PROVE UNCHANGED <<posVars, late>>
  BY <1>9 DEF SendLoop, TakePacket, LookAtVC, SendPacket, Leave, Deliver, history
<1>10. ASSUME Outside PROVE UNCHANGED <<posVars, late>>
  BY <1>10 DEF Outside, Seek, SkipTrack, PlayTrack, Request, Expire, AskToLeave, history
<1>11. ASSUME UNCHANGED vars PROVE UNCHANGED <<posVars, late>>
  BY <1>11 DEF vars, history
<1> QED
  BY <1>1, <1>2, <1>3, <1>4, <1>5, <1>6, <1>7, <1>8, <1>9, <1>10, <1>11
  DEF Next, PlayLoop, StoreLoop

(* However the goroutines interleave, storeLoop overwrites what a Seek or  *)
(* a requeue has written twice at most after the loop has reloaded (the    *)
(* one slot of posChan and the one message in storeLoop's hand).           *)
THEOREM OldStreamsFadeOut == Spec => []FewLateStores
<1>1. Init => LateInv
  BY DEF Init, LateInv, OneQueued, OneStoring, OldQueued, OldStoring
<1>2. LateInv => FewLateStores
  BY DEF LateInv, FewLateStores, OldQueued, OldStoring
<1> QED  BY <1>1, <1>2, StepLate, PTL DEF Spec

(***************************************************************************)
(* The types, and what the place of the play loop says of its variables.   *)
(***************************************************************************)
BurstLeft     == lpc = "count" => sent < BurstNum
RemoteInv ==
    /\ remote.id = NoTrack => remote = NothingLoaded
    /\ lpc \in {"next", "drain", "asleep"} => remote.id = NoTrack
    /\ lpc \in {"init", "voice", "burst", "count"} => remote.id \in Tracks
TypesInv == TypeOK /\ LateInv /\ BurstLeft /\ RemoteInv

(* TypeOK, one part for each group of variables that move together.        *)
Urls == {"none", "good", "bad"}
RowsTyped  == queue \in Seq(Tracks) /\ pos \in [Tracks -> Int] /\ url \in [Tracks -> Urls]
FlagsTyped ==
    /\ looping \in BOOLEAN /\ mail \in BOOLEAN /\ resyncPlaying \in BOOLEAN
    /\ vc \in BOOLEAN /\ leaver \in BOOLEAN /\ current \in BOOLEAN
    /\ spc \in {"take", "look", "send"}
    /\ events \in 0 .. MaxEvents
LoopTyped ==
    /\ lpc \in {"top", "next", "drain", "asleep", "init", "voice", "burst", "count"}
    /\ remote \in [id : Tracks \cup {NoTrack}, pos : Int, left : 0 .. Length]
    /\ sent \in 0 .. BurstNum
ChanTyped  == packetChan \in 0 .. BurstNum /\ stale \in 0 .. packetChan
PosTyped   == posChan \in Seq(PosMsgs) /\ storing \subseteq PosMsgs
LoopInv    == LoopTyped /\ BurstLeft /\ RemoteInv

LEMMA TypeParts ==
    TypesInv <=> RowsTyped /\ FlagsTyped /\ ChanTyped /\ PosTyped /\ LoopInv /\ LateInv
BY DEF TypesInv, TypeOK, RowsTyped, FlagsTyped, ChanTyped, PosTyped, LoopInv, LoopTyped, LateInv, Urls

(* A track is dropped from a queue of tracks, or put behind it.            *)
LEMMA WithoutTyped ==
    ASSUME queue \in Seq(Tracks), NEW t \in Tracks
    PROVE  Without(t) \in Seq(Tracks)
<1>1. CASE Contains(queue, t)
  <2>1. PICK i \in DOMAIN queue : i = CHOOSE j \in DOMAIN queue : queue[j] = t
    BY <1>1 DEF Contains
  <2> i \in 1 .. Len(queue) /\ \A j \in 1 .. Len(queue) : queue[j] \in Tracks  OBVIOUS
  <2>2. SubSeq(queue, 1, i - 1) \in Seq(Tracks)
    <3>1. 1 \in Int /\ i - 1 \in Int /\ \A j \in 1 .. i - 1 : queue[j] \in Tracks  OBVIOUS
    <3> QED  BY <3>1, SubSeqProperties
  <2>3. SubSeq(queue, i + 1, Len(queue)) \in Seq(Tracks)
    <3>1. i + 1 \in Int /\ Len(queue) \in Int /\ \A j \in i + 1 .. Len(queue) : queue[j] \in Tracks
      OBVIOUS
    <3> QED  BY <3>1, SubSeqProperties
  <2> QED  BY <1>1, <2>1, <2>2, <2>3 DEF Without, RemoveAt
<1> QED  BY <1>1 DEF Without

LEMMA DeleteTyped ==
    ASSUME RowsTyped, NEW t \in Tracks, DeleteTrack(t) \/ RequeueTrack(t)
    PROVE  RowsTyped'
<1>1. Without(t) \in Seq(Tracks)  BY WithoutTyped DEF RowsTyped
<1>2. Append(Without(t), t) \in Seq(Tracks)  BY <1>1
<1>3. queue' \in Seq(Tracks)  BY <1>1, <1>2 DEF RowsTyped, DeleteTrack, RequeueTrack
<1>4. 0 \in 0 .. Length /\ "none" \in Urls  BY PlaybackConstants DEF Urls
<1>5. pos' \in [Tracks -> Int]  BY <1>4 DEF RowsTyped, DeleteTrack, RequeueTrack
<1>6. url' \in [Tracks -> Urls]  BY <1>4 DEF RowsTyped, DeleteTrack, RequeueTrack
<1> QED  BY <1>3, <1>5, <1>6 DEF RowsTyped

LEMMA CleanTyped ==
    ASSUME LateInv, PosTyped, Clean
    PROVE  PosTyped'
<1>1. \A msg \in PosMsgs : Outdated(msg) \in PosMsgs  BY DEF Outdated, PosMsg, PosMsgs
<1>2. posChan' \in Seq(PosMsgs)
  <2>1. CASE posChan = <<>>
    <3>1. posChan' = <<>>  BY <2>1 DEF Clean
    <3> QED  BY <3>1
  <2>2. ASSUME NEW msg, posChan = <<msg>> PROVE posChan' \in Seq(PosMsgs)
    <3>1. posChan' = <<Outdated(msg)>>  BY <2>2 DEF Clean
    <3>2. msg \in PosMsgs  BY <2>2 DEF PosTyped
    <3> QED  BY <3>1, <3>2, <1>1
  <2> QED  BY <2>1, <2>2 DEF LateInv, OneQueued
<1>3. storing' \subseteq PosMsgs  BY <1>1 DEF Clean, PosTyped
<1> QED  BY <1>2, <1>3 DEF PosTyped

(* The position of the message to come is no less than 0, wherever the     *)
(* stream was sought to.                                                   *)
LEMMA HeardTyped ==
    ASSUME ChanTyped, NEW at \in Int
    PROVE  Heard(at) \in Nat
BY PlaybackConstants DEF ChanTyped, Heard

(* What ffmpeg delivers is no more than the track.                         *)
LEMMA RestTyped ==
    ASSUME NEW at \in Int
    PROVE  Rest(at) \in 0 .. Length
BY PlaybackConstants DEF Rest

(* Which parts a step leaves alone.                                        *)
LEMMA LoopMovesOnly ==
    ASSUME Next
    PROVE  \/ PlayLoop \/ Expire
           \/ UNCHANGED loopVars
BY DEF Next, SendLoop, TakePacket, LookAtVC, SendPacket, Leave, Deliver, StoreLoop, TakePosition,
   StorePosition, Outside, Seek, SkipTrack, PlayTrack, Request, AskToLeave

LEMMA StepLoopTypes == LoopInv /\ RowsTyped /\ [Next]_vars => LoopInv'
<1> SUFFICES ASSUME LoopInv, RowsTyped, [Next]_vars PROVE LoopInv'  OBVIOUS
<1> USE PlaybackConstants DEF LoopInv, LoopTyped, BurstLeft, RemoteInv,
        loopVars, NothingLoaded, Loaded
<1>1. CASE Top
  <2>1. CASE resyncPlaying
    <3>1. remote' = NothingLoaded /\ remote'.id = NoTrack  BY <1>1, <2>1 DEF Top, Clean
    <3>2. lpc' = "next" /\ sent' = sent  BY <1>1, <3>1 DEF Top
    <3> QED  BY <3>1, <3>2
  <2>2. CASE ~resyncPlaying
    <3>1. remote' = remote  BY <1>1, <2>2 DEF Top
    <3>2. lpc' = (IF remote.id = NoTrack THEN "next" ELSE "voice") /\ sent' = sent  BY <1>1, <3>1 DEF Top
    <3> QED  BY <1>1, <3>1, <3>2 DEF Top
  <2> QED  BY <2>1, <2>2
<1>2. CASE NextTrack
  <2>1. CASE queue = <<>>
    BY <1>2, <2>1 DEF NextTrack
  <2>2. CASE queue # <<>>
    <3>1. Head(queue) \in Tracks  BY <2>2 DEF RowsTyped
    <3>2. pos[Head(queue)] \in Int  BY <3>1 DEF RowsTyped
    <3>3. /\ remote' = [id |-> Head(queue), pos |-> pos[Head(queue)], left |-> 0]
          /\ lpc' = "init" /\ sent' = sent
      BY <1>2, <2>2 DEF NextTrack
    <3>4. /\ remote' \in [id : Tracks \cup {NoTrack}, pos : Int, left : 0 .. Length]
          /\ remote'.id \in Tracks
      BY <3>1, <3>2, <3>3
    <3> QED  BY <3>3, <3>4
  <2> QED  BY <2>1, <2>2
<1>3. CASE Drain \/ Wake \/ Voice \/ BurstDone
  BY <1>3 DEF Drain, Wake, Voice, BurstDone
<1>4. CASE Initialize
  <2>1. CASE Clean
    BY <1>4, <2>1 DEF Initialize, Clean
  <2>2. ASSUME NEW found, lpc' = "voice",
               remote' = [remote EXCEPT !.left = IF found = "bad" THEN 0 ELSE Rest(remote.pos)]
        PROVE  LoopInv'
    <3>1. Rest(remote.pos) \in 0 .. Length  BY RestTyped
    <3>2. remote.id \in Tracks /\ sent' = sent  BY <1>4 DEF Initialize
    <3> QED  BY <2>2, <3>1, <3>2
  <2> QED  BY <1>4, <2>1, <2>2 DEF Initialize
<1>5. CASE Push
  BY <1>5 DEF Push
<1>6. CASE EndOfStream
  BY <1>6 DEF EndOfStream, Clean
<1>7. CASE Count
  BY <1>7 DEF Count
<1>8. CASE Expire
  BY <1>8 DEF Expire
<1>9. CASE UNCHANGED loopVars
  BY <1>9
<1> QED
  BY <1>1, <1>2, <1>3, <1>4, <1>5, <1>6, <1>7, <1>8, <1>9, LoopMovesOnly DEF PlayLoop, vars

LEMMA StepRowsTypes == TypesInv /\ [Next]_vars => RowsTyped'
<1> SUFFICES ASSUME TypesInv, [Next]_vars PROVE RowsTyped'  OBVIOUS
<1>0. RowsTyped /\ PosTyped /\ LoopInv  BY TypeParts
<1>1. ASSUME NEW t \in Tracks, DeleteOrRequeue(t) PROVE RowsTyped'
  BY <1>0, <1>1, DeleteTyped DEF DeleteOrRequeue
<1>2. CASE UNCHANGED rows
  BY <1>0, <1>2 DEF RowsTyped, rows
<1>3. CASE Initialize
  <2>1. remote.id \in Tracks  BY <1>0, <1>3 DEF Initialize, LoopInv, RemoteInv
  <2>2. CASE DeleteTrack(remote.id)
    BY <1>0, <2>1, <2>2, DeleteTyped
  <2>3. ASSUME NEW found \in {"good", "bad"}, UNCHANGED <<queue, pos>>,
               url' = IF Contains(queue, remote.id) THEN [url EXCEPT ![remote.id] = found] ELSE url
        PROVE  RowsTyped'
    BY <1>0, <2>3 DEF RowsTyped, Urls
  <2> QED  BY <1>3, <2>2, <2>3 DEF Initialize
<1>4. CASE EndOfStream
  <2>1. remote.id \in Tracks  BY <1>0, <1>4 DEF EndOfStream, LoopInv, RemoteInv
  <2>2. CASE ResetURL(remote.id) /\ UNCHANGED <<queue, pos>>
    BY <1>0, <2>2 DEF RowsTyped, Urls, ResetURL
  <2> QED  BY <1>1, <1>4, <2>1, <2>2 DEF EndOfStream
<1>5. CASE StorePosition
  <2>1. PICK msg \in storing :
             pos' = IF Contains(queue, msg.id) THEN [pos EXCEPT ![msg.id] = msg.pos] ELSE pos
    BY <1>5 DEF StorePosition
  <2>2. msg.pos \in Int  BY <1>0 DEF PosTyped, PosMsgs
  <2>3. pos' \in [Tracks -> Int]  BY <1>0, <2>1, <2>2 DEF RowsTyped
  <2>4. queue' = queue /\ url' = url  BY <1>5 DEF StorePosition
  <2> QED  BY <1>0, <2>3, <2>4 DEF RowsTyped
<1>6. CASE Seek
  <2>1. SeekTo \subseteq Int  BY PlaybackConstants
  <2>2. pos' \in [Tracks -> Int]  BY <1>0, <1>6, <2>1 DEF Seek, RowsTyped
  <2> QED  BY <1>0, <1>6, <2>2 DEF Seek, RowsTyped
<1>7. CASE SkipTrack
  <2>1. Head(queue) \in Tracks  BY <1>0, <1>7 DEF SkipTrack, RowsTyped
  <2> QED  BY <1>1, <1>7, <2>1 DEF SkipTrack
<1>8. CASE PlayTrack
  BY <1>0, <1>8 DEF PlayTrack, RowsTyped
<1>9. CASE Expire
  BY <1>0, <1>9 DEF Expire, RowsTyped, Urls
<1>10. ASSUME Top \/ NextTrack \/ Drain \/ Wake \/ Voice \/ Push \/ BurstDone \/ Count
       PROVE  UNCHANGED rows
  BY <1>10 DEF Top, NextTrack, Drain, Wake, Voice, Push, BurstDone, Count
<1>11. ASSUME SendLoop \/ Leave \/ Deliver \/ TakePosition \/ AskToLeave PROVE UNCHANGED rows
  BY <1>11 DEF SendLoop, TakePacket, LookAtVC, SendPacket, Leave, Deliver, TakePosition, AskToLeave
<1> QED
  BY <1>2, <1>3, <1>4, <1>5, <1>6, <1>7, <1>8, <1>9, <1>10, <1>11
  DEF Next, PlayLoop, StoreLoop, Outside, vars

LEMMA StepFlagsTypes == TypesInv /\ [Next]_vars => FlagsTyped'
<1> SUFFICES ASSUME TypesInv, [Next]_vars PROVE FlagsTyped'  OBVIOUS
<1>0. FlagsTyped /\ PosTyped  BY TypeParts
<1> USE DEF FlagsTyped, rows, sendVars, history
<1>1. CASE PlayLoop
  <2>1. CASE Initialize
    <3>1. events' \in 0 .. MaxEvents
      BY <1>0, <2>1, PlaybackConstants DEF Initialize, SetStreamURL, Event
    <3> QED  BY <1>0, <2>1, <3>1 DEF Initialize, Clean
  <2> QED
    BY <1>0, <1>1, <2>1
    DEF PlayLoop, Top, NextTrack, Drain, Wake, Voice, Push, BurstDone, EndOfStream, Count, Clean
<1>2. CASE SendLoop \/ Leave \/ Deliver \/ TakePosition
  BY <1>0, <1>2 DEF SendLoop, TakePacket, LookAtVC, SendPacket, Leave, Deliver, TakePosition
<1>3. CASE StorePosition
  <2>1. current' \in BOOLEAN  BY <1>0, <1>3 DEF StorePosition, PosTyped, PosMsgs
  <2> QED  BY <1>0, <1>3, <2>1 DEF StorePosition
<1>4. CASE Outside
  <2>1. CASE Request
    <3>1. events' \in 0 .. MaxEvents  BY <1>0, <2>1, PlaybackConstants DEF Request, Event
    <3> QED  BY <1>0, <2>1, <3>1 DEF Request
  <2>2. CASE Expire \/ AskToLeave
    <3>1. events' \in 0 .. MaxEvents  BY <1>0, <2>2, PlaybackConstants DEF Expire, AskToLeave, Event
    <3>2. leaver' \in BOOLEAN  BY <1>0, <2>2 DEF Expire, AskToLeave
    <3> QED  BY <1>0, <2>2, <3>1, <3>2 DEF Expire, AskToLeave
  <2> QED  BY <1>4, <2>1, <2>2 DEF Outside, Seek, SkipTrack, PlayTrack
<1>5. CASE UNCHANGED vars
  BY <1>0, <1>5 DEF vars
<1> QED  BY <1>1, <1>2, <1>3, <1>4, <1>5 DEF Next, StoreLoop

LEMMA StepChanTypes == TypesInv /\ [Next]_vars => ChanTyped'
<1> SUFFICES ASSUME TypesInv, [Next]_vars PROVE ChanTyped'  OBVIOUS
<1>0. ChanTyped  BY TypeParts
<1> USE PlaybackConstants DEF ChanTyped, history
<1>1. CASE PlayLoop
  <2>1. CASE Clean
    BY <1>0, <2>1 DEF Clean
  <2>2. CASE Push
    BY <1>0, <2>2 DEF Push
  <2>3. CASE UNCHANGED <<packetChan, stale>>
    BY <1>0, <2>3
  <2> QED
    BY <1>1, <2>1, <2>2, <2>3
    DEF PlayLoop, Top, NextTrack, Drain, Wake, Initialize, Voice, BurstDone, EndOfStream, Count
<1>2. CASE SendLoop \/ Leave \/ Deliver \/ StoreLoop
  BY <1>0, <1>2 DEF SendLoop, TakePacket, LookAtVC, SendPacket, Leave, Deliver, StoreLoop, TakePosition, StorePosition
<1>3. CASE Outside
  BY <1>0, <1>3 DEF Outside, Seek, SkipTrack, PlayTrack, Expire, AskToLeave, Request
<1>4. CASE UNCHANGED vars
  BY <1>0, <1>4 DEF vars
<1> QED  BY <1>1, <1>2, <1>3, <1>4 DEF Next

LEMMA StepPosTypes == TypesInv /\ [Next]_vars => PosTyped'
<1> SUFFICES ASSUME TypesInv, [Next]_vars PROVE PosTyped'  OBVIOUS
<1>0. ChanTyped /\ PosTyped /\ LoopInv /\ LateInv  BY TypeParts
<1>1. CASE Clean
  BY <1>0, <1>1, CleanTyped
<1>2. CASE UNCHANGED posVars
  BY <1>0, <1>2 DEF posVars, PosTyped
<1>3. CASE Count
  <2>1. remote.pos + 1 \in Int /\ remote.id \in Tracks
    BY <1>0, <1>3 DEF Count, LoopInv, LoopTyped, RemoteInv
  <2>2. PosMsg(remote.id, Heard(remote.pos + 1), TRUE) \in PosMsgs
    BY <1>0, <2>1, HeardTyped DEF PosMsg, PosMsgs
  <2>3. Append(posChan, PosMsg(remote.id, Heard(remote.pos + 1), TRUE)) \in Seq(PosMsgs)
    BY <1>0, <2>2, AppendProperties DEF PosTyped
  <2>4. posChan' \in Seq(PosMsgs)  BY <1>0, <1>3, <2>3 DEF Count, PosTyped
  <2> QED  BY <1>0, <1>3, <2>4 DEF Count, PosTyped
<1>4. CASE TakePosition
  <2>1. Head(posChan) \in PosMsgs /\ Tail(posChan) \in Seq(PosMsgs)
    BY <1>0, <1>4 DEF TakePosition, PosTyped
  <2> QED  BY <1>0, <1>4, <2>1 DEF TakePosition, PosTyped
<1>5. CASE StorePosition
  BY <1>0, <1>5 DEF StorePosition, PosTyped
<1>6. ASSUME PlayLoop PROVE Clean \/ Count \/ UNCHANGED posVars
  BY <1>6 DEF PlayLoop, Top, NextTrack, Drain, Wake, Initialize, Voice, Push, BurstDone, EndOfStream
<1>7. ASSUME SendLoop \/ Leave \/ Deliver PROVE UNCHANGED posVars
  BY <1>7 DEF SendLoop, TakePacket, LookAtVC, SendPacket, Leave, Deliver
<1>8. ASSUME Outside PROVE UNCHANGED posVars
  BY <1>8 DEF Outside, Seek, SkipTrack, PlayTrack, Expire, AskToLeave, Request
<1> QED  BY <1>1, <1>2, <1>3, <1>4, <1>5, <1>6, <1>7, <1>8 DEF Next, StoreLoop, vars

LEMMA StepTypes == TypesInv /\ [Next]_vars => TypesInv'
<1> SUFFICES ASSUME TypesInv, [Next]_vars PROVE TypesInv'  OBVIOUS
<1>1. RowsTyped' /\ FlagsTyped' /\ ChanTyped' /\ PosTyped' /\ LoopInv' /\ LateInv'
  BY TypeParts, StepRowsTypes, StepFlagsTypes, StepChanTypes, StepPosTypes, StepLoopTypes, StepLate
<1> QED
  BY <1>1 DEF TypesInv, TypeOK, RowsTyped, FlagsTyped, ChanTyped, PosTyped, LoopInv, LoopTyped, LateInv, Urls

LEMMA InitTypes == Init => TypesInv
<1> SUFFICES ASSUME Init PROVE TypesInv  OBVIOUS
<1>1. RowsTyped
  <2>1. queue \in Seq(Tracks)
    <3>1. CASE queue = <<>>
      BY <3>1
    <3>2. ASSUME NEW t \in Tracks, queue = <<t>> PROVE queue \in Seq(Tracks)
      BY <3>2
    <3> QED  BY <3>1, <3>2 DEF Init
  <2>2. pos \in [Tracks -> Int]  BY PlaybackConstants DEF Init
  <2> QED  BY <2>1, <2>2 DEF Init, RowsTyped, Urls
<1>2. FlagsTyped
  <2>1. events \in 0 .. MaxEvents  BY PlaybackConstants DEF Init
  <2> QED  BY <2>1 DEF Init, FlagsTyped
<1>3. ChanTyped  BY PlaybackConstants DEF Init, ChanTyped
<1>4. PosTyped
  <2>1. posChan \in Seq(PosMsgs)  BY DEF Init
  <2> QED  BY <2>1 DEF Init, PosTyped
<1>5. LoopInv
  BY PlaybackConstants DEF Init, LoopInv, LoopTyped, BurstLeft, RemoteInv, NothingLoaded, Loaded
<1>6. LateInv
  BY DEF Init, LateInv, OneQueued, OneStoring, OldQueued, OldStoring
<1> QED  BY <1>1, <1>2, <1>3, <1>4, <1>5, <1>6, TypeParts

(* The rows, the streams and what is on its way keep their types, whatever *)
(* position was sought to: ffmpeg has no more than the track to deliver,   *)
(* packetChan never holds more than a burst, and incrementPos takes no     *)
(* position below 0 from its compensation.                                 *)
THEOREM PlaybackTyped == Spec => []TypeOK
<1>1. TypesInv => TypeOK  BY DEF TypesInv
<1> QED  BY <1>1, InitTypes, StepTypes, PTL DEF Spec

(***************************************************************************)
(* The positions of the stream that is playing.                            *)
(***************************************************************************)
(* What incrementPos would say was heard, were the packets in packetChan   *)
(* all of this stream.                                                     *)
Compensated == IF packetChan < Pushed THEN Pushed - packetChan ELSE 0

(* A message of the current stream is about the loaded track.              *)
OwnMsg(msg) == msg.own => msg.id = remote.id /\ msg.pos <= Compensated
OwnMsgs == (\A i \in DOMAIN posChan : OwnMsg(posChan[i])) /\ (\A msg \in storing : OwnMsg(msg))

(* Behind a message of the current stream there are only later ones.       *)
NotBehind(at) == \A i \in DOMAIN posChan : posChan[i].own /\ posChan[i].pos >= at
InOrder == \A msg \in storing : msg.own => NotBehind(msg.pos)

CurrentInv ==
    current => /\ remote.id \in Tracks
               /\ pos[remote.id] <= Compensated
               /\ NotBehind(pos[remote.id])
               /\ \A msg \in storing : msg.own /\ msg.pos >= pos[remote.id]

StreamInv ==
    /\ TypesInv
    /\ OwnMsgs
    /\ InOrder
    /\ CurrentInv

(* The counts are numbers, before a step and after it.                     *)
LEMMA Numbers ==
    ASSUME TypesInv
    PROVE  /\ packetChan \in Nat /\ stale \in Nat /\ Pushed \in Int /\ Compensated \in Nat
           /\ stale <= packetChan
<1>1. packetChan \in Nat /\ stale \in Nat /\ stale <= packetChan
  BY PlaybackConstants DEF TypesInv, TypeOK
<1>2. remote.pos \in Int  BY DEF TypesInv, TypeOK
<1>3. Pushed \in Int  BY <1>2 DEF Pushed
<1> QED  BY <1>1, <1>3 DEF Compensated

LEMMA NumbersAfter ==
    ASSUME TypesInv'
    PROVE  /\ packetChan' \in Nat /\ stale' \in Nat /\ Pushed' \in Int /\ Compensated' \in Nat
           /\ stale' <= packetChan'
<1>1. packetChan' \in Nat /\ stale' \in Nat /\ stale' <= packetChan'
  BY PlaybackConstants DEF TypesInv, TypeOK
<1>2. remote'.pos \in Int  BY DEF TypesInv, TypeOK
<1>3. Pushed' \in Int  BY <1>2 DEF Pushed
<1>4. Compensated' = IF packetChan' < Pushed' THEN Pushed' - packetChan' ELSE 0
  BY DEF Compensated, Pushed
<1> QED  BY <1>1, <1>3, <1>4 DEF Pushed

(* Messages are about tracks.                                              *)
LEMMA Messages ==
    ASSUME TypesInv
    PROVE  /\ \A i \in DOMAIN posChan : posChan[i].id \in Tracks /\ posChan[i].pos \in Int
           /\ \A msg \in storing : msg.id \in Tracks /\ msg.pos \in Int
<1>1. \A i \in DOMAIN posChan : posChan[i] \in PosMsgs  BY DEF TypesInv, TypeOK
<1>2. storing \subseteq PosMsgs  BY DEF TypesInv, TypeOK
<1>3. \A msg \in PosMsgs : msg.id \in Tracks /\ msg.pos \in Int  BY DEF PosMsgs
<1> QED  BY <1>1, <1>2, <1>3

(* Clean leaves nothing of the stream: what is on its way is old.          *)
LEMMA CleanStream ==
    ASSUME StreamInv, Clean, TypesInv', lpc' # "count"
    PROVE  StreamInv'
<1>1. remote' = NothingLoaded /\ stale' = packetChan' /\ current' = FALSE  BY DEF Clean
<1>5. \A i \in DOMAIN posChan' : ~posChan'[i].own  BY DEF Clean, Outdated, PosMsg
<1>6. \A msg \in storing' : ~msg.own  BY DEF Clean, Outdated, PosMsg
<1> QED  BY <1>1, <1>5, <1>6 DEF StreamInv, OwnMsgs, OwnMsg, InOrder, CurrentInv

(* A step that does not touch what is on its way, and after which no less  *)
(* of the stream was heard.                                                *)
KeepsStream ==
    /\ UNCHANGED posVars
    /\ remote'.id = remote.id
    /\ Compensated' >= Compensated
    /\ current' => current /\ pos' = pos

LEMMA KeptStream ==
    ASSUME StreamInv, TypesInv', KeepsStream
    PROVE  StreamInv'
<1>1. Compensated \in Int /\ Compensated' \in Int
  BY Numbers, NumbersAfter DEF StreamInv
<1>2. \A msg \in PosMsgs : msg.pos \in Int  BY DEF PosMsgs
<1>3. OwnMsgs'
  <2>1. ASSUME NEW msg \in PosMsgs, OwnMsg(msg) PROVE OwnMsg(msg)'
    BY <1>1, <1>2, <2>1 DEF OwnMsg, KeepsStream
  <2>2. \A i \in DOMAIN posChan : posChan[i] \in PosMsgs  BY DEF StreamInv, TypesInv, TypeOK
  <2>3. storing \subseteq PosMsgs  BY DEF StreamInv, TypesInv, TypeOK
  <2>4. posChan' = posChan /\ storing' = storing  BY DEF KeepsStream, posVars
  <2>5. ASSUME NEW i \in DOMAIN posChan' PROVE OwnMsg(posChan[i])'
    <3>1. posChan[i] \in PosMsgs /\ OwnMsg(posChan[i])  BY <2>2, <2>4, <2>5 DEF StreamInv, OwnMsgs
    <3> QED  BY <1>1, <1>2, <2>4, <3>1 DEF OwnMsg, KeepsStream
  <2>6. ASSUME NEW msg \in storing' PROVE OwnMsg(msg)'
    <3>1. msg \in PosMsgs /\ OwnMsg(msg)  BY <2>3, <2>4, <2>6 DEF StreamInv, OwnMsgs
    <3> QED  BY <2>1, <3>1
  <2> QED  BY <2>5, <2>6 DEF OwnMsgs
<1>4. InOrder'  BY DEF StreamInv, InOrder, NotBehind, KeepsStream, posVars
<1>5. CurrentInv'
  <2> SUFFICES ASSUME current' PROVE /\ remote'.id \in Tracks
                                    /\ pos'[remote'.id] <= Compensated'
                                    /\ NotBehind(pos[remote.id])'
                                    /\ \A msg \in storing' : msg.own /\ msg.pos >= pos'[remote'.id]
    BY DEF CurrentInv
  <2>1. current /\ pos' = pos /\ remote'.id = remote.id  BY DEF KeepsStream
  <2>2. remote.id \in Tracks /\ pos[remote.id] <= Compensated  BY <2>1 DEF StreamInv, CurrentInv
  <2>3. pos[remote.id] \in Int  BY <2>2 DEF StreamInv, TypesInv, TypeOK
  <2>4. pos[remote.id] <= Compensated'  BY <1>1, <2>2, <2>3 DEF KeepsStream
  <2> QED  BY <2>1, <2>2, <2>4 DEF StreamInv, CurrentInv, NotBehind, KeepsStream, posVars
<1> QED  BY <1>3, <1>4, <1>5 DEF StreamInv, KeepsStream

(* Nothing of a stream is on its way when none is loaded.                  *)
LEMMA NoStream ==
    ASSUME StreamInv, remote.id = NoTrack
    PROVE  /\ \A i \in DOMAIN posChan : ~posChan[i].own
           /\ \A msg \in storing : ~msg.own
           /\ ~current
<1>1. \A i \in DOMAIN posChan : posChan[i].id \in Tracks  BY Messages DEF StreamInv
<1>2. \A msg \in storing : msg.id \in Tracks  BY Messages DEF StreamInv
<1> QED
  BY <1>1, <1>2, PlaybackConstants DEF StreamInv, OwnMsgs, OwnMsg, CurrentInv

LEMMA NextTrackStream ==
    ASSUME StreamInv, TypesInv', NextTrack
    PROVE  StreamInv'
<1>1. remote.id = NoTrack  BY DEF NextTrack, StreamInv, TypesInv, RemoteInv
<1>2. UNCHANGED <<posChan, storing, packetChan, stale, current>>  BY DEF NextTrack, posVars, history
<1> QED
  BY <1>1, <1>2, NoStream DEF StreamInv, OwnMsgs, OwnMsg, InOrder, CurrentInv

(* The message incrementPos appends is the latest of its stream.           *)
LEMMA CountStream ==
    ASSUME StreamInv, TypesInv', Count
    PROVE  StreamInv'
<1>1. /\ remote'.id = remote.id /\ remote.id \in Tracks /\ remote'.pos = remote.pos + 1
      /\ UNCHANGED <<storing, packetChan, stale, current, pos>>
      /\ lpc = "count" /\ lpc' = "burst"
  BY DEF Count, StreamInv, TypesInv, TypeOK, RemoteInv, history, rows
<1>2. Pushed' = Pushed /\ Pushed = remote.pos + 1
  BY <1>1 DEF Pushed, StreamInv, TypesInv, TypeOK
<1>3. Compensated' = Compensated /\ Heard(remote.pos + 1) = Compensated
  BY <1>1, <1>2 DEF Compensated, Heard
<1>4. CASE posChan' = posChan
  <2>1. Compensated' >= Compensated  BY <1>3, NumbersAfter
  <2>2. KeepsStream  BY <1>1, <1>4, <2>1 DEF KeepsStream, posVars
  <2> QED  BY <2>2, KeptStream
<1>5. CASE posChan' # posChan
  <2> DEFINE msg == PosMsg(remote.id, Compensated, TRUE)
  <2>1. posChan = <<>> /\ posChan' = Append(posChan, msg)
    BY <1>3, <1>5 DEF Count, SlotFree
  <2>2. posChan' = <<msg>>  BY <2>1
  <2>3. DOMAIN posChan' = {1} /\ posChan'[1] = msg  BY <2>2
  <2>4. msg.id = remote.id /\ msg.pos = Compensated /\ msg.own = TRUE  BY DEF PosMsg
  <2>5. Compensated \in Int  BY Numbers DEF StreamInv
  <2> HIDE DEF msg
  <2>6. OwnMsgs'
    <3>1. OwnMsg(posChan[1])'  BY <1>1, <1>3, <2>3, <2>4, <2>5 DEF OwnMsg
    <3>2. ASSUME NEW m \in storing' PROVE OwnMsg(m)'
      BY <1>1, <1>3, <3>2 DEF OwnMsg, StreamInv, OwnMsgs
    <3> QED  BY <2>3, <3>1, <3>2 DEF OwnMsgs
  <2>7. \A m \in storing : m.own => m.pos <= Compensated  BY DEF StreamInv, OwnMsgs, OwnMsg
  <2>8. \A m \in storing : m.pos \in Int  BY DEF StreamInv, TypesInv, TypeOK, PosMsgs
  <2>9. InOrder'
    BY <1>1, <2>3, <2>4, <2>5, <2>7, <2>8 DEF InOrder, NotBehind
  <2>10. CurrentInv'
    <3>1. pos[remote.id] \in Int  BY <1>1 DEF StreamInv, TypesInv, TypeOK
    <3> QED
      BY <1>1, <1>3, <2>3, <2>4, <2>5, <3>1 DEF StreamInv, CurrentInv, NotBehind
  <2> QED  BY <1>1, <1>2, <2>6, <2>9, <2>10 DEF StreamInv
<1> QED  BY <1>4, <1>5

LEMMA TakePositionStream ==
    ASSUME StreamInv, TypesInv', TakePosition
    PROVE  StreamInv'
<1>1. UNCHANGED <<remote, lpc, packetChan, stale, current, pos>>
  BY DEF TakePosition, loopVars, history, rows
<1>2. Pushed' = Pushed /\ Compensated' = Compensated  BY <1>1 DEF Pushed, Compensated
<1>3. PICK msg : posChan = <<msg>>
  BY DEF TakePosition, StreamInv, TypesInv, LateInv, OneQueued
<1>4. posChan[1] = msg /\ 1 \in DOMAIN posChan /\ Head(posChan) = msg /\ posChan' = <<>>
  BY <1>3 DEF TakePosition
<1>5. storing = {} /\ (storing' = {} \/ storing' = {msg})
  BY <1>4 DEF TakePosition, StoreIdle
<1>6. DOMAIN posChan' = {}  BY <1>4
<1>7. OwnMsgs'
  <2>1. OwnMsg(msg)'  BY <1>1, <1>2, <1>4 DEF StreamInv, OwnMsgs, OwnMsg
  <2> QED  BY <1>5, <1>6, <2>1 DEF OwnMsgs
<1>8. InOrder'  BY <1>6 DEF InOrder, NotBehind
<1>9. CurrentInv'
  BY <1>1, <1>2, <1>4, <1>5, <1>6 DEF StreamInv, CurrentInv, NotBehind
<1> QED  BY <1>1, <1>2, <1>7, <1>8, <1>9 DEF StreamInv

(* What is stored of the stream is what it has compensated for.            *)
LEMMA StorePositionStream ==
    ASSUME StreamInv, TypesInv', StorePosition
    PROVE  StreamInv'
<1>1. UNCHANGED <<remote, lpc, packetChan, stale, posChan, queue>>
  BY DEF StorePosition, loopVars
<1>2. Pushed' = Pushed /\ Compensated' = Compensated  BY <1>1 DEF Pushed, Compensated
<1>3. PICK msg \in storing :
         /\ storing' = storing \ {msg}
         /\ pos' = IF Contains(queue, msg.id) THEN [pos EXCEPT ![msg.id] = msg.pos] ELSE pos
         /\ current' = (msg.own /\ Contains(queue, msg.id))
  BY DEF StorePosition
<1>4. storing = {msg} /\ storing' = {}
  BY <1>3 DEF StreamInv, TypesInv, LateInv, OneStoring
<1>5. OwnMsgs'  BY <1>1, <1>2, <1>4 DEF StreamInv, OwnMsgs, OwnMsg
<1>6. InOrder'  BY <1>4 DEF InOrder
<1>7. CurrentInv'
  <2> SUFFICES ASSUME current' PROVE /\ remote'.id \in Tracks
                                    /\ pos'[remote'.id] <= Compensated'
                                    /\ NotBehind(pos[remote.id])'
    BY <1>4 DEF CurrentInv
  <2>1. msg.own /\ Contains(queue, msg.id)  BY <1>3
  <2>2. msg.id = remote.id /\ msg.pos <= Compensated  BY <1>3, <2>1 DEF StreamInv, OwnMsgs, OwnMsg
  <2>3. remote.id \in Tracks  BY <1>3, <2>2, Messages DEF StreamInv
  <2>4. pos \in [Tracks -> Int]  BY DEF StreamInv, TypesInv, TypeOK
  <2>5. pos'[remote.id] = msg.pos  BY <1>3, <2>1, <2>2, <2>3, <2>4
  <2>6. NotBehind(msg.pos)  BY <1>3, <2>1 DEF StreamInv, InOrder
  <2> QED  BY <1>1, <1>2, <2>2, <2>3, <2>5, <2>6 DEF NotBehind
<1> QED  BY <1>1, <1>2, <1>5, <1>6, <1>7 DEF StreamInv

(* No step but these takes from what the stream has compensated for, and   *)
(* a request that moves a track back does not count as the stream's.       *)
LEMMA OthersKeepStream ==
    ASSUME StreamInv, TypesInv', [Next]_vars,
           ~Clean, ~NextTrack, ~Count, ~TakePosition, ~StorePosition
    PROVE  KeepsStream
<1>0. /\ packetChan \in Nat /\ stale \in Nat /\ stale <= packetChan
      /\ Pushed \in Int /\ Compensated \in Nat
  BY Numbers DEF StreamInv
<1>1. ASSUME UNCHANGED <<packetChan, stale, posVars>>, Pushed' = Pushed, remote'.id = remote.id,
             current' => current /\ pos' = pos
      PROVE  KeepsStream
  <2>1. Compensated' = Compensated  BY <1>1 DEF Compensated
  <2> QED  BY <1>0, <1>1, <2>1 DEF KeepsStream
<1>2. CASE Top \/ Drain \/ Wake \/ Initialize \/ Voice \/ BurstDone
  <2>1. UNCHANGED <<packetChan, stale, posVars, current, pos>>
    BY <1>2 DEF Top, Drain, Wake, Initialize, Voice, BurstDone, rows, history
  <2>2. remote'.id = remote.id /\ remote'.pos = remote.pos /\ lpc # "count" /\ lpc' # "count"
    BY <1>2 DEF Top, Drain, Wake, Initialize, Voice, BurstDone, StreamInv, TypesInv, TypeOK
  <2> QED  BY <1>1, <2>1, <2>2 DEF Pushed
<1>3. CASE Push
  <2>1. /\ UNCHANGED <<stale, posVars, current, pos>> /\ packetChan' = packetChan + 1
        /\ lpc = "burst" /\ lpc' = "count" /\ remote'.id = remote.id /\ remote'.pos = remote.pos
    BY <1>3 DEF Push, rows, history, StreamInv, TypesInv, TypeOK
  <2>2. Pushed' = Pushed + 1  BY <2>1 DEF Pushed, StreamInv, TypesInv, TypeOK
  <2>3. Compensated' = Compensated  BY <1>0, <2>1, <2>2 DEF Compensated
  <2> QED  BY <1>0, <2>1, <2>2, <2>3 DEF KeepsStream
<1>4. CASE TakePacket
  <2>1. /\ UNCHANGED <<remote, lpc, posVars, current, pos>> /\ packetChan' = packetChan - 1
        /\ stale' = IF stale > 0 THEN stale - 1 ELSE 0
    BY <1>4 DEF TakePacket, rows, loopVars
  <2>2. Pushed' = Pushed  BY <2>1 DEF Pushed
  <2>3. Compensated' >= Compensated  BY <1>0, <2>1, <2>2 DEF Compensated
  <2> QED  BY <1>0, <2>1, <2>2, <2>3 DEF KeepsStream
<1>5. CASE LookAtVC \/ SendPacket \/ Leave \/ Deliver \/ AskToLeave
  <2>1. UNCHANGED <<packetChan, stale, posVars, remote, lpc, current, pos>>
    BY <1>5 DEF LookAtVC, SendPacket, Leave, Deliver, AskToLeave, rows, loopVars, history
  <2> QED  BY <1>1, <2>1 DEF Pushed
<1>6. CASE Seek \/ SkipTrack \/ PlayTrack
  <2>1. UNCHANGED <<packetChan, stale, posVars, remote, lpc>> /\ current' = FALSE
    BY <1>6 DEF Seek, SkipTrack, PlayTrack, Request, loopVars
  <2> QED  BY <1>1, <2>1 DEF Pushed
<1>7. CASE Expire
  <2>1. UNCHANGED <<packetChan, stale, posVars, lpc, current, pos>>
    BY <1>7 DEF Expire, history
  <2>2. remote'.id = remote.id /\ remote'.pos = remote.pos
    BY <1>7 DEF Expire, StreamInv, TypesInv, TypeOK
  <2> QED  BY <1>1, <2>1, <2>2 DEF Pushed
<1>8. CASE UNCHANGED vars
  <2>1. UNCHANGED <<packetChan, stale, posVars, remote, lpc, current, pos>>
    BY <1>8 DEF vars, rows, loopVars, history
  <2> QED  BY <1>1, <2>1 DEF Pushed
<1>9. ~EndOfStream  BY DEF EndOfStream
<1> QED
  BY <1>2, <1>3, <1>4, <1>5, <1>6, <1>7, <1>8, <1>9 DEF Next, PlayLoop, SendLoop, StoreLoop, Outside

LEMMA StepStream == StreamInv /\ [Next]_vars => StreamInv'
<1> SUFFICES ASSUME StreamInv, [Next]_vars PROVE StreamInv'  OBVIOUS
<1>1. TypesInv'  BY StepTypes DEF StreamInv
<1>2. ASSUME Clean PROVE lpc' # "count"
  <2>1. remote' = NothingLoaded  BY <1>2 DEF Clean
  <2> QED  BY <1>1, <2>1, PlaybackConstants DEF TypesInv, RemoteInv, NothingLoaded, Loaded
<1> QED
  BY <1>1, <1>2, CleanStream, NextTrackStream, CountStream, TakePositionStream, StorePositionStream,
     OthersKeepStream, KeptStream

LEMMA InitStream == Init => StreamInv
<1> SUFFICES ASSUME Init PROVE StreamInv  OBVIOUS
<1>1. TypesInv  BY InitTypes
<1>2. posChan = <<>> /\ storing = {} /\ current = FALSE  BY DEF Init
<1> QED  BY <1>1, <1>2 DEF StreamInv, OwnMsgs, InOrder, CurrentInv

(* However the three goroutines interleave, what is stored of a stream, or *)
(* on its way to be, is at most what sendLoop has received of it.          *)
THEOREM NothingIsSkipped == Spec => []PositionNotAhead
<1>1. ASSUME StreamInv PROVE PositionNotAhead
  <2>1. Compensated <= Received
    <3>1. packetChan \in Nat /\ stale \in Nat /\ Pushed \in Int
      BY <1>1, Numbers DEF StreamInv
    <3> QED  BY <3>1 DEF Compensated, Received
  <2>2. Compensated \in Int /\ Received \in Int  BY <1>1, Numbers DEF StreamInv, Received
  <2>3. \A i \in DOMAIN posChan : posChan[i].own => posChan[i].pos <= Received
    BY <1>1, <2>1, <2>2, Messages DEF StreamInv, OwnMsgs, OwnMsg
  <2>4. \A msg \in storing : msg.own => msg.pos <= Received
    BY <1>1, <2>1, <2>2, Messages DEF StreamInv, OwnMsgs, OwnMsg
  <2>5. current => pos[remote.id] <= Received
    <3> SUFFICES ASSUME current PROVE pos[remote.id] <= Received  OBVIOUS
    <3>1. remote.id \in Tracks /\ pos[remote.id] <= Compensated
      BY <1>1 DEF StreamInv, CurrentInv
    <3>2. pos[remote.id] \in Int  BY <1>1, <3>1 DEF StreamInv, TypesInv, TypeOK
    <3> QED  BY <2>1, <2>2, <3>1, <3>2
  <2> QED  BY <2>3, <2>4, <2>5 DEF PositionNotAhead
<1> QED  BY <1>1, InitStream, StepStream, PTL DEF Spec

(* What storeLoop writes once a position of the stream is stored is of the *)
(* same stream, and no less.                                               *)
LEMMA GrowingStep ==
    StreamInv /\ [Next]_vars
      => [current /\ storing' # storing /\ remote' = remote /\ Contains(queue, remote.id)
            => current' /\ pos'[remote.id] >= pos[remote.id]]_vars
<1> SUFFICES ASSUME StreamInv, Next, current, storing' # storing, remote' = remote,
                    Contains(queue, remote.id)
             PROVE  current' /\ pos'[remote.id] >= pos[remote.id]
  OBVIOUS
<1>1. remote.id \in Tracks  BY DEF StreamInv, CurrentInv
<1>2. pos[remote.id] \in Int /\ pos \in [Tracks -> Int]
  BY <1>1 DEF StreamInv, TypesInv, TypeOK
<1>3. CASE StorePosition
  <2>1. PICK msg \in storing :
           /\ pos' = IF Contains(queue, msg.id) THEN [pos EXCEPT ![msg.id] = msg.pos] ELSE pos
           /\ current' = (msg.own /\ Contains(queue, msg.id))
    BY <1>3 DEF StorePosition
  <2>2. msg.own /\ msg.pos >= pos[remote.id]  BY <2>1 DEF StreamInv, CurrentInv
  <2>3. msg.id = remote.id  BY <2>1, <2>2 DEF StreamInv, OwnMsgs, OwnMsg
  <2> QED  BY <1>1, <1>2, <2>1, <2>2, <2>3
<1>4. CASE TakePosition
  BY <1>2, <1>4 DEF TakePosition, rows, history
<1>5. ~Clean
  BY <1>1, PlaybackConstants DEF Clean, NothingLoaded, Loaded
<1>6. ~NextTrack /\ ~Count
  BY DEF NextTrack, Count, posVars
<1>7. TypesInv'  BY StepTypes DEF StreamInv
<1> QED
  BY <1>3, <1>4, <1>5, <1>6, <1>7, OthersKeepStream DEF KeepsStream, posVars

(* storeLoop never moves a playing track back: messages arrive in the      *)
(* order they were counted in, older streams' before the current one's.    *)
THEOREM NeverMovedBack == Spec => PositionGrows
<1> QED  BY InitStream, StepStream, GrowingStep, PTL DEF Spec, PositionGrows
=============================================================================
