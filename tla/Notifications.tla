--------------------------- MODULE Notifications ---------------------------
(***************************************************************************)
(* Guild, with the queue notifications clients subscribe to.  A handler or *)
(* the play loop that has changed what GetTracks shows starts a goroutine  *)
(* (SendQueueNotificationLog of models/notifications/queue.go) that        *)
(* publishes; one that only published a Current resync relies on the loop  *)
(* to do so once the resync reaches it.                                    *)
(***************************************************************************)
EXTENDS Guild

VARIABLE news    \* the latest change: "unsent", being sent, or told ("none")

notedVars == <<vars, news>>

NewsTypeOK == TypeOK /\ news \in {"none", "unsent", "sending", "lost"}

(* What GetTracks and GetQueueState answer from.                           *)
Visible == <<queue, ord, row.loop, row.paused>>

(* Slip: a track that ended is not notified.                               *)
NotifiesOnResync ==
    \/ lpc = "top" /\ resyncPlaying
    \/ lpc = "waitQueue"

(* The play loop notifies when it takes a resync, and in stop().           *)
LoopNotifies ==
    \/ lpc = "top" /\ resyncPlaying
    \/ lpc = "waitQueue"
    \/ lpc \in {"delete", "requeue"} /\ lpc' = "gate"

(* updatePauseState publishes first.                                       *)
WillNotify(c) == At(c, "pubGuild") /\ call[c].op \in {"pause", "resume", "stop"}

(* A handler notifies when it leaves the head of the queue alone, unless   *)
(* it fails before.                                                        *)
HandlerNotifies(c) ==
    /\ \/ At(c, "toggleLoop")
       \/ WillNotify(c)
       \/ At(c, "removeAt") /\ call[c].position # 0
       \/ At(c, "insert") /\ ~call[c].range.first
    /\ ~FailRequest(c)

(* A goroutine started now speaks of every change so far; one started      *)
(* before a change does not speak of that.                                 *)
Note(notifies) ==
    news' = IF notifies THEN "sending" ELSE IF Visible' # Visible THEN "unsent" ELSE news

(* SendQueueNotification.  Its errors are only logged: no retry.           *)
Notify ==
    /\ news = "sending"
    /\ news' = "none"
    /\ UNCHANGED vars

NotedLoop       == DoLoop /\ Note(LoopNotifies)
NotedRpc(c)     == DoRpc(c) /\ Note(HandlerNotifies(c))
(* No process plays for the guild: what it was to tell is lost.            *)
NotedLoss       == (Crash \/ DoSkip) /\ news' = "lost"
NotedConnect(a) == DoConnect(a) /\ UNCHANGED news
NotedWorker(w)  == DoWorker(w) /\ UNCHANGED news
NotedReceive(w) == DoReceive(w) /\ UNCHANGED news
NotedStart(w)   == DoTakeOver(w) /\ UNCHANGED news
NotedDeliver    == DoDeliver /\ UNCHANGED news
NotedBegin(c)   == DoBegin(c) /\ UNCHANGED news

NotedNext ==
    \/ NotedLoop \/ NotedDeliver \/ NotedLoss \/ Notify
    \/ \E a \in Actors : NotedConnect(a)
    \/ \E w \in Workers : NotedWorker(w) \/ NotedReceive(w) \/ NotedStart(w)
    \/ \E c \in Clients : NotedBegin(c) \/ NotedRpc(c)

NotedInit == Init /\ news = "none"

(* Guild's fairness, and goroutines that get to publish.                   *)
NotedFairness ==
    /\ WF_notedVars(NotedLoop) /\ WF_notedVars(NotedDeliver) /\ WF_notedVars(Notify)
    /\ \A a \in Actors : WF_notedVars(NotedConnect(a))
    /\ \A w \in Workers :
          WF_notedVars(NotedWorker(w)) /\ WF_notedVars(NotedReceive(w)) /\ WF_notedVars(NotedStart(w))
    /\ \A c \in Clients : WF_notedVars(NotedRpc(c))

NotedSpec == NotedInit /\ [][NotedNext]_notedVars /\ NotedFairness

(* No lost notification: a change nobody was told of has a Current resync  *)
(* due, which makes the loop notify, or a request about to.  Skip, Stop,   *)
(* Remove and Play at the head rely on the loop; it must not take their    *)
(* resync without telling, nor may a signal be lost on its way to it.      *)
NewsDue == news = "unsent" => ReloadDue \/ \E c \in Clients : WillNotify(c)

(* Every change a client can see is notified after it was made, by the     *)
(* handler, by the loop when the resync reaches it, even if paused, or by  *)
(* stop() when a track ends.  Not so only while the loop waits for a voice *)
(* channel, deaf to resyncPlaying, when its process dies, and of a track   *)
(* that could not be initialized (track_local.go:315 deletes it silently). *)
ChangeNotified ==
    news = "unsent" ~> news # "unsent" \/ lpc = "waitVoice" \/ panicked
=============================================================================
