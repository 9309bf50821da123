---------------------------- MODULE GuildState ----------------------------
(***************************************************************************)
(* What the parts of ProjectOrca that serve one guild share: the guild's   *)
(* rows in Postgres, the resync messages on their way through Redis, the   *)
(* one-slot channels of the models.Guild object and its voice connection.  *)
(* VoiceConnect, PlayLoop, Resync and Handlers act on this state; Guild    *)
(* puts them together.                                                     *)
(***************************************************************************)
EXTENDS OrdKeys

CONSTANTS
    Tracks,          \* track ids, each used for one row
    Channels,        \* voice channels of the guild
    NoTrack,         \* a nil *RemoteTrack
    NoChannel,       \* the empty (or NULL) channel id, a nil voice connection
    Workers,         \* goroutines that can run resyncGuild at the same time
    Loop,            \* the guild's play loop, as a caller of connect
    Clients,         \* requests that can be in progress at the same time
    Faults,          \* what may fail: "db", "voice", "extract", "stream", "request"
    InitialRows,     \* the guild rows a process may find when it starts
    MaxStored,       \* bound: tracks in the queue when the process starts
    MaxOrdKey        \* bound: no track is requeued behind this key

ASSUME GuildConstants ==
    /\ IsFiniteSet(Tracks)
    /\ NoTrack \notin Tracks
    /\ NoChannel \notin Channels
    /\ Loop \notin Workers
    /\ Faults \subseteq {"db", "voice", "extract", "stream", "request"}
    /\ InitialRows \subseteq [channel : Channels \cup {NoChannel}, paused : BOOLEAN, loop : BOOLEAN]
    /\ MaxStored \in Nat
    /\ MaxOrdKey \in Int

VARIABLES
    queue,           \* rows of the tracks table, as a set of ids
    ord,             \* their ord_key; 0 for an id with no row
    unused,          \* ids no row has had yet
    row,             \* the guilds row: channel_id, paused, loop
    mail,            \* resync targets published and not yet handled, per target
    resync,          \* Guild.resync holds a token
    resyncPlaying,   \* Guild.resyncPlaying holds a token
    playing,         \* Guild.playing holds a token: the gate is open
    vc,              \* channel of Guild.vc, NoChannel when it is nil
    panicked,        \* the process died of a nil dereference
    managed,         \* some process has the bot in its states map
    (* History, read by no action of the program. *)
    silent,          \* tracks inserted, or removed, with no Current message due
    gateWanted       \* what the last resyncGuild meant the gate to be

queueVars == <<queue, ord, unused, silent>>
wires     == <<resync, resyncPlaying, playing, gateWanted>>
voice     == <<vc, panicked>>

Actors      == Workers \cup {Loop}
MaybeTrack   == Tracks \cup {NoTrack}
MaybeChannel == Channels \cup {NoChannel}
GuildRow     == [channel : MaybeChannel, paused : BOOLEAN, loop : BOOLEAN]

StateTypeOK ==
    /\ queue \subseteq Tracks
    /\ ord \in [Tracks -> Int]
    /\ unused \subseteq Tracks \ queue
    /\ row \in GuildRow
    /\ mail \in [current : Nat, guild : Nat]
    /\ resync \in BOOLEAN
    /\ resyncPlaying \in BOOLEAN
    /\ playing \in BOOLEAN
    /\ vc \in MaybeChannel
    /\ panicked \in BOOLEAN
    /\ managed \in BOOLEAN
    /\ silent \subseteq Tracks
    /\ gateWanted \in BOOLEAN

(* Whatever earlier processes left in the database, and no process yet.    *)
(* Stored tracks have the keys appending them one by one gives.            *)
StateInit ==
    /\ queue \in {q \in SUBSET Tracks : Cardinality(q) <= MaxStored}
    /\ \E rank \in [queue -> 1 .. Cardinality(queue)] :
          /\ \A t, u \in queue : rank[t] = rank[u] => t = u
          /\ ord = [t \in Tracks |-> IF t \in queue THEN rank[t] * (EdgeOrdKeyDiff \div 2) ELSE 0]
    /\ unused = Tracks \ queue
    /\ row \in InitialRows
    /\ mail = [current |-> 0, guild |-> 0]
    /\ resync = FALSE /\ resyncPlaying = FALSE /\ playing = FALSE
    /\ vc = NoChannel
    /\ panicked = FALSE /\ managed = FALSE
    /\ silent = {} /\ gateWanted = FALSE

(***************************************************************************)
(* Queries and updates both sides use.                                     *)
(***************************************************************************)
CurrentTrack == Heads(queue, ord)

DropRows(gone) ==
    /\ queue' = queue \ gone
    /\ ord' = [t \in Tracks |-> IF t \in gone THEN 0 ELSE ord[t]]

(* RemoteTrack.Requeue: the UPDATE matches no row when t is gone already.  *)
RequeueRow(t) ==
    /\ IF t \in queue
         THEN \E key \in RequeueKeys(queue, ord) :
                 key <= MaxOrdKey /\ ord' = [ord EXCEPT ![t] = key]
         ELSE ord' = ord
    /\ queue' = queue

(* sendResync: one message; its targets are handled by goroutines of their *)
(* own, in any order.                                                      *)
PublishCurrent == mail' = [mail EXCEPT !.current = @ + 1]
PublishGuild   == mail' = [mail EXCEPT !.guild = @ + 1]
(* Slip: a Play at the head announces the guild only.                      *)
PublishGuildOnly == mail' = [mail EXCEPT !.guild = @ + 1]
PublishBoth    == mail' = [current |-> mail.current + 1, guild |-> mail.guild + 1]
=============================================================================
