----------------------------- MODULE QueueOrder -----------------------------
(***************************************************************************)
(* The order and the size of a queue under Play with several tracks,       *)
(* LoadPlaylist, SavePlaylist, ShuffleQueue, Remove and the requeue of a   *)
(* skipped or finished track (service/play.go, playlist.go, shuffle.go,    *)
(* remove.go, models/track_remote.go).  Each is a few statements, and the  *)
(* statements of several requests interleave: what an earlier one counted  *)
(* or read may be stale when a later one inserts.                          *)
(***************************************************************************)
EXTENDS OrdKeys, FiniteSetsExt

CONSTANTS
    Tracks,            \* track ids, each used for one row
    Clients,           \* requests that can be in progress at the same time
    Edits,             \* the operations they ask for
    BatchSizes,        \* tracks one Play may bring
    Positions,         \* positions passed to Play and Remove
    QueueSizeLimit,    \* queueSizeLimit
    PlaylistSizeLimit, \* playlistSizeLimit
    MaxEdits,          \* bound: requests in a behaviour
    MaxOrdKey          \* bound: no track is put behind this key

AllEdits == {"play", "remove", "requeue", "shuffle", "save", "load"}

ASSUME QueueConstants ==
    /\ IsFiniteSet(Tracks)
    /\ IsFiniteSet(Clients) /\ Clients # {}
    /\ Edits \subseteq AllEdits
    /\ BatchSizes \subseteq Nat \ {0}
    /\ \E largest \in BatchSizes : \A n \in BatchSizes : n <= largest  \* the most
    /\ Positions \subseteq Int
    /\ QueueSizeLimit \in Nat /\ PlaylistSizeLimit \in Nat
    /\ MaxEdits \in Nat /\ MaxOrdKey \in Int

VARIABLES
    queue,       \* rows of the tracks table, as a set of ids
    ord,         \* their ord_key; 0 for an id with no row
    unused,      \* ids no row has had yet
    playlist,    \* the playlist saved, ord_keys by the id they were copied from
    edit,        \* the request each client has in progress
    edits,       \* requests left
    (* History, read by no action of the program. *)
    fresh,       \* clients whose reads succeeded and no other request has outdated
    told         \* the last write was one that is announced as a new head

rows == <<queue, ord, unused>>
vars == <<rows, playlist, edit, edits, fresh, told>>

Steps == {"idle", "count", "keys", "max", "preview", "insert", "copy", "write"}

(* n: tracks to insert; pos: where; qlen, range, qmax: what was read.      *)
Edit(op, step, n, pos) ==
    [op |-> op, step |-> step, n |-> n, pos |-> pos, qlen |-> 0, range |-> DefaultRange, qmax |-> 0]

NoEdit == Edit("none", "idle", 0, 0)

EditType ==
    [op : AllEdits \cup {"none"}, step : Steps, n : Nat, pos : Int, qlen : Nat,
     range : [prev : Int, next : Int, first : BOOLEAN], qmax : Int]

TypeOK ==
    /\ queue \subseteq Tracks
    /\ ord \in [Tracks -> Int]
    /\ unused \subseteq Tracks \ queue
    /\ DOMAIN playlist \subseteq Tracks /\ playlist \in [DOMAIN playlist -> Int]
    /\ edit \in [Clients -> EditType]
    /\ edits \in 0 .. MaxEdits
    /\ fresh \subseteq Clients
    /\ told \in BOOLEAN

Init ==
    /\ queue = {} /\ unused = Tracks
    /\ ord = [t \in Tracks |-> 0]
    /\ playlist = [t \in {} |-> 0]
    /\ edit = [c \in Clients |-> NoEdit]
    /\ edits = MaxEdits
    /\ fresh = {} /\ told = FALSE

(***************************************************************************)
(* The steps of a request.                                                 *)
(***************************************************************************)
At(c, step) == edit[c].step = step

Accept(c, request) ==
    /\ At(c, "idle")
    /\ edits > 0
    /\ request.op \in Edits
    /\ edits' = edits - 1
    /\ edit' = [edit EXCEPT ![c] = request]
    /\ fresh' = fresh \cup {c}
    /\ UNCHANGED <<rows, playlist, told>>

Continue(c, request) ==
    /\ edit' = [edit EXCEPT ![c] = request]
    /\ UNCHANGED <<rows, playlist, edits, fresh, told>>

(* The request ends with nothing written.                                  *)
Refuse(c) == Continue(c, NoEdit)

(* The request ends with a write, which outdates what the others read.     *)
Wrote(c, announced) ==
    /\ edit' = [edit EXCEPT ![c] = NoEdit]
    /\ fresh' = {}
    /\ told' = announced
    /\ UNCHANGED <<playlist, edits>>

Begin(c) ==
    \/ \E n \in BatchSizes, p \in Positions : Accept(c, Edit("play", "count", n, p))
    \/ \E p \in Positions : Accept(c, Edit("remove", "write", 0, IF p < 0 THEN 0 ELSE p))
    \/ Accept(c, Edit("requeue", "write", 0, 0))
    \/ Accept(c, Edit("shuffle", "write", 0, 0))
    \/ Accept(c, Edit("save", "count", 0, 0))
    \/ Accept(c, Edit("load", "count", 0, 0))

(* addTracks: the limit is checked against a count.  Slip: off by one.     *)
FitsOneMore(qlen, n) == qlen + n <= QueueSizeLimit + 1
Fits(qlen, n) == qlen + n <= QueueSizeLimit

CountForPlay(c) ==
    /\ At(c, "count") /\ edit[c].op = "play"
    /\ IF Fits(Cardinality(queue), edit[c].n)
         THEN Continue(c, [edit[c] EXCEPT !.qlen = Cardinality(queue), !.step = "keys"])
         ELSE Refuse(c)

ReadKeys(c) ==
    /\ At(c, "keys")
    /\ LET pos == ClampPosition(edit[c].pos, edit[c].qlen) IN
       \E prev \in ScanKey(queue, ord, pos - 1), next \in ScanKey(queue, ord, pos) :
          Continue(c, [edit[c] EXCEPT !.range = OrdKeyRange(edit[c].qlen, pos, prev, next),
                                      !.step = "insert"])

(* chooseOrdKeyRange returns no error: when it cannot query or scan the    *)
(* keys, it logs that and the tracks go where those of an empty queue do.  *)
FailToReadKeys(c) ==
    /\ At(c, "keys") /\ edit[c].qlen # 0
    /\ edit' = [edit EXCEPT ![c] = [edit[c] EXCEPT !.range = DefaultRange, !.step = "insert"]]
    /\ fresh' = fresh \ {c}
    /\ UNCHANGED <<rows, playlist, edits, told>>

(* An id of its own for each of the members of S; which is no matter.      *)
CanNumber(S) == Cardinality(S) <= Cardinality(unused)
NewIds(S) == CHOOSE f \in [S -> unused] : \A s, t \in S : f[s] = f[t] => s = t

(* One INSERT of the rows key is defined on.                               *)
InsertRows(key) ==
    /\ \A t \in DOMAIN key : key[t] <= MaxOrdKey
    /\ queue' = queue \cup DOMAIN key
    /\ unused' = unused \ DOMAIN key
    /\ ord' = [t \in Tracks |-> IF t \in DOMAIN key THEN key[t] ELSE ord[t]]

(* addTracks, the end: SetOrdKeys and the INSERT.                          *)
InsertTracks(c) ==
    /\ At(c, "insert") /\ edit[c].op = "play"
    /\ CanNumber(1 .. edit[c].n)
    /\ LET n  == edit[c].n
           r  == edit[c].range
           id == NewIds(1 .. n)
       IN  InsertRows([t \in {id[i] : i \in 1 .. n} |->
               SpreadKey(r.prev, r.next, n, CHOOSE i \in 1 .. n : id[i] = t)])
    /\ Wrote(c, edit[c].range.first)

(* LoadPlaylist: count, MAX(ord_key) or 0 of an empty queue, the preview,  *)
(* and one INSERT ... SELECT that shifts the saved keys.                   *)
CountForLoad(c) ==
    /\ At(c, "count") /\ edit[c].op = "load"
    /\ Continue(c, [edit[c] EXCEPT !.qlen = Cardinality(queue), !.step = "max"])

ReadMax(c) ==
    /\ At(c, "max")
    /\ \E m \in {ord[t] : t \in queue} \cup {0} :
          /\ queue # {} => (\E t \in queue : ord[t] = m) /\ (\A t \in queue : ord[t] <= m)
          /\ Continue(c, [edit[c] EXCEPT !.qmax = m, !.step = "preview"])

Preview(c) ==
    /\ At(c, "preview")
    /\ LET n == Cardinality(DOMAIN playlist) IN
       IF n # 0 /\ Fits(edit[c].qlen, n)
         THEN Continue(c, [edit[c] EXCEPT !.n = n, !.step = "insert"])
         ELSE Refuse(c)

(* Slip: the gap in front of the loaded tracks is forgotten.               *)
BaseNoGap(qmax, first) == qmax - first
BaseOrdKey(qmax, first) == qmax - first + EdgeOrdKeyDiff

LoadTracks(c) ==
    /\ At(c, "insert") /\ edit[c].op = "load"
    /\ CanNumber(DOMAIN playlist)
    /\ LET saved == DOMAIN playlist
           id    == NewIds(saved)
       IN  \E first \in Heads(saved, playlist) :
              InsertRows([t \in {id[u] : u \in saved} |->
                  BaseOrdKey(edit[c].qmax, playlist[first]) + playlist[CHOOSE u \in saved : id[u] = t]])
    /\ Wrote(c, edit[c].qlen = 0)

(* SavePlaylist: count and check, then copy what is there in a transaction. *)
(* Every playlist has an id of its own; one is kept here.                  *)
CountForSave(c) ==
    /\ At(c, "count") /\ edit[c].op = "save"
    /\ IF Cardinality(queue) \in 1 .. PlaylistSizeLimit
         THEN Continue(c, [edit[c] EXCEPT !.step = "copy"])
         ELSE Refuse(c)

CopyQueue(c) ==
    /\ At(c, "copy")
    /\ DOMAIN playlist = {}
    /\ playlist' = [t \in queue |-> ord[t]]
    /\ edit' = [edit EXCEPT ![c] = NoEdit]
    /\ UNCHANGED <<rows, edits, fresh, told>>

(* Remove: one DELETE.                                                     *)
RemoveAt(c) ==
    /\ At(c, "write") /\ edit[c].op = "remove"
    /\ LET gone == AtPosition(queue, ord, edit[c].pos) IN
       \/ gone = {} /\ UNCHANGED rows
       \/ \E t \in gone :
             /\ queue' = queue \ {t}
             /\ ord' = [ord EXCEPT ![t] = 0]
             /\ UNCHANGED unused
    /\ Wrote(c, edit[c].pos = 0)

(* Requeue of the current track, by Skip or by the play loop.              *)
Requeue(c) ==
    /\ At(c, "write") /\ edit[c].op = "requeue"
    /\ \/ queue = {} /\ UNCHANGED rows
       \/ \E t \in Heads(queue, ord), key \in RequeueKeys(queue, ord) :
             /\ key <= MaxOrdKey
             /\ ord' = [ord EXCEPT ![t] = key]
             /\ UNCHANGED <<queue, unused>>
    /\ Wrote(c, TRUE)

(* ShuffleQueue: one UPDATE gives every row but the current one            *)
(* RANDOM() * 100 + 1 + the current key.  Slip: without the 1.             *)
ShuffledFromHead(head) == head .. head + EdgeOrdKeyDiff
ShuffledKeys(head) == head + 1 .. head + EdgeOrdKeyDiff

Shuffle(c) ==
    /\ At(c, "write") /\ edit[c].op = "shuffle"
    /\ \/ queue = {} /\ UNCHANGED rows
       \/ \E t \in Heads(queue, ord) :
          \E key \in [queue \ {t} -> ShuffledKeys(ord[t])] :
             /\ \A u \in queue \ {t} : key[u] <= MaxOrdKey
             /\ ord' = [u \in Tracks |-> IF u \in queue \ {t} THEN key[u] ELSE ord[u]]
             /\ UNCHANGED <<queue, unused>>
    /\ Wrote(c, FALSE)

Next ==
    \E c \in Clients :
        \/ Begin(c)
        \/ CountForPlay(c) \/ ReadKeys(c) \/ FailToReadKeys(c) \/ InsertTracks(c)
        \/ CountForLoad(c) \/ ReadMax(c) \/ Preview(c) \/ LoadTracks(c)
        \/ CountForSave(c) \/ CopyQueue(c)
        \/ RemoveAt(c) \/ Requeue(c) \/ Shuffle(c)

Spec == Init /\ [][Next]_vars

(***************************************************************************)
(* Properties.                                                             *)
(***************************************************************************)
Distinct(q, key) == \A t, u \in q : key[t] = key[u] => t = u

(* The most tracks one request inserts.                                    *)
LargestBatch == Max(BatchSizes \cup {Cardinality(DOMAIN playlist)} \cup {0})

(* "queue can have at most %d tracks" (play.go:32) is checked against a    *)
(* count taken before the insert (addTracks), and requests overlap.  How   *)
(* far past the limit that takes the queue is bounded: one batch for every *)
(* other request in progress, however many requests there are in all.      *)
OvershootBounded ==
    Cardinality(queue) <= QueueSizeLimit + (Cardinality(Clients) - 1) * LargestBatch

Inserts(c) == At(c, "insert") /\ ~At(c, "insert")'

(* The keys between which a Play inserts leave room for its tracks.  They  *)
(* need not: keys are halved and never spread again, and after as many     *)
(* inserts at one place as the gap has halvings SetOrdKeys gives a new     *)
(* track the key of a neighbour.                                           *)
HasRoom(c) == edit[c].op = "play" => edit[c].range.next - edit[c].range.prev > edit[c].n

(* "-1 means put track as last, -2 means put track as before last"         *)
(* (play.go:115): a Play whose reads succeeded and are up to date puts its *)
(* tracks behind as many tracks as asked, or before as many, where the     *)
(* keys of the neighbours leave room for them; no track already there      *)
(* moves.  One that could not read the keys, and one that another request  *)
(* has outdated, may end up anywhere, at the head too.                     *)
PlayedWhereAsked ==
    [][\A c \in fresh :
          /\ Inserts(c) /\ edit[c].op = "play" /\ HasRoom(c) /\ Distinct(queue, ord)
          => LET asked == edit[c].pos
                 here  == Cardinality(queue)
                 fewer(k) == IF k < here THEN k ELSE here
             IN  /\ Distinct(queue', ord')
                 /\ \A t \in queue : ord'[t] = ord[t]
                 /\ \A t \in queue' \ queue :
                       IF asked >= 0
                         THEN Cardinality({u \in queue : ord[u] < ord'[t]}) = fewer(asked)
                         ELSE Cardinality({u \in queue : ord[u] > ord'[t]}) = fewer(-asked - 1)]_vars

(* LoadPlaylist with up-to-date reads puts its tracks behind all others    *)
(* and in the order they were saved in.                                    *)
LoadedBehindInOrder ==
    [][\A c \in fresh :
          Inserts(c) /\ edit[c].op = "load"
          => LET new == queue' \ queue IN
             /\ \A t \in queue, u \in new : ord'[t] < ord'[u]
             /\ \E f \in [DOMAIN playlist -> new] :
                   /\ \A u \in new : \E t \in DOMAIN playlist : f[t] = u
                   /\ \A t, u \in DOMAIN playlist :
                         playlist[t] < playlist[u] <=> ord'[f[t]] < ord'[f[u]]]_vars

(* The play loop is told of a new head only by Skip, Remove at 0, a Play   *)
(* that "affected the first" track and a load into an empty queue.  So no  *)
(* other write may change the head: ShuffleQueue, a Play or a load further *)
(* back, Remove at a later position.                                       *)
QuietWritesKeepHead ==
    [][\A c \in fresh :
          /\ edit'[c] # edit[c]
          /\ rows' # rows
          /\ HasRoom(c) /\ Distinct(queue, ord)
          /\ ~told'
          => Heads(queue', ord') = Heads(queue, ord)]_vars

(* A requeued track is behind every other one.                             *)
RequeuedIsLast ==
    [][\A c \in Clients :
          At(c, "write") /\ ~At(c, "write")' /\ edit[c].op = "requeue"
          => \A t \in queue : ord'[t] # ord[t] => \A u \in queue' \ {t} : ord'[u] < ord'[t]]_vars
=============================================================================
