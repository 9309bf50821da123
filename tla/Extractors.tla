----------------------------- MODULE Extractors -----------------------------
(***************************************************************************)
(* From a query to the rows of the queue, and back from a row to a stream: *)
(* the chain of extractors (extractor/main.go, Orca.initExtractors) and    *)
(* its four members (spotify, vk, yandexmusic, ytdl), with NewRemoteTracks *)
(* that turns an answer into rows.  Requests run concurrently; what they   *)
(* share is the Spotify token and client, under an RWMutex.  Tracks are    *)
(* numbers; a query is the site its link names and the kind of link; an    *)
(* extraction URL is the form an extractor recognises it by.               *)
(***************************************************************************)
EXTENDS Naturals, Sequences, FiniteSets, SequencesExt

CONSTANTS
    Callers,      \* requests that extract tracks
    Nobody,
    Configs,      \* the extractors a configuration may name, ytdl needs none
    Unplayable,   \* tracks with no duration and no URL, or no album
    PageSize,
    Faults,       \* "web": a service does not answer; "edit": its collection is edited
    MaxTracks,    \* bound: tracks of the collection links name
    MaxEdits      \* bound: edits of it

ASSUME ExtractorsConstants ==
    /\ IsFiniteSet(Callers) /\ Nobody \notin Callers
    /\ Configs \subseteq SUBSET {"spotify", "vk", "yandex"}
    /\ PageSize \in Nat \ {0}
    /\ Faults \subseteq {"web", "edit"}
    /\ MaxTracks \in Nat /\ MaxEdits \in Nat

VARIABLES
    chain,        \* Extractors.extractors
    coll,         \* the collection of tracks the links name, at its service
    edits,        \* edits of it so far
    token,        \* Spotify.token: tokens are numbered in the order of issue
    client,       \* the token Spotify.client was made with
    issued,       \* tokens issued so far
    dead,         \* those up to this one have expired
    readers,      \* RLock is held: by a request (page 0) or a page goroutine of it
    waiting,      \* requests blocked in Lock
    writer,       \* the request inside Lock
    step, query, fresh, got, page, rows   \* of each request: see TypeOK

service == <<chain, coll, edits>>
pair    == <<token, client>>
tokens  == <<pair, issued, dead>>
mutex   == <<readers, waiting, writer>>
local   == <<query, fresh, got, page, rows>>
vars    == <<service, tokens, mutex, step, local>>

Sites == {"spotify", "vk", "yandex", "ytdl"}

Link(site, kind) == [site |-> site, kind |-> kind]
Queries == {Link("spotify", "track"), Link("spotify", "album"), Link("spotify", "playlist"),
            Link("vk", "track"), Link("vk", "list"), Link("yandex", "track"),
            Link("yandex", "list"), Link("ytdl", "list"), Link("ytdl", "text")}

Row(track, url) == [track |-> track, url |-> url]
Blank == Row(0, "none")
Rows  == [track : Nat, url : {"none", "web", "search", "yandex"}]

Todo == [state |-> "todo", items |-> <<>>]

TypeOK ==
    /\ chain \in Seq(Sites) /\ coll \in Seq(Nat) /\ edits \in 0 .. MaxEdits
    /\ issued \in Nat /\ token \in 1 .. issued /\ client \in 1 .. issued /\ dead \in 0 .. issued
    /\ readers \subseteq Callers \X Nat
    /\ waiting \subseteq Callers /\ writer \in Callers \cup {Nobody}
    /\ step \in [Callers -> {"idle", "check", "renew", "lock", "wait", "swap", "client", "call",
                             "reading", "pages", "fetch", "answered", "failed"}]
    /\ query \in [Callers -> Queries]
    /\ fresh \in [Callers -> 0 .. issued]    \* newToken
    /\ got \in [Callers -> Seq(Nat)]         \* the tracks getAlbumTracksIter has so far
    /\ page \in [Callers -> Seq([state : {"todo", "reading", "done", "failed"}, items : Seq(Nat)])]
    /\ rows \in [Callers -> Seq(Rows)]       \* what NewRemoteTracks returned

(***************************************************************************)
(* The chain.  ytdl matches every query, so it is added last.              *)
(***************************************************************************)

IfConfigured(e, configured) == IF e \in configured THEN <<e>> ELSE <<>>

(* Slip: ytdl is added as soon as it is made, before Yandex Music.         *)
AddedWhenMade(configured) ==
    IfConfigured("spotify", configured) \o IfConfigured("vk", configured)
        \o <<"ytdl">> \o IfConfigured("yandex", configured)
InitExtractors(configured) ==
    IfConfigured("spotify", configured) \o IfConfigured("vk", configured)
        \o IfConfigured("yandex", configured) \o <<"ytdl">>

QueryMatches(e, q) == e = "ytdl" \/ e = q.site

(* Slip: a search is not told from other text.                             *)
OnlyWeb(e, url) == \/ e = "yandex" /\ url = "yandex"
                   \/ e = "ytdl" /\ url \in {"web", "yandex"}
ExtractionURLMatches(e, url) == \/ e = "yandex" /\ url = "yandex"
                                \/ e = "ytdl" /\ url \in {"web", "yandex", "search"}

(* ExtractTracksData: the first member that matches; some always does.     *)
Extractor(q) == chain[Min({i \in DOMAIN chain : QueryMatches(chain[i], q)})]

(* ExtractStreamURL: so for the URL of a row, which none may take.         *)
Takers(url)   == {i \in DOMAIN chain : ExtractionURLMatches(chain[i], url)}
Streamer(url) == chain[Min(Takers(url))]

(* The loops over the tracks of an answer append all but those they skip.  *)
Without(items, skipped) ==
    LET kept[n \in 0 .. Len(items)] ==
          IF n = 0 THEN <<>>
          ELSE IF items[n] \in skipped THEN kept[n - 1] ELSE Append(kept[n - 1], items[n])
    IN kept[Len(items)]

Playable(items) == Without(items, Unplayable)
ToRows(items, url) == [i \in DOMAIN items |-> Row(items[i], url)]

(* getAlbumTracksData leaves the zero TrackData where it skips a track.    *)
AlbumRows(items) == [i \in DOMAIN items |->
                        IF items[i] \in Unplayable THEN Blank ELSE Row(items[i], "web")]

(* What the track, album and playlist functions of the members return.  A  *)
(* search and the link of one track name one.                              *)
Part(items, first, last) == SubSeq(items, first, IF last < Len(items) THEN last ELSE Len(items))
Named(q, items) == IF q.kind \in {"track", "text"} THEN Part(items, 1, 1) ELSE items

TrackData(e, q, items) ==
    CASE e = "spotify" /\ q.kind = "album" -> AlbumRows(items)
      [] e = "spotify" /\ q.kind # "album" -> ToRows(Playable(Named(q, items)), "web")
      [] e = "vk"      -> ToRows(Named(q, items), "search")
      [] e = "yandex"  -> ToRows(Playable(Named(q, items)), "yandex")
      [] e = "ytdl"    -> ToRows(Playable(Named(q, items)),
                                 IF q.site = "yandex" THEN "yandex" ELSE "web")

Init ==
    /\ \E configured \in Configs : chain = InitExtractors(configured)
    /\ \E n \in 0 .. MaxTracks : coll = [i \in 1 .. n |-> i]
    /\ edits = 0
    /\ token = 1 /\ client = 1 /\ issued = 1 /\ dead = 0
    /\ readers = {} /\ waiting = {} /\ writer = Nobody
    /\ step = [c \in Callers |-> "idle"]
    /\ query \in [Callers -> Queries]
    /\ fresh = [c \in Callers |-> 0]
    /\ got = [c \in Callers |-> <<>>]
    /\ page = [c \in Callers |-> <<>>]
    /\ rows = [c \in Callers |-> <<>>]

At(c, s)   == step[c] = s
Goto(c, s) == step' = [step EXCEPT ![c] = s]

(* The RWMutex.  A blocked Lock keeps new readers out.                     *)
RLock(c, p) ==
    /\ writer = Nobody /\ waiting = {}
    /\ readers' = readers \cup {<<c, p>>}
    /\ UNCHANGED <<waiting, writer>>

RUnlock(c, p) == readers' = readers \ {<<c, p>>} /\ UNCHANGED <<waiting, writer>>

(* NewRemoteTracks: no tracks are an error.                                *)
Answer(c, answer) ==
    IF answer = <<>> THEN Goto(c, "failed") /\ UNCHANGED rows
                     ELSE Goto(c, "answered") /\ rows' = [rows EXCEPT ![c] = answer]

(* The first member that matches takes the query.                          *)
ExtractTracksData(c) ==
    /\ At(c, "idle")
    /\ Goto(c, IF Extractor(query[c]) = "spotify" THEN "check" ELSE "fetch")
    /\ UNCHANGED <<service, tokens, mutex, local>>

(* vk, yandexmusic and ytdl ask once.                                      *)
Fetch(c) ==
    /\ At(c, "fetch")
    /\ \/ Answer(c, TrackData(Extractor(query[c]), query[c], coll))
       \/ "web" \in Faults /\ Goto(c, "failed") /\ UNCHANGED rows
    /\ UNCHANGED <<service, tokens, mutex, query, fresh, got, page>>

(***************************************************************************)
(* Spotify.refreshToken.                                                   *)
(***************************************************************************)

(* A token that is not valid is replaced, with RLock still held.           *)
CheckToken(c) ==
    /\ At(c, "check") /\ writer = Nobody /\ waiting = {}
    /\ IF token > dead THEN Goto(c, "call") /\ UNCHANGED mutex
                       ELSE Goto(c, "renew") /\ RLock(c, 0)
    /\ UNCHANGED <<service, tokens, local>>

(* Slip: RUnlock is deferred to the end of refreshToken.                   *)
UnlockDeferred(c) == UNCHANGED mutex
LeaveCheck(c)     == RUnlock(c, 0)

(* Slip: the error of Token is not looked at.                              *)
GoesOn(c)     == Goto(c, "lock")
FetchFails(c) == Goto(c, "failed")

FetchToken(c) ==
    /\ At(c, "renew")
    /\ LeaveCheck(c)
    /\ \/ /\ issued' = issued + 1
          /\ fresh' = [fresh EXCEPT ![c] = issued']
          /\ Goto(c, "lock")
       \/ "web" \in Faults /\ FetchFails(c) /\ UNCHANGED <<issued, fresh>>
    /\ UNCHANGED <<service, pair, dead, query, got, page, rows>>

Lock(c) ==
    /\ At(c, "lock")
    /\ waiting' = waiting \cup {c}
    /\ Goto(c, "wait")
    /\ UNCHANGED <<service, tokens, readers, writer, local>>

(* Slip: the two fields are set without the lock.                          *)
Unlocked(c) == TRUE
LockFree(c) == readers = {} /\ writer = Nobody

TakeLock(c) ==
    /\ At(c, "wait") /\ LockFree(c)
    /\ waiting' = waiting \ {c} /\ writer' = c
    /\ Goto(c, "swap")
    /\ UNCHANGED <<service, tokens, readers, local>>

StoreToken(c) ==
    /\ At(c, "swap")
    /\ token' = fresh[c]
    /\ Goto(c, "client")
    /\ UNCHANGED <<service, client, issued, dead, mutex, local>>

(* ... and Unlock.                                                         *)
StoreClient(c) ==
    /\ At(c, "client")
    /\ client' = fresh[c]
    /\ writer' = Nobody
    /\ fresh' = [fresh EXCEPT ![c] = 0]
    /\ Goto(c, "call")
    /\ UNCHANGED <<service, token, issued, dead, readers, waiting, query, got, page, rows>>

(***************************************************************************)
(* Calls of the Spotify API, each inside RLock and RUnlock.  One made with *)
(* an expired token fails: the client has nothing to refresh it with.      *)
(***************************************************************************)
Reachable == client > dead

(* getTrackData, a page of getAlbumTracksIter, or GetPlaylist.             *)
StartCall(c) ==
    /\ At(c, "call") /\ RLock(c, 0)
    /\ Goto(c, "reading")
    /\ UNCHANGED <<service, tokens, local>>

CallFails(c) ==
    /\ At(c, "reading") /\ (~Reachable \/ "web" \in Faults)
    /\ RUnlock(c, 0)
    /\ Goto(c, "failed")
    /\ got' = [got EXCEPT ![c] = <<>>]
    /\ UNCHANGED <<service, tokens, query, fresh, page, rows>>

EndTrack(c) ==
    /\ At(c, "reading") /\ query[c].kind = "track" /\ Reachable
    /\ RUnlock(c, 0)
    /\ Answer(c, TrackData("spotify", query[c], coll))
    /\ UNCHANGED <<service, tokens, query, fresh, got, page>>

(* The tracks from an offset on, one page of them.                         *)
PageAt(offset) == Part(coll, offset + 1, offset + PageSize)

(* Slip: the loop goes on until there is more than Total.                  *)
PastTotal(tracks) == Len(tracks) > Len(coll)
AllTracks(tracks) == Len(tracks) = Len(coll)

EndAlbumPage(c) ==
    /\ At(c, "reading") /\ query[c].kind = "album" /\ Reachable
    /\ RUnlock(c, 0)
    /\ LET tracks == got[c] \o PageAt(Len(got[c])) IN
          IF AllTracks(tracks)
          THEN /\ Answer(c, TrackData("spotify", query[c], tracks))
               /\ got' = [got EXCEPT ![c] = <<>>]
          ELSE /\ Goto(c, "call")
               /\ got' = [got EXCEPT ![c] = tracks]
               /\ UNCHANGED rows
    /\ UNCHANGED <<service, tokens, query, fresh, page>>

(* getPlaylistItemsIter: a goroutine for each page of Total.               *)
PageCount(total) == (total + PageSize - 1) \div PageSize

EndPlaylist(c) ==
    /\ At(c, "reading") /\ query[c].kind = "playlist" /\ Reachable
    /\ RUnlock(c, 0)
    /\ page' = [page EXCEPT ![c] = [p \in 1 .. PageCount(Len(coll)) |-> Todo]]
    /\ Goto(c, "pages")
    /\ UNCHANGED <<service, tokens, query, fresh, got, rows>>

StartPage(c, p) ==
    /\ At(c, "pages") /\ page[c][p].state = "todo"
    /\ RLock(c, p)
    /\ page' = [page EXCEPT ![c][p].state = "reading"]
    /\ UNCHANGED <<service, tokens, step, query, fresh, got, rows>>

(* Slip: the items are appended to the pages that have come in.            *)
NextPlace(c, p) == 1 + Cardinality({q \in DOMAIN page[c] : page[c][q].state = "done"})
OwnPlace(c, p)  == p

EndPage(c, p) ==
    /\ At(c, "pages") /\ page[c][p].state = "reading"
    /\ RUnlock(c, p)
    /\ \/ /\ Reachable
          /\ page' = [page EXCEPT ![c][p].state = "done",
                                  ![c][OwnPlace(c, p)].items = PageAt((p - 1) * PageSize)]
       \/ /\ ~Reachable \/ "web" \in Faults
          /\ page' = [page EXCEPT ![c][p].state = "failed"]
    /\ UNCHANGED <<service, tokens, step, query, fresh, got, rows>>

(* Wait, Flatten, getPlaylistTracksData: one failed page fails the whole.  *)
JoinPages(c) ==
    /\ At(c, "pages")
    /\ \A p \in DOMAIN page[c] : page[c][p].state \in {"done", "failed"}
    /\ IF \E p \in DOMAIN page[c] : page[c][p].state = "failed"
       THEN Goto(c, "failed") /\ UNCHANGED rows
       ELSE Answer(c, TrackData("spotify", query[c],
                                FlattenSeq([p \in DOMAIN page[c] |-> page[c][p].items])))
    /\ page' = [page EXCEPT ![c] = <<>>]
    /\ UNCHANGED <<service, tokens, mutex, query, fresh, got>>

(***************************************************************************)
(* The services.                                                           *)
(***************************************************************************)

(* The oldest live token expires.                                          *)
Expire ==
    /\ dead < issued
    /\ dead' = dead + 1
    /\ UNCHANGED <<service, pair, issued, mutex, step, local>>

(* The owner of the collection adds a track or removes one.                *)
Edit ==
    /\ "edit" \in Faults /\ edits < MaxEdits
    /\ edits' = edits + 1
    /\ \/ coll' = Append(coll, MaxTracks + edits')
       \/ \E i \in DOMAIN coll : coll' = RemoveAt(coll, i)
    /\ UNCHANGED <<chain, tokens, mutex, step, local>>

Caller(c) ==
    \/ ExtractTracksData(c) \/ Fetch(c)
    \/ CheckToken(c) \/ FetchToken(c) \/ Lock(c) \/ TakeLock(c) \/ StoreToken(c) \/ StoreClient(c)
    \/ StartCall(c) \/ CallFails(c) \/ EndTrack(c) \/ EndAlbumPage(c) \/ EndPlaylist(c)
    \/ JoinPages(c)

Page(c, p) == StartPage(c, p) \/ EndPage(c, p)

Next ==
    \/ \E c \in Callers : Caller(c) \/ \E p \in DOMAIN page[c] : Page(c, p)
    \/ Expire \/ Edit

Spec == Init /\ [][Next]_vars

Fairness ==
    \A c \in Callers :
        /\ WF_vars(Caller(c))
        /\ \A p \in 1 .. PageCount(MaxTracks + MaxEdits) :
              WF_vars(p \in DOMAIN page[c] /\ Page(c, p))

FairSpec == Spec /\ Fairness

(***************************************************************************)
(* Properties.                                                             *)
(***************************************************************************)

(* Outside Lock the client is the one made with the token beside it:       *)
(* refreshToken finding the token valid means that calls can be made,      *)
(* however many requests replaced the two at once.                         *)
ClientOfToken == writer = Nobody => client = token

(* Unless the collection was edited, an answer has every playable track of *)
(* it once and in its order, whatever the order in which the goroutines of *)
(* getPlaylistItemsIter finished and whichever of them failed.             *)
WholeAnswer ==
    \A c \in Callers :
        At(c, "answered") /\ edits = 0 =>
            Without([i \in DOMAIN rows[c] |-> rows[c][i].track], Unplayable \cup {0})
                = Playable(Named(query[c], coll))

(* When the stream URL of a queued row is gone its extraction URL finds    *)
(* another: some member of the chain takes the URL of every row but the    *)
(* blank ones of a Spotify album.  That of a Yandex Music track goes to    *)
(* the member that has its credentials.                                    *)
RowsStream ==
    \A c \in Callers : \A i \in DOMAIN rows[c] :
        LET url == rows[c][i].url IN
        /\ Takers(url) = {} => rows[c][i] = Blank
        /\ url = "yandex" /\ Contains(chain, "yandex") => Streamer(url) = "yandex"

(* Nobody waits for himself: who has the lock, of a request or of one of   *)
(* its page goroutines, goes on without asking for it again, so that it is *)
(* handed on although a blocked Lock keeps every new reader out.           *)
HoldersGoOn ==
    /\ writer # Nobody => step[writer] \in {"swap", "client"}
    /\ \A r \in readers :
          \/ r[2] = 0 /\ step[r[1]] \in {"renew", "reading"}
          \/ r[2] \in DOMAIN page[r[1]] /\ At(r[1], "pages") /\ page[r[1]][r[2]].state = "reading"

(* As long as no collection is edited, every request for tracks gets an    *)
(* answer or an error: no cycle of RLock and Lock stops refreshToken, and  *)
(* the loop of getAlbumTracksIter ends at Total.  Once one is, this says   *)
(* nothing of any request: an album that shrinks is read for ever.         *)
RequestsEnd ==
    \A c \in Callers : <>(step[c] \in {"answered", "failed"} \/ edits > 0)
=============================================================================
