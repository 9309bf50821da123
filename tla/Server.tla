------------------------------- MODULE Server -------------------------------
(***************************************************************************)
(* One process from serving to its end: how it admits requests and streams *)
(* (service/interceptors.go, auth.go, notifications.go), opens the session *)
(* of a token it has not heard of, takes over bots whose lock is free      *)
(* (broker.go handleKeyDel, orca.go initFromStore), makes the Guild        *)
(* objects resyncs need (models/bot_local.go getGuild), and shuts down     *)
(* (main.go, Orca.Shutdown).  What a handler does to the queue is in       *)
(* Handlers; what other processes do to the locks, and how a process ends  *)
(* that loses its own, is in Takeover.                                     *)
(***************************************************************************)
EXTENDS Naturals, FiniteSets

CONSTANTS
    Bots,
    Tokens,         \* the tokens a bot has had,
    OldTokens,      \* and those it may have had before
    Clients,        \* requests in progress at a time
    Takers,         \* goroutines in handleKeyDel at a time
    NoBot, NoToken,
    Methods,        \* that clients call: "plain" (ListPlaylists), "guild" and "stream" (Subscribe)
    Faults,         \* "db": a query fails; "session": NewBot does; "serve": Serve returns
    MaxTargets,     \* bound: targets of a resync message
    MaxInputs       \* bound: requests, resync messages and key events in a behaviour

ASSUME ServerConstants ==
    /\ OldTokens \subseteq Tokens
    /\ IsFiniteSet(Clients) /\ Clients # {}
    /\ NoBot \notin Bots /\ NoToken \notin Tokens
    /\ Bots \cap Nat = {}
    /\ Methods \subseteq {"plain", "guild", "stream"}
    /\ Faults \subseteq {"db", "session", "serve"}
    /\ MaxTargets \in Nat /\ MaxInputs \in Nat

VARIABLES
    token,       \* the bots table: the token of a bot, NoToken for no row
    hasGuild,    \* bots whose guild (one each) is in the guilds table
    call,        \* requests: kind, bot, token, step, number
    requests,    \* accepted so far; they are numbered
    open,        \* the sessions open at Discord
    states,      \* Orca.states: the session of a Bot and its token
    locked,      \* bots whose lock this process holds
    taker,       \* initFromStore: the rows to go, the step, the bot in hand
    events,      \* key events so far
    resyncing,   \* bots whose FullResync has yet to read the guild rows
    guild,       \* Bot.guilds of a session has the guild
    loading,     \* goroutines of a session about to Load it
    storing,     \* those that made a Guild and have yet to Store it
    made,        \* Guild objects of a session so far
    messages,    \* received so far; they are numbered
    msg,         \* the variable of subscriptionHandler its goroutines share
    starting,    \* goroutines of subscriptionHandler that have yet to read msg
    life,        \* where main is
    done,        \* the context of main is
    shutdown,    \* Orca.shutdown is closed
    closing,     \* bots the Range of Orca.Shutdown has yet to come to
    (* History, read by no action of the program. *)
    replaced,    \* of each bot, the sessions states.Store lost sight of
    lost,        \* of each bot, those that registrations lost since its token last changed
    belated,     \* bots taken over after the Range
    peak,        \* of each session, the goroutines most that were in getGuild at once
    handled      \* the messages handleResync was called with

tables  == <<token, hasGuild>>
bots    == <<open, states, replaced, lost>>
takeovers == <<locked, taker, events, resyncing, belated>>
objects == <<guild, loading, storing, made, peak>>
pubsub  == <<messages, msg, starting, handled>>
main    == <<life, done, shutdown, closing>>
vars == <<tables, call, requests, bots, takeovers, objects, pubsub, main>>

(* A session is named by what it was opened for: the number of a request,  *)
(* or the bot whose lock was got, which a process gets once.               *)
Sessions  == Bots \cup 1 .. MaxInputs
NoSession == 0
State(s, t) == [session |-> s, token |-> t]
NoState     == State(NoSession, NoToken)

(* What has come in so far.                                                *)
Inputs == requests + messages + events

Kinds == {"none", "plain", "guild", "stream"}
Steps == {"idle", "auth", "open", "insert", "store", "guild", "newGuild", "handler", "subscribe", "stream"}
Call(kind, b, t, step, n) == [kind |-> kind, bot |-> b, token |-> t, step |-> step, number |-> n]
NoCall == Call("none", NoBot, NoToken, "idle", 0)

NoRows == [b \in Bots |-> NoToken]
Taker(rows, step, b) == [rows |-> rows, step |-> step, bot |-> b]

Message(n, b) == [number |-> n, bot |-> b]

Rows == [Bots -> Tokens \cup {NoToken}]

TypeOK ==
    /\ token \in Rows /\ hasGuild \subseteq {b \in Bots : token[b] # NoToken}
    /\ call \in [Clients -> [kind : Kinds, bot : Bots \cup {NoBot}, token : Tokens \cup {NoToken},
                             step : Steps, number : 0 .. MaxInputs]]
    /\ requests \in Nat /\ messages \in Nat /\ events \in Nat /\ Inputs <= MaxInputs
    /\ open \subseteq Sessions
    /\ states \in [Bots -> [session : Sessions, token : Tokens] \cup {NoState}]
    /\ locked \subseteq Bots
    /\ taker \in [Takers -> [rows : Rows, step : {"rows", "open", "store"}, bot : Bots \cup {NoBot}]]
    /\ resyncing \subseteq Bots
    /\ guild \in [Sessions -> BOOLEAN]
    /\ loading \in [Sessions -> Nat] /\ storing \in [Sessions -> Nat]
    /\ made \in [Sessions -> Nat] /\ peak \in [Sessions -> Nat]
    /\ msg \in [number : 0 .. messages, bot : Bots \cup {NoBot}]
    /\ starting \in Nat /\ handled \subseteq 1 .. messages
    /\ life \in {"serving", "stopping", "draining", "bots", "stores", "exited"}
    /\ done \in BOOLEAN /\ shutdown \in BOOLEAN
    /\ closing \subseteq Bots
    /\ replaced \in [Bots -> SUBSET Sessions] /\ lost \in [Bots -> Nat] /\ belated \subseteq Bots

(* New and Init: the lock of some bots in the table was got, and a session *)
(* opened for some of those.                                               *)
Init ==
    /\ token \in [Bots -> OldTokens \cup {NoToken}]
    /\ hasGuild \in SUBSET {b \in Bots : token[b] # NoToken}
    /\ call = [c \in Clients |-> NoCall]
    /\ requests = 0
    /\ locked \in SUBSET {b \in Bots : token[b] # NoToken}
    /\ open \in SUBSET locked
    /\ states = [b \in Bots |-> IF b \in open THEN State(b, token[b]) ELSE NoState]
    /\ taker = [k \in Takers |-> Taker(NoRows, "rows", NoBot)]
    /\ events = 0
    /\ resyncing = open
    /\ guild = [s \in Sessions |-> FALSE]
    /\ loading = [s \in Sessions |-> 0] /\ storing = loading /\ made = loading /\ peak = loading
    /\ messages = 0 /\ msg = Message(0, NoBot) /\ starting = 0 /\ handled = {}
    /\ life = "serving" /\ done = FALSE /\ shutdown = FALSE /\ closing = {}
    /\ replaced = [b \in Bots |-> {}] /\ lost = [b \in Bots |-> 0] /\ belated = {}

At(c, step)   == call[c].step = step
Goto(c, step) == call' = [call EXCEPT ![c].step = step]
Return(c)     == call' = [call EXCEPT ![c] = NoCall]

(***************************************************************************)
(* Admission: UnaryInterceptor and StreamInterceptor.                      *)
(***************************************************************************)

(* Until GracefulStop the gRPC server takes requests.  A health check is   *)
(* not authenticated; one without a token is refused at once.              *)
Accept(c) ==
    /\ At(c, "idle")
    /\ life \in {"serving", "stopping"}
    /\ Inputs < MaxInputs
    /\ requests' = requests + 1
    /\ call' \in {[call EXCEPT ![c] = Call("none", NoBot, NoToken, "handler", 0)]}
                 \cup {[call EXCEPT ![c] = Call(kind, b, t, "auth", requests')] :
                          kind \in Methods, b \in Bots, t \in Tokens}
    /\ UNCHANGED <<tables, bots, takeovers, objects, pubsub, main>>

Authenticated(c) ==
    CASE call[c].kind = "guild"  -> "guild"
      [] call[c].kind = "stream" -> "subscribe"
      [] OTHER                   -> "handler"

(* What becomes of a request whose bot is known, or is now.                *)
Admit(c) == call' = [call EXCEPT ![c] = Call("none", @.bot, NoToken, Authenticated(c), 0)]

(* authenticate: SELECT the bot with the token.                            *)
Authenticate(c) ==
    /\ At(c, "auth")
    /\ \/ call[c].token = token[call[c].bot] /\ Admit(c)
       \/ call[c].token # token[call[c].bot] /\ Goto(c, "open")
       \/ "db" \in Faults /\ Return(c)
    /\ UNCHANGED <<tables, requests, bots, takeovers, objects, pubsub, main>>

(* register: NewBot opens a session ...                                    *)
OpenSession(c) ==
    /\ At(c, "open")
    /\ \/ Goto(c, "insert") /\ open' = open \cup {call[c].number}
       \/ "session" \in Faults /\ Return(c) /\ UNCHANGED open
    /\ UNCHANGED <<tables, requests, states, replaced, lost, takeovers, objects, pubsub, main>>

(* ... INSERT ... ON CONFLICT (id) DO UPDATE SET token ...                 *)
(* Slips: the row is not written; the session of a failed INSERT stays.    *)
SkipInsert(b, t) == UNCHANGED token
InsertBot(b, t)  == token' = [token EXCEPT ![b] = t]
KeepSession(s)   == UNCHANGED open
CloseSession(s)  == open' = open \ {s}

InsertRow(c) ==
    /\ At(c, "insert")
    /\ \/ /\ InsertBot(call[c].bot, call[c].token)
          /\ lost' = IF token' = token THEN lost ELSE [lost EXCEPT ![call[c].bot] = 0]
          /\ Goto(c, "store")
          /\ UNCHANGED open
       \/ /\ "db" \in Faults
          /\ CloseSession(call[c].number)
          /\ Return(c)
          /\ UNCHANGED <<token, lost>>
    /\ UNCHANGED <<hasGuild, requests, states, replaced, takeovers, objects, pubsub, main>>

(* ... and states.Store.  Whatever Bot was there is forgotten, not closed. *)
Forgotten(b) == {states[b].session} \ {NoSession}
StoreBot(b, s, t) ==
    /\ states' = [states EXCEPT ![b] = State(s, t)]
    /\ replaced' = [replaced EXCEPT ![b] = @ \cup Forgotten(b)]

StoreState(c) ==
    /\ At(c, "store")
    /\ StoreBot(call[c].bot, call[c].number, call[c].token)
    /\ lost' = IF Forgotten(call[c].bot) = {} THEN lost ELSE [lost EXCEPT ![call[c].bot] = @ + 1]
    /\ Admit(c)
    /\ UNCHANGED <<tables, requests, open, takeovers, objects, pubsub, main>>

(* authenticateWithGuild: SELECT the guild, INSERT it if it is not there.  *)
(* A second request that found none either violates the primary key.       *)
FindGuild(c) ==
    /\ At(c, "guild")
    /\ \/ call[c].bot \in hasGuild /\ Goto(c, "handler")
       \/ call[c].bot \notin hasGuild /\ Goto(c, "newGuild")
       \/ "db" \in Faults /\ Return(c)
    /\ UNCHANGED <<tables, requests, bots, takeovers, objects, pubsub, main>>

InsertGuild(c) ==
    /\ At(c, "newGuild")
    /\ \/ /\ call[c].bot \notin hasGuild
          /\ hasGuild' = hasGuild \cup {call[c].bot}
          /\ Goto(c, "handler")
       \/ /\ call[c].bot \in hasGuild \/ "db" \in Faults
          /\ Return(c)
          /\ UNCHANGED hasGuild
    /\ UNCHANGED <<token, requests, bots, takeovers, objects, pubsub, main>>

(* The handler returns, with a reply or an error.                          *)
EndHandler(c) ==
    /\ At(c, "handler")
    /\ Return(c)
    /\ UNCHANGED <<tables, requests, bots, takeovers, objects, pubsub, main>>

(***************************************************************************)
(* Subscribe, the stream of queue notifications.                           *)
(***************************************************************************)
Subscribe(c) ==
    /\ At(c, "subscribe")
    /\ Goto(c, "stream")
    /\ UNCHANGED <<tables, requests, bots, takeovers, objects, pubsub, main>>

(* The select: the client hangs up, or the broadcast channel is closed.    *)
(* Slip: the stream waits for its client only.                             *)
HangUp(c) ==
    /\ At(c, "stream")
    /\ Return(c)
    /\ UNCHANGED <<tables, requests, bots, takeovers, objects, pubsub, main>>

NeverShut   == FALSE
StreamsShut == shutdown

EndStream(c) ==
    /\ At(c, "stream")
    /\ StreamsShut
    /\ Return(c)
    /\ UNCHANGED <<tables, requests, bots, takeovers, objects, pubsub, main>>

Proceed(c) ==
    \/ Authenticate(c) \/ OpenSession(c) \/ InsertRow(c) \/ StoreState(c)
    \/ FindGuild(c) \/ InsertGuild(c) \/ EndHandler(c)
    \/ Subscribe(c) \/ EndStream(c)

(***************************************************************************)
(* Takeover: handleKeyDel, for a key of a bot that is not managed here,    *)
(* calls initFromStore with the context of main.                           *)
(***************************************************************************)
Running == life # "exited"

(* SELECT id, token.                                                       *)
TakeOver(k) ==
    /\ taker[k] = Taker(NoRows, "rows", NoBot)
    /\ ~done /\ life \notin {"stores", "exited"}
    /\ Inputs < MaxInputs
    /\ events' = events + 1
    /\ taker' = [taker EXCEPT ![k] = Taker(token, "rows", NoBot)]
    /\ UNCHANGED <<tables, call, requests, bots, locked, resyncing, belated, objects, pubsub, main>>

(* On to the next row.                                                     *)
RowDone(k, b) == taker' = [taker EXCEPT ![k] = Taker([@.rows EXCEPT ![b] = NoToken], "rows", NoBot)]

(* Lock: somebody holds it, Redis fails, or it is got; then a Bot with the *)
(* token of the row need not be opened (getStateByToken).                  *)
LockRow(k, b) ==
    /\ Running
    /\ taker[k].step = "rows" /\ taker[k].rows[b] # NoToken
    /\ \/ RowDone(k, b) /\ UNCHANGED locked
       \/ /\ b \notin locked /\ ~done
          /\ locked' = locked \cup {b}
          /\ IF states[b].token = taker[k].rows[b]
               THEN RowDone(k, b)
               ELSE taker' = [taker EXCEPT ![k] = Taker(@.rows, "open", b)]
    /\ UNCHANGED <<tables, call, requests, bots, events, resyncing, belated, objects, pubsub, main>>

(* NewBot, which no context ends.                                          *)
OpenTaken(k) ==
    /\ Running
    /\ taker[k].step = "open"
    /\ \/ /\ open' = open \cup {taker[k].bot}
          /\ taker' = [taker EXCEPT ![k] = Taker(@.rows, "store", @.bot)]
       \/ "session" \in Faults /\ RowDone(k, taker[k].bot) /\ UNCHANGED open
    /\ UNCHANGED <<tables, call, requests, states, replaced, lost, locked, events, resyncing, belated,
                   objects, pubsub, main>>

(* states.Store; go FullResync.  A Range in progress may come to a new key *)
(* or not.                                                                 *)
StoreTaken(k) ==
    LET b == taker[k].bot IN
    /\ Running
    /\ taker[k].step = "store"
    /\ StoreBot(b, b, taker[k].rows[b])
    /\ RowDone(k, b)
    /\ resyncing' = resyncing \cup {b}
    /\ closing' \in {closing} \cup (IF life = "bots" /\ states[b] = NoState THEN {closing \cup {b}} ELSE {})
    /\ belated' = IF life \in {"bots", "stores"} /\ b \notin closing' THEN belated \cup {b} ELSE belated
    /\ UNCHANGED <<tables, call, requests, open, lost, locked, events, objects, pubsub, life, done, shutdown>>

(***************************************************************************)
(* Resync messages: each starts a goroutine of its own, until the context  *)
(* is done or the subscription ends.                                       *)
(***************************************************************************)

(* subscriptionHandler: msg is declared outside of the loop, so the        *)
(* goroutine, when it gets to run, reads the newest message.               *)
(* Slip: a message waits in vain for the goroutine of the one before.      *)
KeepFirst(b) == IF starting > 0 THEN UNCHANGED msg ELSE msg' = Message(messages', b)
Take(b)      == msg' = Message(messages', b)

Receive ==
    /\ ~done
    /\ life \notin {"stores", "exited"}
    /\ Inputs < MaxInputs
    /\ messages' = messages + 1
    /\ \E b \in Bots : Take(b)
    /\ starting' = starting + 1
    /\ UNCHANGED <<tables, call, requests, bots, takeovers, objects, handled, main>>

(* n more goroutines get to getGuild.                                      *)
Crowd(s) == loading[s] + storing[s]
Enter(s, n) ==
    /\ loading' = [loading EXCEPT ![s] = @ + n]
    /\ peak' = IF Crowd(s) + n > peak[s] THEN [peak EXCEPT ![s] = Crowd(s) + n] ELSE peak

(* handleResync: a message for another's bot is skipped (getStateByID).    *)
(* doResync starts a goroutine for each target; that of the guild gets no  *)
(* further if it cannot read the guild's row.                              *)
Handle ==
    /\ Running
    /\ starting > 0
    /\ starting' = starting - 1
    /\ handled' = handled \cup {msg.number}
    /\ IF states[msg.bot] = NoState
         THEN UNCHANGED <<loading, peak>>
         ELSE \E n \in 0 .. MaxTargets : Enter(states[msg.bot].session, n)
    /\ UNCHANGED <<tables, call, requests, bots, takeovers, guild, storing, made, messages, msg, main>>

(* FullResync of a bot taken over: ResyncGuilds, if it can read the rows.  *)
FullResync(b) ==
    /\ Running
    /\ b \in resyncing
    /\ resyncing' = resyncing \ {b}
    /\ \/ b \in hasGuild /\ Enter(b, 1)
       \/ (b \notin hasGuild \/ done \/ "db" \in Faults) /\ UNCHANGED <<loading, peak>>
    /\ UNCHANGED <<tables, call, requests, bots, locked, taker, events, belated, guild, storing, made, pubsub, main>>

(* getGuild: Load, NewGuild (whose loops start at once), Store.            *)
(* Slip: a Guild is made for every message.                                *)
NeverThere(s) == FALSE
GuildThere(s) == guild[s]

LoadGuild(s) ==
    /\ Running
    /\ loading[s] > 0
    /\ loading' = [loading EXCEPT ![s] = @ - 1]
    /\ IF GuildThere(s)
         THEN UNCHANGED <<storing, made>>
         ELSE /\ storing' = [storing EXCEPT ![s] = @ + 1]
              /\ made' = [made EXCEPT ![s] = @ + 1]
    /\ UNCHANGED <<tables, call, requests, bots, takeovers, guild, peak, pubsub, main>>

StoreGuild(s) ==
    /\ Running
    /\ storing[s] > 0
    /\ storing' = [storing EXCEPT ![s] = @ - 1]
    /\ guild' = [guild EXCEPT ![s] = TRUE]
    /\ UNCHANGED <<tables, call, requests, bots, takeovers, loading, made, peak, pubsub, main>>

(***************************************************************************)
(* run and shutdown of main.go.                                            *)
(***************************************************************************)
Main(from, to) ==
    /\ life = from /\ life' = to
    /\ UNCHANGED <<tables, call, requests, bots, takeovers, objects, pubsub>>

(* SIGTERM ends the context; or Serve returns with an error.               *)
Stop ==
    /\ Main("serving", "stopping")
    /\ done' \in {TRUE} \cup (IF "serve" \in Faults THEN {FALSE} ELSE {})
    /\ UNCHANGED <<shutdown, closing>>

ShutdownStreams ==
    /\ Main("stopping", "draining")
    /\ shutdown' = TRUE
    /\ UNCHANGED <<done, closing>>

(* GracefulStop: returns once no request is in progress.  Slip: Stop.      *)
NoWait  == TRUE
Drained == \A c \in Clients : At(c, "idle")

GracefulStop ==
    /\ Main("draining", "bots")
    /\ Drained
    /\ closing' = {b \in Bots : states[b] # NoState}
    /\ UNCHANGED <<done, shutdown>>

(* Orca.Shutdown ranges over states: the guilds of a Bot leave, and its    *)
(* session closes (Bot.Shutdown) ...                                       *)
ShutdownBot(b) ==
    /\ life = "bots"
    /\ b \in closing
    /\ closing' = closing \ {b}
    /\ open' = open \ {states[b].session}
    /\ UNCHANGED <<tables, call, requests, states, replaced, lost, takeovers, objects, pubsub,
                   life, done, shutdown>>

(* ... Unsubscribe ...                                                     *)
Unsubscribe == Main("bots", "stores") /\ closing = {} /\ UNCHANGED <<done, shutdown, closing>>

(* ... Store.Shutdown: unlock, close Postgres and Redis; then run returns. *)
ShutdownStore == Main("stores", "exited") /\ UNCHANGED <<done, shutdown, closing>>

Shutdown ==
    \/ ShutdownStreams \/ GracefulStop \/ (\E b \in Bots : ShutdownBot(b))
    \/ Unsubscribe \/ ShutdownStore

Next ==
    \/ \E c \in Clients : Accept(c) \/ Proceed(c) \/ HangUp(c)
    \/ \E k \in Takers : \/ TakeOver(k) \/ OpenTaken(k) \/ StoreTaken(k)
                         \/ \E b \in Bots : LockRow(k, b)
    \/ Receive \/ Handle
    \/ \E b \in Bots : FullResync(b)
    \/ \E s \in Sessions : LoadGuild(s) \/ StoreGuild(s)
    \/ Stop \/ Shutdown

Spec == Init /\ [][Next]_vars

(* A request that is being handled goes on, its handler ending, and so     *)
(* does a shutdown that has begun.  No client need hang up.                *)
Fairness ==
    /\ WF_vars(Shutdown)
    /\ \A c \in Clients : WF_vars(Proceed(c))

FairSpec == Spec /\ Fairness

(***************************************************************************)
(* Properties.                                                             *)
(***************************************************************************)

(* The process ends: streams, which clients keep open for as long as they  *)
(* like, are told to, and one that subscribes late returns at once, so     *)
(* that GracefulStop has only requests to wait for.                        *)
DrainEnds == life = "stopping" ~> life = "exited"

(* No request is in progress once sessions and stores are being closed.    *)
NoLateRequest == life \in {"bots", "stores", "exited"} => \A c \in Clients : At(c, "idle")

(* A session nobody is going to close: one states has lost sight of, or of *)
(* a takeover, which a shutdown does not wait for, that was stored after   *)
(* the Range came by or is not yet.                                        *)
Forsaken(s) ==
    \/ \E b \in Bots : s \in replaced[b]
    \/ s \in belated
    \/ \E k \in Takers : taker[k].step = "store" /\ taker[k].bot = s

(* A shutdown leaves no session open at Discord but these: whatever was    *)
(* being registered as it began is closed, and so is every takeover that   *)
(* got to states.Store in time.                                            *)
SessionsClosed == life = "exited" => \A s \in open : Forsaken(s)

(* While a bot keeps its token, its sessions are lost to the requests only *)
(* that all looked for it before its row had the token; each opens one     *)
(* session, so that they lose no more than there are such requests.        *)
FewLostSessions == \A b \in Bots : lost[b] <= Cardinality(Clients)

(* getGuild lets several goroutines each make a Guild, with loops of its   *)
(* own, but no more of them than were in it at one moment: once those are  *)
(* through, messages find the one that was stored, however many come.      *)
GuildsOfOneCrowd == \A s \in Sessions : made[s] <= peak[s]

(* No goroutine has yet to look at the message it was started for.         *)
AllStarted == starting = 0

(* Goroutines share msg, yet the newest message of a subscription always   *)
(* gets to handleResync: what a burst of messages ends with is not lost.   *)
NewestHandled == AllStarted /\ messages > 0 => messages \in handled

(***************************************************************************)
(* What the repository says of itself and the code does not always keep.   *)
(***************************************************************************)

(* Only a "Resync message for non-managed recipient" is skipped            *)
(* (service/broker.go:58), and the play loop waits for a signal "instead   *)
(* of polling database" (track_local.go:283): every message received gets  *)
(* to handleResync.                                                        *)
EveryMessageHandled == AllStarted => handled = 1 .. messages
=============================================================================
