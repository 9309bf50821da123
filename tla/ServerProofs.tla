---------------------------- MODULE ServerProofs ----------------------------
(***************************************************************************)
(* What holds of Server with any bots, tokens, requests, takeovers and     *)
(* messages.                                                               *)
(***************************************************************************)
EXTENDS Server, FiniteSetTheorems, TLAPS

CallType == [kind : Kinds, bot : Bots \cup {NoBot}, token : Tokens \cup {NoToken},
             step : Steps, number : 0 .. MaxInputs]

(* A request that is registering knows bot, token and its number; a bot    *)
(* whose guild is looked for has a row.                                    *)
Registering == {"open", "insert", "store"}
Meant(c) ==
    /\ call[c].step \in {"auth"} \cup Registering =>
          call[c].bot \in Bots /\ call[c].token \in Tokens /\ call[c].number \in 1 .. MaxInputs
    /\ call[c].step \in {"store", "guild", "newGuild"} =>
          call[c].bot \in Bots /\ token[call[c].bot] # NoToken

RowsTyped == token \in Rows /\ hasGuild \subseteq {b \in Bots : token[b] # NoToken}

CallsTyped == call \in [Clients -> CallType] /\ \A c \in Clients : Meant(c)

InputsTyped == requests \in Nat /\ messages \in Nat /\ events \in Nat /\ Inputs <= MaxInputs

StateType == [session : Sessions, token : Tokens] \cup {NoState}

(* A session named by a bot is that bot's.                                 *)
BotsTyped ==
    /\ open \subseteq Sessions
    /\ states \in [Bots -> StateType]
    /\ \A b \in Bots : states[b].session \in Bots => states[b].session = b
    /\ replaced \in [Bots -> SUBSET Sessions] /\ lost \in [Bots -> Nat]

TakerType == [rows : Rows, step : {"rows", "open", "store"}, bot : Bots \cup {NoBot}]

TakersTyped ==
    /\ locked \subseteq Bots /\ resyncing \subseteq Bots /\ belated \subseteq Bots
    /\ taker \in [Takers -> TakerType]
    /\ \A k \in Takers : taker[k].step \in {"open", "store"} =>
          taker[k].bot \in Bots /\ taker[k].rows[taker[k].bot] \in Tokens

MainTyped ==
    /\ life \in {"serving", "stopping", "draining", "bots", "stores", "exited"}
    /\ done \in BOOLEAN /\ shutdown \in BOOLEAN
    /\ closing \subseteq Bots

Typed == RowsTyped /\ CallsTyped /\ InputsTyped /\ BotsTyped /\ TakersTyped /\ MainTyped

LEMMA SessionFacts ==
    /\ NoSession \notin Sessions /\ Bots \subseteq Sessions
    /\ \A n \in 1 .. MaxInputs : n \in Sessions /\ n \notin Bots
    /\ NoState.session = NoSession /\ NoState.token = NoToken
    /\ NoState \notin [session : Sessions, token : Tokens]
BY ServerConstants DEF Sessions, NoSession, NoState, State

LEMMA CallFacts ==
    /\ NoCall \in CallType /\ NoCall.step = "idle"
    /\ Registering \subseteq Steps /\ {"auth", "guild", "newGuild", "handler", "subscribe", "stream"} \subseteq Steps
    /\ \A c \in Clients : Authenticated(c) \in {"guild", "handler", "subscribe"}
BY ServerConstants DEF NoCall, Call, CallType, Kinds, Steps, Registering, Authenticated

LEMMA InitTyped == Init => Typed
<1> SUFFICES ASSUME Init PROVE Typed  OBVIOUS
<1>1. token \in Rows /\ RowsTyped  BY ServerConstants DEF Init, RowsTyped, Rows
<1>2. CallsTyped  BY CallFacts DEF Init, CallsTyped, Meant, Registering
<1>3. InputsTyped  BY ServerConstants DEF Init, InputsTyped, Inputs
<1>4. BotsTyped
  <2>1. open \subseteq Bots /\ \A b \in open : token[b] \in Tokens
    BY <1>1 DEF Init, Rows
  <2>2. ASSUME NEW b \in Bots
        PROVE  /\ states[b] \in StateType
               /\ states[b].session \in Bots => states[b].session = b
    <3>1. CASE b \in open
      BY <2>1, <3>1, SessionFacts DEF Init, StateType, State
    <3>2. CASE b \notin open
      BY <3>2, SessionFacts DEF Init, StateType
    <3> QED  BY <3>1, <3>2
  <2>3. states \in [Bots -> StateType]  BY <2>2 DEF Init
  <2> QED  BY <2>1, <2>2, <2>3, SessionFacts DEF Init, BotsTyped
<1>5. TakersTyped
  <2>1. NoRows \in Rows  BY DEF NoRows, Rows
  <2> QED  BY <1>4, <2>1 DEF Init, TakersTyped, TakerType, Taker
<1>6. MainTyped  BY DEF Init, MainTyped
<1> QED  BY <1>1, <1>2, <1>3, <1>4, <1>5, <1>6 DEF Typed

(***************************************************************************)
(* What each kind of step changes and leaves alone.                        *)
(***************************************************************************)
RequestStep(c) == Accept(c) \/ Proceed(c) \/ HangUp(c)
TakerStep(k)   == TakeOver(k) \/ OpenTaken(k) \/ StoreTaken(k) \/ \E b \in Bots : LockRow(k, b)
MessageStep    ==
    \/ Receive \/ Handle \/ (\E b \in Bots : FullResync(b))
    \/ \E s \in Sessions : LoadGuild(s) \/ StoreGuild(s)
MainStep       == Stop \/ Shutdown

LEMMA StepKinds ==
    ASSUME [Next]_vars
    PROVE  \/ \E c \in Clients : RequestStep(c)
           \/ \E k \in Takers : TakerStep(k)
           \/ MessageStep \/ MainStep \/ UNCHANGED vars
BY DEF Next, RequestStep, TakerStep, MessageStep, MainStep

LEMMA RequestLeaves ==
    ASSUME NEW c \in Clients, RequestStep(c)
    PROVE  UNCHANGED <<takeovers, objects, pubsub, main>>
BY DEF RequestStep, Accept, Proceed, HangUp, Authenticate, OpenSession, InsertRow, StoreState, FindGuild,
       InsertGuild, EndHandler, Subscribe, EndStream

LEMMA TakerLeaves ==
    ASSUME NEW k \in Takers, TakerStep(k)
    PROVE  UNCHANGED <<tables, call, requests, lost, objects, pubsub, life, done, shutdown>>
BY DEF TakerStep, TakeOver, OpenTaken, StoreTaken, LockRow, main, bots

LEMMA MessageLeaves ==
    ASSUME MessageStep
    PROVE  UNCHANGED <<tables, call, requests, bots, locked, taker, events, belated, main>>
BY DEF MessageStep, Receive, Handle, FullResync, LoadGuild, StoreGuild, takeovers

LEMMA MainLeaves ==
    ASSUME MainStep
    PROVE  UNCHANGED <<tables, call, requests, states, replaced, lost, takeovers, objects, pubsub>>
BY DEF MainStep, Stop, Shutdown, ShutdownStreams, GracefulStop, ShutdownBot, Unsubscribe, ShutdownStore,
       Main, bots

(***************************************************************************)
(* A request's steps, by what they do to its registration.                 *)
(***************************************************************************)
Moved(c) == call' = [call EXCEPT ![c] = call'[c]] /\ call'[c] \in CallType

(* Not towards a session: admitted, refused, or over.                      *)
Leaves(c) ==
    /\ call'[c].step \notin Registering
    /\ UNCHANGED <<token, states, replaced, lost>>
    /\ \/ UNCHANGED open /\ call[c].step \notin {"insert", "store"}
       \/ open' = open \ {call[c].number} /\ call[c].step = "insert"

On(c, from, to) ==
    /\ call[c].step = from /\ call'[c].step = to
    /\ call'[c].bot = call[c].bot /\ call'[c].token = call[c].token /\ call'[c].number = call[c].number

Begins(c) ==
    /\ On(c, "auth", "open") /\ call[c].token # token[call[c].bot]
    /\ UNCHANGED <<token, open, states, replaced, lost>>

Opens(c) ==
    /\ On(c, "open", "insert") /\ open' = open \cup {call[c].number}
    /\ UNCHANGED <<token, states, replaced, lost>>

Writes(c) ==
    /\ On(c, "insert", "store")
    /\ token' = [token EXCEPT ![call[c].bot] = call[c].token]
    /\ lost' = IF token' = token THEN lost ELSE [lost EXCEPT ![call[c].bot] = 0]
    /\ UNCHANGED <<open, states, replaced>>

Stores(c) ==
    /\ call[c].step = "store" /\ call'[c].step \notin Registering
    /\ StoreBot(call[c].bot, call[c].number, call[c].token)
    /\ lost' = IF Forgotten(call[c].bot) = {} THEN lost ELSE [lost EXCEPT ![call[c].bot] = @ + 1]
    /\ UNCHANGED <<token, open>>

LEMMA GotoMoves ==
    ASSUME Typed, NEW c \in Clients, NEW step \in Steps, Goto(c, step)
    PROVE  /\ Moved(c) /\ call'[c].step = step
           /\ call'[c].bot = call[c].bot /\ call'[c].token = call[c].token
           /\ call'[c].number = call[c].number
<1>1. call \in [Clients -> CallType]  BY DEF Typed, CallsTyped
<1>2. call' = [call EXCEPT ![c] = [call[c] EXCEPT !.step = step]]  BY <1>1 DEF Goto
<1>3. [call[c] EXCEPT !.step = step] \in CallType  BY <1>1 DEF CallType
<1>4. call'[c] = [call[c] EXCEPT !.step = step]  BY <1>1, <1>2
<1> QED  BY <1>1, <1>2, <1>3, <1>4 DEF Moved, CallType

LEMMA ReturnMoves ==
    ASSUME Typed, NEW c \in Clients, Return(c)
    PROVE  Moved(c) /\ call'[c].step = "idle"
BY CallFacts DEF Typed, CallsTyped, Return, Moved

LEMMA AdmitMoves ==
    ASSUME Typed, NEW c \in Clients, Admit(c)
    PROVE  /\ Moved(c) /\ call'[c].step = Authenticated(c) /\ call'[c].bot = call[c].bot
<1>1. call \in [Clients -> CallType]  BY DEF Typed, CallsTyped
<1> DEFINE r == Call("none", call[c].bot, NoToken, Authenticated(c), 0)
<1>2. r \in CallType /\ r.step = Authenticated(c) /\ r.bot = call[c].bot
  <2>1. Authenticated(c) \in Steps  BY CallFacts DEF Registering, Steps
  <2>2. call[c].bot \in Bots \cup {NoBot}  BY <1>1 DEF CallType
  <2>3. 0 \in 0 .. MaxInputs  BY ServerConstants
  <2> QED  BY <2>1, <2>2, <2>3 DEF Call, CallType, Kinds
<1>3. call' = [call EXCEPT ![c] = r]  BY <1>1 DEF Admit
<1> HIDE DEF r
<1> QED  BY <1>1, <1>2, <1>3 DEF Moved

LEMMA AcceptMoves ==
    ASSUME Typed, NEW c \in Clients, Accept(c)
    PROVE  /\ Moved(c)
           /\ \/ call'[c].step = "handler"
              \/ /\ call'[c].step = "auth" /\ call'[c].bot \in Bots
                 /\ call'[c].token \in Tokens /\ call'[c].number \in 1 .. MaxInputs
<1>1. call \in [Clients -> CallType]  BY DEF Typed, CallsTyped
<1>2. requests' \in 1 .. MaxInputs
  BY ServerConstants DEF Typed, InputsTyped, Inputs, Accept
<1>3. PICK r \in CallType :
         /\ call' = [call EXCEPT ![c] = r]
         /\ \/ r.step = "handler"
            \/ /\ r.step = "auth" /\ r.bot \in Bots /\ r.token \in Tokens
               /\ r.number \in 1 .. MaxInputs
  <2>1. CASE call' = [call EXCEPT ![c] = Call("none", NoBot, NoToken, "handler", 0)]
    <3>1. /\ Call("none", NoBot, NoToken, "handler", 0) \in CallType
          /\ Call("none", NoBot, NoToken, "handler", 0).step = "handler"
      BY ServerConstants DEF Call, CallType, Kinds, Steps
    <3> QED  BY <2>1, <3>1
  <2>2. ASSUME NEW kind \in Methods, NEW b \in Bots, NEW t \in Tokens,
               call' = [call EXCEPT ![c] = Call(kind, b, t, "auth", requests')]
        PROVE  \E r \in CallType :
                 /\ call' = [call EXCEPT ![c] = r]
                 /\ \/ r.step = "handler"
                    \/ /\ r.step = "auth" /\ r.bot \in Bots /\ r.token \in Tokens
                       /\ r.number \in 1 .. MaxInputs
    <3>1. kind \in Kinds  BY ServerConstants DEF Kinds
    <3>2. Call(kind, b, t, "auth", requests') \in CallType
      BY <1>2, <3>1 DEF Call, CallType, Steps
    <3>3. /\ Call(kind, b, t, "auth", requests').step = "auth"
          /\ Call(kind, b, t, "auth", requests').bot = b
          /\ Call(kind, b, t, "auth", requests').token = t
          /\ Call(kind, b, t, "auth", requests').number = requests'
      BY DEF Call
    <3> QED  BY <1>2, <2>2, <3>2, <3>3
  <2> QED  BY <2>1, <2>2 DEF Accept
<1> QED  BY <1>1, <1>3 DEF Moved

LEMMA RequestSteps ==
    ASSUME Typed, NEW c \in Clients, RequestStep(c)
    PROVE  Moved(c) /\ (Leaves(c) \/ Begins(c) \/ Opens(c) \/ Writes(c) \/ Stores(c))
<1> USE DEF bots, tables
<1>1. CASE Accept(c)
  BY <1>1, AcceptMoves DEF Accept, At, Leaves, Registering
<1>2. CASE HangUp(c) \/ EndHandler(c) \/ EndStream(c)
  BY <1>2, ReturnMoves DEF HangUp, EndHandler, EndStream, At, Leaves, Registering
<1>3. CASE FindGuild(c) \/ InsertGuild(c) \/ Subscribe(c)
  BY <1>3, CallFacts, ReturnMoves, GotoMoves
  DEF FindGuild, InsertGuild, Subscribe, At, Leaves, Registering
<1>4. CASE Authenticate(c)
  <2>1. call[c].step = "auth" /\ UNCHANGED <<token, open, states, replaced, lost>>
    BY <1>4 DEF Authenticate, At
  <2>2. CASE Admit(c)
    BY <2>1, <2>2, AdmitMoves, CallFacts DEF Leaves, Registering
  <2>3. CASE call[c].token # token[call[c].bot] /\ Goto(c, "open")
    BY <2>1, <2>3, GotoMoves, CallFacts DEF Begins, On, Registering
  <2>4. CASE Return(c)
    BY <2>1, <2>4, ReturnMoves DEF Leaves, Registering
  <2> QED  BY <1>4, <2>2, <2>3, <2>4 DEF Authenticate
<1>5. CASE OpenSession(c)
  BY <1>5, GotoMoves, ReturnMoves, CallFacts DEF OpenSession, At, Leaves, Opens, On, Registering
<1>6. CASE InsertRow(c)
  BY <1>6, GotoMoves, ReturnMoves, CallFacts
  DEF InsertRow, InsertBot, CloseSession, At, Leaves, Writes, On, Registering
<1>7. CASE StoreState(c)
  BY <1>7, AdmitMoves, CallFacts DEF StoreState, At, Stores, Registering
<1> QED  BY <1>1, <1>2, <1>3, <1>4, <1>5, <1>6, <1>7 DEF RequestStep, Proceed

(***************************************************************************)
(* Types.                                                                  *)
(***************************************************************************)
LEMMA NoTokenIsNone == NoToken \notin Tokens /\ NoBot \notin Bots
BY ServerConstants

(* Rows are written, never deleted.                                        *)
LEMMA RequestRows ==
    ASSUME Typed, NEW c \in Clients, RequestStep(c)
    PROVE  /\ token' \in Rows
           /\ \A b \in Bots : token[b] # NoToken => token'[b] # NoToken
<1>1. token \in Rows  BY DEF Typed, RowsTyped
<1>2. CASE Writes(c)
  <2>1. call[c].bot \in Bots /\ call[c].token \in Tokens
    BY <1>2 DEF Writes, On, Typed, CallsTyped, Meant, Registering
  <2> QED  BY <1>1, <1>2, <2>1, NoTokenIsNone DEF Writes, Rows
<1>3. CASE ~Writes(c)
  <2>1. token' = token  BY <1>3, RequestSteps DEF Leaves, Begins, Opens, Stores
  <2> QED  BY <1>1, <2>1
<1> QED  BY <1>2, <1>3

LEMMA RequestMeant ==
    ASSUME Typed, NEW c \in Clients, RequestStep(c)
    PROVE  Meant(c)'
<1> USE DEF Meant, Registering
<1>1. Meant(c) /\ token \in Rows  BY DEF Typed, CallsTyped, RowsTyped
<1>2. CASE Accept(c)
  BY <1>2, AcceptMoves
<1>3. CASE HangUp(c) \/ EndHandler(c) \/ EndStream(c)
  BY <1>3, ReturnMoves DEF HangUp, EndHandler, EndStream
<1>4. CASE FindGuild(c) \/ InsertGuild(c) \/ Subscribe(c)
  <2>1. token' = token  BY <1>4 DEF FindGuild, InsertGuild, Subscribe, tables
  <2> QED
    BY <1>1, <1>4, <2>1, CallFacts, ReturnMoves, GotoMoves DEF FindGuild, InsertGuild, Subscribe, At
<1>5. CASE Authenticate(c)
  <2>1. call[c].step = "auth" /\ token' = token  BY <1>5 DEF Authenticate, At, tables
  <2>2. CASE call[c].token = token[call[c].bot] /\ Admit(c)
    BY <1>1, <2>1, <2>2, AdmitMoves, CallFacts, NoTokenIsNone
  <2>3. CASE Goto(c, "open")
    BY <1>1, <2>1, <2>3, GotoMoves, CallFacts
  <2>4. CASE Return(c)
    BY <2>4, ReturnMoves
  <2> QED  BY <1>5, <2>2, <2>3, <2>4 DEF Authenticate
<1>6. CASE OpenSession(c)
  BY <1>1, <1>6, GotoMoves, ReturnMoves, CallFacts DEF OpenSession, At, tables
<1>7. CASE InsertRow(c)
  <2>1. CASE InsertBot(call[c].bot, call[c].token) /\ Goto(c, "store")
    <3>1. call[c].bot \in Bots /\ call[c].token \in Tokens  BY <1>1, <1>7 DEF InsertRow, At
    <3>2. token'[call[c].bot] = call[c].token
      BY <1>1, <2>1, <3>1 DEF InsertBot, Rows
    <3> QED  BY <1>1, <1>7, <2>1, <3>1, <3>2, GotoMoves, CallFacts, NoTokenIsNone DEF InsertRow, At
  <2>2. CASE Return(c)
    BY <2>2, ReturnMoves
  <2> QED  BY <1>7, <2>1, <2>2 DEF InsertRow
<1>8. CASE StoreState(c)
  <2>1. call[c].step = "store" /\ token' = token /\ Admit(c)  BY <1>8 DEF StoreState, At, tables
  <2> QED  BY <1>1, <2>1, AdmitMoves, CallFacts
<1> QED  BY <1>2, <1>3, <1>4, <1>5, <1>6, <1>7, <1>8 DEF RequestStep, Proceed

LEMMA RequestCalls ==
    ASSUME Typed, NEW c \in Clients, RequestStep(c)
    PROVE  RowsTyped' /\ CallsTyped'
<1>1. /\ call \in [Clients -> CallType] /\ \A d \in Clients : Meant(d)
      /\ hasGuild \subseteq {b \in Bots : token[b] # NoToken}
  BY DEF Typed, CallsTyped, RowsTyped
<1>2. call' = [call EXCEPT ![c] = call'[c]] /\ call'[c] \in CallType  BY RequestSteps DEF Moved
<1>3. call' \in [Clients -> CallType] /\ \A d \in Clients : d # c => call'[d] = call[d]
  BY <1>1, <1>2
<1>4. ASSUME NEW d \in Clients PROVE Meant(d)'
  <2>1. CASE d = c  BY <2>1, RequestMeant
  <2>2. CASE d # c
    <3>1. call'[d] = call[d] /\ Meant(d)  BY <1>1, <1>3, <2>2
    <3> QED  BY <3>1, RequestRows DEF Meant
  <2> QED  BY <2>1, <2>2
<1>5. hasGuild' \subseteq {b \in Bots : token[b] # NoToken}
  <2>1. CASE hasGuild' = hasGuild  BY <1>1, <2>1
  <2>2. CASE hasGuild' # hasGuild
    <3>1. InsertGuild(c)
      BY <2>2 DEF RequestStep, Accept, Proceed, HangUp, Authenticate, OpenSession, InsertRow, StoreState,
                  FindGuild, EndHandler, Subscribe, EndStream, tables
    <3>2. hasGuild' = hasGuild \cup {call[c].bot} /\ call[c].step = "newGuild"
      BY <2>2, <3>1 DEF InsertGuild, At
    <3> QED  BY <1>1, <3>2 DEF Meant
  <2> QED  BY <2>1, <2>2
<1>6. RowsTyped'  BY <1>5, RequestRows DEF RowsTyped
<1> QED  BY <1>3, <1>4, <1>6 DEF CallsTyped

LEMMA StateTyped ==
    ASSUME NEW s \in Sessions, NEW t \in Tokens
    PROVE  /\ State(s, t) \in StateType
           /\ State(s, t).session = s /\ State(s, t).token = t /\ State(s, t) # NoState
BY SessionFacts DEF State, StateType

(* states.Store, whoever calls it.                                         *)
LEMMA StoreBotTyped ==
    ASSUME BotsTyped, NEW b \in Bots, NEW s \in Sessions, NEW t \in Tokens, StoreBot(b, s, t),
           s \in Bots => s = b, open' \subseteq Sessions, lost' \in [Bots -> Nat]
    PROVE  BotsTyped'
<1>1. states' = [states EXCEPT ![b] = State(s, t)]  BY DEF StoreBot
<1>2. states' \in [Bots -> StateType] /\ \A x \in Bots : states'[x].session \in Bots => states'[x].session = x
  BY <1>1, StateTyped DEF BotsTyped
<1>3. Forgotten(b) \subseteq Sessions
  BY SessionFacts DEF Forgotten, BotsTyped, StateType
<1>4. replaced' \in [Bots -> SUBSET Sessions]
  BY <1>3 DEF StoreBot, BotsTyped
<1> QED  BY <1>2, <1>4 DEF BotsTyped

LEMMA RequestBots ==
    ASSUME Typed, NEW c \in Clients, RequestStep(c)
    PROVE  BotsTyped'
<1>1. BotsTyped /\ Meant(c)  BY DEF Typed, CallsTyped
<1>2. CASE Leaves(c) \/ Begins(c)
  BY <1>1, <1>2 DEF Leaves, Begins, BotsTyped
<1>3. CASE Opens(c)
  <2>1. call[c].number \in Sessions  BY <1>1, <1>3, SessionFacts DEF Opens, On, Meant, Registering
  <2> QED  BY <1>1, <1>3, <2>1 DEF Opens, BotsTyped
<1>4. CASE Writes(c)
  <2>1. call[c].bot \in Bots  BY <1>1, <1>4 DEF Writes, On, Meant, Registering
  <2> QED  BY <1>1, <1>4, <2>1 DEF Writes, BotsTyped
<1>5. CASE Stores(c)
  <2>1. /\ call[c].bot \in Bots /\ call[c].token \in Tokens
        /\ call[c].number \in Sessions /\ call[c].number \notin Bots
    BY <1>1, <1>5, SessionFacts DEF Stores, Meant, Registering
  <2>2. lost' \in [Bots -> Nat]  BY <1>1, <1>5, <2>1 DEF Stores, BotsTyped
  <2>3. open' \subseteq Sessions  BY <1>1, <1>5 DEF Stores, BotsTyped
  <2>4. StoreBot(call[c].bot, call[c].number, call[c].token)  BY <1>5 DEF Stores
  <2> QED  BY <1>1, <2>1, <2>2, <2>3, <2>4, StoreBotTyped
<1> QED  BY <1>2, <1>3, <1>4, <1>5, RequestSteps

LEMMA RequestInputs ==
    ASSUME Typed, NEW c \in Clients, RequestStep(c)
    PROVE  InputsTyped'
<1>1. UNCHANGED <<messages, events>>  BY RequestLeaves DEF pubsub, takeovers
<1>2. CASE Accept(c)
  BY <1>1, <1>2, ServerConstants DEF Accept, Typed, InputsTyped, Inputs
<1>3. CASE ~Accept(c)
  <2>1. requests' = requests
    BY <1>3 DEF RequestStep, Proceed, HangUp, Authenticate, OpenSession, InsertRow, StoreState, FindGuild,
                InsertGuild, EndHandler, Subscribe, EndStream
  <2> QED  BY <1>1, <2>1 DEF Typed, InputsTyped, Inputs
<1> QED  BY <1>2, <1>3

LEMMA RequestTyped ==
    ASSUME Typed, NEW c \in Clients, RequestStep(c)
    PROVE  Typed'
<1>1. UNCHANGED <<takeovers, main>>  BY RequestLeaves
<1>2. TakersTyped'  BY <1>1 DEF Typed, TakersTyped, takeovers
<1>3. MainTyped'  BY <1>1 DEF Typed, MainTyped, main
<1> QED  BY <1>2, <1>3, RequestCalls, RequestBots, RequestInputs DEF Typed

(* The record of a taker is replaced; what the new one must be.            *)
TakerMeant(r) == r.step \in {"open", "store"} => r.bot \in Bots /\ r.rows[r.bot] \in Tokens

LEMMA TakerMoves ==
    ASSUME TakersTyped, NEW k \in Takers, NEW r \in TakerType, TakerMeant(r),
           taker' = [taker EXCEPT ![k] = r], locked' \subseteq Bots, resyncing' \subseteq Bots,
           belated' \subseteq Bots
    PROVE  TakersTyped'
BY DEF TakersTyped, TakerMeant

LEMMA TakerTyped ==
    ASSUME NEW rows \in Rows, NEW step \in {"rows", "open", "store"}, NEW b \in Bots \cup {NoBot}
    PROVE  /\ Taker(rows, step, b) \in TakerType /\ Taker(rows, step, b).rows = rows
           /\ Taker(rows, step, b).step = step /\ Taker(rows, step, b).bot = b
BY DEF Taker, TakerType

LEMMA RowDoneMoves ==
    ASSUME TakersTyped, NEW k \in Takers, NEW b \in Bots, RowDone(k, b), locked' \subseteq Bots,
           resyncing' \subseteq Bots, belated' \subseteq Bots
    PROVE  /\ TakersTyped'
           /\ taker'[k].step = "rows"
           /\ \A j \in Takers : j # k => taker'[j] = taker[j]
<1>1. taker \in [Takers -> TakerType]  BY DEF TakersTyped
<1> DEFINE rows == [taker[k].rows EXCEPT ![b] = NoToken]
           r    == Taker(rows, "rows", NoBot)
<1>2. taker[k].rows \in Rows  BY <1>1 DEF TakerType
<1>3. rows \in Rows  BY <1>2 DEF Rows
<1>4. taker' = [taker EXCEPT ![k] = r]  BY <1>1 DEF RowDone
<1> HIDE DEF rows
<1>5. r \in TakerType /\ r.step = "rows"  BY <1>3, TakerTyped
<1> HIDE DEF r
<1>6. TakerMeant(r)  BY <1>5 DEF TakerMeant
<1> QED  BY <1>1, <1>4, <1>5, <1>6, TakerMoves

(* The steps of a takeover that neither open nor store a session.          *)
Searches(k) ==
    /\ UNCHANGED <<open, states, replaced, closing, belated, resyncing>>
    /\ \A j \in Takers : "store" \in {taker[j].step, taker'[j].step} => taker'[j] = taker[j]

OpensTaken(k) ==
    LET b == taker[k].bot IN
    /\ life # "exited" /\ b \in Bots /\ open' = open \cup {b}
    /\ taker'[k].step = "store" /\ taker'[k].bot = b
    /\ \A j \in Takers : j # k => taker'[j] = taker[j]
    /\ taker[k].step = "open"
    /\ UNCHANGED <<states, replaced, closing, belated>>

LEMMA TakerSteps ==
    ASSUME Typed, NEW k \in Takers, TakerStep(k)
    PROVE  TakersTyped' /\ (Searches(k) \/ OpensTaken(k) \/ StoreTaken(k))
<1> USE DEF bots, main
<1>1. TakersTyped /\ taker \in [Takers -> TakerType] /\ token \in Rows
  BY DEF Typed, TakersTyped, RowsTyped
<1>2. CASE TakeOver(k)
  <2>1. taker' = [taker EXCEPT ![k] = Taker(token, "rows", NoBot)]  BY <1>2 DEF TakeOver
  <2>2. Taker(token, "rows", NoBot) \in TakerType /\ TakerMeant(Taker(token, "rows", NoBot))
    BY <1>1, TakerTyped DEF TakerMeant
  <2>3. UNCHANGED <<open, states, replaced, closing, locked, resyncing, belated>>  BY <1>2 DEF TakeOver
  <2>4. Taker(token, "rows", NoBot).step = "rows"  BY <1>1, TakerTyped
  <2>5. taker[k].step = "rows"  BY <1>2 DEF TakeOver, Taker
  <2>6. \A j \in Takers : "store" \in {taker[j].step, taker'[j].step} => taker'[j] = taker[j]
    BY <1>1, <2>1, <2>4, <2>5
  <2> QED  BY <1>1, <2>1, <2>2, <2>3, <2>6, TakerMoves DEF Searches, TakersTyped
<1>3. ASSUME NEW b \in Bots, LockRow(k, b) PROVE TakersTyped' /\ Searches(k)
  <2>1. UNCHANGED <<open, states, replaced, closing, resyncing, belated>>  BY <1>3 DEF LockRow
  <2>2. locked' \subseteq Bots /\ taker[k].step = "rows"
    BY <1>1, <1>3 DEF LockRow, TakersTyped
  <2>3. CASE RowDone(k, b)
    BY <1>1, <2>1, <2>2, <2>3, RowDoneMoves DEF Searches, TakersTyped
  <2>4. CASE taker' = [taker EXCEPT ![k] = Taker(taker[k].rows, "open", b)]
    <3>1. taker[k].rows \in Rows /\ taker[k].rows[b] \in Tokens
      BY <1>1, <1>3 DEF LockRow, TakerType, Rows
    <3> DEFINE r == Taker(taker[k].rows, "open", b)
    <3>2. r \in TakerType /\ r.step = "open" /\ r.bot = b /\ r.rows = taker[k].rows
      BY <3>1, TakerTyped
    <3>3. taker' = [taker EXCEPT ![k] = r]  BY <2>4
    <3> HIDE DEF r
    <3>4. TakerMeant(r)  BY <3>1, <3>2 DEF TakerMeant
    <3>5. \A j \in Takers : "store" \in {taker[j].step, taker'[j].step} => taker'[j] = taker[j]
      BY <1>1, <2>2, <3>2, <3>3
    <3> QED  BY <1>1, <2>1, <2>2, <3>2, <3>3, <3>4, <3>5, TakerMoves DEF Searches, TakersTyped
  <2> QED  BY <1>1, <1>3, <2>3, <2>4 DEF LockRow
<1>4. CASE OpenTaken(k)
  <2>1. /\ taker[k].step = "open" /\ taker[k].bot \in Bots /\ taker[k].rows[taker[k].bot] \in Tokens
        /\ taker[k].rows \in Rows
    BY <1>1, <1>4 DEF OpenTaken, TakersTyped, TakerType
  <2>2. UNCHANGED <<states, replaced, closing, locked, resyncing, belated>>  BY <1>4 DEF OpenTaken
  <2>3. CASE RowDone(k, taker[k].bot) /\ UNCHANGED open
    BY <1>1, <2>1, <2>2, <2>3, RowDoneMoves DEF Searches, TakersTyped
  <2>4. CASE ~(RowDone(k, taker[k].bot) /\ UNCHANGED open)
    <3> DEFINE r == Taker(taker[k].rows, "store", taker[k].bot)
    <3>1. taker' = [taker EXCEPT ![k] = r] /\ open' = open \cup {taker[k].bot}
      BY <1>1, <1>4, <2>4 DEF OpenTaken
    <3>2. r \in TakerType /\ r.step = "store" /\ r.bot = taker[k].bot /\ r.rows = taker[k].rows
      BY <2>1, TakerTyped
    <3> HIDE DEF r
    <3>3. TakerMeant(r)  BY <2>1, <3>2 DEF TakerMeant
    <3>4. TakersTyped'  BY <1>1, <2>2, <3>1, <3>2, <3>3, TakerMoves DEF TakersTyped
    <3>5. OpensTaken(k)
      BY <1>1, <1>4, <2>1, <2>2, <3>1, <3>2 DEF OpensTaken, OpenTaken, Running
    <3> QED  BY <3>4, <3>5
  <2> QED  BY <2>3, <2>4
<1>5. CASE StoreTaken(k)
  <2>1. taker[k].bot \in Bots
    BY <1>1, <1>5 DEF StoreTaken, TakersTyped
  <2>2. /\ RowDone(k, taker[k].bot) /\ resyncing' = resyncing \cup {taker[k].bot}
        /\ belated' \in {belated, belated \cup {taker[k].bot}} /\ UNCHANGED locked
    BY <1>5 DEF StoreTaken
  <2> QED  BY <1>1, <1>5, <2>1, <2>2, RowDoneMoves DEF TakersTyped
<1> QED  BY <1>2, <1>3, <1>4, <1>5 DEF TakerStep

LEMMA TakerStepTyped ==
    ASSUME Typed, NEW k \in Takers, TakerStep(k)
    PROVE  Typed'
<1>1. UNCHANGED <<tables, call, requests, messages, lost, life, done, shutdown>>
  BY TakerLeaves DEF pubsub
<1>2. RowsTyped' /\ CallsTyped'
  BY <1>1 DEF Typed, RowsTyped, CallsTyped, Meant, tables
<1>3. InputsTyped'
  <2>1. events' = events \/ (Inputs < MaxInputs /\ events' = events + 1)
    BY DEF TakerStep, TakeOver, LockRow, OpenTaken, StoreTaken
  <2> QED  BY <1>1, <2>1, ServerConstants DEF Typed, InputsTyped, Inputs
<1>4. TakersTyped'  BY TakerSteps
<1>5. BotsTyped' /\ closing' \subseteq Bots
  <2>1. CASE Searches(k)
    BY <1>1, <2>1 DEF Typed, BotsTyped, MainTyped, Searches
  <2>2. CASE OpensTaken(k)
    BY <1>1, <2>2, SessionFacts DEF Typed, BotsTyped, MainTyped, OpensTaken
  <2>3. CASE StoreTaken(k)
    <3> DEFINE b == taker[k].bot
    <3>1. /\ b \in Bots /\ taker[k].rows[b] \in Tokens
      BY <2>3 DEF Typed, TakersTyped, StoreTaken
    <3>2. StoreBot(b, b, taker[k].rows[b]) /\ open' = open /\ closing' \in {closing, closing \cup {b}}
      BY <2>3 DEF StoreTaken
    <3>3. BotsTyped'
      BY <1>1, <3>1, <3>2, SessionFacts, StoreBotTyped DEF Typed, BotsTyped
    <3> QED  BY <3>1, <3>2, <3>3 DEF Typed, MainTyped
  <2> QED  BY <2>1, <2>2, <2>3, TakerSteps
<1>6. MainTyped'  BY <1>1, <1>5 DEF Typed, MainTyped
<1> QED  BY <1>2, <1>3, <1>4, <1>5, <1>6 DEF Typed

LEMMA MessageTyped ==
    ASSUME Typed, MessageStep
    PROVE  Typed'
<1>1. UNCHANGED <<tables, call, requests, bots, locked, taker, events, belated, main>>
  BY MessageLeaves
<1>2. RowsTyped' /\ CallsTyped' /\ BotsTyped' /\ MainTyped'
  BY <1>1 DEF Typed, RowsTyped, CallsTyped, Meant, BotsTyped, MainTyped, tables, bots, main
<1>3. resyncing' \subseteq resyncing
  BY DEF MessageStep, Receive, Handle, FullResync, LoadGuild, StoreGuild, takeovers
<1>4. TakersTyped'  BY <1>1, <1>3 DEF Typed, TakersTyped
<1>5. messages' = messages \/ (Inputs < MaxInputs /\ messages' = messages + 1)
  BY DEF MessageStep, Receive, Handle, FullResync, LoadGuild, StoreGuild, pubsub
<1>6. InputsTyped'  BY <1>1, <1>5, ServerConstants DEF Typed, InputsTyped, Inputs
<1> QED  BY <1>2, <1>4, <1>6 DEF Typed

LEMMA MainStepTyped ==
    ASSUME Typed, MainStep
    PROVE  Typed'
<1>1. UNCHANGED <<tables, call, requests, states, replaced, lost, takeovers, objects, pubsub>>
  BY MainLeaves
<1>2. RowsTyped' /\ CallsTyped' /\ InputsTyped' /\ TakersTyped'
  BY <1>1 DEF Typed, RowsTyped, CallsTyped, Meant, InputsTyped, Inputs, TakersTyped, tables, takeovers, pubsub
<1>3. open' \subseteq open
  BY DEF MainStep, Stop, Shutdown, ShutdownStreams, GracefulStop, ShutdownBot, Unsubscribe, ShutdownStore,
         Main, bots
<1>4. BotsTyped'  BY <1>1, <1>3 DEF Typed, BotsTyped
<1>5. MainTyped'
  BY DEF Typed, MainTyped, MainStep, Stop, Shutdown, ShutdownStreams, GracefulStop, ShutdownBot, Unsubscribe,
         ShutdownStore, Main
<1> QED  BY <1>2, <1>4, <1>5 DEF Typed

LEMMA StepTyped == Typed /\ [Next]_vars => Typed'
<1> SUFFICES ASSUME Typed, [Next]_vars PROVE Typed'  OBVIOUS
<1>1. CASE UNCHANGED vars
  BY <1>1 DEF vars, tables, bots, takeovers, pubsub, main, Typed, RowsTyped, CallsTyped, Meant, InputsTyped,
              Inputs, BotsTyped, TakersTyped, MainTyped
<1> QED  BY <1>1, StepKinds, RequestTyped, TakerStepTyped, MessageTyped, MainStepTyped

(***************************************************************************)
(* Requests end before anything is closed.                                 *)
(***************************************************************************)
EndInv == NoLateRequest

LEMMA InitEnd == Init => EndInv
BY CallFacts DEF Init, EndInv, NoLateRequest

LEMMA StepEnd == Typed /\ EndInv /\ [Next]_vars => EndInv'
<1> SUFFICES ASSUME Typed, EndInv, [Next]_vars PROVE EndInv'  OBVIOUS
<1> USE DEF EndInv, NoLateRequest, At
<1>1. ASSUME NEW c \in Clients, RequestStep(c) PROVE EndInv'
  <2>1. life' = life  BY <1>1, RequestLeaves DEF main
  <2>2. life \notin {"bots", "stores", "exited"}
    BY <1>1 DEF RequestStep, Accept, Proceed, HangUp, Authenticate, OpenSession, InsertRow, StoreState,
                FindGuild, InsertGuild, EndHandler, Subscribe, EndStream
  <2> QED  BY <2>1, <2>2
<1>2. ASSUME NEW k \in Takers, TakerStep(k) PROVE EndInv'
  BY <1>2, TakerLeaves
<1>3. CASE MessageStep
  BY <1>3, MessageLeaves DEF main
<1>4. CASE MainStep
  <2>1. call' = call  BY <1>4, MainLeaves
  <2>2. life' \in {"bots", "stores", "exited"} => life \in {"bots", "stores", "exited"} \/ Drained
    BY <1>4 DEF MainStep, Stop, Shutdown, ShutdownStreams, GracefulStop, ShutdownBot, Unsubscribe,
                ShutdownStore, Main
  <2> QED  BY <2>1, <2>2 DEF Drained
<1>5. CASE UNCHANGED vars
  BY <1>5 DEF vars, main
<1> QED  BY <1>1, <1>2, <1>3, <1>4, <1>5, StepKinds

(* However many requests and streams there are: none is in progress once   *)
(* sessions and stores are being closed.                                   *)
THEOREM RequestsEndFirst == Spec => []NoLateRequest
<1>1. EndInv => NoLateRequest  BY DEF EndInv
<1> QED  BY <1>1, InitTyped, StepTyped, InitEnd, StepEnd, PTL DEF Spec

(***************************************************************************)
(* Sessions lost: each registration that will lose one more looked for the *)
(* bot before its row had the token.                                       *)
(***************************************************************************)
Late(b) ==
    {c \in Clients :
        /\ call[c].bot = b
        /\ \/ call[c].step = "store"
           \/ call[c].step \in {"open", "insert"} /\ call[c].token = token[b]}

LostInv == \A b \in Bots : lost[b] + Cardinality(Late(b)) <= Cardinality(Clients)

LEMMA SomeOfClients ==
    ASSUME NEW S \in SUBSET Clients
    PROVE  /\ IsFiniteSet(S) /\ Cardinality(S) \in Nat
           /\ Cardinality(S) <= Cardinality(Clients) /\ Cardinality(Clients) \in Nat
BY ServerConstants, FS_Subset, FS_CardinalityType

LEMMA FewerOf ==
    ASSUME NEW S \in SUBSET Clients, NEW U \in SUBSET S
    PROVE  Cardinality(U) <= Cardinality(S)
BY SomeOfClients, FS_Subset

LEMMA InitLost == Init => LostInv
<1> SUFFICES ASSUME Init, NEW b \in Bots PROVE lost[b] + Cardinality(Late(b)) <= Cardinality(Clients)
  BY DEF LostInv
<1>1. lost[b] = 0  BY DEF Init
<1>2. Late(b) \subseteq Clients  BY DEF Late
<1> QED  BY <1>1, <1>2, SomeOfClients

(* Nobody comes to be late, and no more are lost.                          *)
LEMMA LostKept ==
    ASSUME Typed, LostInv, Typed', NEW b \in Bots, lost'[b] = lost[b], Late(b)' \subseteq Late(b)
    PROVE  lost'[b] + Cardinality(Late(b)') <= Cardinality(Clients)
<1>1. Late(b) \subseteq Clients  BY DEF Late
<1>2. /\ Cardinality(Late(b)') <= Cardinality(Late(b)) /\ Cardinality(Late(b)') \in Nat
      /\ Cardinality(Late(b)) \in Nat /\ Cardinality(Clients) \in Nat
  BY <1>1, FewerOf, SomeOfClients
<1>3. lost[b] \in Nat  BY DEF Typed, BotsTyped
<1>4. lost[b] + Cardinality(Late(b)) <= Cardinality(Clients)  BY DEF LostInv
<1> QED  BY <1>2, <1>3, <1>4

LEMMA RequestLost ==
    ASSUME Typed, LostInv, NEW c \in Clients, RequestStep(c), NEW b \in Bots
    PROVE  lost'[b] + Cardinality(Late(b)') <= Cardinality(Clients)
<1>1. Typed' /\ call \in [Clients -> CallType] /\ token \in Rows /\ lost \in [Bots -> Nat]
  BY RequestTyped DEF Typed, CallsTyped, RowsTyped, BotsTyped
<1>2. \A d \in Clients : d # c => call'[d] = call[d]
  BY <1>1, RequestSteps DEF Moved
<1>3. CASE Leaves(c) \/ Begins(c) \/ Opens(c)
  <2>1. lost' = lost /\ token' = token  BY <1>3 DEF Leaves, Begins, Opens
  <2>2. c \in Late(b)' => c \in Late(b)
    BY <1>3, <2>1 DEF Leaves, Begins, Opens, On, Late, Registering
  <2>3. Late(b)' \subseteq Late(b)  BY <1>2, <2>1, <2>2 DEF Late
  <2> QED  BY <1>1, <2>1, <2>3, LostKept
<1>4. CASE Writes(c)
  <2>1. CASE call[c].bot = b /\ token' # token
    <3>1. lost'[b] = 0  BY <1>1, <1>4, <2>1 DEF Writes
    <3>2. Late(b)' \subseteq Clients  BY DEF Late
    <3> QED  BY <3>1, <3>2, SomeOfClients
  <2>2. CASE call[c].bot # b \/ token' = token
    <3>1. lost'[b] = lost[b] /\ token'[b] = token[b]
      BY <1>1, <1>4, <2>2 DEF Writes, Rows
    <3>2. c \in Late(b)' => c \in Late(b)
      <4>1. SUFFICES ASSUME c \in Late(b)' PROVE c \in Late(b)  OBVIOUS
      <4>2. call[c].bot = b /\ call[c].step = "insert"  BY <1>4, <4>1 DEF Writes, On, Late
      <4>3. token[b] = call[c].token
        BY <1>1, <1>4, <2>2, <3>1, <4>2 DEF Writes, Rows
      <4> QED  BY <4>2, <4>3 DEF Late
    <3>3. Late(b)' \subseteq Late(b)  BY <1>2, <3>1, <3>2 DEF Late
    <3> QED  BY <1>1, <3>1, <3>3, LostKept
  <2> QED  BY <2>1, <2>2
<1>5. CASE Stores(c)
  <2>1. token' = token /\ call[c].step = "store" /\ c \notin Late(b)'
    BY <1>5 DEF Stores, Late, Registering
  <2>2. Late(b)' \subseteq Late(b)  BY <1>2, <2>1 DEF Late
  <2>3. CASE lost'[b] = lost[b]
    BY <1>1, <2>2, <2>3, LostKept
  <2>4. CASE lost'[b] # lost[b]
    <3>1. call[c].bot = b /\ lost'[b] = lost[b] + 1
      BY <1>1, <1>5, <2>4 DEF Stores
    <3>2. c \in Late(b) /\ Late(b) \subseteq Clients  BY <2>1, <3>1 DEF Late
    <3>3. Late(b)' \subseteq Late(b) \ {c}  BY <2>1, <2>2
    <3>4. Late(b) \ {c} \subseteq Clients  BY <3>2
    <3>5. Cardinality(Late(b) \ {c}) = Cardinality(Late(b)) - 1
      BY <3>2, SomeOfClients, FS_RemoveElement
    <3>6. Cardinality(Late(b)') <= Cardinality(Late(b) \ {c})
      BY <3>3, <3>4, FewerOf
    <3>7. Late(b)' \subseteq Clients  BY <3>3, <3>4
    <3>8. /\ Cardinality(Late(b)) \in Nat /\ Cardinality(Late(b)') \in Nat /\ lost[b] \in Nat
          /\ Cardinality(Clients) \in Nat
      BY <1>1, <3>2, <3>7, SomeOfClients
    <3>9. lost[b] + Cardinality(Late(b)) <= Cardinality(Clients)  BY DEF LostInv
    <3> QED  BY <3>1, <3>5, <3>6, <3>8, <3>9
  <2> QED  BY <2>3, <2>4
<1> QED  BY <1>3, <1>4, <1>5, RequestSteps

LEMMA StepLost == Typed /\ LostInv /\ [Next]_vars => LostInv'
<1> SUFFICES ASSUME Typed, LostInv, [Next]_vars PROVE LostInv'  OBVIOUS
<1>1. ASSUME NEW c \in Clients, RequestStep(c) PROVE LostInv'
  BY <1>1, RequestLost DEF LostInv
<1>2. CASE UNCHANGED <<call, token, lost>>
  BY <1>2 DEF LostInv, Late
<1>3. ASSUME NEW k \in Takers, TakerStep(k) PROVE UNCHANGED <<call, token, lost>>
  BY <1>3, TakerLeaves DEF tables
<1>4. ASSUME MessageStep PROVE UNCHANGED <<call, token, lost>>
  BY <1>4, MessageLeaves DEF tables, bots
<1>5. ASSUME MainStep PROVE UNCHANGED <<call, token, lost>>
  BY <1>5, MainLeaves DEF tables
<1>6. ASSUME UNCHANGED vars PROVE UNCHANGED <<call, token, lost>>
  BY <1>6 DEF vars, tables, bots
<1> QED  BY <1>1, <1>2, <1>3, <1>4, <1>5, <1>6, StepKinds

(* However often requests come for a bot, and whatever takeovers store in  *)
(* between: while its row has one token, they lose no more of its sessions *)
(* than there are requests in progress at a time.                          *)
THEOREM LostSessionsBounded == Spec => []FewLostSessions
<1>1. Typed /\ LostInv => FewLostSessions
  <2> SUFFICES ASSUME Typed, LostInv, NEW b \in Bots PROVE lost[b] <= Cardinality(Clients)
    BY DEF FewLostSessions
  <2>1. Late(b) \subseteq Clients  BY DEF Late
  <2>2. lost[b] \in Nat /\ lost[b] + Cardinality(Late(b)) <= Cardinality(Clients)
    BY DEF LostInv, Typed, BotsTyped
  <2> QED  BY <2>1, <2>2, SomeOfClients
<1> QED  BY <1>1, InitTyped, InitLost, StepTyped, StepLost, PTL DEF Spec

(***************************************************************************)
(* The end of the process: an open session is known to states, or in the   *)
(* hands of a request, or one of those nobody is going to close; after the *)
(* Range has come by a bot, states' session of it is not open any more.    *)
(***************************************************************************)
InHand(s) == \E c \in Clients : call[c].step \in {"insert", "store"} /\ call[c].number = s
Known(s)  == \E b \in Bots : states[b].session = s
OpenInv   == \A s \in open : InHand(s) \/ Known(s) \/ Forsaken(s)

Over == {"bots", "stores", "exited"}
RangeInv ==
    /\ life \in Over => \A b \in Bots \ closing : states[b].session \in open => Forsaken(states[b].session)
    /\ life \in {"stores", "exited"} => closing = {}

SessionsInv == OpenInv /\ RangeInv

LEMMA InitSessions == Init => SessionsInv
<1> SUFFICES ASSUME Init PROVE SessionsInv  OBVIOUS
<1>1. OpenInv  BY DEF Init, OpenInv, Known, State
<1> QED  BY <1>1 DEF Init, SessionsInv, RangeInv, Over

LEMMA RequestSessions ==
    ASSUME Typed, EndInv, EndInv', SessionsInv, NEW c \in Clients, RequestStep(c)
    PROVE  SessionsInv'
<1>1. UNCHANGED <<taker, belated, life, closing>>  BY RequestLeaves DEF takeovers, main
<1>2. life \notin Over
  <2>1. ~At(c, "idle") \/ Accept(c)
    BY DEF RequestStep, Proceed, HangUp, Authenticate, OpenSession, InsertRow, StoreState, FindGuild,
           InsertGuild, EndHandler, Subscribe, EndStream, At
  <2>2. Accept(c) => life \notin Over  BY DEF Accept, Over
  <2> QED  BY <2>1, <2>2 DEF EndInv, NoLateRequest, Over
<1>3. RangeInv'  BY <1>1, <1>2 DEF RangeInv, Over
<1>4. /\ call \in [Clients -> CallType] /\ states \in [Bots -> StateType] /\ Meant(c)
      /\ replaced \in [Bots -> SUBSET Sessions]
  BY DEF Typed, CallsTyped, BotsTyped
<1>5. \A d \in Clients : d # c => call'[d] = call[d]  BY <1>4, RequestSteps DEF Moved
<1>6. OpenInv'
  <2>1. SUFFICES ASSUME NEW s \in open' PROVE InHand(s)' \/ Known(s)' \/ Forsaken(s)'
    BY DEF OpenInv
  <2>2. CASE Leaves(c)
    <3>1. s \in open /\ ~(call[c].step \in {"insert", "store"} /\ call[c].number = s)
      BY <2>1, <2>2 DEF Leaves
    <3>2. (Forsaken(s) => Forsaken(s)') /\ (Known(s) => Known(s)')
      BY <1>1, <2>2 DEF Leaves, Forsaken, Known
    <3>3. InHand(s) => InHand(s)'  BY <1>5, <3>1 DEF InHand
    <3> QED  BY <3>1, <3>2, <3>3 DEF SessionsInv, OpenInv
  <2>3. CASE Begins(c) \/ Opens(c) \/ Writes(c)
    <3>1. (Forsaken(s) => Forsaken(s)') /\ (Known(s) => Known(s)')
      BY <1>1, <2>3 DEF Begins, Opens, Writes, Forsaken, Known
    <3>2. InHand(s) => InHand(s)'
      BY <1>5, <2>3 DEF InHand, Begins, Opens, Writes, On
    <3>3. s \in open \/ InHand(s)'
      BY <2>1, <2>3 DEF InHand, Begins, Opens, Writes, On
    <3> QED  BY <3>1, <3>2, <3>3 DEF SessionsInv, OpenInv
  <2>4. CASE Stores(c)
    <3> DEFINE b == call[c].bot
    <3>1. b \in Bots /\ s \in open /\ StoreBot(b, call[c].number, call[c].token)
      BY <1>4, <2>1, <2>4 DEF Stores, Meant, Registering
    <3>2. states'[b].session = call[c].number /\ \A x \in Bots : x # b => states'[x] = states[x]
      BY <1>4, <3>1 DEF StoreBot, State
    <3>3. replaced'[b] = replaced[b] \cup Forgotten(b) /\ \A x \in Bots : replaced[x] \subseteq replaced'[x]
      BY <1>4, <3>1 DEF StoreBot
    <3>4. (Forsaken(s) => Forsaken(s)') /\ (s \in Forgotten(b) => Forsaken(s)')
      BY <1>1, <3>1, <3>3 DEF Forsaken
    <3>5. CASE InHand(s)
      <4>1. PICK d \in Clients : call[d].step \in {"insert", "store"} /\ call[d].number = s
        BY <3>5 DEF InHand
      <4>2. CASE d = c  BY <3>1, <3>2, <4>1, <4>2 DEF Known
      <4>3. CASE d # c  BY <1>5, <4>1, <4>3 DEF InHand
      <4> QED  BY <4>2, <4>3
    <3>6. CASE Known(s)
      <4>1. PICK x \in Bots : states[x].session = s  BY <3>6 DEF Known
      <4>2. CASE x = b
        <5>1. s # NoSession  BY <3>1, SessionFacts DEF Typed, BotsTyped
        <5> QED  BY <3>4, <4>1, <4>2, <5>1 DEF Forgotten
      <4>3. CASE x # b  BY <3>2, <4>1, <4>3 DEF Known
      <4> QED  BY <4>2, <4>3
    <3> QED  BY <3>1, <3>4, <3>5, <3>6 DEF SessionsInv, OpenInv
  <2> QED  BY <2>2, <2>3, <2>4, RequestSteps
<1> QED  BY <1>3, <1>6 DEF SessionsInv

(* Nobody else's session changes hands.                                    *)
LEMMA TakerSessions ==
    ASSUME Typed, EndInv, SessionsInv, NEW k \in Takers, TakerStep(k)
    PROVE  SessionsInv'
<1>1. UNCHANGED <<call, life>>  BY TakerLeaves
<1>2. /\ states \in [Bots -> StateType] /\ replaced \in [Bots -> SUBSET Sessions]
      /\ taker \in [Takers -> TakerType] /\ open \subseteq Sessions
  BY DEF Typed, BotsTyped, TakersTyped
<1>3. CASE Searches(k)
  <2>1. UNCHANGED <<open, states, replaced, belated, closing>>  BY <1>3 DEF Searches
  <2>2. \A j \in Takers : /\ taker'[j].step = "store" <=> taker[j].step = "store"
                          /\ taker[j].step = "store" => taker'[j].bot = taker[j].bot
    BY <1>3 DEF Searches
  <2>3. \A s : Forsaken(s) => Forsaken(s)'
    BY <2>1, <2>2 DEF Forsaken
  <2> QED  BY <1>1, <2>1, <2>3 DEF SessionsInv, OpenInv, RangeInv, InHand, Known
<1>4. CASE OpensTaken(k)
  <2>0. PICK b \in Bots : b = taker[k].bot  BY <1>4 DEF OpensTaken
  <2>1. /\ b \in Bots /\ open' = open \cup {b} /\ taker'[k].step = "store" /\ taker'[k].bot = b
        /\ \A j \in Takers : j # k => taker'[j] = taker[j]
        /\ taker[k].step = "open"
        /\ UNCHANGED <<states, replaced, closing, belated>>
    BY <1>4, <2>0 DEF OpensTaken
  <2>2. Forsaken(b)' /\ \A s : Forsaken(s) => Forsaken(s)'
    <3>1. Forsaken(b)'  BY <2>1 DEF Forsaken
    <3>2. \A s : Forsaken(s) => Forsaken(s)'
      <4>1. \A j \in Takers : taker[j].step = "store" => taker'[j] = taker[j]  BY <2>1
      <4> QED  BY <2>1, <4>1 DEF Forsaken
    <3> QED  BY <3>1, <3>2
  <2> QED  BY <1>1, <2>1, <2>2 DEF SessionsInv, OpenInv, RangeInv, InHand, Known
<1>5. CASE StoreTaken(k)
  <2>0. PICK b \in Bots : b = taker[k].bot  BY <1>5 DEF StoreTaken, Typed, TakersTyped
  <2>1. /\ b \in Bots /\ StoreBot(b, b, taker[k].rows[b]) /\ open' = open /\ life # "exited"
        /\ closing \subseteq closing' /\ RowDone(k, b)
        /\ closing' # closing => life = "bots"
        /\ belated' = IF life \in {"bots", "stores"} /\ b \notin closing' THEN belated \cup {b} ELSE belated
    BY <1>5, <2>0 DEF StoreTaken, Running
  <2>2. states'[b].session = b /\ \A x \in Bots : x # b => states'[x] = states[x]
    BY <1>2, <2>1 DEF StoreBot, State
  <2>3. \A s \in Forgotten(b) : Forsaken(s)'
    <3>1. Forgotten(b) \subseteq replaced'[b]  BY <1>2, <2>1 DEF StoreBot
    <3> QED  BY <2>1, <3>1 DEF Forsaken
  <2>4. \A s : Forsaken(s) => Forsaken(s)' \/ s = b
    <3>1. \A x \in Bots : replaced[x] \subseteq replaced'[x]  BY <1>2, <2>1 DEF StoreBot
    <3>2. belated \subseteq belated'  BY <2>1
    <3>3. \A j \in Takers : j # k => taker'[j] = taker[j]
      BY <1>2, <2>1 DEF RowDone
    <3> QED  BY <2>0, <3>1, <3>2, <3>3 DEF Forsaken
  <2>5. OpenInv'
    <3>1. SUFFICES ASSUME NEW s \in open PROVE InHand(s)' \/ Known(s)' \/ Forsaken(s)'
      BY <2>1 DEF OpenInv
    <3>2. CASE s = b  BY <2>1, <2>2, <3>2 DEF Known
    <3>3. CASE InHand(s)  BY <1>1, <3>3 DEF InHand
    <3>4. CASE Known(s)
      <4>1. PICK x \in Bots : states[x].session = s  BY <3>4 DEF Known
      <4>2. CASE x = b
        <5>1. s # NoSession  BY <1>2, SessionFacts
        <5> QED  BY <2>3, <4>1, <4>2, <5>1 DEF Forgotten
      <4>3. CASE x # b  BY <2>2, <4>1, <4>3 DEF Known
      <4> QED  BY <4>2, <4>3
    <3>5. CASE Forsaken(s) /\ s # b  BY <2>4, <3>5
    <3> QED  BY <3>2, <3>3, <3>4, <3>5 DEF SessionsInv, OpenInv
  <2>6. RangeInv'
    <3>1. SUFFICES ASSUME life \in Over, NEW x \in Bots \ closing', states'[x].session \in open
                   PROVE  Forsaken(states[x].session)'
      BY <1>1, <2>1 DEF SessionsInv, RangeInv, Over
    <3>2. CASE x = b
      <4>1. b \in belated'  BY <2>1, <3>1, <3>2 DEF Over
      <4>2. Forsaken(b)'  BY <4>1 DEF Forsaken
      <4> QED  BY <2>2, <3>2, <4>2
    <3>3. CASE x # b
      <4>1. states'[x] = states[x] /\ x \notin closing  BY <2>1, <2>2, <3>3
      <4>2. Forsaken(states[x].session)  BY <3>1, <4>1 DEF SessionsInv, RangeInv
      <4>3. states[x].session # b  BY <2>1, <3>3 DEF Typed, BotsTyped
      <4> QED  BY <2>4, <4>1, <4>2, <4>3
    <3> QED  BY <3>2, <3>3
  <2> QED  BY <2>5, <2>6 DEF SessionsInv
<1> QED  BY <1>3, <1>4, <1>5, TakerSteps

LEMMA MainSessions ==
    ASSUME Typed, EndInv, SessionsInv, MainStep
    PROVE  SessionsInv'
<1>1. UNCHANGED <<call, states, replaced, taker, belated>>  BY MainLeaves DEF takeovers
<1>2. \A s : Forsaken(s) => Forsaken(s)'  BY <1>1 DEF Forsaken
<1>3. open' \subseteq open
  BY DEF MainStep, Stop, Shutdown, ShutdownStreams, GracefulStop, ShutdownBot, Unsubscribe, ShutdownStore,
         Main, bots
<1>4. OpenInv'  BY <1>1, <1>2, <1>3 DEF SessionsInv, OpenInv, InHand, Known
<1>5. RangeInv'
  <2> USE DEF Over
  <2>1. CASE Stop \/ ShutdownStreams
    BY <2>1 DEF RangeInv, Stop, ShutdownStreams, Main
  <2>2. CASE GracefulStop
    <3>1. life' = "bots" /\ closing' = {x \in Bots : states[x] # NoState}
      BY <2>2 DEF GracefulStop, Main
    <3>2. \A x \in Bots \ closing' : states[x].session \notin open
      BY <3>1, SessionFacts DEF Typed, BotsTyped
    <3> QED  BY <1>1, <1>3, <3>1, <3>2 DEF RangeInv
  <2>3. ASSUME NEW b \in Bots, ShutdownBot(b) PROVE RangeInv'
    <3>1. /\ life = "bots" /\ life' = life /\ closing' = closing \ {b}
          /\ open' = open \ {states[b].session}
      BY <2>3 DEF ShutdownBot
    <3> QED  BY <1>1, <1>2, <3>1 DEF SessionsInv, RangeInv
  <2>4. CASE Unsubscribe \/ ShutdownStore
    <3>1. UNCHANGED <<open, closing>> /\ closing = {} /\ life \in Over /\ life' \in Over
      BY <2>4 DEF Unsubscribe, ShutdownStore, Main, bots, SessionsInv, RangeInv
    <3> QED  BY <1>1, <1>2, <3>1 DEF SessionsInv, RangeInv
  <2> QED  BY <2>1, <2>2, <2>3, <2>4 DEF MainStep, Shutdown
<1> QED  BY <1>4, <1>5 DEF SessionsInv

LEMMA StepSessions == Typed /\ EndInv /\ EndInv' /\ SessionsInv /\ [Next]_vars => SessionsInv'
<1> SUFFICES ASSUME Typed, EndInv, EndInv', SessionsInv, [Next]_vars PROVE SessionsInv'  OBVIOUS
<1>1. CASE UNCHANGED <<call, open, states, replaced, taker, belated, life, closing>>
  BY <1>1 DEF SessionsInv, OpenInv, RangeInv, InHand, Known, Forsaken
<1>2. ASSUME MessageStep
      PROVE  UNCHANGED <<call, open, states, replaced, taker, belated, life, closing>>
  BY <1>2, MessageLeaves DEF bots, main
<1>3. ASSUME UNCHANGED vars
      PROVE  UNCHANGED <<call, open, states, replaced, taker, belated, life, closing>>
  BY <1>3 DEF vars, bots, takeovers, main
<1> QED  BY <1>1, <1>2, <1>3, StepKinds, RequestSessions, TakerSessions, MainSessions

(* Whatever is being registered or taken over when the process is told to  *)
(* stop, it leaves no session open but those states lost sight of and      *)
(* those of takeovers that came after the Range or had not come to Store.  *)
THEOREM ShutdownClosesSessions == Spec => []SessionsClosed
<1>1. EndInv /\ SessionsInv => SessionsClosed
  <2> SUFFICES ASSUME EndInv, SessionsInv, life = "exited", NEW s \in open PROVE Forsaken(s)
    BY DEF SessionsClosed
  <2>1. ~InHand(s)  BY DEF EndInv, NoLateRequest, At, InHand
  <2>2. Known(s) => Forsaken(s)  BY DEF Known, SessionsInv, RangeInv, Over
  <2> QED  BY <2>1, <2>2 DEF SessionsInv, OpenInv
<1> QED
  BY <1>1, InitTyped, StepTyped, InitEnd, StepEnd, InitSessions, StepSessions, PTL DEF Spec

(***************************************************************************)
(* The newest message.                                                     *)
(***************************************************************************)
NewestInv ==
    /\ messages \in Nat /\ starting \in Nat
    /\ msg \in [number : {messages}, bot : Bots \cup {NoBot}]
    /\ messages > 0 => msg.bot \in Bots
    /\ starting > 0 => messages > 0
    /\ handled \subseteq 1 .. messages
    /\ AllStarted /\ messages > 0 => messages \in handled

LEMMA InitNewest == Init => NewestInv
BY DEF Init, NewestInv, Message

LEMMA StepNewest == NewestInv /\ [Next]_vars => NewestInv'
<1> SUFFICES ASSUME NewestInv, [Next]_vars PROVE NewestInv'  OBVIOUS
<1> USE DEF NewestInv, AllStarted
<1>1. CASE UNCHANGED pubsub
  BY <1>1 DEF pubsub
<1>2. CASE Receive
  <2>1. messages' = messages + 1 /\ starting' = starting + 1 /\ handled' = handled
    BY <1>2 DEF Receive
  <2>2. PICK b \in Bots : msg' = Message(messages', b)  BY <1>2 DEF Receive, Take
  <2>3. msg' \in [number : {messages'}, bot : Bots \cup {NoBot}] /\ msg'.bot \in Bots
    BY <2>2 DEF Message
  <2> QED  BY <2>1, <2>3
<1>3. CASE Handle
  <2>1. /\ starting > 0 /\ starting' = starting - 1 /\ handled' = handled \cup {msg.number}
        /\ UNCHANGED <<messages, msg>>
    BY <1>3 DEF Handle
  <2>2. msg.number = messages /\ messages > 0 /\ messages \in handled'
    BY <2>1
  <2>3. handled' \subseteq 1 .. messages /\ starting' \in Nat  BY <2>1, <2>2
  <2> QED  BY <2>1, <2>2, <2>3
<1>4. ASSUME ~Receive, ~Handle, MessageStep PROVE UNCHANGED pubsub
  BY <1>4 DEF MessageStep, FullResync, LoadGuild, StoreGuild
<1>5. ASSUME ~MessageStep PROVE UNCHANGED pubsub
  <2>1. ASSUME NEW c \in Clients, RequestStep(c) PROVE UNCHANGED pubsub  BY <2>1, RequestLeaves
  <2>2. ASSUME NEW k \in Takers, TakerStep(k) PROVE UNCHANGED pubsub  BY <2>2, TakerLeaves
  <2>3. ASSUME MainStep PROVE UNCHANGED pubsub  BY <2>3, MainLeaves
  <2> QED  BY <1>5, <2>1, <2>2, <2>3, StepKinds DEF vars
<1> QED  BY <1>1, <1>2, <1>3, <1>4, <1>5

(* However many messages share the variable: the newest is handled.        *)
THEOREM NewestGetsThrough == Spec => []NewestHandled
<1>1. NewestInv => NewestHandled  BY DEF NewestInv, NewestHandled
<1> QED  BY <1>1, InitNewest, StepNewest, PTL DEF Spec

(***************************************************************************)
(* Guild objects: as long as none is stored, whoever made one is still     *)
(* about to store it, and so counts in the crowd.                          *)
(***************************************************************************)
CrowdInv ==
    /\ guild \in [Sessions -> BOOLEAN]
    /\ loading \in [Sessions -> Nat] /\ storing \in [Sessions -> Nat]
    /\ made \in [Sessions -> Nat] /\ peak \in [Sessions -> Nat]
    /\ \A s \in Sessions :
          /\ ~guild[s] => made[s] = storing[s]
          /\ made[s] <= peak[s] /\ Crowd(s) <= peak[s]

LEMMA InitCrowd == Init => CrowdInv
BY DEF Init, CrowdInv, Crowd

LEMMA EnterCrowd ==
    ASSUME CrowdInv, NEW s \in Sessions, NEW n \in Nat, Enter(s, n), UNCHANGED <<guild, storing, made>>
    PROVE  CrowdInv'
<1>1. loading' = [loading EXCEPT ![s] = @ + n]  BY DEF Enter
<1>2. Crowd(s) \in Nat /\ peak[s] \in Nat /\ Crowd(s)' = Crowd(s) + n
  BY <1>1 DEF CrowdInv, Crowd
<1>3. /\ peak' \in [Sessions -> Nat] /\ peak'[s] >= peak[s] /\ peak'[s] >= Crowd(s) + n
      /\ \A x \in Sessions : x # s => peak'[x] = peak[x]
  BY <1>2 DEF Enter, CrowdInv
<1>4. ASSUME NEW x \in Sessions
      PROVE  /\ ~guild'[x] => made'[x] = storing'[x]
             /\ made'[x] <= peak'[x] /\ Crowd(x)' <= peak'[x]
  <2>1. CASE x = s  BY <1>2, <1>3, <2>1 DEF CrowdInv
  <2>2. CASE x # s  BY <1>1, <1>3, <2>2 DEF CrowdInv, Crowd
  <2> QED  BY <2>1, <2>2
<1>5. loading' \in [Sessions -> Nat]  BY <1>1 DEF CrowdInv
<1> QED  BY <1>3, <1>4, <1>5 DEF CrowdInv

LEMMA LoadCrowd ==
    ASSUME CrowdInv, NEW s \in Sessions, LoadGuild(s)
    PROVE  CrowdInv'
<1>1. loading[s] > 0 /\ loading' = [loading EXCEPT ![s] = @ - 1] /\ UNCHANGED <<guild, peak>>
  BY DEF LoadGuild
<1>2. loading' \in [Sessions -> Nat]  BY <1>1 DEF CrowdInv
<1>3. CASE guild[s]
  <2>1. UNCHANGED <<storing, made>>  BY <1>3 DEF LoadGuild, GuildThere
  <2> QED  BY <1>1, <1>2, <2>1 DEF CrowdInv, Crowd
<1>4. CASE ~guild[s]
  <2>1. storing' = [storing EXCEPT ![s] = @ + 1] /\ made' = [made EXCEPT ![s] = @ + 1]
    BY <1>4 DEF LoadGuild, GuildThere
  <2>2. storing' \in [Sessions -> Nat] /\ made' \in [Sessions -> Nat]  BY <2>1 DEF CrowdInv
  <2>3. ASSUME NEW x \in Sessions
        PROVE  /\ ~guild'[x] => made'[x] = storing'[x]
               /\ made'[x] <= peak'[x] /\ Crowd(x)' <= peak'[x]
    <3>1. CASE x = s
      <4>1. made'[s] = made[s] + 1 /\ storing'[s] = storing[s] + 1 /\ loading'[s] = loading[s] - 1
        BY <1>1, <2>1 DEF CrowdInv
      <4>2. made[s] = storing[s] /\ loading[s] + storing[s] <= peak[s]  BY <1>4 DEF CrowdInv, Crowd
      <4>3. loading[s] \in Nat /\ storing[s] \in Nat /\ peak[s] \in Nat /\ peak' = peak
        BY <1>1 DEF CrowdInv
      <4> QED  BY <1>1, <3>1, <4>1, <4>2, <4>3 DEF Crowd
    <3>2. CASE x # s
      BY <1>1, <2>1, <3>2 DEF CrowdInv, Crowd
    <3> QED  BY <3>1, <3>2
  <2> QED  BY <1>1, <1>2, <2>2, <2>3 DEF CrowdInv
<1> QED  BY <1>3, <1>4

LEMMA StoreCrowd ==
    ASSUME CrowdInv, NEW s \in Sessions, StoreGuild(s)
    PROVE  CrowdInv'
<1>1. /\ storing[s] > 0 /\ storing' = [storing EXCEPT ![s] = @ - 1]
      /\ guild' = [guild EXCEPT ![s] = TRUE] /\ UNCHANGED <<loading, made, peak>>
  BY DEF StoreGuild
<1> QED  BY <1>1 DEF CrowdInv, Crowd

LEMMA StepCrowd == Typed /\ NewestInv /\ CrowdInv /\ [Next]_vars => CrowdInv'
<1> SUFFICES ASSUME Typed, NewestInv, CrowdInv, [Next]_vars PROVE CrowdInv'  OBVIOUS
<1>1. CASE UNCHANGED objects
  BY <1>1 DEF objects, CrowdInv, Crowd
<1>2. CASE Handle
  <2>1. CASE states[msg.bot] = NoState
    BY <1>1, <1>2, <2>1 DEF Handle, objects
  <2>2. CASE states[msg.bot] # NoState
    <3>1. msg.bot \in Bots  BY <1>2 DEF Handle, NewestInv
    <3>2. states[msg.bot].session \in Sessions
      BY <2>2, <3>1 DEF Typed, BotsTyped, StateType
    <3>3. PICK n \in 0 .. MaxTargets : Enter(states[msg.bot].session, n)
      BY <1>2, <2>2 DEF Handle
    <3>4. n \in Nat  BY ServerConstants
    <3>5. UNCHANGED <<guild, storing, made>>  BY <1>2 DEF Handle
    <3> QED  BY <3>2, <3>3, <3>4, <3>5, EnterCrowd
  <2> QED  BY <2>1, <2>2
<1>3. ASSUME NEW b \in Bots, FullResync(b) PROVE CrowdInv'
  <2>1. UNCHANGED <<guild, storing, made>>  BY <1>3 DEF FullResync
  <2>2. CASE Enter(b, 1)  BY <2>1, <2>2, SessionFacts, EnterCrowd
  <2>3. CASE UNCHANGED <<loading, peak>>  BY <1>1, <2>1, <2>3 DEF objects
  <2> QED  BY <1>3, <2>2, <2>3 DEF FullResync
<1>4. CASE Receive
  BY <1>1, <1>4 DEF Receive
<1>5. ASSUME ~MessageStep PROVE UNCHANGED objects
  <2>1. ASSUME NEW c \in Clients, RequestStep(c) PROVE UNCHANGED objects  BY <2>1, RequestLeaves
  <2>2. ASSUME NEW k \in Takers, TakerStep(k) PROVE UNCHANGED objects  BY <2>2, TakerLeaves
  <2>3. ASSUME MainStep PROVE UNCHANGED objects  BY <2>3, MainLeaves
  <2> QED  BY <1>5, <2>1, <2>2, <2>3, StepKinds DEF vars
<1> QED  BY <1>1, <1>2, <1>3, <1>4, <1>5, LoadCrowd, StoreCrowd DEF MessageStep

(* However many messages, targets and resyncs there are, and however many  *)
(* Bots come and go: the Guild objects of a session are at most as many as *)
(* were in getGuild at one moment.                                         *)
THEOREM GuildsAreOfOneCrowd == Spec => []GuildsOfOneCrowd
<1>1. CrowdInv => GuildsOfOneCrowd  BY DEF CrowdInv, GuildsOfOneCrowd
<1> QED
  BY <1>1, InitTyped, StepTyped, InitNewest, StepNewest, InitCrowd, StepCrowd, PTL DEF Spec

(* However many bots, requests, takeovers and messages there are and       *)
(* whatever fails: every session states, a request or a takeover holds is  *)
(* one that was opened for it, and a guild's row has its bot's.            *)
THEOREM ServerTyped == Spec => []TypeOK
<1>1. Typed /\ NewestInv /\ CrowdInv => TypeOK
  <2> SUFFICES ASSUME Typed, NewestInv, CrowdInv PROVE TypeOK  OBVIOUS
  <2>1. msg \in [number : 0 .. messages, bot : Bots \cup {NoBot}]
    <3>1. messages \in 0 .. messages  BY DEF NewestInv
    <3> QED  BY <3>1 DEF NewestInv
  <2> QED
    BY <2>1 DEF TypeOK, Typed, RowsTyped, CallsTyped, CallType, InputsTyped, BotsTyped, StateType,
                TakersTyped, TakerType, MainTyped, NewestInv, CrowdInv
<1> QED
  BY <1>1, InitTyped, StepTyped, InitNewest, StepNewest, InitCrowd, StepCrowd, PTL DEF Spec
=============================================================================
