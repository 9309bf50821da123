------------------------------ MODULE Takeover ------------------------------
(***************************************************************************)
(* Which instance of ProjectOrca manages which bot.  An instance manages   *)
(* the bots in its states map (service/orca.go).  It takes a Redis lock on *)
(* a bot before it starts it and extends the lock for as long as it lives  *)
(* (store/broker.go); when a lock's key is deleted or expires, Redis tells *)
(* every subscribed instance and each tries to take over (handleKeyDel of  *)
(* service/broker.go).  A bot is registered by the first request that      *)
(* carries its token, on the instance that serves it (service/auth.go).    *)
(***************************************************************************)
EXTENDS Naturals, FiniteSets

CONSTANTS
    Instances,
    Bots,
    Slots,         \* initFromStore calls an instance can have in progress
    InitSlot,      \* the one Init makes, before requests are served
    NoOwner,       \* the lock's key is not in Redis
    Dead,          \* the key is there, the process that set it is not
    NoBot,
    Stored,        \* bots in the bots table to begin with
    Registers,     \* bots requests may register
    Faults,        \* crash: a process dies; session: NewBot fails; query: Redis or
                   \* Postgres does; stall: a lock is not extended in time; slow:
                   \* a drain outlasts the locks; lost: an event reaches some only;
                   \* overtake: SIGTERM comes between a takeover's lock and session
    MaxStarts      \* bound: times processes are started

ASSUME TakeoverConstants ==
    /\ IsFiniteSet(Instances)
    /\ InitSlot \in Slots
    /\ NoOwner \notin Instances /\ Dead \notin Instances /\ NoOwner # Dead
    /\ NoBot \notin Bots
    /\ Stored \subseteq Bots /\ Registers \subseteq Bots
    /\ Faults \subseteq {"crash", "session", "stall", "slow", "lost", "query", "overtake"}
    /\ MaxStarts \in Nat

VARIABLES
    bots,      \* the bots table
    phase,     \* of each instance: "down", "up", "draining" after SIGTERM,
               \* "closed" once its sessions are
    states,    \* Orca.states: the bots an instance has a models.Bot of
    owner,     \* who set the lock's key of a bot
    events,    \* key events on their way, as <<instance, bot>>
    scan,      \* each call of initFromStore: bots left, the one in hand, the step
    joining,   \* the bot a request on the instance is registering
    starts,    \* starts left
    late       \* history: bots an instance stored when another had the lock

vars == <<bots, phase, states, owner, events, scan, joining, starts, late>>

Scan(todo, bot, step) == [todo |-> todo, bot |-> bot, step |-> step]
NoScan == Scan({}, NoBot, "idle")

TypeOK ==
    /\ bots \subseteq Bots
    /\ phase \in [Instances -> {"down", "up", "draining", "closed"}]
    /\ states \in [Instances -> SUBSET Bots]
    /\ owner \in [Bots -> Instances \cup {NoOwner, Dead}]
    /\ events \subseteq Instances \X Bots
    /\ scan \in [Instances -> [Slots -> [todo : SUBSET Bots, bot : Bots \cup {NoBot},
                                         step : {"idle", "lock", "look", "open"}]]]
    /\ joining \in [Instances -> Bots \cup {NoBot}]
    /\ starts \in 0 .. MaxStarts
    /\ late \subseteq Instances \X Bots

Init ==
    /\ bots = Stored
    /\ phase = [i \in Instances |-> "down"]
    /\ states = [i \in Instances |-> {}]
    /\ owner = [b \in Bots |-> NoOwner]
    /\ events = {}
    /\ scan = [i \in Instances |-> [s \in Slots |-> NoScan]]
    /\ joining = [i \in Instances |-> NoBot]
    /\ starts = MaxStarts
    /\ late = {}

(* What a process that is gone leaves behind.                              *)
Forget(i) ==
    /\ states' = [states EXCEPT ![i] = {}]
    /\ scan' = [scan EXCEPT ![i] = [s \in Slots |-> NoScan]]
    /\ joining' = [joining EXCEPT ![i] = NoBot]
    /\ late' = {e \in late : e[1] # i}

Orphan(i) == owner' = [b \in Bots |-> IF owner[b] = i THEN Dead ELSE owner[b]]

Die(i) ==
    /\ phase' = [phase EXCEPT ![i] = "down"]
    /\ Forget(i)
    /\ Orphan(i)

(* Redis publishes the event of a key that is gone to every subscriber.    *)
(* One that is not connected at the moment does not get it.                *)
Announce(gone) ==
    \E to \in SUBSET {i \in Instances : phase[i] = "up"} :
        /\ "lost" \notin Faults => to = {i \in Instances : phase[i] = "up"}
        /\ events' = events \cup (to \X gone)

(* Slip: Init subscribes to deletions, not to expiries.                    *)
NotSubscribed(b) == UNCHANGED events
AnnounceExpired(b) == Announce({b})

(***************************************************************************)
(* initFromStore.                                                          *)
(***************************************************************************)
Select == Scan(bots, NoBot, "lock")

(* Init subscribes before it looks for bots.                               *)
Start(i) ==
    /\ phase[i] = "down"
    /\ starts > 0
    /\ starts' = starts - 1
    /\ phase' = [phase EXCEPT ![i] = "up"]
    /\ scan' = [scan EXCEPT ![i][InitSlot] = Select]
    /\ UNCHANGED <<bots, states, owner, events, joining, late>>

Proceed(i, s, next) == scan' = [scan EXCEPT ![i][s] = next]

(* Store.Lock, one try; a bot whose lock is taken, or cannot be asked for, *)
(* is passed over.  After SIGTERM the context is done and every try fails. *)
(* Slip: a lock that is taken is no reason to stop.                        *)
LockAnyway(i, b) == owner' = [owner EXCEPT ![b] = IF @ = NoOwner THEN i ELSE @]
LockFree(i, b) == owner[b] = NoOwner /\ owner' = [owner EXCEPT ![b] = i]

TryLock(i, s) ==
    /\ scan[i][s].step = "lock"
    /\ \E b \in scan[i][s].todo :
          LET rest == scan[i][s].todo \ {b} IN
          \/ phase[i] = "up" /\ LockFree(i, b) /\ Proceed(i, s, Scan(rest, b, "look"))
          \/ /\ phase[i] # "up" \/ owner[b] # NoOwner \/ "query" \in Faults
             /\ Proceed(i, s, Scan(rest, NoBot, "lock"))
             /\ UNCHANGED owner
    /\ UNCHANGED <<bots, phase, states, events, joining, starts, late>>

(* getStateByToken: a bot already managed here needs no other session.     *)
LookForState(i, s) ==
    /\ scan[i][s].step = "look"
    /\ LET b == scan[i][s].bot IN
       Proceed(i, s, IF b \in states[i] THEN Scan(scan[i][s].todo, NoBot, "lock")
                                        ELSE Scan(scan[i][s].todo, b, "open"))
    /\ UNCHANGED <<bots, phase, states, owner, events, joining, starts, late>>

Manage(i, b) ==
    /\ states' = [states EXCEPT ![i] = @ \cup {b}]
    /\ late' = IF owner[b] = i THEN late ELSE late \cup {<<i, b>>}

(* NewBot fails and returns nil: the bot is passed over and the lock stays. *)
(* Slip: the error is logged and nil is stored.                            *)
StoreNil(i) == states' = [states EXCEPT ![i] = @ \cup {NoBot}] /\ UNCHANGED late
PassOver(i) == UNCHANGED <<states, late>>

OpenSession(i, s) ==
    /\ scan[i][s].step = "open"
    /\ \/ Manage(i, scan[i][s].bot)
       \/ "session" \in Faults /\ PassOver(i)
    /\ Proceed(i, s, Scan(scan[i][s].todo, NoBot, "lock"))
    /\ UNCHANGED <<bots, phase, owner, events, joining, starts>>

EndScan(i, s) ==
    /\ scan[i][s].step = "lock" /\ scan[i][s].todo = {}
    /\ Proceed(i, s, NoScan)
    /\ UNCHANGED <<bots, phase, states, owner, events, joining, starts, late>>

(***************************************************************************)
(* Locks and their events.                                                 *)
(***************************************************************************)

(* A key expires that nobody extends: of a dead process, of one that is    *)
(* long in draining (extendLoop stops with the context, at SIGTERM), or of *)
(* one that was too late with ExtendContext, whose error is only logged.   *)
MayExpire(b) ==
    \/ owner[b] = Dead
    \/ \E i \in Instances :
          /\ owner[b] = i
          /\ \/ phase[i] \in {"draining", "closed"} /\ "slow" \in Faults
             \/ phase[i] = "up" /\ "stall" \in Faults

Expire(b) ==
    /\ MayExpire(b)
    /\ owner' = [owner EXCEPT ![b] = NoOwner]
    /\ AnnounceExpired(b)
    /\ UNCHANGED <<bots, phase, states, scan, joining, starts, late>>

(* handleKeyDel on an event of a bot managed here: logger.Fatal.           *)
Fence(i) ==
    /\ phase[i] = "up"
    /\ \E b \in states[i] : <<i, b>> \in events
    /\ Die(i)
    /\ events' = {e \in events : e[1] # i}
    /\ UNCHANGED <<bots, starts>>

(* handleKeyDel on the event of another bot: initFromStore, unless its     *)
(* SELECT fails.  Slip: the lock's own bot is not looked for in states.    *)
AnyBot(i, b) == TRUE
NotMine(i, b) == b \notin states[i]

TryTakeover(i, s) ==
    /\ phase[i] = "up"
    /\ s # InitSlot
    /\ scan[i][s].step = "idle"
    /\ \E b \in Bots :
          /\ <<i, b>> \in events
          /\ NotMine(i, b)
          /\ events' = events \ {<<i, b>>}
          /\ \/ Proceed(i, s, Select)
             \/ "query" \in Faults /\ UNCHANGED scan
    /\ UNCHANGED <<bots, phase, states, owner, joining, starts, late>>

(***************************************************************************)
(* Registration: the request that finds no bot with its token.             *)
(***************************************************************************)
Register(i) ==
    /\ phase[i] = "up"
    /\ scan[i][InitSlot].step = "idle"
    /\ joining[i] = NoBot
    /\ \E b \in Registers \ bots : joining' = [joining EXCEPT ![i] = b]
    /\ UNCHANGED <<bots, phase, states, owner, events, scan, starts, late>>

(* INSERT ... ON CONFLICT DO UPDATE, then states.Store; no lock is taken.  *)
(* When the INSERT fails the session is closed again.                      *)
FinishRegister(i) ==
    /\ joining[i] # NoBot
    /\ \/ bots' = bots \cup {joining[i]} /\ Manage(i, joining[i])
       \/ "query" \in Faults /\ UNCHANGED <<bots, states, late>>
    /\ joining' = [joining EXCEPT ![i] = NoBot]
    /\ UNCHANGED <<phase, owner, events, scan, starts>>

(***************************************************************************)
(* The end of a process.                                                   *)
(***************************************************************************)
Crash(i) ==
    /\ "crash" \in Faults
    /\ phase[i] # "down"
    /\ Die(i)
    /\ events' = {e \in events : e[1] # i}
    /\ UNCHANGED <<bots, starts>>

(* Takeovers that have the lock of a bot and not yet its session.  Neither *)
(* SIGTERM nor Shutdown stops or waits for them: NewBot takes no context,  *)
(* and what they store after Shutdown's states.Range stays open until the  *)
(* process ends, whoever gets the lock meanwhile.                          *)
Underway(i) == {s \in Slots \ {InitSlot} : scan[i][s].step \in {"look", "open"}}

(* SIGTERM: the context is done, and with it play loops, subscriptions and *)
(* extendLoops.                                                            *)
Terminate(i) ==
    /\ phase[i] = "up"
    /\ "overtake" \in Faults \/ Underway(i) = {}
    /\ phase' = [phase EXCEPT ![i] = "draining"]
    /\ events' = {e \in events : e[1] # i}
    /\ UNCHANGED <<bots, states, owner, scan, joining, starts, late>>

(* Orca.Shutdown comes after Init and after GracefulStop, which waits for  *)
(* requests: every guild leaves its voice channel, every session is closed. *)
(* (The map keeps the closed bots; here a takeover that looks for one then *)
(* opens it again, where the code passes it over.)                         *)
CloseSessions(i) ==
    /\ phase[i] = "draining"
    /\ scan[i][InitSlot].step = "idle"
    /\ joining[i] = NoBot
    /\ phase' = [phase EXCEPT ![i] = "closed"]
    /\ states' = [states EXCEPT ![i] = {}]
    /\ late' = {e \in late : e[1] # i}
    /\ UNCHANGED <<bots, owner, events, scan, joining, starts>>

(* doShutdownFuncs unlocks.  Slip: before the sessions are closed.         *)
UnlockEarly(i) == phase[i] \in {"draining", "closed"}
CanUnlock(i) == phase[i] = "closed"

Unlock(i) ==
    /\ CanUnlock(i)
    /\ \E b \in Bots :
          /\ owner[b] = i
          /\ owner' = [owner EXCEPT ![b] = NoOwner]
          /\ Announce({b})
    /\ UNCHANGED <<bots, phase, states, scan, joining, starts, late>>

(* run returns, whatever goroutines are left.  An unlock that failed was   *)
(* only logged, and one whose append to shutdownFuncs raced with another's *)
(* was never tried: those locks stay behind.                               *)
Exit(i) ==
    /\ phase[i] = "closed"
    /\ Die(i)
    /\ UNCHANGED <<bots, events, starts>>

InitFromStore(i, s) == TryLock(i, s) \/ LookForState(i, s) \/ OpenSession(i, s) \/ EndScan(i, s)

Next ==
    \/ \E i \in Instances :
          \/ Start(i) \/ Fence(i) \/ Register(i) \/ FinishRegister(i)
          \/ Crash(i) \/ Terminate(i) \/ CloseSessions(i) \/ Unlock(i) \/ Exit(i)
          \/ \E s \in Slots : InitFromStore(i, s) \/ TryTakeover(i, s)
    \/ \E b \in Bots : Expire(b)

Spec == Init /\ [][Next]_vars

(* The goroutines of an instance run, a shutdown that has begun goes on,   *)
(* and Redis drops a key nobody extends.                                   *)
Fairness ==
    /\ \A i \in Instances :
          /\ WF_vars(Fence(i)) /\ WF_vars(FinishRegister(i))
          /\ WF_vars(CloseSessions(i)) /\ WF_vars(Unlock(i)) /\ WF_vars(Exit(i))
          /\ \A s \in Slots : WF_vars(InitFromStore(i, s)) /\ WF_vars(TryTakeover(i, s))
    /\ \A b \in Bots : WF_vars(Expire(b))

FairSpec == Spec /\ Fairness

(***************************************************************************)
(* Properties.                                                             *)
(***************************************************************************)
Up == {i \in Instances : phase[i] = "up"}
Managers(b) == {i \in Up : b \in states[i]}

(* Two instances that manage a bot both play: every resync message reaches *)
(* both.  The lock is to prevent it.                                       *)
OneManager == \A b \in Bots, i, j \in Up : b \in states[i] /\ b \in states[j] => i = j

(* An instance that manages a bot, or is about to, has its lock.           *)
ManagerHoldsLock ==
    \A i \in Up :
        /\ \A b \in states[i] : owner[b] = i
        /\ \A s \in Slots : scan[i][s].step \in {"look", "open"} => owner[scan[i][s].bot] = i

(* An instance that lost the lock of a bot it manages is about to be told  *)
(* and to exit ("Own managed state expired", broker.go:160), unless it had *)
(* not the lock when it stored the bot: the event came before the state.   *)
FenceDue ==
    \A i \in Up : \A b \in states[i] :
        owner[b] = i \/ <<i, b>> \in events \/ <<i, b>> \in late

(* No bot is forgotten: the event of a lock nobody has, or initFromStore,  *)
(* which looks at the bots after Init has subscribed, is on its way to     *)
(* every instance, one that takes it manages the bot, and one that ended   *)
(* or is to end leaves a lock that expires or is released.                 *)
TakeoverDue ==
    \A b \in Stored :
        /\ owner[b] = NoOwner =>
              \A i \in Up : <<i, b>> \in events \/ \E s \in Slots : b \in scan[i][s].todo
        /\ owner[b] \in Up =>
              \/ b \in states[owner[b]]
              \/ \E s \in Slots : scan[owner[b]][s].bot = b

(* An orderly shutdown hands over: the voice connections of a bot are      *)
(* closed before another instance opens its own.                           *)
NoStolenVoice ==
    [][\A i \in Instances :
          phase[i] = "draining" /\ phase'[i] = "closed"
             => \A b \in states[i] : Managers(b) = {}]_vars

(* Instances with a session of a bot: every one in the map of a process    *)
(* that lives, whether it is up, leaves or has shut down.                  *)
Holders == [b \in Bots |-> {i \in Instances : phase[i] # "down" /\ b \in states[i]}]

Owned == INSTANCE Ownership WITH holders <- Holders

(* The locks implement exclusive ownership: a bot passes from instance to  *)
(* instance with no two having it in between, in restarts, takeovers,      *)
(* drains and repeated initFromStore calls; where no SIGTERM comes between *)
(* the lock and the session of a takeover (fault "overtake").              *)
OneSession == Owned!Spec

(* Instances "automatically substitute each other in case any of them      *)
(* fail" (README.md:56): while an instance is up every bot has a manager   *)
(* in the end.                                                             *)
TakenOver == \A b \in Bots : b \in bots /\ Up # {} ~> Managers(b) # {} \/ Up = {}
=============================================================================
