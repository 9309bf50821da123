--------------------------- MODULE TakeoverProofs ---------------------------
(***************************************************************************)
(* What holds of Takeover with any instances, bots and process starts.     *)
(***************************************************************************)
EXTENDS Takeover, TLAPS

(* The bot in hand between Lock and states.Store is one.                   *)
InHand ==
    \A i \in Instances, s \in Slots :
        scan[i][s].step \in {"look", "open"} => scan[i][s].bot \in Bots

Typed == TypeOK /\ InHand

(* A process that is down manages nothing ...                              *)
DownManagesNone == \A i \in Instances : phase[i] = "down" => states[i] = {}

(* ... and has no takeover and no registration in progress.                *)
IdleWhenDown ==
    \A i \in Instances : phase[i] = "down" => /\ joining[i] = NoBot
                                             /\ \A s \in Slots : scan[i][s].step = "idle"

(***************************************************************************)
(* Types.                                                                  *)
(***************************************************************************)
LEMMA SelectTyped ==
    ASSUME TypeOK
    PROVE  Select \in [todo : SUBSET Bots, bot : Bots \cup {NoBot},
                       step : {"idle", "lock", "look", "open"}]
BY DEF TypeOK, Select, Scan

LEMMA InitTyped == Init => Typed
BY TakeoverConstants DEF Init, Typed, TypeOK, InHand, NoScan, Scan

(* One call of initFromStore takes its next step.                          *)
LEMMA ProceedTyped ==
    ASSUME Typed, NEW i \in Instances, NEW s \in Slots,
           NEW todo \in SUBSET Bots, NEW b \in Bots \cup {NoBot},
           NEW step \in {"idle", "lock", "look", "open"},
           step \in {"look", "open"} => b \in Bots,
           Proceed(i, s, Scan(todo, b, step))
    PROVE  /\ scan' \in [Instances -> [Slots -> [todo : SUBSET Bots, bot : Bots \cup {NoBot},
                                                 step : {"idle", "lock", "look", "open"}]]]
           /\ InHand'
<1>1. scan' = [scan EXCEPT ![i][s] = Scan(todo, b, step)]  BY DEF Proceed
<1>2. Scan(todo, b, step) \in [todo : SUBSET Bots, bot : Bots \cup {NoBot},
                               step : {"idle", "lock", "look", "open"}]
  BY DEF Scan
<1>3. Scan(todo, b, step).step = step /\ Scan(todo, b, step).bot = b  BY DEF Scan
<1>4. ASSUME NEW j \in Instances, NEW r \in Slots
      PROVE  scan'[j][r] = IF j = i /\ r = s THEN Scan(todo, b, step) ELSE scan[j][r]
  BY <1>1 DEF Typed, TypeOK
<1>5. InHand'  BY <1>3, <1>4 DEF Typed, InHand
<1> QED  BY <1>1, <1>2, <1>5 DEF Typed, TypeOK

LEMMA ForgetTyped ==
    ASSUME Typed, NEW i \in Instances, Forget(i)
    PROVE  /\ states' \in [Instances -> SUBSET Bots]
           /\ scan' \in [Instances -> [Slots -> [todo : SUBSET Bots, bot : Bots \cup {NoBot},
                                                 step : {"idle", "lock", "look", "open"}]]]
           /\ joining' \in [Instances -> Bots \cup {NoBot}]
           /\ late' \subseteq Instances \X Bots
           /\ InHand'
<1> USE DEF Forget
<1>1. NoScan \in [todo : SUBSET Bots, bot : Bots \cup {NoBot},
                  step : {"idle", "lock", "look", "open"}]  BY DEF NoScan, Scan
<1>2. scan' \in [Instances -> [Slots -> [todo : SUBSET Bots, bot : Bots \cup {NoBot},
                                         step : {"idle", "lock", "look", "open"}]]]
  BY <1>1 DEF Typed, TypeOK
<1>3. \A j \in Instances, s \in Slots : scan'[j][s] = IF j = i THEN NoScan ELSE scan[j][s]
  BY DEF Typed, TypeOK
<1>4. InHand'  BY <1>3 DEF Typed, InHand, NoScan, Scan
<1> QED  BY <1>2, <1>4 DEF Typed, TypeOK

LEMMA DieTyped ==
    ASSUME Typed, NEW i \in Instances, Die(i), events' \subseteq events,
           UNCHANGED <<bots, starts>>
    PROVE  Typed'
<1>1. phase' \in [Instances -> {"down", "up", "draining", "closed"}]  BY DEF Die, Typed, TypeOK
<1>2. owner' \in [Bots -> Instances \cup {NoOwner, Dead}]  BY DEF Die, Orphan, Typed, TypeOK
<1> QED  BY <1>1, <1>2, ForgetTyped DEF Die, Typed, TypeOK

(* Redis tells only instances that are up, and of bots.                    *)
LEMMA AnnounceTyped ==
    ASSUME TypeOK, NEW gone \in SUBSET Bots, Announce(gone)
    PROVE  events' \subseteq Instances \X Bots
BY DEF Announce, TypeOK

LEMMA ManageTyped ==
    ASSUME TypeOK, NEW i \in Instances, NEW b \in Bots, Manage(i, b)
    PROVE  states' \in [Instances -> SUBSET Bots] /\ late' \subseteq Instances \X Bots
BY DEF Manage, TypeOK

LEMMA ScanTyped ==
    ASSUME NEW i \in Instances, NEW s \in Slots, Typed, InitFromStore(i, s)
    PROVE  Typed'
<1> DEFINE Bot == scan[i][s].bot
           Todo == scan[i][s].todo
<1>1. Todo \in SUBSET Bots  BY DEF Typed, TypeOK
<1>2. CASE TryLock(i, s)
  <2> USE DEF TryLock
  <2>1. PICK b \in Todo :
          \/ phase[i] = "up" /\ LockFree(i, b) /\ Proceed(i, s, Scan(Todo \ {b}, b, "look"))
          \/ Proceed(i, s, Scan(Todo \ {b}, NoBot, "lock")) /\ UNCHANGED owner
    BY <1>2
  <2>2. b \in Bots /\ Todo \ {b} \in SUBSET Bots  BY <1>1
  <2>3. owner' \in [Bots -> Instances \cup {NoOwner, Dead}]
    BY <2>1, <2>2 DEF LockFree, Typed, TypeOK
  <2>4. /\ scan' \in [Instances -> [Slots -> [todo : SUBSET Bots, bot : Bots \cup {NoBot},
                                              step : {"idle", "lock", "look", "open"}]]]
        /\ InHand'
    BY <2>1, <2>2, ProceedTyped
  <2> QED  BY <1>2, <2>3, <2>4 DEF Typed, TypeOK
<1>3. CASE LookForState(i, s)
  <2> USE DEF LookForState
  <2>1. Bot \in Bots  BY <1>3 DEF Typed, InHand
  <2>2. \/ Proceed(i, s, Scan(Todo, NoBot, "lock"))
        \/ Proceed(i, s, Scan(Todo, Bot, "open"))
    BY <1>3
  <2>3. /\ scan' \in [Instances -> [Slots -> [todo : SUBSET Bots, bot : Bots \cup {NoBot},
                                              step : {"idle", "lock", "look", "open"}]]]
        /\ InHand'
    BY <1>1, <2>1, <2>2, ProceedTyped
  <2> QED  BY <1>3, <2>3 DEF Typed, TypeOK
<1>4. CASE OpenSession(i, s)
  <2> USE DEF OpenSession, PassOver
  <2>1. Bot \in Bots  BY <1>4 DEF Typed, InHand
  <2>2. states' \in [Instances -> SUBSET Bots] /\ late' \subseteq Instances \X Bots
    BY <1>4, <2>1, ManageTyped DEF Typed, TypeOK
  <2>3. /\ scan' \in [Instances -> [Slots -> [todo : SUBSET Bots, bot : Bots \cup {NoBot},
                                              step : {"idle", "lock", "look", "open"}]]]
        /\ InHand'
    BY <1>1, <1>4, ProceedTyped
  <2> QED  BY <1>4, <2>2, <2>3 DEF Typed, TypeOK
<1>5. CASE EndScan(i, s)
  <2>1. /\ scan' \in [Instances -> [Slots -> [todo : SUBSET Bots, bot : Bots \cup {NoBot},
                                              step : {"idle", "lock", "look", "open"}]]]
        /\ InHand'
    BY <1>5, ProceedTyped DEF EndScan, NoScan
  <2> QED  BY <1>5, <2>1 DEF EndScan, Typed, TypeOK
<1> QED  BY <1>2, <1>3, <1>4, <1>5 DEF InitFromStore

LEMMA TakeoverTyped ==
    ASSUME NEW i \in Instances, NEW s \in Slots, Typed, TryTakeover(i, s)
    PROVE  Typed'
<1> USE DEF TryTakeover
<1>1. /\ scan' \in [Instances -> [Slots -> [todo : SUBSET Bots, bot : Bots \cup {NoBot},
                                            step : {"idle", "lock", "look", "open"}]]]
      /\ InHand'
  <2>1. CASE Proceed(i, s, Select)
    BY <2>1, ProceedTyped DEF Select, Typed, TypeOK
  <2>2. CASE UNCHANGED scan
    BY <2>2 DEF Typed, TypeOK, InHand
  <2> QED  BY <2>1, <2>2
<1> QED  BY <1>1 DEF Typed, TypeOK

LEMMA StepTyped == Typed /\ [Next]_vars => Typed'
<1> SUFFICES ASSUME Typed, [Next]_vars PROVE Typed'  OBVIOUS
<1>1. CASE UNCHANGED vars
  BY <1>1 DEF vars, Typed, TypeOK, InHand
<1>2. ASSUME NEW i \in Instances, Start(i) PROVE Typed'
  <2>1. Proceed(i, InitSlot, Select)  BY <1>2 DEF Start, Proceed
  <2>2. /\ scan' \in [Instances -> [Slots -> [todo : SUBSET Bots, bot : Bots \cup {NoBot},
                                              step : {"idle", "lock", "look", "open"}]]]
        /\ InHand'
    BY <2>1, ProceedTyped, TakeoverConstants DEF Select, Typed, TypeOK
  <2>3. starts' \in 0 .. MaxStarts  BY <1>2, TakeoverConstants DEF Start, Typed, TypeOK
  <2> QED  BY <1>2, <2>2, <2>3 DEF Start, Typed, TypeOK
<1>3. ASSUME NEW i \in Instances, Fence(i) \/ Crash(i) \/ Exit(i) PROVE Typed'
  BY <1>3, DieTyped DEF Fence, Crash, Exit
<1>4. ASSUME NEW i \in Instances, Register(i) PROVE Typed'
  BY <1>4, TakeoverConstants DEF Register, Typed, TypeOK, InHand
<1>5. ASSUME NEW i \in Instances, FinishRegister(i) PROVE Typed'
  <2> USE DEF FinishRegister
  <2>1. joining[i] \in Bots  BY <1>5 DEF Typed, TypeOK
  <2>2. /\ states' \in [Instances -> SUBSET Bots]
        /\ late' \subseteq Instances \X Bots
        /\ bots' \subseteq Bots
    BY <1>5, <2>1, ManageTyped DEF Typed, TypeOK
  <2> QED  BY <1>5, <2>2 DEF Typed, TypeOK, InHand
<1>6. ASSUME NEW i \in Instances, Terminate(i) \/ CloseSessions(i) PROVE Typed'
  BY <1>6 DEF Terminate, CloseSessions, Typed, TypeOK, InHand
<1>7. ASSUME NEW i \in Instances, Unlock(i) PROVE Typed'
  <2> USE DEF Unlock
  <2>1. events' \subseteq Instances \X Bots  BY <1>7, AnnounceTyped DEF Typed
  <2>2. owner' \in [Bots -> Instances \cup {NoOwner, Dead}]  BY <1>7 DEF Typed, TypeOK
  <2> QED  BY <1>7, <2>1, <2>2 DEF Typed, TypeOK, InHand
<1>8. ASSUME NEW b \in Bots, Expire(b) PROVE Typed'
  <2> USE DEF Expire, AnnounceExpired
  <2>1. events' \subseteq Instances \X Bots  BY <1>8, AnnounceTyped DEF Typed
  <2>2. owner' \in [Bots -> Instances \cup {NoOwner, Dead}]  BY <1>8 DEF Typed, TypeOK
  <2> QED  BY <1>8, <2>1, <2>2 DEF Typed, TypeOK, InHand
<1> QED
  BY <1>1, <1>2, <1>3, <1>4, <1>5, <1>6, <1>7, <1>8, ScanTyped, TakeoverTyped DEF Next

(* Every variable keeps its type; with it, only bots are managed.          *)
THEOREM TakeoverTypeCorrect == Spec => []TypeOK
<1>1. Typed => TypeOK  BY DEF Typed
<1> QED  BY <1>1, InitTyped, StepTyped, PTL DEF Spec

LEMMA StepIdle == Typed /\ IdleWhenDown /\ [Next]_vars => IdleWhenDown'
<1> SUFFICES ASSUME Typed, IdleWhenDown, [Next]_vars PROVE IdleWhenDown'  OBVIOUS
<1>1. CASE UNCHANGED vars
  BY <1>1 DEF vars, IdleWhenDown
<1>2. ASSUME NEW i \in Instances, phase[i] # "down",
             NEW s \in Slots, NEW next, Proceed(i, s, next), UNCHANGED <<phase, joining>>
      PROVE  IdleWhenDown'
  <2>1. \A j \in Instances : j # i => scan'[j] = scan[j]
    BY <1>2 DEF Proceed, Typed, TypeOK
  <2> QED  BY <1>2, <2>1 DEF IdleWhenDown
<1>3. ASSUME NEW i \in Instances, Start(i) PROVE IdleWhenDown'
  BY <1>3 DEF Start, IdleWhenDown, Typed, TypeOK
<1>4. ASSUME NEW i \in Instances, Forget(i), phase' = [phase EXCEPT ![i] = "down"]
      PROVE  IdleWhenDown'
  <2>1. \A j \in Instances :
           /\ phase'[j] = IF j = i THEN "down" ELSE phase[j]
           /\ joining'[j] = IF j = i THEN NoBot ELSE joining[j]
           /\ \A s \in Slots : scan'[j][s] = IF j = i THEN NoScan ELSE scan[j][s]
    BY <1>4 DEF Forget, Typed, TypeOK
  <2> QED  BY <2>1 DEF IdleWhenDown, NoScan, Scan
<1>5. ASSUME NEW i \in Instances, Fence(i) \/ Crash(i) \/ Exit(i) PROVE IdleWhenDown'
  BY <1>4, <1>5 DEF Fence, Crash, Exit, Die
<1>6. ASSUME NEW i \in Instances, Register(i) \/ FinishRegister(i) PROVE IdleWhenDown'
  BY <1>6 DEF Register, FinishRegister, IdleWhenDown, Typed, TypeOK
<1>7. ASSUME NEW i \in Instances, Terminate(i) \/ CloseSessions(i) \/ Unlock(i)
      PROVE  IdleWhenDown'
  BY <1>7 DEF Terminate, CloseSessions, Unlock, IdleWhenDown, Typed, TypeOK
<1>8. ASSUME NEW b \in Bots, Expire(b) PROVE IdleWhenDown'
  BY <1>8 DEF Expire, IdleWhenDown
<1>9. ASSUME NEW i \in Instances, NEW s \in Slots, TryTakeover(i, s) PROVE IdleWhenDown'
  <2>1. CASE Proceed(i, s, Select)
    BY <1>2, <1>9, <2>1 DEF TryTakeover
  <2>2. CASE UNCHANGED scan
    BY <1>9, <2>2 DEF TryTakeover, IdleWhenDown
  <2> QED  BY <1>9, <2>1, <2>2 DEF TryTakeover
<1>10. ASSUME NEW i \in Instances, NEW s \in Slots, InitFromStore(i, s) PROVE IdleWhenDown'
  <2> USE DEF InitFromStore, TryLock, LookForState, OpenSession, EndScan
  <2>1. phase[i] # "down"  BY <1>10 DEF IdleWhenDown
  <2>2. \E next : Proceed(i, s, next)  BY <1>10
  <2>3. UNCHANGED <<phase, joining>>  BY <1>10
  <2> QED  BY <1>2, <2>1, <2>2, <2>3
<1> QED
  BY <1>1, <1>3, <1>5, <1>6, <1>7, <1>8, <1>9, <1>10 DEF Next

(***************************************************************************)
(* The lock.  Stated where every bot is in the table before it is managed, *)
(* and every live process extends its locks in time.                       *)
(***************************************************************************)

(* An instance that is up, and one that drains no longer than its locks    *)
(* last, has the locks of the bots it manages.                             *)
Holds(i) == phase[i] = "up" \/ (phase[i] = "draining" /\ "slow" \notin Faults)

StatesLocked == \A i \in Instances : Holds(i) => \A b \in states[i] : owner[b] = i

ScansLocked ==
    \A i \in Instances, s \in Slots :
        Holds(i) /\ scan[i][s].step \in {"look", "open"} => owner[scan[i][s].bot] = i

NobodyJoins == Registers = {} => \A i \in Instances : joining[i] = NoBot

LockInv == Typed /\ IdleWhenDown /\ DownManagesNone /\ StatesLocked /\ ScansLocked /\ NobodyJoins

Orderly == "stall" \notin Faults /\ Registers = {}

LEMMA InitLocked == Init => LockInv
BY InitTyped DEF Init, LockInv, IdleWhenDown, DownManagesNone, StatesLocked, ScansLocked, NobodyJoins,
                 Holds, NoScan, Scan

(* One lock changes hands, or its key goes: nobody else's does.            *)
LEMMA DieLocked ==
    ASSUME LockInv, NEW i \in Instances, Die(i), Typed', IdleWhenDown'
    PROVE  LockInv'
<1> USE DEF Die, Forget, Orphan, LockInv
<1>1. ASSUME NEW j \in Instances
      PROVE  /\ phase'[j] = IF j = i THEN "down" ELSE phase[j]
             /\ states'[j] = IF j = i THEN {} ELSE states[j]
             /\ joining'[j] = IF j = i THEN NoBot ELSE joining[j]
             /\ \A s \in Slots : scan'[j][s] = IF j = i THEN NoScan ELSE scan[j][s]
  BY DEF Typed, TypeOK
<1>2. ASSUME NEW b \in Bots, owner[b] # i PROVE owner'[b] = owner[b]
  BY <1>2 DEF Typed, TypeOK
<1>3. DownManagesNone' /\ NobodyJoins'  BY <1>1 DEF DownManagesNone, NobodyJoins
<1>4. StatesLocked'  BY <1>1, <1>2 DEF StatesLocked, Holds, Typed, TypeOK
<1>5. ScansLocked'  BY <1>1, <1>2 DEF ScansLocked, Holds, NoScan, Scan, Typed, InHand
<1> QED  BY <1>3, <1>4, <1>5

LEMMA ScanLocked ==
    ASSUME NEW i \in Instances, NEW s \in Slots, LockInv, InitFromStore(i, s),
           Typed', IdleWhenDown'
    PROVE  LockInv'
<1> USE DEF LockInv
<1> DEFINE Bot == scan[i][s].bot
           Todo == scan[i][s].todo
<1>1. Todo \in SUBSET Bots  BY DEF Typed, TypeOK
<1>2. ASSUME NEW next, Proceed(i, s, next)
      PROVE  \A j \in Instances, r \in Slots :
                scan'[j][r] = IF j = i /\ r = s THEN next ELSE scan[j][r]
  BY <1>2 DEF Proceed, Typed, TypeOK
<1>3. ASSUME NEW todo, NEW b, NEW step
      PROVE  Scan(todo, b, step).step = step /\ Scan(todo, b, step).bot = b
  BY DEF Scan
<1>4. scan[i][s].step # "idle" => phase[i] # "down"  BY DEF IdleWhenDown
<1>5. CASE TryLock(i, s)
  <2> USE DEF TryLock
  <2>1. PICK b \in Todo :
          \/ phase[i] = "up" /\ LockFree(i, b) /\ Proceed(i, s, Scan(Todo \ {b}, b, "look"))
          \/ Proceed(i, s, Scan(Todo \ {b}, NoBot, "lock")) /\ UNCHANGED owner
    BY <1>5
  <2>2. \A c \in Bots : owner[c] # NoOwner => owner'[c] = owner[c]
    BY <1>1, <2>1 DEF LockFree, Typed, TypeOK
  <2>3. StatesLocked'  BY <1>5, <2>2, TakeoverConstants DEF StatesLocked, Holds, Typed, TypeOK
  <2>4. CASE LockFree(i, b) /\ Proceed(i, s, Scan(Todo \ {b}, b, "look"))
    <3>1. owner'[b] = i  BY <1>1, <2>4 DEF LockFree, Typed, TypeOK
    <3>2. \A j \in Instances, r \in Slots :
             scan'[j][r] = IF j = i /\ r = s THEN Scan(Todo \ {b}, b, "look") ELSE scan[j][r]
      BY <1>2, <2>4
    <3>3. ScansLocked'
      BY <1>3, <1>4, <1>5, <2>2, <3>1, <3>2, TakeoverConstants
         DEF ScansLocked, Holds, Typed, InHand
    <3> QED  BY <1>5, <2>3, <3>3 DEF DownManagesNone, NobodyJoins
  <2>5. CASE Proceed(i, s, Scan(Todo \ {b}, NoBot, "lock")) /\ UNCHANGED owner
    <3>1. \A j \in Instances, r \in Slots :
             scan'[j][r] = IF j = i /\ r = s THEN Scan(Todo \ {b}, NoBot, "lock") ELSE scan[j][r]
      BY <1>2, <2>5
    <3>2. ScansLocked'  BY <1>3, <1>4, <1>5, <2>5, <3>1 DEF ScansLocked, Holds
    <3> QED  BY <1>5, <2>3, <3>2 DEF DownManagesNone, NobodyJoins
  <2> QED  BY <2>1, <2>4, <2>5
<1>6. CASE LookForState(i, s)
  <2> USE DEF LookForState
  <2>1. Holds(i) => owner[Bot] = i  BY <1>6 DEF ScansLocked, Holds
  <2>2. ASSUME Proceed(i, s, Scan(Todo, NoBot, "lock")) PROVE ScansLocked'
    <3>1. \A j \in Instances, r \in Slots :
             scan'[j][r] = IF j = i /\ r = s THEN Scan(Todo, NoBot, "lock") ELSE scan[j][r]
      BY <1>2, <2>2
    <3> QED  BY <1>3, <1>4, <1>6, <3>1 DEF ScansLocked, Holds
  <2>3. ASSUME Proceed(i, s, Scan(Todo, Bot, "open")) PROVE ScansLocked'
    <3>1. \A j \in Instances, r \in Slots :
             scan'[j][r] = IF j = i /\ r = s THEN Scan(Todo, Bot, "open") ELSE scan[j][r]
      BY <1>2, <2>3
    <3> QED  BY <1>3, <1>4, <1>6, <2>1, <3>1 DEF ScansLocked, Holds
  <2>4. ScansLocked'
    BY <1>6, <2>2, <2>3
  <2> QED  BY <1>6, <2>4 DEF DownManagesNone, NobodyJoins, StatesLocked, Holds
<1>7. CASE OpenSession(i, s)
  <2> USE DEF OpenSession, PassOver, Manage
  <2>1. (Holds(i) => owner[Bot] = i) /\ phase[i] # "down"  BY <1>4, <1>7 DEF ScansLocked, Holds
  <2>2. \A j \in Instances, r \in Slots :
           scan'[j][r] = IF j = i /\ r = s THEN Scan(Todo, NoBot, "lock") ELSE scan[j][r]
    BY <1>2, <1>7
  <2>3. ScansLocked'  BY <1>3, <1>7, <2>1, <2>2 DEF ScansLocked, Holds
  <2>4. \A j \in Instances : states'[j] = states[j] \/ (j = i /\ states'[j] = states[j] \cup {Bot})
    BY <1>7 DEF Typed, TypeOK
  <2>5. StatesLocked'  BY <1>7, <2>1, <2>4 DEF StatesLocked, Holds
  <2>6. DownManagesNone'  BY <1>7, <2>1, <2>4 DEF DownManagesNone
  <2> QED  BY <1>7, <2>3, <2>5, <2>6 DEF NobodyJoins
<1>8. CASE EndScan(i, s)
  <2> USE DEF EndScan
  <2>1. \A j \in Instances, r \in Slots :
           scan'[j][r] = IF j = i /\ r = s THEN NoScan ELSE scan[j][r]
    BY <1>2, <1>8
  <2>2. ScansLocked'  BY <1>8, <2>1 DEF ScansLocked, Holds, NoScan, Scan
  <2> QED  BY <1>8, <2>2 DEF DownManagesNone, NobodyJoins, StatesLocked, Holds
<1> QED  BY <1>5, <1>6, <1>7, <1>8 DEF InitFromStore

LEMMA StepLocked == Orderly /\ LockInv /\ [Next]_vars => LockInv'
<1> SUFFICES ASSUME Orderly, LockInv, [Next]_vars PROVE LockInv'  OBVIOUS
<1> USE DEF LockInv
<1>1. Typed' /\ IdleWhenDown'  BY StepTyped, StepIdle
<1>2. CASE UNCHANGED vars
  BY <1>1, <1>2 DEF vars, DownManagesNone, StatesLocked, ScansLocked, NobodyJoins, Holds
<1>3. ASSUME NEW i \in Instances, Start(i) PROVE LockInv'
  <2> USE DEF Start
  <2>1. \A j \in Instances : phase'[j] = IF j = i THEN "up" ELSE phase[j]
    BY <1>3 DEF Typed, TypeOK
  <2>2. \A j \in Instances, r \in Slots :
           scan'[j][r] = IF j = i /\ r = InitSlot THEN Select ELSE scan[j][r]
    BY <1>3, TakeoverConstants DEF Typed, TypeOK
  <2>3. StatesLocked' /\ DownManagesNone'
    BY <1>3, <2>1 DEF StatesLocked, DownManagesNone, Holds
  <2>4. ScansLocked'
    BY <1>3, <2>1, <2>2 DEF ScansLocked, Holds, IdleWhenDown, Select, Scan
  <2> QED  BY <1>1, <1>3, <2>3, <2>4 DEF NobodyJoins
<1>4. ASSUME NEW i \in Instances, Fence(i) \/ Crash(i) \/ Exit(i) PROVE LockInv'
  BY <1>1, <1>4, DieLocked DEF Fence, Crash, Exit
<1>5. ASSUME NEW i \in Instances, Register(i) \/ FinishRegister(i) PROVE LockInv'
  BY <1>5 DEF Register, FinishRegister, Orderly, NobodyJoins
<1>6. ASSUME NEW i \in Instances, Terminate(i) PROVE LockInv'
  <2> USE DEF Terminate
  <2>1. \A j \in Instances : phase'[j] = IF j = i THEN "draining" ELSE phase[j]
    BY <1>6 DEF Typed, TypeOK
  <2>2. ScansLocked'  BY <1>6, <2>1 DEF ScansLocked, Holds
  <2>3. StatesLocked' /\ DownManagesNone'
    BY <1>6, <2>1 DEF StatesLocked, DownManagesNone, Holds
  <2> QED  BY <1>1, <1>6, <2>2, <2>3 DEF NobodyJoins
<1>7. ASSUME NEW i \in Instances, CloseSessions(i) PROVE LockInv'
  <2> USE DEF CloseSessions
  <2>1. \A j \in Instances : /\ phase'[j] = IF j = i THEN "closed" ELSE phase[j]
                             /\ states'[j] = IF j = i THEN {} ELSE states[j]
    BY <1>7 DEF Typed, TypeOK
  <2>2. StatesLocked' /\ DownManagesNone'
    BY <1>7, <2>1 DEF StatesLocked, DownManagesNone, Holds
  <2>3. ScansLocked'  BY <1>7, <2>1 DEF ScansLocked, Holds
  <2> QED  BY <1>1, <1>7, <2>2, <2>3 DEF NobodyJoins
<1>8. ASSUME NEW i \in Instances, Unlock(i) PROVE LockInv'
  <2> USE DEF Unlock, CanUnlock
  <2>1. \A b \in Bots : owner[b] # i => owner'[b] = owner[b]
    BY <1>8
  <2>2. ~ Holds(i)  BY <1>8 DEF Holds
  <2>3. StatesLocked' /\ DownManagesNone'
    BY <1>8, <2>1, <2>2 DEF StatesLocked, DownManagesNone, Holds, Typed, TypeOK
  <2>4. ScansLocked'  BY <1>8, <2>1, <2>2 DEF ScansLocked, Holds, Typed, InHand
  <2> QED  BY <1>1, <1>8, <2>3, <2>4 DEF NobodyJoins
<1>9. ASSUME NEW b \in Bots, Expire(b) PROVE LockInv'
  <2> USE DEF Expire
  <2>1. \A c \in Bots : owner'[c] = IF c = b THEN NoOwner ELSE owner[c]
    BY <1>9 DEF Typed, TypeOK
  <2>2. \A j \in Instances : owner[b] = j => ~ Holds(j)
    BY <1>9, TakeoverConstants DEF MayExpire, Orderly, Holds
  <2>3. StatesLocked'
    BY <1>9, <2>1, <2>2 DEF StatesLocked, Holds, Typed, TypeOK
  <2>4. ScansLocked'  BY <1>9, <2>1, <2>2 DEF ScansLocked, Holds, Typed, TypeOK, InHand
  <2> QED  BY <1>1, <1>9, <2>3, <2>4 DEF DownManagesNone, NobodyJoins
<1>10. ASSUME NEW i \in Instances, NEW s \in Slots, TryTakeover(i, s) PROVE LockInv'
  <2> USE DEF TryTakeover
  <2>1. phase[i] = "up"  BY <1>10
  <2>2. UNCHANGED scan \/ \A j \in Instances, r \in Slots :
           scan'[j][r] = IF j = i /\ r = s THEN Select ELSE scan[j][r]
    BY <1>10 DEF Proceed, Typed, TypeOK
  <2>3. ScansLocked'  BY <1>10, <2>1, <2>2 DEF ScansLocked, Holds, Select, Scan
  <2> QED  BY <1>1, <1>10, <2>3 DEF DownManagesNone, NobodyJoins, StatesLocked, Holds
<1> QED
  BY <1>1, <1>2, <1>3, <1>4, <1>5, <1>6, <1>7, <1>8, <1>9, <1>10, ScanLocked DEF Next

(* An instance that manages a bot, or is about to, has its lock            *)
(* (store/broker.go Lock, service/orca.go initFromStore).                  *)
THEOREM LockHeld ==
    ASSUME Orderly
    PROVE  Spec => []ManagerHoldsLock
<1>1. LockInv => ManagerHoldsLock
  BY DEF LockInv, StatesLocked, ScansLocked, ManagerHoldsLock, Holds, Up
<1> QED  BY <1>1, InitLocked, StepLocked, PTL DEF Spec

(* No two instances manage the same bot.                                   *)
THEOREM AtMostOneManager ==
    ASSUME Orderly
    PROVE  Spec => []OneManager
<1>1. LockInv => OneManager
  BY DEF LockInv, StatesLocked, OneManager, Holds, Up, Typed, TypeOK
<1> QED  BY <1>1, InitLocked, StepLocked, PTL DEF Spec

(* Where, besides, no drain outlasts the locks, Orca.Shutdown leaves the   *)
(* voice channels before another instance can join them.                   *)
THEOREM OrderlyHandover ==
    ASSUME Orderly, "slow" \notin Faults
    PROVE  Spec => NoStolenVoice
<1>1. LockInv => \A i \in Instances : phase[i] = "draining" => \A b \in states[i] : Managers(b) = {}
  BY DEF LockInv, StatesLocked, Holds, Managers, Up, Typed, TypeOK
<1>2. LockInv => [\A i \in Instances :
          phase[i] = "draining" /\ phase'[i] = "closed"
             => \A b \in states[i] : Managers(b) = {}]_vars
  BY <1>1
<1> QED  BY <1>2, InitLocked, StepLocked, PTL DEF Spec, NoStolenVoice

(***************************************************************************)
(* Takeover implements Ownership.                                          *)
(***************************************************************************)

(* Where SIGTERM meets no takeover underway, none is underway after it, so *)
(* what Shutdown closes is all there is.                                   *)
ClosedForGood ==
    \A i \in Instances :
        /\ phase[i] \in {"draining", "closed"} => Underway(i) = {}
        /\ phase[i] = "closed" => /\ states[i] = {} /\ joining[i] = NoBot
                                  /\ scan[i][InitSlot].step = "idle"

AloneInv == LockInv /\ ClosedForGood

Alone == Orderly /\ Faults \cap {"slow", "overtake"} = {}

LEMMA StepClosed ==
    ASSUME Alone, AloneInv, [Next]_vars
    PROVE  ClosedForGood'
<1> USE DEF AloneInv, LockInv, ClosedForGood, Underway
<1>1. CASE UNCHANGED vars
  BY <1>1 DEF vars
<1>2. ASSUME NEW i \in Instances, phase[i] = "up" \/ phase[i] = "down",
             phase'[i] = phase[i] \/ phase'[i] \in {"up", "down"},
             \A j \in Instances : j # i => /\ phase'[j] = phase[j] /\ states'[j] = states[j]
                                          /\ joining'[j] = joining[j] /\ scan'[j] = scan[j]
      PROVE  ClosedForGood'
  BY <1>2
<1>3. ASSUME NEW i \in Instances, Start(i) PROVE ClosedForGood'
  BY <1>2, <1>3 DEF Start, Typed, TypeOK
<1>4. ASSUME NEW i \in Instances, Fence(i) \/ Crash(i) \/ Exit(i) PROVE ClosedForGood'
  <2>1. \A j \in Instances :
           IF j = i THEN phase'[j] = "down"
           ELSE /\ phase'[j] = phase[j] /\ states'[j] = states[j]
                /\ joining'[j] = joining[j] /\ scan'[j] = scan[j]
    BY <1>4 DEF Fence, Crash, Exit, Die, Forget, Typed, TypeOK
  <2> QED  BY <2>1
<1>5. ASSUME NEW i \in Instances, Register(i) PROVE ClosedForGood'
  BY <1>5 DEF Register, Typed, TypeOK
<1>6. ASSUME NEW i \in Instances, FinishRegister(i) PROVE ClosedForGood'
  BY <1>6 DEF FinishRegister, Alone, Orderly, NobodyJoins
<1>7. ASSUME NEW i \in Instances, Terminate(i) PROVE ClosedForGood'
  BY <1>7 DEF Terminate, Alone, Typed, TypeOK
<1>8. ASSUME NEW i \in Instances, CloseSessions(i) PROVE ClosedForGood'
  BY <1>8 DEF CloseSessions, Typed, TypeOK
<1>9. ASSUME UNCHANGED <<phase, states, joining, scan>> PROVE ClosedForGood'
  BY <1>9
<1>10. ASSUME NEW i \in Instances, Unlock(i) PROVE ClosedForGood'
  BY <1>9, <1>10 DEF Unlock
<1>11. ASSUME NEW b \in Bots, Expire(b) PROVE ClosedForGood'
  BY <1>9, <1>11 DEF Expire
<1>12. ASSUME NEW i \in Instances, NEW s \in Slots, TryTakeover(i, s) PROVE ClosedForGood'
  <2>1. /\ phase[i] = "up" /\ UNCHANGED <<phase, states, joining>>
        /\ \A j \in Instances : j # i => scan'[j] = scan[j]
    BY <1>12 DEF TryTakeover, Proceed, Typed, TypeOK
  <2> QED  BY <1>2, <2>1
<1>13. ASSUME NEW i \in Instances, NEW s \in Slots, InitFromStore(i, s) PROVE ClosedForGood'
  <2> USE DEF InitFromStore, TryLock, LookForState, OpenSession, EndScan, PassOver, Manage
  <2>1. UNCHANGED <<phase, joining>> /\ scan[i][s].step # "idle"  BY <1>13
  <2> DEFINE Moved == \E next : Proceed(i, s, next)
  <2>7. Moved  BY <1>13
  <2>8. PICK next : Proceed(i, s, next)  BY <2>7
  <2>9. \A j \in Instances : j # i => scan'[j] = scan[j]
    BY <2>8 DEF Proceed, Typed, TypeOK
  <2>2. \A j \in Instances : j # i => scan'[j] = scan[j] /\ states'[j] = states[j]
    BY <1>13, <2>9 DEF Typed, TypeOK
  <2>3. \A r \in Slots : r # s => scan'[i][r] = scan[i][r]
    BY <2>8 DEF Proceed, Typed, TypeOK
  <2>4. CASE phase[i] \in {"up", "down"}
    BY <1>2, <2>1, <2>2, <2>4
  <2>5. CASE phase[i] \in {"draining", "closed"} /\ s # InitSlot
    <3>1. scan[i][s].step = "lock"
      BY <2>1, <2>5 DEF Typed, TypeOK
    <3>2. states' = states /\ scan'[i][s].step \in {"idle", "lock"}
      BY <1>13, <2>5, <3>1 DEF Proceed, NoScan, Scan, Typed, TypeOK
    <3> QED  BY <2>1, <2>2, <2>3, <2>5, <3>2, TakeoverConstants
  <2>6. CASE phase[i] \in {"draining", "closed"} /\ s = InitSlot
    <3>1. phase[i] = "draining"  BY <2>1, <2>6
    <3> QED  BY <2>1, <2>2, <2>3, <2>6, <3>1
  <2> QED  BY <2>4, <2>5, <2>6 DEF Typed, TypeOK
<1> QED
  BY <1>1, <1>3, <1>4, <1>5, <1>6, <1>7, <1>8, <1>10, <1>11, <1>12, <1>13 DEF Next

LEMMA StepAlone == Alone /\ AloneInv /\ [Next]_vars => AloneInv'
BY StepClosed, StepLocked DEF Alone, AloneInv

LEMMA InitAlone == Init => AloneInv
BY InitLocked DEF Init, AloneInv, ClosedForGood

(* Nobody but the instance with the lock has a session.                    *)
LEMMA LockedAlone ==
    ASSUME AloneInv, Alone, NEW i \in Instances, NEW b \in Bots, owner[b] = i
    PROVE  Holders[b] \subseteq {i}
BY DEF AloneInv, ClosedForGood, LockInv, StatesLocked, Alone, Holds, Holders, Typed, TypeOK

(* A session that is opened under the lock acquires the bot.               *)
LEMMA OpenAcquires ==
    ASSUME AloneInv, Alone, NEW i \in Instances, NEW b \in Bots,
           Manage(i, b), UNCHANGED phase, phase[i] # "down", owner[b] = i
    PROVE  Owned!Acquire(i, b) \/ UNCHANGED Holders
<1>1. \A j \in Instances : states'[j] = IF j = i THEN states[j] \cup {b} ELSE states[j]
  BY DEF Manage, AloneInv, LockInv, Typed, TypeOK
<1>2. CASE b \in states[i]
  BY <1>1, <1>2 DEF Holders
<1>3. CASE b \notin states[i]
  <2>1. Holders[b] = {}  BY <1>3, LockedAlone DEF Holders
  <2>5. \A j \in Instances : phase'[j] # "down" /\ b \in states'[j] <=> j = i
    BY <1>1, <2>1 DEF Holders
  <2>6. Holders'[b] = {i}  BY <2>5 DEF Holders
  <2>7. \A c \in Bots : c # b => Holders'[c] = Holders[c]  BY <1>1 DEF Holders
  <2>2. \A c \in Bots : Holders'[c] = IF c = b THEN {i} ELSE Holders[c]
    BY <2>6, <2>7
  <2>3. Holders' = [c \in Bots |-> IF c = b THEN {i} ELSE Holders[c]]
    BY <2>2 DEF Holders
  <2>4. Holders' = [Holders EXCEPT ![b] = {i}]  BY <2>3 DEF Holders
  <2> QED  BY <2>1, <2>4 DEF Owned!Acquire
<1> QED  BY <1>2, <1>3

(* What an instance had is free when it dies or has closed its sessions.   *)
LEMMA EndReleases ==
    ASSUME LockInv, NEW i \in Instances, NEW p \in {"down", "closed"},
           phase' = [phase EXCEPT ![i] = p], states' = [states EXCEPT ![i] = {}]
    PROVE  Owned!Release(i)
<1>1. \A j \in Instances : j # i => phase'[j] = phase[j] /\ states'[j] = states[j]
  BY DEF LockInv, Typed, TypeOK
<1>2. states'[i] = {}  BY DEF LockInv, Typed, TypeOK
<1>3. \A b \in Bots : Holders'[b] = Holders[b] \ {i}  BY <1>1, <1>2 DEF Holders
<1>4. Holders' = [b \in Bots |-> Holders[b] \ {i}]  BY <1>3 DEF Holders
<1> QED  BY <1>4 DEF Owned!Release

LEMMA StepOwned ==
    ASSUME Alone, AloneInv, [Next]_vars
    PROVE  [Owned!Next]_Holders
<1> USE DEF AloneInv, LockInv
<1>1. CASE UNCHANGED <<phase, states>>
  BY <1>1 DEF Holders
<1>2. ASSUME NEW i \in Instances, Fence(i) \/ Crash(i) \/ Exit(i)
      PROVE  Owned!Release(i)
  BY <1>2, EndReleases DEF Fence, Crash, Exit, Die, Forget
<1>3. ASSUME NEW i \in Instances, CloseSessions(i) PROVE Owned!Release(i)
  BY <1>3, EndReleases DEF CloseSessions
<1>4. ASSUME NEW i \in Instances, Start(i) PROVE UNCHANGED Holders
  <2>1. \A j \in Instances : /\ states'[j] = states[j]
                             /\ phase'[j] = phase[j] \/ (j = i /\ states[j] = {})
    BY <1>4 DEF Start, Typed, TypeOK, DownManagesNone
  <2> QED  BY <2>1 DEF Holders
<1>5. ASSUME NEW i \in Instances, Terminate(i) PROVE UNCHANGED Holders
  <2>1. \A j \in Instances : states'[j] = states[j] /\ (phase'[j] = "down" <=> phase[j] = "down")
    BY <1>5 DEF Terminate, Typed, TypeOK
  <2> QED  BY <2>1 DEF Holders
<1>6. ASSUME NEW i \in Instances, FinishRegister(i) PROVE FALSE
  BY <1>6 DEF FinishRegister, NobodyJoins, Alone, Orderly
<1>7. ASSUME NEW i \in Instances, NEW s \in Slots, InitFromStore(i, s)
      PROVE  (\E b \in Bots : Owned!Acquire(i, b)) \/ UNCHANGED Holders
  <2>1. CASE UNCHANGED states /\ UNCHANGED phase
    BY <2>1 DEF Holders
  <2>2. CASE OpenSession(i, s) /\ Manage(i, scan[i][s].bot)
    <3>1. scan[i][s].bot \in Bots  BY <2>2 DEF OpenSession, Typed, InHand
    <3>2. phase[i] \in {"up", "draining"}
      BY <2>2 DEF OpenSession, IdleWhenDown, ClosedForGood, Underway, Typed, TypeOK
    <3>3. owner[scan[i][s].bot] = i
      BY <2>2, <3>2 DEF OpenSession, ScansLocked, Holds, Alone
    <3> QED  BY <2>2, <3>1, <3>2, <3>3, OpenAcquires DEF OpenSession
  <2> QED
    BY <1>7, <2>1, <2>2
    DEF InitFromStore, TryLock, LookForState, OpenSession, EndScan, PassOver
<1>8. ASSUME NEW i \in Instances,
             Register(i) \/ Unlock(i) \/ \E s \in Slots : TryTakeover(i, s)
      PROVE  UNCHANGED <<phase, states>>
  BY <1>8 DEF Register, Unlock, TryTakeover
<1>9. ASSUME NEW b \in Bots, Expire(b) PROVE UNCHANGED <<phase, states>>
  BY <1>9 DEF Expire
<1>10. CASE UNCHANGED vars  BY <1>1, <1>10 DEF vars
<1> QED
  BY <1>1, <1>2, <1>3, <1>4, <1>5, <1>6, <1>7, <1>8, <1>9, <1>10 DEF Next, Owned!Next

(* With every lock extended in time, no registrations, no drain that       *)
(* outlasts the locks and no SIGTERM between the lock and the session of a *)
(* takeover, instances own bots as Ownership says: every session counted,  *)
(* a bot is never with two at a time.                                      *)
THEOREM TakeoverImplementsOwnership ==
    ASSUME Alone
    PROVE  Spec => OneSession
<1>1. Init => Owned!Init  BY DEF Init, Owned!Init, Holders
<1>2. Alone /\ AloneInv /\ [Next]_vars => [Owned!Next]_Holders  BY StepOwned
<1> QED  BY <1>1, <1>2, InitAlone, StepAlone, PTL DEF Spec, OneSession, Owned!Spec

(* So no two processes have a session of a bot at a time, whether they     *)
(* play, are about to leave or have shut down.                             *)
THEOREM SessionsAreExclusive ==
    ASSUME Alone
    PROVE  Spec => []Owned!Exclusive
<1>1. Owned!Init => Owned!Exclusive  BY DEF Owned!Init, Owned!Exclusive
<1>2. Owned!Exclusive /\ [Owned!Next]_Holders => Owned!Exclusive'
  <2> SUFFICES ASSUME Owned!Exclusive, [Owned!Next]_Holders PROVE Owned!Exclusive'  OBVIOUS
  <2>1. CASE UNCHANGED Holders  BY <2>1 DEF Owned!Exclusive
  <2>2. ASSUME NEW i \in Instances, Owned!Release(i) PROVE Owned!Exclusive'
    BY <2>2 DEF Owned!Exclusive, Owned!Release
  <2>3. ASSUME NEW i \in Instances, NEW b \in Bots, Owned!Acquire(i, b) PROVE Owned!Exclusive'
    <3>1. \A c \in Bots : Holders'[c] = IF c = b THEN {i} ELSE Holders[c]
      BY <2>3 DEF Owned!Acquire, Holders
    <3> QED  BY <3>1 DEF Owned!Exclusive
  <2> QED  BY <2>1, <2>2, <2>3 DEF Owned!Next
<1>3. Spec => OneSession  BY TakeoverImplementsOwnership
<1> QED  BY <1>1, <1>2, <1>3, PTL DEF OneSession, Owned!Spec

(* Where SIGTERM may come between the lock and the session of a takeover,  *)
(* two processes may have a session of a bot, but only once one of them is *)
(* past Shutdown's states.Range (orca.go:153) and about to exit.           *)
OverlapAtTheEnd ==
    \A b \in Bots, i, j \in Instances :
        i \in Holders[b] /\ j \in Holders[b] => i = j \/ "closed" \in {phase[i], phase[j]}

THEOREM OnlyTheBelatedOverlap ==
    ASSUME Orderly, "slow" \notin Faults
    PROVE  Spec => []OverlapAtTheEnd
<1>1. LockInv => OverlapAtTheEnd
  BY DEF LockInv, StatesLocked, Holds, Holders, OverlapAtTheEnd, Typed, TypeOK
<1> QED  BY <1>1, InitLocked, StepLocked, PTL DEF Spec

(***************************************************************************)
(* The fence.  Stated with every fault but lost events.                    *)
(***************************************************************************)
FenceInv == Typed /\ IdleWhenDown /\ DownManagesNone /\ FenceDue

(* An event of every key that goes reaches every instance that is up.      *)
LEMMA AllTold ==
    ASSUME "lost" \notin Faults, NEW gone \in SUBSET Bots, Announce(gone)
    PROVE  /\ events \subseteq events'
           /\ \A i \in Up, b \in gone : <<i, b>> \in events'
BY DEF Announce, Up

LEMMA StepFenced == "lost" \notin Faults /\ FenceInv /\ [Next]_vars => FenceInv'
<1> SUFFICES ASSUME "lost" \notin Faults, FenceInv, [Next]_vars PROVE FenceInv'  OBVIOUS
<1> USE DEF FenceInv
<1>1. Typed' /\ IdleWhenDown'  BY StepTyped, StepIdle
<1>2. CASE UNCHANGED vars
  BY <1>1, <1>2 DEF vars, DownManagesNone, FenceDue, Up
<1>3. ASSUME NEW i \in Instances, NEW b, Manage(i, b), phase[i] # "down",
             UNCHANGED <<phase, owner, events>>
      PROVE  DownManagesNone' /\ FenceDue'
  <2>1. \A j \in Instances : states'[j] = IF j = i THEN states[j] \cup {b} ELSE states[j]
    BY <1>3 DEF Manage, Typed, TypeOK
  <2>2. late \subseteq late' /\ (owner[b] = i \/ <<i, b>> \in late')
    BY <1>3 DEF Manage
  <2>3. FenceDue'  BY <1>3, <2>1, <2>2 DEF FenceDue, Up
  <2> QED  BY <1>3, <2>1, <2>3 DEF DownManagesNone
<1>4. ASSUME NEW i \in Instances, Fence(i) \/ Crash(i) \/ Exit(i)
      PROVE  DownManagesNone' /\ FenceDue'
  <2> USE DEF Fence, Crash, Exit, Die, Forget, Orphan
  <2>1. \A j \in Instances : /\ phase'[j] = IF j = i THEN "down" ELSE phase[j]
                             /\ states'[j] = IF j = i THEN {} ELSE states[j]
    BY <1>4 DEF Typed, TypeOK
  <2>2. \A b \in Bots : owner[b] # i => owner'[b] = owner[b]  BY <1>4
  <2>3. \A j \in Instances, b \in Bots :
           j # i => /\ <<j, b>> \in events => <<j, b>> \in events'
                    /\ <<j, b>> \in late => <<j, b>> \in late'
    BY <1>4
  <2>4. FenceDue'  BY <2>1, <2>2, <2>3 DEF FenceDue, Up, Typed, TypeOK
  <2> QED  BY <2>1, <2>4 DEF DownManagesNone
<1>5. ASSUME NEW i \in Instances, Start(i) PROVE DownManagesNone' /\ FenceDue'
  <2>1. \A j \in Instances : phase'[j] = IF j = i THEN "up" ELSE phase[j]
    BY <1>5 DEF Start, Typed, TypeOK
  <2>2. states[i] = {}  BY <1>5 DEF Start, DownManagesNone
  <2> QED  BY <1>5, <2>1, <2>2 DEF Start, DownManagesNone, FenceDue, Up
<1>6. ASSUME NEW i \in Instances, Register(i) PROVE DownManagesNone' /\ FenceDue'
  BY <1>6 DEF Register, DownManagesNone, FenceDue, Up
<1>7. ASSUME NEW i \in Instances, FinishRegister(i) PROVE DownManagesNone' /\ FenceDue'
  <2>1. phase[i] # "down"  BY <1>7 DEF FinishRegister, IdleWhenDown
  <2>2. CASE Manage(i, joining[i])
    BY <1>3, <1>7, <2>1, <2>2 DEF FinishRegister
  <2>3. CASE UNCHANGED <<bots, states, late>>
    BY <1>7, <2>3 DEF FinishRegister, DownManagesNone, FenceDue, Up
  <2> QED  BY <1>7, <2>2, <2>3 DEF FinishRegister
<1>8. ASSUME NEW i \in Instances, Terminate(i) PROVE DownManagesNone' /\ FenceDue'
  <2>1. \A j \in Instances : phase'[j] = IF j = i THEN "draining" ELSE phase[j]
    BY <1>8 DEF Terminate, Typed, TypeOK
  <2>2. \A j \in Instances, b \in Bots : j # i /\ <<j, b>> \in events => <<j, b>> \in events'
    BY <1>8 DEF Terminate
  <2> QED  BY <1>8, <2>1, <2>2 DEF Terminate, DownManagesNone, FenceDue, Up, Typed, TypeOK
<1>9. ASSUME NEW i \in Instances, CloseSessions(i) PROVE DownManagesNone' /\ FenceDue'
  <2>1. \A j \in Instances : /\ phase'[j] = IF j = i THEN "closed" ELSE phase[j]
                             /\ states'[j] = IF j = i THEN {} ELSE states[j]
    BY <1>9 DEF CloseSessions, Typed, TypeOK
  <2>2. \A j \in Instances, b \in Bots : j # i /\ <<j, b>> \in late => <<j, b>> \in late'
    BY <1>9 DEF CloseSessions
  <2> QED  BY <1>9, <2>1, <2>2 DEF CloseSessions, DownManagesNone, FenceDue, Up, Typed, TypeOK
<1>10. ASSUME NEW i \in Instances, Unlock(i) PROVE DownManagesNone' /\ FenceDue'
  <2> USE DEF Unlock, CanUnlock
  <2>1. \A b \in Bots : owner[b] # i => owner'[b] = owner[b]  BY <1>10
  <2>2. events \subseteq events'  BY <1>10, AllTold
  <2>3. FenceDue'  BY <1>10, <2>1, <2>2 DEF FenceDue, Up, Typed, TypeOK
  <2> QED  BY <1>10, <2>3 DEF DownManagesNone
<1>11. ASSUME NEW b \in Bots, Expire(b) PROVE DownManagesNone' /\ FenceDue'
  <2> USE DEF Expire, AnnounceExpired
  <2>1. \A c \in Bots : c # b => owner'[c] = owner[c]  BY <1>11 DEF Typed, TypeOK
  <2>2. events \subseteq events' /\ \A i \in Up : <<i, b>> \in events'
    BY <1>11, AllTold
  <2>3. FenceDue'  BY <1>11, <2>1, <2>2 DEF FenceDue, Up, Typed, TypeOK
  <2> QED  BY <1>11, <2>3 DEF DownManagesNone
<1>12. ASSUME NEW i \in Instances, NEW s \in Slots, TryTakeover(i, s)
       PROVE  DownManagesNone' /\ FenceDue'
  <2> USE DEF TryTakeover, NotMine
  <2>1. PICK b \in Bots : b \notin states[i] /\ events' = events \ {<<i, b>>}
    BY <1>12
  <2>2. FenceDue'  BY <1>12, <2>1 DEF FenceDue, Up
  <2> QED  BY <1>12, <2>2 DEF DownManagesNone
<1>13. ASSUME NEW i \in Instances, NEW s \in Slots, InitFromStore(i, s)
       PROVE  DownManagesNone' /\ FenceDue'
  <2>1. phase[i] # "down"
    BY <1>13 DEF InitFromStore, TryLock, LookForState, OpenSession, EndScan, IdleWhenDown
  <2>2. CASE TryLock(i, s)
    <3>1. \A b \in Bots : owner[b] # NoOwner => owner'[b] = owner[b]
      BY <2>2 DEF TryLock, LockFree, Typed, TypeOK
    <3> QED
      BY <2>2, <3>1, TakeoverConstants DEF TryLock, DownManagesNone, FenceDue, Up, Typed, TypeOK
  <2>3. CASE LookForState(i, s)
    BY <2>3 DEF LookForState, DownManagesNone, FenceDue, Up
  <2>4. CASE OpenSession(i, s) /\ Manage(i, scan[i][s].bot)
    BY <1>3, <1>13, <2>4, <2>1 DEF OpenSession
  <2>5. CASE OpenSession(i, s) /\ PassOver(i)
    BY <2>5 DEF OpenSession, PassOver, DownManagesNone, FenceDue, Up
  <2>6. CASE EndScan(i, s)
    BY <2>6 DEF EndScan, DownManagesNone, FenceDue, Up
  <2> QED  BY <1>13, <2>2, <2>3, <2>4, <2>5, <2>6 DEF InitFromStore, OpenSession
<1> QED
  BY <1>1, <1>2, <1>4, <1>5, <1>6, <1>7, <1>8, <1>9, <1>10, <1>11, <1>12, <1>13 DEF Next

(* An instance that lost the lock of a bot it stored under the lock has    *)
(* the event on its way that ends it (handleKeyDel).                       *)
THEOREM LostLockIsFenced ==
    ASSUME "lost" \notin Faults
    PROVE  Spec => []FenceDue
<1>1. Init => FenceInv
  BY InitTyped DEF Init, FenceInv, IdleWhenDown, DownManagesNone, FenceDue, Up, NoScan, Scan
<1>2. FenceInv => FenceDue  BY DEF FenceInv
<1> QED  BY <1>1, <1>2, StepFenced, PTL DEF Spec

(***************************************************************************)
(* The successor.  Stated with every fault but lost events, sessions that  *)
(* cannot be opened and queries that fail: after those nothing is tried    *)
(* again.                                                                  *)
(***************************************************************************)
Persistent == Faults \cap {"lost", "session", "query"} = {}

(* A call that is over, or between two bots, has none in hand.             *)
AtRest ==
    \A i \in Instances, s \in Slots :
        /\ scan[i][s].step = "idle" => scan[i][s].todo = {}
        /\ scan[i][s].step \in {"idle", "lock"} => scan[i][s].bot = NoBot

(* A process that ended left its locks to expire.                          *)
DownHasNoLock == \A b \in Bots : owner[b] \in Instances => phase[owner[b]] # "down"

DueInv ==
    Typed /\ IdleWhenDown /\ AtRest /\ DownHasNoLock /\ Stored \subseteq bots /\ TakeoverDue

(* An instance will look at a bot; it manages it, or is about to.          *)
WillLook(i, b) == <<i, b>> \in events \/ \E s \in Slots : b \in scan[i][s].todo
Keeps(i, b)    == b \in states[i] \/ \E s \in Slots : scan[i][s].bot = b

Reached(b) ==
    \A i \in Up : (owner[b] = NoOwner => WillLook(i, b)) /\ (owner[b] = i => Keeps(i, b))

LEMMA DueParts ==
    /\ TakeoverDue <=> \A b \in Stored : Reached(b)
    /\ TakeoverDue' <=> \A b \in Stored : Reached(b)'
<1>1. TakeoverDue <=> \A b \in Stored : Reached(b)
  BY DEF TakeoverDue, Reached, WillLook, Keeps
<1>2. TakeoverDue' <=> \A b \in Stored : Reached(b)'
  BY DEF TakeoverDue, Reached, WillLook, Keeps
<1> QED  BY <1>1, <1>2

(* It is enough that nobody who is up forgets a bot, unless its lock is    *)
(* taken by one that keeps it.                                             *)
LEMMA DueKept ==
    ASSUME TakeoverDue, NEW b \in Stored, \A i \in Up' : i \in Up,
           \A i \in Up' : Keeps(i, b) => Keeps(i, b)',
           \/ /\ owner'[b] = owner[b]
              /\ \A i \in Up' : owner[b] = NoOwner /\ WillLook(i, b) => WillLook(i, b)'
           \/ owner'[b] = Dead
           \/ owner'[b] = NoOwner /\ \A i \in Up' : WillLook(i, b)'
           \/ \E k \in Instances : owner'[b] = k /\ Keeps(k, b)'
    PROVE  Reached(b)'
<1>1. Reached(b)  BY DueParts
<1>2. \A i \in Up' : i \in Instances  BY DEF Up
<1> SUFFICES ASSUME NEW i \in Up'
             PROVE  (owner'[b] = NoOwner => WillLook(i, b)') /\ (owner'[b] = i => Keeps(i, b)')
  BY DEF Reached
<1> QED  BY <1>1, <1>2, TakeoverConstants DEF Reached

LEMMA InitDue == Init => DueInv
BY InitTyped, TakeoverConstants
   DEF Init, DueInv, IdleWhenDown, AtRest, DownHasNoLock, TakeoverDue, Up, NoScan, Scan

(* One call of initFromStore goes on.                                      *)
LEMMA ScanDue ==
    ASSUME Persistent, DueInv, NEW i \in Instances, NEW s \in Slots, InitFromStore(i, s)
    PROVE  AtRest' /\ DownHasNoLock' /\ TakeoverDue'
<1> USE DEF DueInv
<1> DEFINE Bot == scan[i][s].bot
           Todo == scan[i][s].todo
<1>1. Todo \in SUBSET Bots /\ phase[i] # "down"
  BY DEF Typed, TypeOK, InitFromStore, TryLock, LookForState, OpenSession, EndScan, IdleWhenDown
<1>2. ASSUME NEW next, Proceed(i, s, next)
      PROVE  \A j \in Instances, r \in Slots :
                scan'[j][r] = IF j = i /\ r = s THEN next ELSE scan[j][r]
  BY <1>2 DEF Proceed, Typed, TypeOK
<1>3. ASSUME NEW todo, NEW b, NEW step
      PROVE  /\ Scan(todo, b, step).step = step /\ Scan(todo, b, step).bot = b
             /\ Scan(todo, b, step).todo = todo
  BY DEF Scan
<1>4. UNCHANGED <<phase, events, bots>> /\ \A j \in Instances : states[j] \subseteq states'[j]
  BY DEF InitFromStore, TryLock, LookForState, OpenSession, EndScan, Manage, PassOver, Typed, TypeOK
<1>5. Stored \subseteq Bots  BY DEF Typed, TypeOK
<1>6. CASE TryLock(i, s)
  <2> USE DEF TryLock
  <2>1. PICK b \in Todo :
          \/ phase[i] = "up" /\ LockFree(i, b) /\ Proceed(i, s, Scan(Todo \ {b}, b, "look"))
          \/ /\ phase[i] # "up" \/ owner[b] # NoOwner
             /\ Proceed(i, s, Scan(Todo \ {b}, NoBot, "lock")) /\ UNCHANGED owner
    BY <1>6 DEF Persistent
  <2>2. b \in Bots /\ Bot = NoBot  BY <1>1, <1>6 DEF AtRest
  <2>3. ASSUME NEW c \in Stored
        PROVE  \A j \in Up : Keeps(j, c) => Keeps(j, c)'
    BY <1>2, <1>4, <1>5, <2>1, <2>2, <2>3, TakeoverConstants DEF Keeps, Up
  <2>4. ASSUME NEW c \in Stored, c # b \/ owner[c] # NoOwner \/ phase[i] # "up"
        PROVE  \A j \in Up : owner[c] = NoOwner /\ WillLook(j, c) => WillLook(j, c)'
    <3>1. \A r \in Slots : r # s => scan'[i][r] = scan[i][r]  BY <1>2, <2>1
    <3>2. scan'[i][s].todo = Todo \ {b}  BY <1>2, <1>3, <2>1
    <3>3. \A j \in Instances : j # i => \A r \in Slots : scan'[j][r] = scan[j][r]
      BY <1>2, <2>1
    <3> QED  BY <1>4, <2>4, <3>1, <3>2, <3>3 DEF WillLook, Up
  <2>5. CASE LockFree(i, b) /\ phase[i] = "up" /\ Proceed(i, s, Scan(Todo \ {b}, b, "look"))
    <3>1. \A c \in Bots : owner'[c] = IF c = b THEN i ELSE owner[c]
      BY <2>2, <2>5 DEF LockFree, Typed, TypeOK
    <3>2. \A j \in Instances, r \in Slots :
             scan'[j][r] = IF j = i /\ r = s THEN Scan(Todo \ {b}, b, "look") ELSE scan[j][r]
      BY <1>2, <2>5
    <3>3. AtRest'  BY <1>3, <3>2 DEF AtRest
    <3>4. DownHasNoLock'  BY <1>1, <1>4, <3>1 DEF DownHasNoLock
    <3>5. Keeps(i, b)'  BY <1>3, <3>2 DEF Keeps
    <3>6. TakeoverDue'
      BY <1>4, <1>5, <2>3, <2>4, <3>1, <3>5, DueKept, DueParts DEF Up
    <3> QED  BY <3>3, <3>4, <3>6
  <2>6. CASE /\ phase[i] # "up" \/ owner[b] # NoOwner
             /\ Proceed(i, s, Scan(Todo \ {b}, NoBot, "lock")) /\ UNCHANGED owner
    <3>1. \A j \in Instances, r \in Slots :
             scan'[j][r] = IF j = i /\ r = s THEN Scan(Todo \ {b}, NoBot, "lock") ELSE scan[j][r]
      BY <1>2, <2>6
    <3>2. AtRest'  BY <1>3, <3>1 DEF AtRest
    <3>3. DownHasNoLock'  BY <1>4, <2>6 DEF DownHasNoLock
    <3>4. \A c \in Stored : c # b \/ owner[c] # NoOwner \/ phase[i] # "up"  BY <2>6
    <3>5. TakeoverDue'
      BY <1>4, <2>3, <2>4, <2>6, <3>4, DueKept, DueParts DEF Up
    <3> QED  BY <3>2, <3>3, <3>5
  <2> QED  BY <2>1, <2>5, <2>6
<1>7. ASSUME UNCHANGED owner,
             NEW b \in Bots \cup {NoBot}, NEW step \in {"idle", "lock", "look", "open"},
             Proceed(i, s, Scan(Todo, b, step)),
             step \in {"idle", "lock"} => b = NoBot, step = "idle" => Todo = {},
             b = Bot \/ Bot = NoBot \/ Bot \in states'[i]
      PROVE  AtRest' /\ DownHasNoLock' /\ TakeoverDue'
  <2>1. \A j \in Instances, r \in Slots :
           scan'[j][r] = IF j = i /\ r = s THEN Scan(Todo, b, step) ELSE scan[j][r]
    BY <1>2, <1>7
  <2>2. AtRest'  BY <1>3, <1>7, <2>1 DEF AtRest
  <2>3. DownHasNoLock'  BY <1>4, <1>7 DEF DownHasNoLock
  <2>4. ASSUME NEW c \in Stored, NEW j \in Up
        PROVE  (Keeps(j, c) => Keeps(j, c)') /\ (WillLook(j, c) => WillLook(j, c)')
    <3>1. j \in Instances /\ c # NoBot  BY <1>5, TakeoverConstants DEF Up
    <3>2. \A r \in Slots : scan'[j][r].todo = scan[j][r].todo  BY <1>3, <2>1, <3>1
    <3>3. \A r \in Slots : scan[j][r].bot = c => scan'[j][r].bot = c \/ c \in states'[j]
      BY <1>3, <1>7, <2>1, <3>1
    <3> QED  BY <1>4, <3>1, <3>2, <3>3 DEF Keeps, WillLook
  <2>5. TakeoverDue'
    BY <1>4, <1>7, <2>4, DueKept, DueParts DEF Up
  <2> QED  BY <2>2, <2>3, <2>5
<1>8. CASE LookForState(i, s)
  <2> USE DEF LookForState
  <2>1. Bot \in Bots  BY <1>8 DEF Typed, InHand
  <2>2. CASE Bot \in states[i]
    BY <1>4, <1>7, <1>8, <2>2
  <2>3. CASE Bot \notin states[i]
    BY <1>7, <1>8, <2>1, <2>3
  <2> QED  BY <2>2, <2>3
<1>9. CASE OpenSession(i, s)
  <2>1. Manage(i, Bot)  BY <1>9 DEF OpenSession, Persistent
  <2>2. Bot \in states'[i]  BY <2>1 DEF Manage, Typed, TypeOK
  <2> QED  BY <1>7, <1>9, <2>2 DEF OpenSession
<1>10. CASE EndScan(i, s)
  <2>1. Bot = NoBot /\ Todo = {}  BY <1>10 DEF EndScan, AtRest
  <2> QED  BY <1>7, <1>10, <2>1 DEF EndScan, NoScan
<1> QED  BY <1>6, <1>8, <1>9, <1>10 DEF InitFromStore

LEMMA StepDue == Persistent /\ DueInv /\ [Next]_vars => DueInv'
<1> SUFFICES ASSUME Persistent, DueInv, [Next]_vars PROVE DueInv'  OBVIOUS
<1> USE DEF DueInv
<1>1. Typed' /\ IdleWhenDown'  BY StepTyped, StepIdle
<1>2. Stored \subseteq bots'
  BY DEF Next, vars, Start, Fence, Register, FinishRegister, Crash, Terminate, CloseSessions, Unlock,
         Exit, InitFromStore, TryLock, LookForState, OpenSession, EndScan, TryTakeover, Expire
<1>3. Stored \subseteq Bots /\ "lost" \notin Faults  BY DEF Typed, TypeOK, Persistent
<1>4. CASE UNCHANGED vars
  BY <1>1, <1>4 DEF vars, AtRest, DownHasNoLock, TakeoverDue, Up
<1>5. ASSUME NEW i \in Instances, Start(i) PROVE AtRest' /\ DownHasNoLock' /\ TakeoverDue'
  <2> USE DEF Start
  <2>1. \A j \in Instances : phase'[j] = IF j = i THEN "up" ELSE phase[j]
    BY <1>5 DEF Typed, TypeOK
  <2>2. \A j \in Instances, r \in Slots :
           scan'[j][r] = IF j = i /\ r = InitSlot THEN Select ELSE scan[j][r]
    BY <1>5, TakeoverConstants DEF Typed, TypeOK
  <2>3. AtRest' /\ DownHasNoLock'
    BY <1>5, <2>1, <2>2 DEF AtRest, DownHasNoLock, Select, Scan
  <2>4. \A b \in Stored : WillLook(i, b)'
    BY <2>2, TakeoverConstants DEF WillLook, Select, Scan
  <2>5. \A b \in Stored, j \in Instances :
           j # i => (WillLook(j, b) => WillLook(j, b)') /\ (Keeps(j, b) => Keeps(j, b)')
    BY <1>5, <2>2 DEF WillLook, Keeps
  <2>6. \A b \in Stored : owner[b] # i  BY <1>3, <1>5 DEF DownHasNoLock
  <2>7. TakeoverDue'
    BY <1>5, <2>1, <2>4, <2>5, <2>6, DueParts DEF Up, Reached
  <2> QED  BY <2>3, <2>7
<1>6. ASSUME NEW i \in Instances, Fence(i) \/ Crash(i) \/ Exit(i)
      PROVE  AtRest' /\ DownHasNoLock' /\ TakeoverDue'
  <2> USE DEF Fence, Crash, Exit, Die, Forget, Orphan
  <2>1. \A j \in Instances : /\ phase'[j] = IF j = i THEN "down" ELSE phase[j]
                             /\ j # i => states'[j] = states[j]
    BY <1>6 DEF Typed, TypeOK
  <2>2. \A j \in Instances, r \in Slots : scan'[j][r] = IF j = i THEN NoScan ELSE scan[j][r]
    BY <1>6 DEF Typed, TypeOK
  <2>3. \A b \in Bots : owner'[b] = IF owner[b] = i THEN Dead ELSE owner[b]  BY <1>6
  <2>4. AtRest'  BY <2>2 DEF AtRest, NoScan, Scan
  <2>5. DownHasNoLock'  BY <2>1, <2>3, TakeoverConstants DEF DownHasNoLock
  <2>6. \A b \in Stored, j \in Instances :
           j # i => (WillLook(j, b) => WillLook(j, b)') /\ (Keeps(j, b) => Keeps(j, b)')
    BY <1>6, <2>1, <2>2 DEF WillLook, Keeps
  <2>7. \A j \in Up' : j \in Up /\ j # i  BY <2>1 DEF Up
  <2>8. TakeoverDue'
    BY <1>3, <2>3, <2>6, <2>7, DueKept, DueParts DEF Up
  <2> QED  BY <2>4, <2>5, <2>8
<1>7. ASSUME NEW i \in Instances, Register(i) \/ FinishRegister(i)
      PROVE  AtRest' /\ DownHasNoLock' /\ TakeoverDue'
  <2> USE DEF Register, FinishRegister, Manage
  <2>1. \A j \in Instances : states[j] \subseteq states'[j]  BY <1>7 DEF Typed, TypeOK
  <2>2. UNCHANGED <<phase, owner, events, scan>>  BY <1>7
  <2>3. \A b \in Stored, j \in Instances :
           (WillLook(j, b) => WillLook(j, b)') /\ (Keeps(j, b) => Keeps(j, b)')
    BY <2>1, <2>2 DEF WillLook, Keeps
  <2>4. TakeoverDue'  BY <2>2, <2>3, DueParts DEF Up, Reached
  <2> QED  BY <2>2, <2>4 DEF AtRest, DownHasNoLock
<1>8. ASSUME NEW i \in Instances, Terminate(i) \/ CloseSessions(i)
      PROVE  AtRest' /\ DownHasNoLock' /\ TakeoverDue'
  <2> USE DEF Terminate, CloseSessions
  <2>1. \A j \in Instances : /\ j # i => phase'[j] = phase[j] /\ states'[j] = states[j]
                             /\ phase[j] # "down" => phase'[j] # "down"
    BY <1>8 DEF Typed, TypeOK
  <2>2. \A j \in Up' : j \in Up /\ j # i  BY <1>8, <2>1 DEF Up, Typed, TypeOK
  <2>3. \A b \in Stored, j \in Instances :
           j # i => (WillLook(j, b) => WillLook(j, b)') /\ (Keeps(j, b) => Keeps(j, b)')
    BY <1>8, <2>1 DEF WillLook, Keeps
  <2>4. UNCHANGED <<owner, scan>>  BY <1>8
  <2>5. TakeoverDue'  BY <2>2, <2>3, <2>4, DueKept, DueParts DEF Up
  <2>6. DownHasNoLock'  BY <2>1, <2>4 DEF DownHasNoLock
  <2> QED  BY <2>4, <2>5, <2>6 DEF AtRest
<1>9. ASSUME NEW b \in Bots, Announce({b}), owner' = [owner EXCEPT ![b] = NoOwner],
             UNCHANGED <<phase, states, scan>>
      PROVE  AtRest' /\ DownHasNoLock' /\ TakeoverDue'
  <2>1. \A c \in Bots : owner'[c] = IF c = b THEN NoOwner ELSE owner[c]
    BY <1>9 DEF Typed, TypeOK
  <2>2. events \subseteq events' /\ \A i \in Up : <<i, b>> \in events'
    BY <1>3, <1>9, AllTold
  <2>3. \A c \in Stored, j \in Instances :
           (WillLook(j, c) => WillLook(j, c)') /\ (Keeps(j, c) => Keeps(j, c)')
    BY <1>9, <2>2 DEF WillLook, Keeps
  <2>4. \A i \in Up : WillLook(i, b)'  BY <2>2 DEF WillLook
  <2>5. TakeoverDue'
    BY <1>3, <1>9, <2>1, <2>3, <2>4, DueKept, DueParts DEF Up
  <2>6. DownHasNoLock'  BY <1>9, <2>1, TakeoverConstants DEF DownHasNoLock
  <2> QED  BY <1>9, <2>5, <2>6 DEF AtRest
<1>10. ASSUME NEW i \in Instances, NEW s \in Slots, TryTakeover(i, s)
       PROVE  AtRest' /\ DownHasNoLock' /\ TakeoverDue'
  <2> USE DEF TryTakeover
  <2>1. \A j \in Instances, r \in Slots :
           scan'[j][r] = IF j = i /\ r = s THEN Select ELSE scan[j][r]
    BY <1>10 DEF Proceed, Persistent, Typed, TypeOK
  <2>2. \A j \in Instances, b \in Bots : j # i /\ <<j, b>> \in events => <<j, b>> \in events'
    BY <1>10
  <2>3. scan[i][s].todo = {} /\ scan[i][s].bot = NoBot  BY <1>10 DEF AtRest
  <2>4. AtRest'  BY <2>1 DEF AtRest, Select, Scan
  <2>5. \A b \in Stored : WillLook(i, b)'  BY <2>1 DEF WillLook, Select, Scan
  <2>6. \A b \in Stored, j \in Instances :
           (WillLook(j, b) => WillLook(j, b)') /\ (Keeps(j, b) => Keeps(j, b)')
    BY <1>3, <1>10, <2>1, <2>2, <2>3, <2>5, TakeoverConstants DEF WillLook, Keeps
  <2>7. TakeoverDue'  BY <1>10, <2>6, DueParts DEF Up, Reached
  <2> QED  BY <1>10, <2>4, <2>7 DEF DownHasNoLock
<1>11. ASSUME NEW i \in Instances, Unlock(i) PROVE AtRest' /\ DownHasNoLock' /\ TakeoverDue'
  BY <1>9, <1>11 DEF Unlock
<1>12. ASSUME NEW b \in Bots, Expire(b) PROVE AtRest' /\ DownHasNoLock' /\ TakeoverDue'
  BY <1>9, <1>12 DEF Expire, AnnounceExpired
<1> QED
  BY <1>1, <1>2, <1>4, <1>5, <1>6, <1>7, <1>8, <1>10, <1>11, <1>12, ScanDue DEF Next

(* No stored bot is forgotten: while nobody has its lock every instance    *)
(* that is up is to look at it, and one that takes it manages it           *)
(* (Orca.Init subscribes before initFromStore; handleKeyDel).              *)
THEOREM NoBotForgotten ==
    ASSUME Persistent
    PROVE  Spec => []TakeoverDue
<1>1. DueInv => TakeoverDue  BY DEF DueInv
<1> QED  BY <1>1, InitDue, StepDue, PTL DEF Spec
=============================================================================
