--------------------------- MODULE QueueOrderProofs ---------------------------
(***************************************************************************)
(* How far past its limit a queue can get, with any tracks, requests,      *)
(* batches and limits.                                                     *)
(***************************************************************************)
EXTENDS QueueOrder, FiniteSetTheorems, TLAPS

Rows      == Cardinality(queue)
SavedRows == Cardinality(DOMAIN playlist)
Room      == QueueSizeLimit + (Cardinality(Clients) - 1) * LargestBatch

(* The tracks a request inserts.                                           *)
Brings(c) == IF edit[c].op = "play" THEN edit[c].n ELSE SavedRows

(* A request that has counted the queue and will insert.                   *)
Waits(c) ==
    \/ edit[c].op = "play" /\ edit[c].step \in {"keys", "insert"}
    \/ /\ edit[c].op = "load" /\ edit[c].step \in {"max", "preview", "insert"}
       /\ SavedRows # 0 /\ edit[c].qlen + SavedRows <= QueueSizeLimit

Pending == {c \in Clients : Waits(c)}

LikeEdit(e) ==
    [op : {e.op}, step : {e.step}, n : Nat, pos : {e.pos}, qlen : Nat,
     range : {e.range}, qmax : {e.qmax}]

(* What an edit always is; a load about to insert has passed the check.    *)
EditOK(e, saved) ==
    /\ e \in LikeEdit(e)
    /\ e.op = "play" => e.n \in BatchSizes
    /\ e.step = "copy" => e.op = "save"
    /\ e.step = "keys" => e.op = "play"
    /\ e.step \in {"max", "preview"} => e.op = "load"
    /\ e.op = "load" /\ e.step = "insert" => saved # 0 /\ e.qlen + saved <= QueueSizeLimit

Typed ==
    /\ queue \subseteq Tracks /\ DOMAIN playlist \subseteq Tracks
    /\ unused \subseteq Tracks
    /\ edit = [c \in Clients |-> edit[c]]
    /\ \A c \in Clients : EditOK(edit[c], SavedRows)

(* There is room for what the requests under way bring: the last to count  *)
(* found room for itself, and each of the others brings a batch at most.   *)
RoomLeft ==
    \/ Pending = {} /\ Rows <= Room
    \/ \E c \in Pending : Rows + Brings(c) + (Cardinality(Pending) - 1) * LargestBatch <= Room

OvershootInv == Typed /\ RoomLeft

(***************************************************************************)
(* Numbers.                                                                *)
(***************************************************************************)

LEMMA Counting ==
    ASSUME Typed
    PROVE  /\ Cardinality(Clients) \in Nat \ {0}
           /\ Rows \in Nat /\ IsFiniteSet(queue)
           /\ SavedRows \in Nat /\ IsFiniteSet(DOMAIN playlist)
           /\ IsFiniteSet(Pending)
           /\ Cardinality(Pending) \in 0 .. Cardinality(Clients)
<1>1. IsFiniteSet(queue) /\ IsFiniteSet(DOMAIN playlist)
  BY QueueConstants, FS_Subset DEF Typed
<1>2. Pending \subseteq Clients  BY DEF Pending
<1>3. IsFiniteSet(Pending) /\ Cardinality(Pending) <= Cardinality(Clients)
  BY <1>2, QueueConstants, FS_Subset
<1>4. Cardinality(Clients) # 0  BY QueueConstants, FS_EmptySet
<1> QED
  BY <1>1, <1>3, <1>4, QueueConstants, FS_CardinalityType DEF Rows, SavedRows

LEMMA CountingAfter ==
    ASSUME Typed'
    PROVE  /\ Rows' \in Nat
           /\ SavedRows' \in Nat
           /\ IsFiniteSet(Pending')
           /\ Cardinality(Pending') \in 0 .. Cardinality(Clients)
<1>1. IsFiniteSet(queue') /\ IsFiniteSet(DOMAIN playlist')
  BY QueueConstants, FS_Subset DEF Typed
<1>2. Pending' \subseteq Clients  BY DEF Pending
<1>3. IsFiniteSet(Pending') /\ Cardinality(Pending') <= Cardinality(Clients)
  BY <1>2, QueueConstants, FS_Subset
<1> QED
  BY <1>1, <1>3, QueueConstants, FS_CardinalityType DEF Rows, SavedRows

LEMMA LargestIsLargest ==
    ASSUME NEW saved \in Nat
    PROVE  LET largest == Max(BatchSizes \cup {saved} \cup {0}) IN
           /\ largest \in Nat /\ largest \in BatchSizes \cup {saved} \cup {0}
           /\ \A n \in BatchSizes : n <= largest
           /\ saved <= largest
<1> DEFINE S == BatchSizes \cup {saved} \cup {0}
<1>1. PICK large \in BatchSizes : \A n \in BatchSizes : n <= large  BY QueueConstants
<1>2. S \subseteq Nat
  <2>1. BatchSizes \subseteq Nat  BY QueueConstants
  <2> QED  BY <2>1
<1>3. \E x \in S : \A y \in S : x >= y
  <2>1. CASE saved > large  BY <2>1, <1>1, <1>2
  <2>2. CASE ~(saved > large)  BY <2>2, <1>1, <1>2
  <2> QED  BY <2>1, <2>2
<1>4. Max(S) \in S /\ \A y \in S : Max(S) >= y  BY <1>3 DEF Max
<1> QED  BY <1>2, <1>4

LEMMA LargestNow ==
    ASSUME Typed
    PROVE  /\ LargestBatch \in Nat /\ LargestBatch \in BatchSizes \cup {SavedRows} \cup {0}
           /\ \A n \in BatchSizes : n <= LargestBatch
           /\ SavedRows <= LargestBatch
BY Counting, LargestIsLargest DEF LargestBatch, SavedRows

LEMMA LargestAfter ==
    ASSUME Typed'
    PROVE  /\ LargestBatch' \in Nat
           /\ \A n \in BatchSizes : n <= LargestBatch'
           /\ SavedRows' <= LargestBatch'
BY CountingAfter, LargestIsLargest DEF LargestBatch, SavedRows

LEMMA BringsOneBatch ==
    ASSUME Typed, NEW c \in Clients
    PROVE  Brings(c) \in 0 .. LargestBatch
BY Counting, LargestNow, QueueConstants DEF Brings, Typed, EditOK

LEMMA TimesOneMore ==
    ASSUME NEW i \in Int, NEW b \in Nat
    PROVE  (i + 1) * b = i * b + b
OBVIOUS

LEMMA TimesMonotone ==
    ASSUME NEW i \in Int, NEW j \in Int, NEW b \in Nat, i <= j
    PROVE  i * b <= j * b
OBVIOUS

LEMMA TimesMonotoneRight ==
    ASSUME NEW i \in Nat, NEW b \in Nat, NEW d \in Nat, b <= d
    PROVE  i * b <= i * d
OBVIOUS

LEMMA TimesSplit ==
    ASSUME NEW i \in Int, NEW j \in Int, NEW b \in Nat
    PROVE  (i + j) * b = i * b + j * b
OBVIOUS

LEMMA TimesIsInt ==
    ASSUME NEW i \in Int, NEW b \in Nat
    PROVE  i * b \in Int
OBVIOUS

(***************************************************************************)
(* How one request that moves disturbs the room that is left.              *)
(***************************************************************************)

(* Only c changes its edit, and no playlist is saved.                      *)
OnlyMoves(c) ==
    /\ \A d \in Clients \ {c} : edit'[d] = edit[d]
    /\ playlist' = playlist

LEMMA OthersWait ==
    ASSUME NEW c \in Clients, OnlyMoves(c)
    PROVE  /\ \A d \in Clients \ {c} : (Waits(d) <=> Waits(d)') /\ Brings(d)' = Brings(d)
           /\ LargestBatch' = LargestBatch
           /\ Room' = Room
           /\ SavedRows' = SavedRows
<1>1. SavedRows' = SavedRows /\ LargestBatch' = LargestBatch
  BY DEF OnlyMoves, SavedRows, LargestBatch
<1>2. Room' = Room  BY <1>1 DEF Room
<1>3. \A d \in Clients \ {c} : Waits(d) <=> Waits(d)'  BY <1>1 DEF OnlyMoves, Waits
<1>4. \A d \in Clients \ {c} : Brings(d)' = Brings(d)  BY <1>1 DEF OnlyMoves, Brings
<1> QED  BY <1>1, <1>2, <1>3, <1>4

(* A step of a request that neither joins nor leaves those that wait.      *)
LEMMA Stays ==
    ASSUME OvershootInv, Typed', NEW c \in Clients, OnlyMoves(c),
           Waits(c) <=> Waits(c)', Waits(c) => Brings(c)' = Brings(c),
           Rows' <= Rows
    PROVE  RoomLeft'
<1>1. Pending' = Pending  BY OthersWait DEF Pending
<1>2. \A d \in Pending : Brings(d)' = Brings(d)  BY OthersWait DEF Pending
<1>3. Rows \in Nat /\ Rows' \in Nat  BY Counting, CountingAfter DEF OvershootInv
<1>4. LargestBatch' = LargestBatch /\ Room' = Room  BY OthersWait
<1>5. LargestBatch \in Nat /\ Room \in Int /\ Cardinality(Pending) \in Nat
  BY LargestNow, Counting, TimesIsInt, QueueConstants DEF OvershootInv, Room
<1>6. CASE Pending = {} /\ Rows <= Room
  BY <1>6, <1>1, <1>3, <1>4, <1>5 DEF RoomLeft
<1>7. ASSUME NEW d \in Pending,
             Rows + Brings(d) + (Cardinality(Pending) - 1) * LargestBatch <= Room
      PROVE  RoomLeft'
  <2>1. Brings(d) \in Nat  BY BringsOneBatch, LargestNow DEF OvershootInv, Pending
  <2>2. (Cardinality(Pending) - 1) * LargestBatch \in Int  BY <1>5, TimesIsInt
  <2>3. Rows' + Brings(d)' + (Cardinality(Pending) - 1) * LargestBatch <= Room
    BY <1>2, <1>3, <1>5, <1>7, <2>1, <2>2
  <2> QED  BY <1>1, <1>4, <2>3 DEF RoomLeft
<1> QED  BY <1>6, <1>7 DEF OvershootInv, RoomLeft

(* A request counts the queue and finds room for what it brings.           *)
LEMMA Joins ==
    ASSUME OvershootInv, Typed', NEW c \in Clients, OnlyMoves(c),
           ~Waits(c), Waits(c)', Rows' = Rows, Rows + Brings(c)' <= QueueSizeLimit
    PROVE  RoomLeft'
<1>1. c \in Pending'  BY DEF Pending
<1>2. Cardinality(Pending') \in 1 .. Cardinality(Clients)
  <2>1. Pending' # {}  BY <1>1
  <2>2. IsFiniteSet(Pending') /\ Cardinality(Pending') \in 0 .. Cardinality(Clients)  BY CountingAfter
  <2>3. Cardinality(Pending') # 0  BY <2>1, <2>2, FS_EmptySet
  <2> QED  BY <2>2, <2>3, Counting DEF OvershootInv
<1>3. LargestBatch' = LargestBatch /\ Room' = Room /\ LargestBatch \in Nat
  BY OthersWait, LargestNow DEF OvershootInv
<1>4. (Cardinality(Pending') - 1) * LargestBatch <= (Cardinality(Clients) - 1) * LargestBatch
  BY <1>2, <1>3, TimesMonotone, Counting DEF OvershootInv
<1>5. Rows \in Nat /\ Brings(c)' \in Nat
  BY Counting, CountingAfter, QueueConstants DEF OvershootInv, Brings, Typed, EditOK
<1>6. /\ (Cardinality(Pending') - 1) * LargestBatch \in Int
      /\ (Cardinality(Clients) - 1) * LargestBatch \in Int
  BY <1>2, <1>3, TimesIsInt, Counting DEF OvershootInv
<1>7. Rows' + Brings(c)' + (Cardinality(Pending') - 1) * LargestBatch <= Room
  BY <1>4, <1>5, <1>6, QueueConstants DEF Room
<1> QED  BY <1>1, <1>3, <1>7 DEF RoomLeft

(* A request that waited inserts.                                          *)
LEMMA Leaves ==
    ASSUME OvershootInv, Typed', NEW c \in Clients, OnlyMoves(c),
           Waits(c), ~Waits(c)', Rows' <= Rows + Brings(c)
    PROVE  RoomLeft'
<1> DEFINE k == Cardinality(Pending) - 1
<1> DEFINE B == LargestBatch
<1>1. Pending' = Pending \ {c} /\ c \in Pending  BY OthersWait DEF Pending
<1>2. Cardinality(Pending') = k /\ k \in Nat
  <2>1. IsFiniteSet(Pending) /\ Cardinality(Pending) \in Nat  BY Counting DEF OvershootInv
  <2>2. Cardinality(Pending \ {c}) = k  BY <1>1, <2>1, FS_RemoveElement
  <2>3. IsFiniteSet(Pending') /\ Cardinality(Pending') \in Nat  BY CountingAfter
  <2> QED  BY <1>1, <2>2, <2>3
<1>3. B' = B /\ Room' = Room /\ B \in Nat /\ Room \in Int
  BY OthersWait, LargestNow, Counting, TimesIsInt, QueueConstants DEF OvershootInv, Room
<1>4. Rows \in Nat /\ Rows' \in Nat  BY Counting, CountingAfter DEF OvershootInv
<1>5. Brings(c) \in 0 .. B  BY BringsOneBatch DEF OvershootInv
<1>6. k * B \in Int /\ (k - 1) * B \in Int /\ k * B = (k - 1) * B + B
  BY <1>2, <1>3, TimesIsInt, TimesOneMore
<1>7. PICK d \in Pending : Rows + Brings(d) + k * B <= Room
  BY <1>1 DEF OvershootInv, RoomLeft
<1>8. Brings(d) \in 0 .. B  BY BringsOneBatch DEF OvershootInv, Pending
<1>9. CASE k = 0
  <2>1. Pending' = {}  BY <1>2, <1>9, FS_EmptySet, CountingAfter
  <2>2. d = c
    <3>1. d \notin Pending'  BY <2>1
    <3> QED  BY <3>1, <1>1
  <2>3. Rows' <= Room  BY <1>3, <1>4, <1>5, <1>7, <1>9, <2>2
  <2> QED  BY <2>1, <2>3, <1>3 DEF RoomLeft
<1>10. CASE k # 0
  <2>1. \E e \in Pending' : e = d \/ d = c
    <3>1. Pending' # {}  BY <1>2, <1>10, FS_EmptySet
    <3> QED  BY <3>1, <1>1
  <2>2. PICK e \in Pending' : e = d \/ d = c  BY <2>1
  <2>3. Brings(e)' = Brings(e) /\ Brings(e) \in 0 .. B
    BY <1>1, OthersWait, BringsOneBatch DEF OvershootInv, Pending
  <2>4. Rows' + Brings(e) + (k - 1) * B <= Room
    BY <1>3, <1>4, <1>5, <1>6, <1>7, <1>8, <2>2, <2>3
  <2> QED  BY <1>2, <1>3, <2>3, <2>4 DEF RoomLeft
<1> QED  BY <1>9, <1>10

(* A request saves the queue, and no playlist had been saved.              *)
LEMMA Saves ==
    ASSUME OvershootInv, Typed', NEW c \in Clients,
           \A d \in Clients \ {c} : edit'[d] = edit[d],
           ~Waits(c), ~Waits(c)', Rows' = Rows, SavedRows = 0, SavedRows' = Rows
    PROVE  RoomLeft'
<1> DEFINE N == Cardinality(Clients)
<1> DEFINE k == Cardinality(Pending')
<1> DEFINE B == LargestBatch
<1> DEFINE C == LargestBatch'
<1>1. Rows \in Nat /\ N \in Nat \ {0} /\ k \in Nat  BY Counting, CountingAfter DEF OvershootInv
<1>2. B \in Nat /\ C \in Nat /\ B <= C /\ Rows <= C
  BY LargestNow, LargestAfter, <1>1 DEF OvershootInv
<1>3. /\ (N - 1) * B \in Int /\ (N - 1) * C \in Int /\ (N - 1) * C >= 0
      /\ (k - 1) * B \in Int /\ (k - 1) * C \in Int
  BY <1>1, <1>2
<1>4. Room = QueueSizeLimit + (N - 1) * B /\ Room' = QueueSizeLimit + (N - 1) * C  BY DEF Room
<1>5. CASE Rows <= QueueSizeLimit
  <2>1. CASE Pending' = {}
    BY <2>1, <1>1, <1>3, <1>4, <1>5, QueueConstants DEF RoomLeft
  <2>2. CASE Pending' # {}
    <3>1. PICK d \in Pending' : TRUE  BY <2>2
    <3>2. Brings(d)' \in 0 .. C
      BY <1>1, LargestAfter, QueueConstants DEF Brings, Typed, EditOK, Pending
    <3>3. k <= N - 1
      <4>1. Pending' \subseteq Clients \ {c}  BY DEF Pending
      <4>2. IsFiniteSet(Clients \ {c}) /\ Cardinality(Clients \ {c}) = N - 1
        BY QueueConstants, FS_RemoveElement
      <4> QED  BY <4>1, <4>2, FS_Subset
    <3>4. (k - 1) * C <= (N - 2) * C  BY <3>3, <1>1, <1>2, TimesMonotone
    <3>5. (N - 2 + 1) * C = (N - 2) * C + C /\ (N - 2) * C \in Int
      BY <1>1, <1>2, TimesOneMore, TimesIsInt
    <3>6. N - 2 + 1 = N - 1  BY <1>1
    <3>7. Rows' + Brings(d)' + (k - 1) * C <= Room'
      BY <1>1, <1>2, <1>3, <1>4, <1>5, <3>2, <3>4, <3>5, <3>6, QueueConstants
    <3> QED  BY <3>1, <3>7 DEF RoomLeft
  <2> QED  BY <2>1, <2>2
<1>6. CASE Rows > QueueSizeLimit
  <2>1. \A d \in Clients : Waits(d)' <=> Waits(d)
    <3> SUFFICES ASSUME NEW d \in Clients \ {c} PROVE Waits(d)' <=> Waits(d)  OBVIOUS
    <3>1. edit'[d] = edit[d] /\ edit[d].qlen \in Nat
      BY DEF OvershootInv, Typed, EditOK, LikeEdit
    <3>2. edit[d].qlen + SavedRows' > QueueSizeLimit  BY <3>1, <1>1, <1>6, QueueConstants
    <3> QED  BY <3>1, <3>2, <1>1, QueueConstants DEF Waits
  <2>2. Pending' = Pending  BY <2>1 DEF Pending
  <2>3. \A d \in Pending : Brings(d)' = Brings(d) /\ Brings(d) \in 0 .. B
    <3>1. \A d \in Pending : d # c /\ edit[d].op = "play"  BY DEF Pending, Waits
    <3>2. \A d \in Pending : Brings(d)' = Brings(d)  BY <3>1 DEF Brings, Pending
    <3> QED  BY <3>2, BringsOneBatch DEF Pending, OvershootInv
  <2>4. CASE Pending = {} /\ Rows <= Room
    <3>1. (N - 1) * B <= (N - 1) * C
      <4>1. N - 1 \in Nat  BY <1>1
      <4> QED  BY <4>1, <1>2, TimesMonotoneRight
    <3> QED  BY <3>1, <2>2, <2>4, <1>1, <1>3, <1>4, QueueConstants DEF RoomLeft
  <2>5. ASSUME NEW d \in Pending, Rows + Brings(d) + (k - 1) * B <= Room
        PROVE  RoomLeft'
    <3>1. k <= N  BY CountingAfter
    <3>2. (N - k) * B <= (N - k) * C
      <4>1. N - k \in Nat  BY <3>1, <1>1
      <4> QED  BY <4>1, <1>2, TimesMonotoneRight
    <3>3. /\ (N - 1) * B = (k - 1) * B + (N - k) * B
          /\ (N - 1) * C = (k - 1) * C + (N - k) * C
          /\ (N - k) * B \in Int /\ (N - k) * C \in Int
      <4>1. N - 1 = (k - 1) + (N - k)  BY <1>1
      <4> QED  BY <4>1, <1>1, <1>2, TimesSplit, TimesIsInt
    <3>4. Rows' + Brings(d)' + (k - 1) * C <= Room'
      BY <1>1, <1>2, <1>3, <1>4, <2>3, <2>5, <3>2, <3>3, QueueConstants
    <3> QED  BY <2>2, <3>4 DEF RoomLeft
  <2> QED  BY <2>2, <2>4, <2>5 DEF OvershootInv, RoomLeft
<1> QED  BY <1>1, <1>5, <1>6, QueueConstants

(***************************************************************************)
(* What the steps write.                                                   *)
(***************************************************************************)

LEMMA CountsUpTo ==
    ASSUME NEW n \in Nat
    PROVE  IsFiniteSet(1 .. n) /\ Cardinality(1 .. n) = n
<1>1. 1 \in Int /\ n \in Int  OBVIOUS
<1>2. IsFiniteSet(1 .. n) /\ Cardinality(1 .. n) = IF 1 > n THEN 0 ELSE n - 1 + 1
  BY <1>1, FS_Interval, Zenon
<1> QED  BY <1>2

LEMMA InjectionExists ==
    ASSUME NEW S, NEW T, IsFiniteSet(S), IsFiniteSet(T), Cardinality(S) <= Cardinality(T)
    PROVE  \E f \in [S -> T] : \A s, t \in S : f[s] = f[t] => s = t
<1> DEFINE m == Cardinality(S)
<1> DEFINE n == Cardinality(T)
<1>1. m \in Nat /\ n \in Nat /\ m <= n  BY FS_CardinalityType
<1>2. IsFiniteSet(1 .. m) /\ Cardinality(1 .. m) = m  BY <1>1, CountsUpTo
<1>3. PICK number \in Bijection(S, 1 .. m) : TRUE
  BY <1>2, FS_SameCardinalityBij DEF ExistsBijection
<1>4. PICK member \in Bijection(1 .. n, T) : TRUE
  BY FS_CardinalityType DEF ExistsBijection
<1>5. /\ number \in [S -> 1 .. m] /\ \A s, t \in S : number[s] = number[t] => s = t
      /\ member \in [1 .. n -> T] /\ \A i, j \in 1 .. n : member[i] = member[j] => i = j
  BY <1>3, <1>4 DEF Bijection, Injection, IsInjective
<1> DEFINE f == [s \in S |-> member[number[s]]]
<1>6. \A s \in S : number[s] \in 1 .. n  BY <1>1, <1>5
<1>7. f \in [S -> T]  BY <1>5, <1>6
<1>8. \A s, t \in S : f[s] = f[t] => s = t  BY <1>5, <1>6
<1> QED  BY <1>7, <1>8

(* The rows get ids nobody has had, one each.                              *)
LEMMA NewIdsAreNew ==
    ASSUME Typed, NEW S, IsFiniteSet(S), CanNumber(S)
    PROVE  /\ NewIds(S) \in [S -> unused]
           /\ \A s, t \in S : NewIds(S)[s] = NewIds(S)[t] => s = t
<1>1. IsFiniteSet(unused)  BY QueueConstants, FS_Subset DEF Typed
<1>2. \E f \in [S -> unused] : \A s, t \in S : f[s] = f[t] => s = t
  BY <1>1, InjectionExists DEF CanNumber
<1> QED  BY <1>2 DEF NewIds

LEMMA InsertsOneEach ==
    ASSUME Typed, NEW S, IsFiniteSet(S), CanNumber(S), NEW key, InsertRows(key),
           DOMAIN key = {NewIds(S)[s] : s \in S}
    PROVE  /\ queue' \subseteq Tracks /\ unused' \subseteq Tracks
           /\ Rows' <= Rows + Cardinality(S)
<1> DEFINE new == DOMAIN key
<1>1. NewIds(S) \in [S -> unused]  BY NewIdsAreNew
<1>2. new \subseteq unused
  <2> SUFFICES ASSUME NEW s \in S PROVE NewIds(S)[s] \in unused  OBVIOUS
  <2> QED  BY <1>1
<1>3. queue' = queue \cup new /\ unused' = unused \ new  BY DEF InsertRows
<1>4. NewIds(S) \in Surjection(S, new)
  <2>1. NewIds(S) \in [S -> new]  BY <1>1
  <2> QED  BY <2>1 DEF Surjection
<1>5. IsFiniteSet(new) /\ Cardinality(new) <= Cardinality(S)  BY <1>4, FS_Surjection
<1>6. IsFiniteSet(queue) /\ Rows \in Nat  BY Counting
<1>7. Cardinality(queue \cup new) = Rows + Cardinality(new) - Cardinality(queue \cap new)
  BY <1>5, <1>6, FS_Union DEF Rows
<1>8. Cardinality(queue \cap new) \in Nat
  <2>1. IsFiniteSet(queue \cap new)  BY <1>6, FS_Intersection
  <2> QED  BY <2>1, FS_CardinalityType
<1>9. Cardinality(new) \in Nat /\ Cardinality(S) \in Nat  BY <1>5, FS_CardinalityType
<1>10. Rows' <= Rows + Cardinality(S)
  BY <1>3, <1>5, <1>6, <1>7, <1>8, <1>9 DEF Rows
<1> QED  BY <1>2, <1>3, <1>10 DEF Typed

(* A request that moves to edit e.                                         *)
LEMMA MovesTo ==
    ASSUME Typed, NEW c \in Clients, NEW e, EditOK(e, SavedRows),
           edit' = [edit EXCEPT ![c] = e], playlist' = playlist,
           queue' \subseteq Tracks, unused' \subseteq Tracks
    PROVE  Typed' /\ OnlyMoves(c) /\ edit'[c] = e /\ SavedRows' = SavedRows
<1>1. edit' = [d \in Clients |-> edit'[d]] /\ edit'[c] = e
      /\ \A d \in Clients \ {c} : edit'[d] = edit[d]
  BY DEF Typed
<1>2. SavedRows' = SavedRows  BY DEF SavedRows
<1>3. \A d \in Clients : EditOK(edit'[d], SavedRows')  BY <1>1, <1>2 DEF Typed
<1> QED  BY <1>1, <1>2, <1>3 DEF Typed, OnlyMoves

LEMMA NothingIsNoWait ==
    EditOK(NoEdit, SavedRows) /\ NoEdit.op = "none" /\ NoEdit.step = "idle"
BY DEF NoEdit, Edit, EditOK, LikeEdit

(***************************************************************************)
(* The steps.                                                              *)
(***************************************************************************)

LEMMA InitOvershoot == Init => OvershootInv
<1> SUFFICES ASSUME Init PROVE OvershootInv  OBVIOUS
<1>1. Typed  BY NothingIsNoWait DEF Init, Typed, SavedRows, EditOK, LikeEdit, NoEdit, Edit
<1>2. Pending = {}  BY NothingIsNoWait DEF Init, Pending, Waits
<1>3. Rows = 0  BY FS_EmptySet DEF Init, Rows
<1>4. (Cardinality(Clients) - 1) * LargestBatch \in Nat
  BY <1>1, Counting, LargestNow
<1> QED  BY <1>1, <1>2, <1>3, <1>4, QueueConstants DEF OvershootInv, RoomLeft, Room

LEMMA EditBegins ==
    ASSUME NEW op \in AllEdits, NEW step \in {"count", "write"}, NEW n \in Nat, NEW pos,
           op = "play" => n \in BatchSizes
    PROVE  /\ Edit(op, step, n, pos).op \in AllEdits
           /\ Edit(op, step, n, pos).step \in {"count", "write"}
           /\ \A saved : EditOK(Edit(op, step, n, pos), saved)
BY DEF Edit, EditOK, LikeEdit

LEMMA BeginAccepts ==
    ASSUME NEW c \in Clients, Begin(c)
    PROVE  \E e : /\ Accept(c, e)
                  /\ e.op \in AllEdits /\ e.step \in {"count", "write"}
                  /\ \A saved : EditOK(e, saved)
<1>1. CASE \E n \in BatchSizes, p \in Positions : Accept(c, Edit("play", "count", n, p))
  <2>1. PICK n \in BatchSizes, p \in Positions : Accept(c, Edit("play", "count", n, p))
    BY <1>1
  <2>2. n \in Nat  BY QueueConstants
  <2> QED  BY <2>1, <2>2, EditBegins DEF AllEdits
<1>2. CASE \E p \in Positions : Accept(c, Edit("remove", "write", 0, IF p < 0 THEN 0 ELSE p))
  BY <1>2, EditBegins DEF AllEdits
<1>3. CASE Accept(c, Edit("requeue", "write", 0, 0))  BY <1>3, EditBegins DEF AllEdits
<1>4. CASE Accept(c, Edit("shuffle", "write", 0, 0))  BY <1>4, EditBegins DEF AllEdits
<1>5. CASE Accept(c, Edit("save", "count", 0, 0))  BY <1>5, EditBegins DEF AllEdits
<1>6. CASE Accept(c, Edit("load", "count", 0, 0))  BY <1>6, EditBegins DEF AllEdits
<1> QED  BY <1>1, <1>2, <1>3, <1>4, <1>5, <1>6 DEF Begin

(* A request that begins has not counted.                                  *)
LEMMA BeginKeeps ==
    ASSUME OvershootInv, NEW c \in Clients, Begin(c)
    PROVE  OvershootInv'
<1>1. PICK e : /\ Accept(c, e)
               /\ e.op \in AllEdits /\ e.step \in {"count", "write"}
               /\ \A saved : EditOK(e, saved)
  BY BeginAccepts
<1>2. edit' = [edit EXCEPT ![c] = e] /\ playlist' = playlist /\ queue' = queue /\ unused' = unused
  BY <1>1 DEF Accept, rows
<1>3. edit[c].step = "idle"  BY <1>1 DEF Accept, At
<1>4. Typed' /\ OnlyMoves(c) /\ edit'[c] = e
  BY <1>1, <1>2, MovesTo DEF OvershootInv, Typed
<1>5. ~Waits(c) /\ ~Waits(c)'  BY <1>1, <1>3, <1>4 DEF Waits
<1>6. Rows' = Rows /\ Rows \in Nat  BY <1>2, Counting DEF Rows, OvershootInv
<1> QED  BY <1>4, <1>5, <1>6, Stays DEF OvershootInv

(* What Continue and Refuse do, for a request that goes on with e.         *)
LEMMA ContinueMoves ==
    ASSUME Typed, NEW c \in Clients, NEW e, EditOK(e, SavedRows), Continue(c, e)
    PROVE  Typed' /\ OnlyMoves(c) /\ edit'[c] = e /\ SavedRows' = SavedRows /\ Rows' = Rows
<1>1. Rows' = Rows  BY DEF Continue, rows, Rows
<1> QED  BY <1>1, MovesTo DEF Continue, rows, Typed

LEMMA RefuseKeeps ==
    ASSUME OvershootInv, NEW c \in Clients, ~Waits(c), Refuse(c)
    PROVE  OvershootInv'
<1>1. /\ Typed' /\ OnlyMoves(c) /\ edit'[c] = NoEdit /\ Rows' = Rows
  BY ContinueMoves, NothingIsNoWait DEF Refuse, OvershootInv
<1>2. ~Waits(c)'  BY <1>1, NothingIsNoWait DEF Waits
<1>3. Rows \in Nat  BY Counting DEF OvershootInv
<1> QED  BY <1>1, <1>2, <1>3, Stays DEF OvershootInv

LEMMA CountForPlayKeeps ==
    ASSUME OvershootInv, NEW c \in Clients, CountForPlay(c)
    PROVE  OvershootInv'
<1> DEFINE e == [edit[c] EXCEPT !.qlen = Cardinality(queue), !.step = "keys"]
<1>1. edit[c].step = "count" /\ edit[c].op = "play" /\ ~Waits(c)
  BY DEF CountForPlay, At, Waits
<1>2. CASE ~Fits(Cardinality(queue), edit[c].n)
  BY <1>1, <1>2, RefuseKeeps DEF CountForPlay
<1>3. CASE Fits(Cardinality(queue), edit[c].n)
  <2>1. EditOK(edit[c], SavedRows) /\ Rows \in Nat  BY Counting DEF OvershootInv, Typed
  <2>2. /\ e.op = "play" /\ e.step = "keys" /\ e.n = edit[c].n
        /\ EditOK(e, SavedRows)
    BY <1>1, <2>1 DEF EditOK, LikeEdit, Rows
  <2>3. Continue(c, e)  BY <1>3 DEF CountForPlay
  <2>4. Typed' /\ OnlyMoves(c) /\ edit'[c] = e /\ Rows' = Rows
    BY <2>2, <2>3, ContinueMoves DEF OvershootInv
  <2>5. Waits(c)' /\ Rows + Brings(c)' <= QueueSizeLimit
    BY <1>3, <2>2, <2>4 DEF Waits, Brings, Fits, Rows
  <2> QED  BY <1>1, <2>4, <2>5, Joins DEF OvershootInv
<1> QED  BY <1>2, <1>3

(* Read or not, the request goes on to its INSERT.                         *)
ReachesInsert(c, range) ==
    /\ edit' = [edit EXCEPT ![c] = [edit[c] EXCEPT !.range = range, !.step = "insert"]]
    /\ fresh' \subseteq fresh
    /\ UNCHANGED <<rows, playlist, edits, told>>

LEMMA ReadsReachInsert ==
    ASSUME NEW c \in Clients, ReadKeys(c) \/ FailToReadKeys(c)
    PROVE  \E range : ReachesInsert(c, range)
BY DEF ReadKeys, FailToReadKeys, Continue, ReachesInsert

LEMMA ReachesMoves ==
    ASSUME Typed, NEW c \in Clients, NEW range, ReachesInsert(c, range),
           EditOK([edit[c] EXCEPT !.range = range, !.step = "insert"], SavedRows)
    PROVE  /\ Typed' /\ OnlyMoves(c) /\ Rows' = Rows
           /\ edit'[c] = [edit[c] EXCEPT !.range = range, !.step = "insert"]
<1>1. Rows' = Rows  BY DEF ReachesInsert, rows, Rows
<1> QED  BY <1>1, MovesTo DEF ReachesInsert, rows, Typed

LEMMA ReadKeysKeeps ==
    ASSUME OvershootInv, NEW c \in Clients, ReadKeys(c) \/ FailToReadKeys(c)
    PROVE  OvershootInv'
<1>1. PICK range : ReachesInsert(c, range)  BY ReadsReachInsert
<1> DEFINE e == [edit[c] EXCEPT !.range = range, !.step = "insert"]
<1>2. EditOK(edit[c], SavedRows) /\ Rows \in Nat  BY Counting DEF OvershootInv, Typed
<1>3. edit[c].step = "keys"  BY DEF ReadKeys, FailToReadKeys, At
<1>4. edit[c].op = "play"  BY <1>2, <1>3 DEF EditOK
<1>5. /\ e.op = "play" /\ e.step = "insert" /\ e.n = edit[c].n
      /\ EditOK(e, SavedRows)
  BY <1>2, <1>4 DEF EditOK, LikeEdit
<1>6. Typed' /\ OnlyMoves(c) /\ edit'[c] = e /\ Rows' = Rows
  BY <1>1, <1>5, ReachesMoves DEF OvershootInv
<1>7. Waits(c) /\ Waits(c)' /\ Brings(c)' = Brings(c)
  BY <1>3, <1>4, <1>5, <1>6 DEF Waits, Brings
<1> QED  BY <1>2, <1>6, <1>7, Stays DEF OvershootInv

LEMMA CountForLoadKeeps ==
    ASSUME OvershootInv, NEW c \in Clients, CountForLoad(c)
    PROVE  OvershootInv'
<1> DEFINE e == [edit[c] EXCEPT !.qlen = Cardinality(queue), !.step = "max"]
<1>1. edit[c].step = "count" /\ edit[c].op = "load" /\ ~Waits(c)
  BY DEF CountForLoad, At, Waits
<1>2. EditOK(edit[c], SavedRows) /\ Rows \in Nat  BY Counting DEF OvershootInv, Typed
<1>3. e.op = "load" /\ e.step = "max" /\ e.qlen = Rows /\ EditOK(e, SavedRows)
  BY <1>1, <1>2 DEF EditOK, LikeEdit, Rows
<1>4. Continue(c, e)  BY DEF CountForLoad
<1>5. Typed' /\ OnlyMoves(c) /\ edit'[c] = e /\ SavedRows' = SavedRows /\ Rows' = Rows
  BY <1>3, <1>4, ContinueMoves DEF OvershootInv
<1>6. Brings(c)' = SavedRows  BY <1>3, <1>5 DEF Brings
<1>7. CASE Waits(c)'
  <2>1. Rows + Brings(c)' <= QueueSizeLimit  BY <1>3, <1>5, <1>6, <1>7 DEF Waits
  <2> QED  BY <1>1, <1>5, <1>7, <2>1, Joins DEF OvershootInv
<1>8. CASE ~Waits(c)'
  BY <1>1, <1>2, <1>5, <1>8, Stays DEF OvershootInv
<1> QED  BY <1>7, <1>8

LEMMA ReadMaxKeeps ==
    ASSUME OvershootInv, NEW c \in Clients, ReadMax(c)
    PROVE  OvershootInv'
<1>1. PICK m : Continue(c, [edit[c] EXCEPT !.qmax = m, !.step = "preview"])
  BY DEF ReadMax
<1> DEFINE e == [edit[c] EXCEPT !.qmax = m, !.step = "preview"]
<1>2. EditOK(edit[c], SavedRows) /\ Rows \in Nat  BY Counting DEF OvershootInv, Typed
<1>3. edit[c].step = "max"  BY DEF ReadMax, At
<1>4. edit[c].op = "load"  BY <1>2, <1>3 DEF EditOK
<1>5. /\ e.op = "load" /\ e.step = "preview" /\ e.qlen = edit[c].qlen
      /\ EditOK(e, SavedRows)
  BY <1>2, <1>4 DEF EditOK, LikeEdit
<1>6. Typed' /\ OnlyMoves(c) /\ edit'[c] = e /\ SavedRows' = SavedRows /\ Rows' = Rows
  BY <1>1, <1>5, ContinueMoves DEF OvershootInv
<1>7. (Waits(c) <=> Waits(c)') /\ Brings(c)' = Brings(c)
  BY <1>3, <1>4, <1>5, <1>6 DEF Waits, Brings
<1> QED  BY <1>2, <1>6, <1>7, Stays DEF OvershootInv

LEMMA PreviewKeeps ==
    ASSUME OvershootInv, NEW c \in Clients, Preview(c)
    PROVE  OvershootInv'
<1> DEFINE e == [edit[c] EXCEPT !.n = SavedRows, !.step = "insert"]
<1> DEFINE fits == SavedRows # 0 /\ Fits(edit[c].qlen, SavedRows)
<1>1. EditOK(edit[c], SavedRows) /\ Rows \in Nat /\ SavedRows \in Nat
  BY Counting DEF OvershootInv, Typed
<1>2. edit[c].step = "preview" /\ edit[c].op = "load"  BY <1>1 DEF Preview, At, EditOK
<1>3. Waits(c) <=> fits  BY <1>2 DEF Waits, Fits
<1>4. CASE ~fits
  BY <1>3, <1>4, RefuseKeeps DEF Preview, SavedRows
<1>5. CASE fits
  <2>1. Continue(c, e)  BY <1>5 DEF Preview, SavedRows
  <2>2. /\ e.op = "load" /\ e.step = "insert" /\ e.qlen = edit[c].qlen
        /\ EditOK(e, SavedRows)
    BY <1>1, <1>2, <1>5 DEF EditOK, LikeEdit, Fits
  <2>3. Typed' /\ OnlyMoves(c) /\ edit'[c] = e /\ SavedRows' = SavedRows /\ Rows' = Rows
    BY <2>1, <2>2, ContinueMoves DEF OvershootInv
  <2>4. Waits(c) /\ Waits(c)' /\ Brings(c)' = Brings(c)
    BY <1>2, <1>3, <1>5, <2>2, <2>3 DEF Waits, Brings, Fits
  <2> QED  BY <1>1, <2>3, <2>4, Stays DEF OvershootInv
<1> QED  BY <1>4, <1>5

(* Both inserts: a row for every member of S.                              *)
LEMMA InsertKeeps ==
    ASSUME OvershootInv, NEW c \in Clients, Waits(c),
           NEW S, IsFiniteSet(S), Cardinality(S) = Brings(c), CanNumber(S),
           NEW key, DOMAIN key = {NewIds(S)[s] : s \in S}, InsertRows(key),
           NEW announced, Wrote(c, announced)
    PROVE  OvershootInv'
<1>1. queue' \subseteq Tracks /\ unused' \subseteq Tracks /\ Rows' <= Rows + Brings(c)
  BY InsertsOneEach DEF OvershootInv
<1>2. Typed' /\ OnlyMoves(c) /\ edit'[c] = NoEdit
  BY <1>1, NothingIsNoWait, MovesTo DEF Wrote, OvershootInv
<1>3. ~Waits(c)'  BY <1>2, NothingIsNoWait DEF Waits
<1> QED  BY <1>1, <1>2, <1>3, Leaves DEF OvershootInv

LEMMA InsertTracksKeeps ==
    ASSUME OvershootInv, NEW c \in Clients, InsertTracks(c)
    PROVE  OvershootInv'
<1> DEFINE n == edit[c].n
<1> DEFINE S == 1 .. n
<1> DEFINE id == NewIds(S)
<1> DEFINE r == edit[c].range
<1> DEFINE key == [t \in {id[i] : i \in S} |->
                      SpreadKey(r.prev, r.next, n, CHOOSE i \in S : id[i] = t)]
<1>1. edit[c].step = "insert" /\ edit[c].op = "play"  BY DEF InsertTracks, At
<1>2. n \in Nat  BY DEF OvershootInv, Typed, EditOK, LikeEdit
<1>3. Waits(c) /\ Brings(c) = n  BY <1>1 DEF Waits, Brings
<1>4. IsFiniteSet(S) /\ Cardinality(S) = n
  <2> HIDE DEF n
  <2> QED  BY <1>2, CountsUpTo
<1>5. CanNumber(S) /\ InsertRows(key) /\ Wrote(c, r.first)  BY DEF InsertTracks
<1>6. DOMAIN key = {id[i] : i \in S}  OBVIOUS
<1> HIDE DEF key, S
<1> QED  BY <1>3, <1>4, <1>5, <1>6, InsertKeeps

LEMMA LoadTracksKeeps ==
    ASSUME OvershootInv, NEW c \in Clients, LoadTracks(c)
    PROVE  OvershootInv'
<1> DEFINE S == DOMAIN playlist
<1> DEFINE id == NewIds(S)
<1> DEFINE key(first) == [t \in {id[u] : u \in S} |->
               BaseOrdKey(edit[c].qmax, playlist[first]) + playlist[CHOOSE u \in S : id[u] = t]]
<1>1. edit[c].step = "insert" /\ edit[c].op = "load"  BY DEF LoadTracks, At
<1>2. EditOK(edit[c], SavedRows)  BY DEF OvershootInv, Typed
<1>3. Waits(c) /\ Brings(c) = SavedRows  BY <1>1, <1>2 DEF Waits, Brings, EditOK
<1>4. IsFiniteSet(S) /\ Cardinality(S) = SavedRows  BY Counting DEF OvershootInv, SavedRows
<1>5. CanNumber(S) /\ Wrote(c, edit[c].qlen = 0)  BY DEF LoadTracks
<1>6. PICK first : InsertRows(key(first))  BY DEF LoadTracks
<1>7. DOMAIN key(first) = {id[u] : u \in S}  OBVIOUS
<1> HIDE DEF key, S
<1> QED  BY <1>3, <1>4, <1>5, <1>6, <1>7, InsertKeeps

(* A write of a request that does not wait, which adds no row.             *)
LEMMA WriteKeeps ==
    ASSUME OvershootInv, NEW c \in Clients, edit[c].step = "write",
           queue' \subseteq queue, unused' = unused,
           NEW announced, Wrote(c, announced)
    PROVE  OvershootInv'
<1>1. Rows' <= Rows  BY Counting, FS_Subset DEF OvershootInv, Rows
<1>2. Typed' /\ OnlyMoves(c) /\ edit'[c] = NoEdit
  <2>1. queue' \subseteq Tracks /\ unused' \subseteq Tracks  BY DEF OvershootInv, Typed
  <2> QED  BY <2>1, NothingIsNoWait, MovesTo DEF Wrote, OvershootInv
<1>3. ~Waits(c) /\ ~Waits(c)'  BY <1>2, NothingIsNoWait DEF Waits
<1> QED  BY <1>1, <1>2, <1>3, Stays DEF OvershootInv

LEMMA RemoveAtKeeps ==
    ASSUME OvershootInv, NEW c \in Clients, RemoveAt(c)
    PROVE  OvershootInv'
<1>1. queue' \subseteq queue /\ unused' = unused  BY DEF RemoveAt, rows
<1> QED  BY <1>1, WriteKeeps DEF RemoveAt, At

LEMMA RequeueKeeps ==
    ASSUME OvershootInv, NEW c \in Clients, Requeue(c)
    PROVE  OvershootInv'
<1>1. queue' \subseteq queue /\ unused' = unused  BY DEF Requeue, rows
<1> QED  BY <1>1, WriteKeeps DEF Requeue, At

LEMMA ShuffleKeeps ==
    ASSUME OvershootInv, NEW c \in Clients, Shuffle(c)
    PROVE  OvershootInv'
<1>1. queue' \subseteq queue /\ unused' = unused  BY DEF Shuffle, rows
<1> QED  BY <1>1, WriteKeeps DEF Shuffle, At

LEMMA CountForSaveKeeps ==
    ASSUME OvershootInv, NEW c \in Clients, CountForSave(c)
    PROVE  OvershootInv'
<1> DEFINE e == [edit[c] EXCEPT !.step = "copy"]
<1>1. edit[c].op = "save" /\ ~Waits(c)  BY DEF CountForSave, At, Waits
<1>2. CASE Refuse(c)  BY <1>1, <1>2, RefuseKeeps
<1>3. CASE Continue(c, e)
  <2>1. EditOK(edit[c], SavedRows) /\ Rows \in Nat  BY Counting DEF OvershootInv, Typed
  <2>2. e.op = "save" /\ EditOK(e, SavedRows)  BY <1>1, <2>1 DEF EditOK, LikeEdit
  <2>3. Typed' /\ OnlyMoves(c) /\ edit'[c] = e /\ Rows' = Rows
    BY <1>3, <2>2, ContinueMoves DEF OvershootInv
  <2>4. ~Waits(c)'  BY <2>2, <2>3 DEF Waits
  <2> QED  BY <1>1, <2>1, <2>3, <2>4, Stays DEF OvershootInv
<1> QED  BY <1>2, <1>3 DEF CountForSave

(* No load is past its check when the first playlist is saved.             *)
LEMMA CopyQueueKeeps ==
    ASSUME OvershootInv, NEW c \in Clients, CopyQueue(c)
    PROVE  OvershootInv'
<1>1. SavedRows = 0  BY FS_EmptySet DEF CopyQueue, SavedRows
<1>2. /\ queue' = queue /\ unused' = unused
      /\ edit' = [edit EXCEPT ![c] = NoEdit]
      /\ DOMAIN playlist' = queue
  BY DEF CopyQueue, rows
<1>3. Rows' = Rows /\ SavedRows' = Rows  BY <1>2 DEF Rows, SavedRows
<1>4. /\ edit' = [d \in Clients |-> edit'[d]] /\ edit'[c] = NoEdit
      /\ \A d \in Clients \ {c} : edit'[d] = edit[d]
  BY <1>2 DEF OvershootInv, Typed
<1>5. \A d \in Clients : EditOK(edit'[d], SavedRows')
  <2>1. EditOK(NoEdit, SavedRows')  BY DEF NoEdit, Edit, EditOK, LikeEdit
  <2>2. ASSUME NEW d \in Clients \ {c} PROVE EditOK(edit'[d], SavedRows')
    <3>1. EditOK(edit[d], SavedRows)  BY DEF OvershootInv, Typed
    <3> QED  BY <1>1, <1>4, <3>1 DEF EditOK, LikeEdit
  <2> QED  BY <1>4, <2>1, <2>2
<1>6. Typed'  BY <1>2, <1>4, <1>5 DEF OvershootInv, Typed
<1>7. ~Waits(c) /\ ~Waits(c)'
  <2>1. EditOK(edit[c], SavedRows) /\ edit[c].step = "copy"
    BY DEF CopyQueue, At, OvershootInv, Typed
  <2>2. edit[c].op = "save"  BY <2>1 DEF EditOK
  <2> QED  BY <1>4, <2>2, NothingIsNoWait DEF Waits
<1> QED  BY <1>1, <1>3, <1>4, <1>6, <1>7, Saves DEF OvershootInv

LEMMA StutterKeeps ==
    ASSUME OvershootInv, UNCHANGED vars
    PROVE  OvershootInv'
BY DEF OvershootInv, vars, rows, Typed, RoomLeft, Pending, Waits, Brings, Rows, SavedRows,
       Room, LargestBatch

LEMMA NextOvershoot == OvershootInv /\ [Next]_vars => OvershootInv'
<1> SUFFICES ASSUME OvershootInv, [Next]_vars PROVE OvershootInv'  OBVIOUS
<1>1. CASE UNCHANGED vars  BY <1>1, StutterKeeps
<1>2. ASSUME NEW c \in Clients, Begin(c) PROVE OvershootInv'  BY <1>2, BeginKeeps
<1>3. ASSUME NEW c \in Clients,
             CountForPlay(c) \/ ReadKeys(c) \/ FailToReadKeys(c) \/ InsertTracks(c)
      PROVE  OvershootInv'
  BY <1>3, CountForPlayKeeps, ReadKeysKeeps, InsertTracksKeeps
<1>4. ASSUME NEW c \in Clients,
             CountForLoad(c) \/ ReadMax(c) \/ Preview(c) \/ LoadTracks(c)
      PROVE  OvershootInv'
  BY <1>4, CountForLoadKeeps, ReadMaxKeeps, PreviewKeeps, LoadTracksKeeps
<1>5. ASSUME NEW c \in Clients, CountForSave(c) \/ CopyQueue(c)
      PROVE  OvershootInv'
  BY <1>5, CountForSaveKeeps, CopyQueueKeeps
<1>6. ASSUME NEW c \in Clients, RemoveAt(c) \/ Requeue(c) \/ Shuffle(c)
      PROVE  OvershootInv'
  BY <1>6, RemoveAtKeeps, RequeueKeeps, ShuffleKeeps
<1> QED  BY <1>1, <1>2, <1>3, <1>4, <1>5, <1>6 DEF Next

LEMMA RoomIsBound == OvershootInv => OvershootBounded
<1> SUFFICES ASSUME OvershootInv PROVE Rows <= Room
  BY DEF OvershootBounded, Rows, Room
<1> DEFINE k == Cardinality(Pending) - 1
<1>1. CASE Pending = {} /\ Rows <= Room  BY <1>1
<1>2. ASSUME NEW c \in Pending, Rows + Brings(c) + k * LargestBatch <= Room
      PROVE  Rows <= Room
  <2>1. Cardinality(Pending) # 0  BY Counting, FS_EmptySet DEF OvershootInv
  <2>2. k \in Nat /\ Rows \in Nat  BY <2>1, Counting DEF OvershootInv
  <2>3. LargestBatch \in Nat /\ Brings(c) \in Nat
    BY LargestNow, BringsOneBatch DEF OvershootInv, Pending
  <2>4. k * LargestBatch \in Nat  BY <2>2, <2>3
  <2>5. Room \in Int
    <3>1. (Cardinality(Clients) - 1) * LargestBatch \in Int
      BY <2>3, Counting, TimesIsInt DEF OvershootInv
    <3> QED  BY <3>1, QueueConstants DEF Room
  <2> QED  BY <1>2, <2>2, <2>3, <2>4, <2>5
<1> QED  BY <1>1, <1>2 DEF OvershootInv, RoomLeft

(* However many requests overlap, and in whatever way their counts are     *)
(* outdated when they insert (addTracks and LoadPlaylist), the queue is    *)
(* past its limit by at most one batch for every other request.            *)
THEOREM QueueStaysNearLimit == Spec => []OvershootBounded
<1>1. Spec => []OvershootInv
  BY InitOvershoot, NextOvershoot, PTL DEF Spec
<1> QED  BY <1>1, RoomIsBound, PTL

(***************************************************************************)
(* Keys.                                                                   *)
(***************************************************************************)

LEMMA SpreadKeyIsInt ==
    ASSUME NEW prev \in Int, NEW next \in Int, NEW n \in Nat, NEW i \in Int
    PROVE  SpreadKey(prev, next, n, i) \in Int
<1> DEFINE a == prev * (n + 1) + (next - prev) * i
<1>1. prev * (n + 1) \in Int /\ (next - prev) * i \in Int  OBVIOUS
<1>2. a \in Int  BY <1>1
<1>3. n + 1 \in Int /\ n + 1 > 0  OBVIOUS
<1>4. a \div (n + 1) \in Int  BY <1>2, <1>3
<1> HIDE DEF a
<1>5. RoundDiv(a, n + 1) \in Int  BY <1>4 DEF RoundDiv
<1> QED  BY <1>5 DEF SpreadKey, a

LEMMA RangeIsOfInts ==
    ASSUME NEW qlen \in Nat, NEW pos \in Int,
           NEW prev \in Int \cup {NoKey}, NEW next \in Int \cup {NoKey}
    PROVE  OrdKeyRange(qlen, pos, prev, next) \in [prev : Int, next : Int, first : BOOLEAN]
BY OrdKeyConstants DEF OrdKeyRange, DefaultRange, KeyRange

LEMMA ScansInts ==
    ASSUME TypeOK, NEW p \in Int
    PROVE  ScanKey(queue, ord, p) \subseteq Int \cup {NoKey}
<1>1. \A t \in queue : ord[t] \in Int  BY DEF TypeOK
<1> QED  BY <1>1 DEF ScanKey, AtPosition

LEMMA ClampsToInt ==
    ASSUME NEW pos \in Int, NEW qlen \in Nat
    PROVE  ClampPosition(pos, qlen) \in 0 .. qlen
BY DEF ClampPosition

(***************************************************************************)
(* Types.                                                                  *)
(***************************************************************************)

LEMMA NoEditTyped == NoEdit \in EditType
BY OrdKeyConstants DEF NoEdit, Edit, EditType, Steps, DefaultRange, KeyRange

LEMMA InitTypeOK == Init => TypeOK
<1> SUFFICES ASSUME Init PROVE TypeOK  OBVIOUS
<1>1. playlist = [t \in {} |-> 0]  BY DEF Init
<1>2. DOMAIN playlist = {} /\ playlist \in [DOMAIN playlist -> Int]  BY <1>1
<1>3. edits \in 0 .. MaxEdits  BY QueueConstants DEF Init
<1>4. edit \in [Clients -> EditType]  BY NoEditTyped DEF Init
<1>5. ord \in [Tracks -> Int] /\ queue \subseteq Tracks /\ unused \subseteq Tracks \ queue
  BY DEF Init
<1> QED  BY <1>2, <1>3, <1>4, <1>5 DEF Init, TypeOK

LEMMA BeginTypeOK ==
    ASSUME TypeOK, NEW c \in Clients, Begin(c)
    PROVE  TypeOK'
<1>1. PICK e \in EditType : Accept(c, e)
  <2>1. \A op \in AllEdits, step \in {"count", "write"}, n \in Nat, pos \in Int :
           Edit(op, step, n, pos) \in EditType
    BY OrdKeyConstants DEF Edit, EditType, Steps, DefaultRange, KeyRange
  <2>2. BatchSizes \subseteq Nat /\ Positions \subseteq Int  BY QueueConstants
  <2>3. \A p \in Positions : (IF p < 0 THEN 0 ELSE p) \in Int  BY <2>2
  <2>4. CASE \E n \in BatchSizes, p \in Positions : Accept(c, Edit("play", "count", n, p))
    BY <2>1, <2>2, <2>4 DEF AllEdits
  <2>5. CASE \E p \in Positions : Accept(c, Edit("remove", "write", 0, IF p < 0 THEN 0 ELSE p))
    BY <2>1, <2>3, <2>5 DEF AllEdits
  <2>6. CASE Accept(c, Edit("requeue", "write", 0, 0))  BY <2>1, <2>6 DEF AllEdits
  <2>7. CASE Accept(c, Edit("shuffle", "write", 0, 0))  BY <2>1, <2>7 DEF AllEdits
  <2>8. CASE Accept(c, Edit("save", "count", 0, 0))  BY <2>1, <2>8 DEF AllEdits
  <2>9. CASE Accept(c, Edit("load", "count", 0, 0))  BY <2>1, <2>9 DEF AllEdits
  <2> QED  BY <2>4, <2>5, <2>6, <2>7, <2>8, <2>9 DEF Begin
<1>2. edits' \in 0 .. MaxEdits  BY <1>1, QueueConstants DEF Accept, TypeOK
<1> QED  BY <1>1, <1>2 DEF Accept, TypeOK, rows

LEMMA ContinueTypeOK ==
    ASSUME TypeOK, NEW c \in Clients, NEW e \in EditType, Continue(c, e)
    PROVE  TypeOK'
BY DEF Continue, TypeOK, rows

(* A request that reads, or gives up.                                      *)
LEMMA ReadTypeOK ==
    ASSUME OvershootInv, TypeOK, NEW c \in Clients,
           \/ CountForPlay(c) \/ ReadKeys(c) \/ FailToReadKeys(c)
           \/ CountForLoad(c) \/ ReadMax(c) \/ Preview(c) \/ CountForSave(c)
    PROVE  TypeOK'
<1>1. edit[c] \in EditType  BY DEF TypeOK
<1>2. Rows \in Nat /\ SavedRows \in Nat  BY Counting DEF OvershootInv
<1>3. CASE Refuse(c)  BY <1>3, NoEditTyped, ContinueTypeOK DEF Refuse
<1>4. CASE CountForPlay(c) /\ ~Refuse(c)
  <2>1. [edit[c] EXCEPT !.qlen = Rows, !.step = "keys"] \in EditType
    BY <1>1, <1>2 DEF EditType, Steps
  <2> QED  BY <1>4, <2>1, ContinueTypeOK DEF CountForPlay, Rows
<1>5. CASE ReadKeys(c)
  <2> DEFINE pos == ClampPosition(edit[c].pos, edit[c].qlen)
  <2>1. edit[c].pos \in Int /\ edit[c].qlen \in Nat  BY <1>1 DEF EditType
  <2>2. pos \in Int /\ pos - 1 \in Int
    <3>1. pos \in 0 .. edit[c].qlen  BY <2>1, ClampsToInt
    <3> HIDE DEF pos
    <3> QED  BY <3>1, <2>1
  <2>3. PICK prev \in ScanKey(queue, ord, pos - 1), next \in ScanKey(queue, ord, pos) :
           Continue(c, [edit[c] EXCEPT !.range = OrdKeyRange(edit[c].qlen, pos, prev, next),
                                       !.step = "insert"])
    BY <1>5 DEF ReadKeys
  <2>4. prev \in Int \cup {NoKey} /\ next \in Int \cup {NoKey}  BY <2>2, <2>3, ScansInts
  <2>5. OrdKeyRange(edit[c].qlen, pos, prev, next) \in [prev : Int, next : Int, first : BOOLEAN]
    BY <2>1, <2>2, <2>4, RangeIsOfInts
  <2> HIDE DEF pos
  <2>6. [edit[c] EXCEPT !.range = OrdKeyRange(edit[c].qlen, pos, prev, next), !.step = "insert"]
           \in EditType
    BY <1>1, <2>5 DEF EditType, Steps
  <2> QED  BY <2>3, <2>6, ContinueTypeOK
<1>10. CASE FailToReadKeys(c)
  <2>1. DefaultRange \in [prev : Int, next : Int, first : BOOLEAN]
    BY OrdKeyConstants DEF DefaultRange, KeyRange
  <2>2. [edit[c] EXCEPT !.range = DefaultRange, !.step = "insert"] \in EditType
    BY <1>1, <2>1 DEF EditType, Steps
  <2> QED  BY <1>10, <2>2 DEF FailToReadKeys, TypeOK, rows
<1>6. CASE CountForLoad(c)
  <2>1. [edit[c] EXCEPT !.qlen = Rows, !.step = "max"] \in EditType
    BY <1>1, <1>2 DEF EditType, Steps
  <2> QED  BY <1>6, <2>1, ContinueTypeOK DEF CountForLoad, Rows
<1>7. CASE ReadMax(c)
  <2>1. PICK m \in {ord[t] : t \in queue} \cup {0} :
           Continue(c, [edit[c] EXCEPT !.qmax = m, !.step = "preview"])
    BY <1>7 DEF ReadMax
  <2>2. m \in Int
    <3>1. \A t \in queue : ord[t] \in Int  BY DEF TypeOK
    <3> QED  BY <2>1, <3>1
  <2>3. [edit[c] EXCEPT !.qmax = m, !.step = "preview"] \in EditType
    BY <1>1, <2>2 DEF EditType, Steps
  <2> QED  BY <2>1, <2>3, ContinueTypeOK
<1>8. CASE Preview(c) /\ ~Refuse(c)
  <2>1. [edit[c] EXCEPT !.n = SavedRows, !.step = "insert"] \in EditType
    BY <1>1, <1>2 DEF EditType, Steps
  <2> QED  BY <1>8, <2>1, ContinueTypeOK DEF Preview, SavedRows
<1>9. CASE CountForSave(c) /\ ~Refuse(c)
  <2>1. [edit[c] EXCEPT !.step = "copy"] \in EditType  BY <1>1 DEF EditType, Steps
  <2> QED  BY <1>9, <2>1, ContinueTypeOK DEF CountForSave
<1> QED  BY <1>3, <1>4, <1>5, <1>6, <1>7, <1>8, <1>9, <1>10

(* A request that ends with a write.                                       *)
LEMMA WroteTypeOK ==
    ASSUME TypeOK, NEW c \in Clients, NEW announced \in BOOLEAN, Wrote(c, announced),
           queue' \subseteq Tracks, unused' \subseteq Tracks \ queue', ord' \in [Tracks -> Int]
    PROVE  TypeOK'
BY NoEditTyped DEF TypeOK, Wrote

LEMMA InsertRowsTyped ==
    ASSUME TypeOK, NEW key, DOMAIN key \subseteq unused, \A t \in DOMAIN key : key[t] \in Int,
           InsertRows(key)
    PROVE  queue' \subseteq Tracks /\ unused' \subseteq Tracks \ queue' /\ ord' \in [Tracks -> Int]
BY DEF TypeOK, InsertRows

LEMMA InsertTypeOK ==
    ASSUME OvershootInv, TypeOK, NEW c \in Clients, InsertTracks(c)
    PROVE  TypeOK'
<1> DEFINE n == edit[c].n
<1> DEFINE S == 1 .. n
<1> DEFINE id == NewIds(S)
<1> DEFINE r == edit[c].range
<1> DEFINE new == {id[i] : i \in S}
<1> DEFINE key == [t \in new |-> SpreadKey(r.prev, r.next, n, CHOOSE i \in S : id[i] = t)]
<1>1. n \in Nat /\ r.prev \in Int /\ r.next \in Int /\ r.first \in BOOLEAN
  BY DEF TypeOK, EditType
<1>2. CanNumber(S) /\ InsertRows(key) /\ Wrote(c, r.first)  BY DEF InsertTracks
<1>3. IsFiniteSet(S)
  <2> HIDE DEF n
  <2> QED  BY <1>1, CountsUpTo
<1>4. id \in [S -> unused]  BY <1>2, <1>3, NewIdsAreNew DEF OvershootInv
<1>5. new \subseteq unused
  <2> SUFFICES ASSUME NEW i \in S PROVE id[i] \in unused  OBVIOUS
  <2> HIDE DEF S, id
  <2> QED  BY <1>4
<1>6. ASSUME NEW t \in new PROVE key[t] \in Int
  <2> DEFINE i == CHOOSE j \in S : id[j] = t
  <2>1. \E j \in S : id[j] = t  BY <1>6
  <2>2. i \in S  BY <2>1
  <2>3. i \in Int  BY <2>2, <1>1
  <2> HIDE DEF i
  <2>4. SpreadKey(r.prev, r.next, n, i) \in Int  BY <1>1, <2>3, SpreadKeyIsInt
  <2> QED  BY <1>6, <2>4 DEF i
<1>7. DOMAIN key = new  OBVIOUS
<1> HIDE DEF key, new
<1>8. queue' \subseteq Tracks /\ unused' \subseteq Tracks \ queue' /\ ord' \in [Tracks -> Int]
  BY <1>2, <1>5, <1>6, <1>7, InsertRowsTyped
<1> QED  BY <1>1, <1>2, <1>8, WroteTypeOK

LEMMA LoadTypeOK ==
    ASSUME OvershootInv, TypeOK, NEW c \in Clients, LoadTracks(c)
    PROVE  TypeOK'
<1> DEFINE S == DOMAIN playlist
<1> DEFINE id == NewIds(S)
<1> DEFINE new == {id[u] : u \in S}
<1> DEFINE key(first) == [t \in new |->
               BaseOrdKey(edit[c].qmax, playlist[first]) + playlist[CHOOSE u \in S : id[u] = t]]
<1>1. CanNumber(S) /\ Wrote(c, edit[c].qlen = 0)  BY DEF LoadTracks
<1>2. PICK first \in Heads(S, playlist) : InsertRows(key(first))  BY DEF LoadTracks
<1>3. edit[c].qmax \in Int /\ \A u \in S : playlist[u] \in Int  BY DEF TypeOK, EditType
<1>4. BaseOrdKey(edit[c].qmax, playlist[first]) \in Int
  BY <1>2, <1>3, OrdKeyConstants DEF BaseOrdKey, Heads
<1>5. id \in [S -> unused]
  BY <1>1, Counting, NewIdsAreNew DEF OvershootInv
<1>6. new \subseteq unused
  <2> SUFFICES ASSUME NEW u \in S PROVE id[u] \in unused  OBVIOUS
  <2> HIDE DEF S, id
  <2> QED  BY <1>5
<1>7. ASSUME NEW t \in new PROVE key(first)[t] \in Int
  <2> DEFINE u == CHOOSE v \in S : id[v] = t
  <2>1. \E v \in S : id[v] = t  BY <1>7
  <2>2. u \in S  BY <2>1
  <2>3. playlist[u] \in Int  BY <2>2, <1>3
  <2> QED  BY <1>7, <2>3, <1>4
<1>8. DOMAIN key(first) = new  OBVIOUS
<1> HIDE DEF key, new
<1>9. queue' \subseteq Tracks /\ unused' \subseteq Tracks \ queue' /\ ord' \in [Tracks -> Int]
  BY <1>2, <1>6, <1>7, <1>8, InsertRowsTyped
<1> QED  BY <1>1, <1>9, WroteTypeOK

LEMMA RemoveTypeOK ==
    ASSUME TypeOK, NEW c \in Clients, RemoveAt(c)
    PROVE  TypeOK'
<1>1. queue' \subseteq Tracks /\ unused' \subseteq Tracks \ queue' /\ ord' \in [Tracks -> Int]
  BY DEF RemoveAt, TypeOK, rows
<1> QED  BY <1>1, WroteTypeOK DEF RemoveAt

LEMMA RequeueTypeOK ==
    ASSUME TypeOK, NEW c \in Clients, Requeue(c)
    PROVE  TypeOK'
<1>1. RequeueKeys(queue, ord) \subseteq Int  BY OrdKeyConstants DEF RequeueKeys, TypeOK
<1>2. queue' \subseteq Tracks /\ unused' \subseteq Tracks \ queue' /\ ord' \in [Tracks -> Int]
  BY <1>1 DEF Requeue, TypeOK, rows
<1> QED  BY <1>2, WroteTypeOK DEF Requeue

LEMMA ShuffleTypeOK ==
    ASSUME TypeOK, NEW c \in Clients, Shuffle(c)
    PROVE  TypeOK'
<1>1. \A t \in queue : ShuffledKeys(ord[t]) \subseteq Int
  BY OrdKeyConstants DEF ShuffledKeys, TypeOK
<1>2. queue' = queue /\ unused' = unused  BY DEF Shuffle, rows
<1>3. ord' \in [Tracks -> Int]
  <2>1. CASE UNCHANGED rows  BY <2>1 DEF rows, TypeOK
  <2>2. ASSUME NEW t \in Heads(queue, ord), NEW key \in [queue \ {t} -> ShuffledKeys(ord[t])],
               ord' = [u \in Tracks |-> IF u \in queue \ {t} THEN key[u] ELSE ord[u]]
        PROVE  ord' \in [Tracks -> Int]
    <3>1. t \in queue  BY DEF Heads
    <3>2. \A u \in queue \ {t} : key[u] \in Int  BY <1>1, <3>1
    <3> QED  BY <2>2, <3>2 DEF TypeOK
  <2> QED  BY <2>1, <2>2 DEF Shuffle
<1>4. queue' \subseteq Tracks /\ unused' \subseteq Tracks \ queue'  BY <1>2 DEF TypeOK
<1> QED  BY <1>3, <1>4, WroteTypeOK DEF Shuffle

LEMMA CopyTypeOK ==
    ASSUME TypeOK, NEW c \in Clients, CopyQueue(c)
    PROVE  TypeOK'
<1>1. playlist' = [t \in queue |-> ord[t]]  BY DEF CopyQueue
<1>2. DOMAIN playlist' \subseteq Tracks /\ playlist' \in [DOMAIN playlist' -> Int]
  BY <1>1 DEF TypeOK
<1>3. edit' \in [Clients -> EditType]  BY NoEditTyped DEF CopyQueue, TypeOK
<1> QED  BY <1>2, <1>3 DEF CopyQueue, TypeOK, rows

LEMMA NextTypeOK == OvershootInv /\ TypeOK /\ [Next]_vars => TypeOK'
<1> SUFFICES ASSUME OvershootInv, TypeOK, [Next]_vars PROVE TypeOK'  OBVIOUS
<1>1. CASE UNCHANGED vars  BY <1>1 DEF TypeOK, vars, rows
<1>2. ASSUME NEW c \in Clients, Begin(c) PROVE TypeOK'  BY <1>2, BeginTypeOK
<1>3. ASSUME NEW c \in Clients,
             \/ CountForPlay(c) \/ ReadKeys(c) \/ FailToReadKeys(c)
             \/ CountForLoad(c) \/ ReadMax(c) \/ Preview(c) \/ CountForSave(c)
      PROVE  TypeOK'
  BY <1>3, ReadTypeOK
<1>4. ASSUME NEW c \in Clients, InsertTracks(c) \/ LoadTracks(c) \/ CopyQueue(c)
      PROVE  TypeOK'
  BY <1>4, InsertTypeOK, LoadTypeOK, CopyTypeOK
<1>5. ASSUME NEW c \in Clients, RemoveAt(c) \/ Requeue(c) \/ Shuffle(c) PROVE TypeOK'
  BY <1>5, RemoveTypeOK, RequeueTypeOK, ShuffleTypeOK
<1> QED  BY <1>1, <1>2, <1>3, <1>4, <1>5 DEF Next

(* Every key of the queue and of a saved playlist is a number, and a track *)
(* deleted never comes back under its id.                                  *)
THEOREM QueueTypes == Spec => []TypeOK
<1>1. Spec => [](OvershootInv /\ TypeOK)
  BY InitOvershoot, NextOvershoot, InitTypeOK, NextTypeOK, PTL DEF Spec
<1> QED  BY <1>1, PTL

(***************************************************************************)
(* Requeue.                                                                *)
(***************************************************************************)

LEMMA RequeuePutsLast ==
    ASSUME TypeOK, NEW c \in Clients, Requeue(c),
           NEW t \in queue, ord'[t] # ord[t], NEW u \in queue' \ {t}
    PROVE  ord'[u] < ord'[t]
<1>1. PICK s \in Heads(queue, ord), key \in RequeueKeys(queue, ord) :
         ord' = [ord EXCEPT ![s] = key] /\ UNCHANGED <<queue, unused>>
  BY DEF Requeue, rows
<1>2. /\ \A v \in queue : ord[v] \in Int
      /\ ord \in [Tracks -> Int] /\ queue \subseteq Tracks /\ s \in queue
  BY DEF TypeOK, Heads
<1>3. t = s /\ ord'[t] = key /\ ord'[u] = ord[u] /\ u \in queue
  BY <1>1, <1>2
<1>4. PICK last \in queue : (\A v \in queue : ord[v] <= ord[last])
                            /\ key = ord[last] + RequeueOrdKeyDiff
  BY <1>1 DEF RequeueKeys
<1> QED  BY <1>2, <1>3, <1>4, OrdKeyConstants

LEMMA OneRequestMoves ==
    ASSUME TypeOK, NEW d \in Clients, NEW c \in Clients, d # c,
           \/ Begin(d)
           \/ CountForPlay(d) \/ ReadKeys(d) \/ FailToReadKeys(d) \/ InsertTracks(d)
           \/ CountForLoad(d) \/ ReadMax(d) \/ Preview(d) \/ LoadTracks(d)
           \/ CountForSave(d) \/ CopyQueue(d)
           \/ RemoveAt(d) \/ Requeue(d) \/ Shuffle(d)
    PROVE  edit'[c] = edit[c]
<1>1. PICK e : edit' = [edit EXCEPT ![d] = e]
  <2>1. CASE Begin(d)  BY <2>1 DEF Begin, Accept
  <2>2. CASE CountForPlay(d) \/ ReadKeys(d) \/ FailToReadKeys(d) \/ CountForLoad(d)
    BY <2>2 DEF CountForPlay, ReadKeys, FailToReadKeys, CountForLoad, Refuse, Continue
  <2>3. CASE ReadMax(d) \/ Preview(d) \/ CountForSave(d)
    BY <2>3 DEF ReadMax, Preview, CountForSave, Refuse, Continue
  <2>4. CASE InsertTracks(d) \/ LoadTracks(d)
    BY <2>4 DEF InsertTracks, LoadTracks, Wrote
  <2>5. CASE CopyQueue(d) \/ RemoveAt(d) \/ Requeue(d) \/ Shuffle(d)
    BY <2>5 DEF CopyQueue, RemoveAt, Requeue, Shuffle, Wrote
  <2> QED  BY <2>1, <2>2, <2>3, <2>4, <2>5
<1> QED  BY <1>1 DEF TypeOK

(* A requeued track is behind every other one, however many there are and  *)
(* whatever keys the requests before have left.                            *)
THEOREM RequeueGoesLast == Spec => RequeuedIsLast
<1> DEFINE LastStep ==
       \A c \in Clients :
          At(c, "write") /\ ~At(c, "write")' /\ edit[c].op = "requeue"
          => \A t \in queue : ord'[t] # ord[t] => \A u \in queue' \ {t} : ord'[u] < ord'[t]
<1>1. TypeOK /\ [Next]_vars => [LastStep]_vars
  <2> SUFFICES ASSUME TypeOK, Next, NEW c \in Clients,
                      At(c, "write"), ~At(c, "write")', edit[c].op = "requeue",
                      NEW t \in queue, ord'[t] # ord[t], NEW u \in queue' \ {t}
               PROVE  ord'[u] < ord'[t]
    OBVIOUS
  <2>1. PICK d \in Clients :
           \/ Begin(d)
           \/ CountForPlay(d) \/ ReadKeys(d) \/ FailToReadKeys(d) \/ InsertTracks(d)
           \/ CountForLoad(d) \/ ReadMax(d) \/ Preview(d) \/ LoadTracks(d)
           \/ CountForSave(d) \/ CopyQueue(d)
           \/ RemoveAt(d) \/ Requeue(d) \/ Shuffle(d)
    BY DEF Next
  <2>2. d = c  BY <2>1, OneRequestMoves DEF At
  <2>3. Requeue(c)
    BY <2>1, <2>2 DEF Begin, Accept, CountForPlay, ReadKeys, FailToReadKeys, InsertTracks, CountForLoad, ReadMax,
                      Preview, LoadTracks, CountForSave, CopyQueue, RemoveAt, Shuffle, At
  <2> QED  BY <2>3, RequeuePutsLast
<1>2. Spec => []TypeOK  BY QueueTypes
<1> QED  BY <1>1, <1>2, PTL DEF Spec, RequeuedIsLast

(***************************************************************************)
(* LoadPlaylist.                                                           *)
(***************************************************************************)

(* As long as what a load read is up to date, no key is beyond its maximum. *)
MaxIsMax ==
    \A c \in fresh :
        edit[c].op = "load" /\ edit[c].step \in {"preview", "insert"}
        => \A t \in queue : ord[t] <= edit[c].qmax

LEMMA NextMaxIsMax == OvershootInv /\ TypeOK /\ MaxIsMax /\ [Next]_vars => MaxIsMax'
<1> SUFFICES ASSUME OvershootInv, TypeOK, MaxIsMax, [Next]_vars PROVE MaxIsMax'  OBVIOUS
<1>1. CASE UNCHANGED vars  BY <1>1 DEF MaxIsMax, vars, rows
<1>2. ASSUME NEW c \in Clients, NEW e, edit' = [edit EXCEPT ![c] = e],
             queue' = queue, ord' = ord, fresh' \subseteq fresh \cup {c},
             \/ e.op # "load" \/ e.step \notin {"preview", "insert"}
             \/ \A t \in queue : ord[t] <= e.qmax
      PROVE  MaxIsMax'
  <2>1. edit'[c] = e /\ \A d \in Clients \ {c} : edit'[d] = edit[d]  BY <1>2 DEF TypeOK
  <2>2. fresh' \subseteq Clients  BY <1>2 DEF TypeOK
  <2> SUFFICES ASSUME NEW d \in fresh', edit'[d].op = "load",
                      edit'[d].step \in {"preview", "insert"}, NEW t \in queue
               PROVE  ord[t] <= edit'[d].qmax
    BY <1>2 DEF MaxIsMax
  <2>3. CASE d = c  BY <2>1, <2>3, <1>2
  <2>4. CASE d # c
    <3>1. d \in fresh /\ edit'[d] = edit[d]  BY <2>1, <2>2, <2>4, <1>2
    <3> QED  BY <3>1 DEF MaxIsMax
  <2> QED  BY <2>3, <2>4
<1>3. ASSUME NEW c \in Clients, NEW e, Continue(c, e),
             \/ e.op # "load" \/ e.step \notin {"preview", "insert"}
             \/ \A t \in queue : ord[t] <= e.qmax
      PROVE  MaxIsMax'
  BY <1>2, <1>3 DEF Continue, rows
<1>4. ASSUME NEW c \in Clients, Refuse(c) PROVE MaxIsMax'
  BY <1>3, <1>4, NothingIsNoWait DEF Refuse
<1>5. ASSUME NEW c \in Clients, Begin(c) PROVE MaxIsMax'
  <2>1. PICK e : Accept(c, e) /\ e.step \in {"count", "write"}
    BY <1>5, BeginAccepts
  <2> QED  BY <2>1, <1>2 DEF Accept, rows
<1>6. ASSUME NEW c \in Clients,
             \/ CountForPlay(c) \/ ReadKeys(c) \/ FailToReadKeys(c)
             \/ CountForLoad(c) \/ CountForSave(c)
      PROVE  MaxIsMax'
  <2>1. edit[c] \in EditType /\ EditOK(edit[c], SavedRows)
    BY DEF TypeOK, OvershootInv, Typed
  <2>2. CASE Refuse(c)  BY <1>4, <2>2
  <2>3. CASE CountForPlay(c) /\ ~Refuse(c)
    <3> DEFINE e == [edit[c] EXCEPT !.qlen = Cardinality(queue), !.step = "keys"]
    <3>1. e.step = "keys"  BY <2>1 DEF EditType
    <3> QED  BY <2>3, <3>1, <1>3 DEF CountForPlay
  <2>4. CASE ReadKeys(c) \/ FailToReadKeys(c)
    <3>1. PICK range : ReachesInsert(c, range)  BY <2>4, ReadsReachInsert
    <3>2. edit[c].op = "play"  BY <2>1, <2>4 DEF ReadKeys, FailToReadKeys, At, EditOK
    <3>3. [edit[c] EXCEPT !.range = range, !.step = "insert"].op = "play"
      BY <2>1, <3>2 DEF EditType
    <3> QED  BY <3>1, <3>3, <1>2 DEF ReachesInsert, rows
  <2>5. CASE CountForLoad(c)
    <3> DEFINE e == [edit[c] EXCEPT !.qlen = Cardinality(queue), !.step = "max"]
    <3>1. e.step = "max"  BY <2>1 DEF EditType
    <3> QED  BY <2>5, <3>1, <1>3 DEF CountForLoad
  <2>6. CASE CountForSave(c) /\ ~Refuse(c)
    <3>1. [edit[c] EXCEPT !.step = "copy"].step = "copy"  BY <2>1 DEF EditType
    <3> QED  BY <2>6, <3>1, <1>3 DEF CountForSave
  <2> QED  BY <1>6, <2>2, <2>3, <2>4, <2>5, <2>6
<1>7. ASSUME NEW c \in Clients, ReadMax(c) PROVE MaxIsMax'
  <2>1. PICK m \in {ord[t] : t \in queue} \cup {0} :
           /\ queue # {} => \A t \in queue : ord[t] <= m
           /\ Continue(c, [edit[c] EXCEPT !.qmax = m, !.step = "preview"])
    BY <1>7 DEF ReadMax
  <2>2. edit[c] \in EditType  BY DEF TypeOK
  <2>3. [edit[c] EXCEPT !.qmax = m, !.step = "preview"].qmax = m  BY <2>2 DEF EditType
  <2> QED  BY <2>1, <2>3, <1>3
<1>8. ASSUME NEW c \in Clients, Preview(c) PROVE MaxIsMax'
  <2>1. CASE Refuse(c)  BY <1>4, <2>1
  <2>2. CASE ~Refuse(c)
    <3> DEFINE e == [edit[c] EXCEPT !.n = SavedRows, !.step = "insert"]
    <3>1. edit[c] \in EditType /\ EditOK(edit[c], SavedRows)
      BY DEF TypeOK, OvershootInv, Typed
    <3>2. edit[c].step = "preview" /\ edit[c].op = "load"
      BY <1>8, <3>1 DEF Preview, At, EditOK
    <3>3. Continue(c, e)  BY <1>8, <2>2 DEF Preview, SavedRows
    <3>4. e.qmax = edit[c].qmax  BY <3>1 DEF EditType
    <3>5. CASE c \in fresh
      <4>1. \A t \in queue : ord[t] <= e.qmax  BY <3>2, <3>4, <3>5 DEF MaxIsMax
      <4> QED  BY <3>3, <4>1, <1>3
    <3>6. CASE c \notin fresh
      <4>1. \A d \in Clients \ {c} : edit'[d] = edit[d]  BY <3>3 DEF Continue, TypeOK
      <4>2. fresh' = fresh /\ queue' = queue /\ ord' = ord /\ fresh \subseteq Clients
        BY <3>3 DEF Continue, rows, TypeOK
      <4> QED  BY <4>1, <4>2, <3>6 DEF MaxIsMax
    <3> QED  BY <3>5, <3>6
  <2> QED  BY <2>1, <2>2
<1>9. ASSUME NEW c \in Clients,
             InsertTracks(c) \/ LoadTracks(c) \/ RemoveAt(c) \/ Requeue(c) \/ Shuffle(c)
      PROVE  MaxIsMax'
  <2>1. fresh' = {}  BY <1>9 DEF InsertTracks, LoadTracks, RemoveAt, Requeue, Shuffle, Wrote
  <2> QED  BY <2>1 DEF MaxIsMax
<1>10. ASSUME NEW c \in Clients, CopyQueue(c) PROVE MaxIsMax'
  BY <1>10, <1>2, NothingIsNoWait DEF CopyQueue, rows
<1> QED  BY <1>1, <1>5, <1>6, <1>7, <1>8, <1>9, <1>10 DEF Next

(* One LoadTracks, from a maximum that is up to date.                      *)
LEMMA LoadGoesBehind ==
    ASSUME OvershootInv, TypeOK, NEW c \in Clients, LoadTracks(c),
           \A t \in queue : ord[t] <= edit[c].qmax
    PROVE  LET new == queue' \ queue IN
           /\ \A t \in queue, u \in new : ord'[t] < ord'[u]
           /\ \E f \in [DOMAIN playlist -> new] :
                 /\ \A u \in new : \E t \in DOMAIN playlist : f[t] = u
                 /\ \A t, u \in DOMAIN playlist :
                       playlist[t] < playlist[u] <=> ord'[f[t]] < ord'[f[u]]
<1> DEFINE S == DOMAIN playlist
<1> DEFINE id == NewIds(S)
<1> DEFINE rowsOf == {id[u] : u \in S}
<1> DEFINE base(first) == BaseOrdKey(edit[c].qmax, playlist[first])
<1> DEFINE key(first) == [t \in rowsOf |-> base(first) + playlist[CHOOSE u \in S : id[u] = t]]
<1>1. CanNumber(S)  BY DEF LoadTracks
<1>2. PICK first \in Heads(S, playlist) : InsertRows(key(first))  BY DEF LoadTracks
<1>3. /\ edit[c].qmax \in Int /\ \A u \in S : playlist[u] \in Int
      /\ \A t \in queue : ord[t] \in Int
      /\ queue \subseteq Tracks /\ unused \subseteq Tracks \ queue
  BY DEF TypeOK, EditType
<1>4. first \in S /\ \A u \in S : playlist[first] <= playlist[u]  BY <1>2 DEF Heads
<1>5. base(first) = edit[c].qmax - playlist[first] + EdgeOrdKeyDiff /\ base(first) \in Int
  BY <1>3, <1>4, OrdKeyConstants DEF BaseOrdKey
<1>6. id \in [S -> unused] /\ \A u, v \in S : id[u] = id[v] => u = v
  BY <1>1, Counting, NewIdsAreNew DEF OvershootInv
<1>7. \A u \in S : key(first)[id[u]] = base(first) + playlist[u]
  <2> SUFFICES ASSUME NEW u \in S PROVE key(first)[id[u]] = base(first) + playlist[u]  OBVIOUS
  <2>1. id[u] \in rowsOf  OBVIOUS
  <2>2. (CHOOSE v \in S : id[v] = id[u]) = u
    <3> DEFINE w == CHOOSE v \in S : id[v] = id[u]
    <3>1. w \in S /\ id[w] = id[u]  OBVIOUS
    <3> HIDE DEF w, id, S
    <3> QED  BY <3>1, <1>6 DEF w
  <2> QED  BY <2>1, <2>2
<1>8. DOMAIN key(first) = rowsOf  OBVIOUS
<1>9. \A u \in S : id[u] \in unused /\ id[u] \in rowsOf
  <2> SUFFICES ASSUME NEW u \in S PROVE id[u] \in unused /\ id[u] \in rowsOf  OBVIOUS
  <2>1. id[u] \in rowsOf  OBVIOUS
  <2> HIDE DEF id, S, rowsOf
  <2> QED  BY <1>6, <2>1
<1>10. \A t \in rowsOf : \E u \in S : id[u] = t  OBVIOUS
<1> HIDE DEF key, rowsOf, base, id, S
<1>11. queue' \ queue = rowsOf
  BY <1>2, <1>3, <1>8, <1>9, <1>10 DEF InsertRows
<1>12. \A u \in S : ord'[id[u]] = base(first) + playlist[u]
  BY <1>2, <1>3, <1>7, <1>8, <1>9 DEF InsertRows
<1>13. \A t \in queue : ord'[t] = ord[t]
  BY <1>2, <1>3, <1>8, <1>9, <1>10 DEF InsertRows
<1>14. ASSUME NEW t \in queue, NEW v \in rowsOf PROVE ord'[t] < ord'[v]
  <2>1. PICK u \in S : id[u] = v  BY <1>10
  <2>2. ord'[v] = base(first) + playlist[u]  BY <1>12, <2>1
  <2> QED  BY <2>2, <1>3, <1>4, <1>5, <1>13, OrdKeyConstants
<1>15. id \in [S -> rowsOf]  BY <1>6, <1>9
<1>16. \A t, u \in S : playlist[t] < playlist[u] <=> ord'[id[t]] < ord'[id[u]]
  BY <1>3, <1>5, <1>12
<1> QED  BY <1>10, <1>11, <1>14, <1>15, <1>16 DEF S

(* LoadPlaylist puts its tracks behind all others and in the saved order,  *)
(* with any number of requests, as long as none wrote since it read.       *)
THEOREM LoadGoesBehindInOrder == Spec => LoadedBehindInOrder
<1> DEFINE LoadStep ==
       \A c \in fresh :
          Inserts(c) /\ edit[c].op = "load"
          => LET new == queue' \ queue IN
             /\ \A t \in queue, u \in new : ord'[t] < ord'[u]
             /\ \E f \in [DOMAIN playlist -> new] :
                   /\ \A u \in new : \E t \in DOMAIN playlist : f[t] = u
                   /\ \A t, u \in DOMAIN playlist :
                         playlist[t] < playlist[u] <=> ord'[f[t]] < ord'[f[u]]
<1>1. OvershootInv /\ TypeOK /\ MaxIsMax /\ [Next]_vars => [LoadStep]_vars
  <2> SUFFICES ASSUME OvershootInv, TypeOK, MaxIsMax, Next,
                      NEW c \in fresh, Inserts(c), edit[c].op = "load"
               PROVE  /\ LoadTracks(c) /\ c \in Clients
                      /\ \A t \in queue : ord[t] <= edit[c].qmax
    BY LoadGoesBehind
  <2>1. PICK d \in Clients :
           \/ Begin(d)
           \/ CountForPlay(d) \/ ReadKeys(d) \/ FailToReadKeys(d) \/ InsertTracks(d)
           \/ CountForLoad(d) \/ ReadMax(d) \/ Preview(d) \/ LoadTracks(d)
           \/ CountForSave(d) \/ CopyQueue(d)
           \/ RemoveAt(d) \/ Requeue(d) \/ Shuffle(d)
    BY DEF Next
  <2>2. c \in Clients /\ edit[c].step = "insert"  BY DEF Inserts, At, TypeOK
  <2>3. d = c  BY <2>1, <2>2, OneRequestMoves DEF Inserts, At
  <2>4. LoadTracks(c)
    BY <2>1, <2>2, <2>3
    DEF Begin, Accept, CountForPlay, ReadKeys, FailToReadKeys, InsertTracks, CountForLoad, ReadMax,
        Preview, CountForSave, CopyQueue, RemoveAt, Requeue, Shuffle, At
  <2> QED  BY <2>2, <2>4 DEF MaxIsMax
<1>2. Init => MaxIsMax  BY DEF Init, MaxIsMax
<1>3. Spec => [](OvershootInv /\ TypeOK /\ MaxIsMax)
  BY <1>2, InitOvershoot, NextOvershoot, InitTypeOK, NextTypeOK, NextMaxIsMax, PTL DEF Spec
<1> QED  BY <1>1, <1>3, PTL DEF Spec, LoadedBehindInOrder
===============================================================================
