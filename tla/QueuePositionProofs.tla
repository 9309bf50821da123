-------------------------- MODULE QueuePositionProofs --------------------------
(***************************************************************************)
(* Where a Play puts its tracks, and which writes leave the head of the    *)
(* queue alone, with any tracks, requests, batches and positions.          *)
(***************************************************************************)
EXTENDS QueueOrderProofs

(***************************************************************************)
(* SetOrdKeys.                                                             *)
(***************************************************************************)

LEMMA DividesWithRest ==
    ASSUME NEW a \in Int, NEW b \in Nat \ {0}
    PROVE  /\ a \div b \in Int /\ a % b \in 0 .. b - 1
           /\ a = b * (a \div b) + (a % b)
OBVIOUS

LEMMA CancelsLess ==
    ASSUME NEW i \in Int, NEW j \in Int, NEW b \in Nat \ {0}, i * b < j * b
    PROVE  i < j
<1> SUFFICES ASSUME ~(i < j) PROVE FALSE  OBVIOUS
<1>1. j <= i  OBVIOUS
<1> QED  BY <1>1, TimesMonotone

(* A quotient of at least, or at most, an integer rounds to no less, or no *)
(* more.                                                                   *)
LEMMA RoundsUp ==
    ASSUME NEW a \in Int, NEW b \in Nat \ {0}, NEW k \in Int, k * b <= a
    PROVE  k <= RoundDiv(a, b)
<1> DEFINE down == a \div b
<1> DEFINE rest == a % b
<1>1. down \in Int /\ rest \in 0 .. b - 1 /\ a = b * down + rest  BY DividesWithRest
<1> HIDE DEF down, rest
<1>2. (down + 1) * b = down * b + b /\ b * down = down * b  BY <1>1, TimesOneMore
<1>3. k * b < (down + 1) * b
  <2>1. k * b \in Int /\ down * b \in Int  BY <1>1, TimesIsInt
  <2> QED  BY <1>1, <1>2, <2>1
<1>4. k < down + 1  BY <1>1, <1>3, CancelsLess
<1> QED  BY <1>1, <1>4 DEF RoundDiv, down, rest

LEMMA RoundsDown ==
    ASSUME NEW a \in Int, NEW b \in Nat \ {0}, NEW k \in Int, a <= k * b
    PROVE  RoundDiv(a, b) <= k
<1> DEFINE down == a \div b
<1> DEFINE rest == a % b
<1>1. down \in Int /\ rest \in 0 .. b - 1 /\ a = b * down + rest  BY DividesWithRest
<1> HIDE DEF down, rest
<1>2. k * b \in Int /\ down * b \in Int /\ b * down = down * b  BY <1>1, TimesIsInt
<1>3. CASE rest = 0
  <2>1. RoundDiv(a, b) = down  BY <1>1, <1>3 DEF RoundDiv, down, rest
  <2>2. down <= k
    <3> SUFFICES ASSUME k + 1 <= down PROVE FALSE  BY <1>1
    <3>1. (k + 1) * b <= down * b  BY <1>1, TimesMonotone
    <3>2. (k + 1) * b = k * b + b  BY TimesOneMore
    <3> QED  BY <1>1, <1>2, <1>3, <3>1, <3>2
  <2> QED  BY <2>1, <2>2
<1>4. CASE rest # 0
  <2>1. down * b < k * b  BY <1>1, <1>2, <1>4
  <2>2. down < k  BY <1>1, <2>1, CancelsLess
  <2> QED  BY <1>1, <2>2 DEF RoundDiv, down, rest
<1> QED  BY <1>3, <1>4

(* Quotients more than one apart do not round to the same.  (Those just    *)
(* one apart may: ties go to even.)                                        *)
LEMMA RoundsApart ==
    ASSUME NEW a \in Int, NEW c \in Int, NEW b \in Nat \ {0}, a + b < c
    PROVE  RoundDiv(a, b) < RoundDiv(c, b)
<1> DEFINE down == a \div b
<1> DEFINE rest == a % b
<1> DEFINE cdown == c \div b
<1> DEFINE crest == c % b
<1>1. down \in Int /\ rest \in 0 .. b - 1 /\ a = b * down + rest  BY DividesWithRest
<1>2. cdown \in Int /\ crest \in 0 .. b - 1 /\ c = b * cdown + crest  BY DividesWithRest
<1>3. RoundDiv(a, b) = IF 2 * rest < b \/ (2 * rest = b /\ down % 2 = 0) THEN down ELSE down + 1
  BY DEF RoundDiv
<1>4. RoundDiv(c, b) = IF 2 * crest < b \/ (2 * crest = b /\ cdown % 2 = 0) THEN cdown ELSE cdown + 1
  BY DEF RoundDiv
<1> HIDE DEF down, rest, cdown, crest
<1>5. b * down = down * b /\ b * cdown = cdown * b /\ down * b \in Int /\ cdown * b \in Int
  BY <1>1, <1>2, TimesIsInt
<1>6. (down + 1) * b = down * b + b  BY <1>1, TimesOneMore
<1>7. down + 1 <= cdown
  <2> SUFFICES ASSUME cdown <= down PROVE FALSE  BY <1>1, <1>2
  <2>1. cdown * b <= down * b  BY <1>1, <1>2, TimesMonotone
  <2> QED  BY <1>1, <1>2, <1>5, <2>1
<1>8. CASE cdown = down + 1
  <2>1. crest > rest  BY <1>1, <1>2, <1>5, <1>6, <1>8
  <2> QED  BY <1>1, <1>2, <1>3, <1>4, <1>8, <2>1
<1>9. CASE cdown > down + 1
  BY <1>1, <1>2, <1>3, <1>4, <1>9
<1> QED  BY <1>1, <1>2, <1>7, <1>8, <1>9

(* With room between the neighbours the keys of a batch are all between    *)
(* them, and in the order of the batch.                                    *)
LEMMA SpreadsBetween ==
    ASSUME NEW prev \in Int, NEW next \in Int, NEW n \in Nat, next - prev > n,
           NEW i \in 1 .. n
    PROVE  prev < SpreadKey(prev, next, n, i) /\ SpreadKey(prev, next, n, i) < next
<1> DEFINE b == n + 1
<1> DEFINE d == next - prev
<1> DEFINE a == prev * b + d * i
<1>1. b \in Nat \ {0} /\ d \in Nat /\ b <= d /\ i \in Nat  OBVIOUS
<1> HIDE DEF b, d
<1>2. prev * b \in Int /\ d * i \in Int /\ a \in Int  BY <1>1, TimesIsInt
<1>3. SpreadKey(prev, next, n, i) = RoundDiv(a, b)  BY DEF SpreadKey, b, d
<1>4. prev + 1 <= RoundDiv(a, b)
  <2>1. (prev + 1) * b = prev * b + b  BY <1>1, TimesOneMore
  <2>2. 1 * d <= i * d  BY <1>1, TimesMonotone
  <2>3. d <= d * i  BY <1>1, <2>2
  <2>4. (prev + 1) * b <= a  BY <1>1, <1>2, <2>1, <2>3
  <2> QED  BY <1>1, <1>2, <2>4, RoundsUp
<1>5. RoundDiv(a, b) <= next - 1
  <2>1. i + 1 <= b  BY DEF b
  <2>2. (i + 1) * d <= b * d  BY <1>1, <2>1, TimesMonotone
  <2>3. (i + 1) * d = i * d + d  BY <1>1, TimesOneMore
  <2>4. next = prev + d  BY DEF d
  <2>5. (prev + d) * b = prev * b + d * b  BY <1>1, TimesSplit
  <2>6. next - 1 + 1 = next  OBVIOUS
  <2>7. (next - 1 + 1) * b = (next - 1) * b + b  BY <1>1, TimesOneMore
  <2>8. (next - 1) * b = prev * b + d * b - b
    <3>1. (next - 1) * b \in Int /\ d * b \in Int  BY <1>1, TimesIsInt
    <3>2. next * b = prev * b + d * b  BY <2>4, <2>5
    <3>3. next * b = (next - 1) * b + b  BY <2>6, <2>7
    <3> QED  BY <1>1, <1>2, <3>1, <3>2, <3>3
  <2>9. i * d = d * i /\ b * d = d * b /\ d * b \in Int  BY <1>1, TimesIsInt
  <2>10. d * i + d <= d * b  BY <2>2, <2>3, <2>9
  <2>11. a <= (next - 1) * b  BY <1>1, <1>2, <2>8, <2>9, <2>10
  <2> QED  BY <1>1, <1>2, <2>11, RoundsDown
<1>6. RoundDiv(a, b) \in Int
  <2>1. a \div b \in Int  BY <1>1, <1>2, DividesWithRest
  <2> QED  BY <2>1 DEF RoundDiv
<1> QED  BY <1>3, <1>4, <1>5, <1>6

LEMMA SpreadsInOrder ==
    ASSUME NEW prev \in Int, NEW next \in Int, NEW n \in Nat, next - prev > n,
           NEW i \in 1 .. n, NEW j \in 1 .. n, i < j
    PROVE  SpreadKey(prev, next, n, i) < SpreadKey(prev, next, n, j)
<1> DEFINE b == n + 1
<1> DEFINE d == next - prev
<1> DEFINE a(k) == prev * b + d * k
<1>1. b \in Nat \ {0} /\ d \in Nat /\ b <= d /\ i \in Nat /\ j \in Nat  OBVIOUS
<1> HIDE DEF b, d
<1>2. prev * b \in Int /\ d * i \in Int /\ d * j \in Int /\ a(i) \in Int /\ a(j) \in Int
  BY <1>1, TimesIsInt
<1>3. \A k : SpreadKey(prev, next, n, k) = RoundDiv(a(k), b)  BY DEF SpreadKey, b, d
<1>4. CASE b < d
  <2>1. (i + 1) * d <= j * d  BY <1>1, TimesMonotone
  <2>2. (i + 1) * d = i * d + d  BY <1>1, TimesOneMore
  <2>3. i * d = d * i /\ j * d = d * j  BY <1>1
  <2>4. d * i + d <= d * j  BY <2>1, <2>2, <2>3
  <2>5. a(i) + b < a(j)  BY <1>1, <1>2, <1>4, <2>4
  <2>6. RoundDiv(a(i), b) < RoundDiv(a(j), b)  BY <1>1, <1>2, <2>5, RoundsApart
  <2> QED  BY <1>3, <2>6
<1>5. CASE b = d
  <2>1. ASSUME NEW k \in Nat PROVE RoundDiv(a(k), b) = prev + k
    <3>1. (prev + k) * b = prev * b + k * b  BY <1>1, TimesSplit
    <3>2. k * b = d * k /\ d * k \in Int  BY <1>1, <1>5, TimesIsInt
    <3>3. a(k) = (prev + k) * b /\ a(k) \in Int  BY <1>2, <3>1, <3>2
    <3>4. prev + k <= RoundDiv(a(k), b) /\ RoundDiv(a(k), b) <= prev + k
      <4> HIDE DEF a
      <4>1. (prev + k) * b <= a(k) /\ a(k) <= (prev + k) * b  BY <3>3
      <4> QED  BY <1>1, <3>3, <4>1, RoundsUp, RoundsDown
    <3>5. RoundDiv(a(k), b) \in Int
      <4>1. a(k) \div b \in Int  BY <1>1, <3>3, DividesWithRest
      <4> QED  BY <4>1 DEF RoundDiv
    <3> HIDE DEF a
    <3> QED  BY <3>4, <3>5
  <2> HIDE DEF a
  <2> QED  BY <1>1, <1>3, <2>1
<1> QED  BY <1>1, <1>4, <1>5

(***************************************************************************)
(* OFFSET p LIMIT 1, where no two rows have the same key.                  *)
(***************************************************************************)
Below(q, key, t) == {u \in q : key[u] < key[t]}
Rank(q, key, t)  == Cardinality(Below(q, key, t))

(* A finite set of rows with integer keys that all differ.                 *)
Ordered(q, key) == IsFiniteSet(q) /\ (\A t \in q : key[t] \in Int) /\ Distinct(q, key)

LEMMA RankOf ==
    ASSUME NEW q, NEW key, Ordered(q, key), NEW t \in q
    PROVE  /\ Rank(q, key, t) \in Nat /\ Rank(q, key, t) < Cardinality(q)
           /\ Cardinality({u \in q : key[u] <= key[t]}) = Rank(q, key, t) + 1
<1>1. Below(q, key, t) \subseteq q  BY DEF Below
<1>2. IsFiniteSet(Below(q, key, t))  BY <1>1, FS_Subset DEF Ordered
<1>3. t \notin Below(q, key, t)  BY DEF Below, Ordered
<1>4. {u \in q : key[u] <= key[t]} = Below(q, key, t) \cup {t}
  BY DEF Below, Ordered, Distinct
<1>5. Cardinality(Below(q, key, t) \cup {t}) = Rank(q, key, t) + 1
  BY <1>2, <1>3, FS_AddElement DEF Rank
<1>6. Below(q, key, t) \cup {t} \subseteq q  BY <1>1
<1>7. Cardinality(Below(q, key, t) \cup {t}) <= Cardinality(q)
  BY <1>6, FS_Subset DEF Ordered
<1>8. Rank(q, key, t) \in Nat /\ Cardinality(q) \in Nat
  BY <1>2, FS_CardinalityType DEF Rank, Ordered
<1> QED  BY <1>4, <1>5, <1>7, <1>8

LEMMA RankInQueue ==
    ASSUME NEW q, NEW key, Ordered(q, key), NEW t \in q
    PROVE  Rank(q, key, t) \in Nat /\ Rank(q, key, t) < Cardinality(q)
<1>1. Rank(q, key, t) \in Nat /\ Rank(q, key, t) < Cardinality(q)  BY RankOf
<1> QED  BY <1>1

LEMMA RankGrows ==
    ASSUME NEW q, NEW key, Ordered(q, key), NEW t \in q, NEW u \in q, key[t] < key[u]
    PROVE  Rank(q, key, t) < Rank(q, key, u)
<1>1. Below(q, key, t) \cup {t} \subseteq Below(q, key, u)  BY DEF Below, Ordered
<1>2. Below(q, key, t) \cup {t} = {v \in q : key[v] <= key[t]}
  BY DEF Below, Ordered, Distinct
<1>3. Cardinality(Below(q, key, t) \cup {t}) = Rank(q, key, t) + 1  BY <1>2, RankOf
<1>4. IsFiniteSet(Below(q, key, u))
  <2>1. Below(q, key, u) \subseteq q  BY DEF Below
  <2> QED  BY <2>1, FS_Subset DEF Ordered
<1>5. Rank(q, key, t) + 1 <= Rank(q, key, u)  BY <1>1, <1>3, <1>4, FS_Subset DEF Rank
<1>6. Rank(q, key, t) \in Int /\ Rank(q, key, u) \in Int  BY RankInQueue
<1> QED  BY <1>5, <1>6

(* Every position before the end is the rank of a row: the ranks are as    *)
(* many as the rows, and no two rows have the same.                        *)
LEMMA RankTaken ==
    ASSUME NEW q, NEW key, Ordered(q, key), NEW p \in 0 .. Cardinality(q) - 1
    PROVE  \E t \in q : Rank(q, key, t) = p
<1> DEFINE n == Cardinality(q)
<1> DEFINE place == [t \in q |-> Rank(q, key, t) + 1]
<1>1. n \in Nat  BY FS_CardinalityType DEF Ordered
<1>2. IsFiniteSet(1 .. n) /\ Cardinality(1 .. n) = n
  <2> HIDE DEF n
  <2> QED  BY <1>1, CountsUpTo
<1>3. place \in [q -> 1 .. n]
  <2> SUFFICES ASSUME NEW t \in q PROVE Rank(q, key, t) + 1 \in 1 .. n  OBVIOUS
  <2>1. Rank(q, key, t) \in Nat /\ Rank(q, key, t) < n  BY RankInQueue
  <2> QED  BY <1>1, <2>1
<1>4. ASSUME NEW t \in q, NEW u \in q, place[t] = place[u] PROVE t = u
  <2>1. Rank(q, key, t) \in Int /\ Rank(q, key, u) \in Int  BY RankInQueue
  <2>2. Rank(q, key, t) = Rank(q, key, u)  BY <1>4, <2>1
  <2>3. ~(key[t] < key[u]) /\ ~(key[u] < key[t])  BY <2>1, <2>2, RankGrows
  <2> QED  BY <2>3 DEF Ordered, Distinct
<1> HIDE DEF place, n
<1>5. place \in Injection(q, 1 .. n)  BY <1>3, <1>4 DEF Injection, IsInjective
<1>6. place \in Surjection(q, 1 .. n)  BY <1>2, <1>5, FS_Injection DEF n
<1>7. p + 1 \in 1 .. n  BY <1>1 DEF n
<1>8. PICK t \in q : place[t] = p + 1  BY <1>6, <1>7 DEF Surjection
<1>9. Rank(q, key, t) + 1 = p + 1  BY <1>8 DEF place
<1>10. Rank(q, key, t) \in Int  BY RankInQueue
<1> QED  BY <1>9, <1>10

LEMMA AtRank ==
    ASSUME NEW q, NEW key, Ordered(q, key), NEW p \in Int, NEW t \in q
    PROVE  t \in AtPosition(q, key, p) <=> Rank(q, key, t) = p
<1>1. /\ Rank(q, key, t) \in Int
      /\ Cardinality({u \in q : key[u] <= key[t]}) = Rank(q, key, t) + 1
  BY RankOf
<1> QED  BY <1>1 DEF AtPosition, Rank, Below

(* What the scan of a position finds.                                      *)
LEMMA ScanFinds ==
    ASSUME NEW q, NEW key, Ordered(q, key), NEW p \in 0 .. Cardinality(q) - 1,
           NEW k \in ScanKey(q, key, p)
    PROVE  \E t \in q : k = key[t] /\ Rank(q, key, t) = p
<1>1. PICK t \in q : Rank(q, key, t) = p  BY RankTaken
<1>2. Cardinality(q) \in Nat  BY FS_CardinalityType DEF Ordered
<1>3. t \in AtPosition(q, key, p)  BY <1>1, <1>2, AtRank
<1>4. PICK u \in AtPosition(q, key, p) : k = key[u]  BY <1>3 DEF ScanKey
<1>5. u \in q  BY DEF AtPosition
<1> QED  BY <1>2, <1>4, <1>5, AtRank

LEMMA ScanFindsNone ==
    ASSUME NEW q, NEW key, Ordered(q, key), NEW p \in Int \ (0 .. Cardinality(q) - 1),
           NEW k \in ScanKey(q, key, p)
    PROVE  k = NoKey
<1>1. ASSUME NEW t \in AtPosition(q, key, p) PROVE FALSE
  <2>1. t \in q  BY DEF AtPosition
  <2>2. Rank(q, key, t) = p  BY <2>1, AtRank
  <2>3. Cardinality(q) \in Nat  BY FS_CardinalityType DEF Ordered
  <2> QED  BY <2>1, <2>2, <2>3, RankInQueue
<1> QED  BY <1>1 DEF ScanKey

(***************************************************************************)
(* addTracks: the keys read are those of the neighbours of the place that  *)
(* was asked for.                                                          *)
(***************************************************************************)
Placed(q, key, r, p) ==
    /\ r.prev \in Int /\ r.next \in Int /\ r.prev < r.next
    /\ \A u \in q : key[u] <= r.prev \/ r.next <= key[u]
    /\ Cardinality({u \in q : key[u] <= r.prev}) = p
    /\ r.first <=> p = 0

LEMMA RangeIsPlaced ==
    ASSUME NEW q, NEW key, Ordered(q, key), NEW p \in 0 .. Cardinality(q),
           NEW prev \in ScanKey(q, key, p - 1), NEW next \in ScanKey(q, key, p)
    PROVE  Placed(q, key, OrdKeyRange(Cardinality(q), p, prev, next), p)
<1> DEFINE n == Cardinality(q)
<1> DEFINE r == OrdKeyRange(n, p, prev, next)
<1>1. n \in Nat /\ p \in Nat  BY FS_CardinalityType DEF Ordered
<1>2. \A t \in q : key[t] \in Int  BY DEF Ordered
<1>3. CASE n = 0
  <2>1. q = {} /\ p = 0  BY <1>3, FS_EmptySet DEF Ordered
  <2>2. r = DefaultRange  BY <1>3 DEF OrdKeyRange
  <2>3. Cardinality({u \in q : key[u] <= r.prev}) = 0  BY <2>1, FS_EmptySet
  <2> HIDE DEF n
  <2> QED  BY <2>1, <2>2, <2>3, OrdKeyConstants DEF Placed, DefaultRange, KeyRange, r, n
<1>4. CASE n # 0 /\ p = 0
  <2>1. PICK t \in q : next = key[t] /\ Rank(q, key, t) = 0  BY <1>1, <1>4, ScanFinds
  <2>2. next \in Int /\ next # NoKey  BY <1>2, <2>1, OrdKeyConstants
  <2>3. r = KeyRange(next - EdgeOrdKeyDiff, next, TRUE)  BY <1>4, <2>2 DEF OrdKeyRange
  <2>4. \A u \in q : next <= key[u]
    <3> SUFFICES ASSUME NEW u \in q, key[u] < next PROVE FALSE  BY <1>2, <2>2
    <3>1. Rank(q, key, u) < 0  BY <2>1, RankGrows
    <3> QED  BY <3>1, RankInQueue
  <2>5. {u \in q : key[u] <= next - EdgeOrdKeyDiff} = {}  BY <1>2, <2>2, <2>4, OrdKeyConstants
  <2>6. Cardinality({u \in q : key[u] <= r.prev}) = 0  BY <2>3, <2>5, FS_EmptySet DEF KeyRange
  <2> HIDE DEF n
  <2> QED  BY <1>4, <2>2, <2>3, <2>4, <2>6, OrdKeyConstants DEF Placed, KeyRange, r, n
<1>5. CASE n # 0 /\ p # 0
  <2>1. p - 1 \in 0 .. n - 1  BY <1>1, <1>5
  <2>2. PICK s \in q : prev = key[s] /\ Rank(q, key, s) = p - 1  BY <2>1, ScanFinds
  <2>3. prev \in Int /\ prev # NoKey  BY <1>2, <2>2, OrdKeyConstants
  <2>4. Cardinality({u \in q : key[u] <= prev}) = p  BY <1>1, <2>2, RankOf
  <2>5. CASE p = n
    <3>1. next = NoKey  BY <1>1, <2>5, ScanFindsNone
    <3>2. r = KeyRange(prev, prev + EdgeOrdKeyDiff, FALSE)  BY <1>5, <2>3, <3>1 DEF OrdKeyRange
    <3>3. \A u \in q : key[u] <= prev
      <4> SUFFICES ASSUME NEW u \in q, prev < key[u] PROVE FALSE  BY <1>2, <2>3
      <4>1. p - 1 < Rank(q, key, u)  BY <2>2, RankGrows
      <4> QED  BY <1>1, <2>5, <4>1, RankInQueue
    <3> HIDE DEF n
    <3> QED  BY <1>5, <2>3, <2>4, <3>2, <3>3, OrdKeyConstants DEF Placed, KeyRange, r, n
  <2>6. CASE p # n
    <3>1. PICK t \in q : next = key[t] /\ Rank(q, key, t) = p  BY <1>1, <2>6, ScanFinds
    <3>2. next \in Int /\ next # NoKey  BY <1>2, <3>1, OrdKeyConstants
    <3>3. r = KeyRange(prev, next, FALSE)  BY <1>5, <2>3, <3>2 DEF OrdKeyRange
    <3>4. prev < next
      <4> SUFFICES ASSUME next <= prev PROVE FALSE  BY <2>3, <3>2
      <4>1. CASE next < prev
        <5>1. p < p - 1  BY <2>2, <3>1, <4>1, RankGrows
        <5> QED  BY <1>1, <5>1
      <4>2. CASE next = prev
        <5>1. p = p - 1  BY <2>2, <3>1, <4>2 DEF Ordered, Distinct
        <5> QED  BY <1>1, <5>1
      <4> QED  BY <2>3, <3>2, <4>1, <4>2
    <3>5. \A u \in q : key[u] <= prev \/ next <= key[u]
      <4> SUFFICES ASSUME NEW u \in q, prev < key[u], key[u] < next PROVE FALSE
        BY <1>2, <2>3, <3>2
      <4>1. p - 1 < Rank(q, key, u) /\ Rank(q, key, u) < p  BY <2>2, <3>1, RankGrows
      <4>2. Rank(q, key, u) \in Int  BY RankInQueue
      <4> QED  BY <1>1, <4>1, <4>2
    <3> HIDE DEF n
    <3> QED  BY <1>5, <2>3, <2>4, <3>2, <3>3, <3>4, <3>5 DEF Placed, KeyRange, r, n
  <2> QED  BY <2>5, <2>6
<1> QED  BY <1>3, <1>4, <1>5

(***************************************************************************)
(* What a request has read, as long as no other has outdated it.           *)
(***************************************************************************)
HasCounted(e) ==
    \/ e.op = "play" /\ e.step \in {"keys", "insert"}
    \/ e.op = "load" /\ e.step \in {"max", "preview", "insert"}

ReadsOK(e) ==
    /\ HasCounted(e) => e.qlen = Cardinality(queue)
    /\ e.op = "play" /\ e.step = "insert" /\ Distinct(queue, ord)
         => Placed(queue, ord, e.range, ClampPosition(e.pos, Cardinality(queue)))
    /\ e.op = "remove" => e.pos >= 0

FreshInv == \A c \in fresh : ReadsOK(edit[c])

LEMMA QueueOrdered ==
    ASSUME OvershootInv, TypeOK, Distinct(queue, ord)
    PROVE  Ordered(queue, ord)
<1>1. IsFiniteSet(queue)  BY Counting DEF OvershootInv
<1>2. \A t \in queue : ord[t] \in Int  BY DEF TypeOK
<1> QED  BY <1>1, <1>2 DEF Ordered

(* One request goes on with e, and no row changes.                         *)
LEMMA ReadsKept ==
    ASSUME TypeOK, FreshInv, NEW c \in Clients, NEW e,
           edit' = [edit EXCEPT ![c] = e], queue' = queue, ord' = ord,
           fresh' \subseteq fresh \cup {c}, c \in fresh' => ReadsOK(e)
    PROVE  FreshInv'
<1>1. edit'[c] = e /\ \A d \in Clients \ {c} : edit'[d] = edit[d]  BY DEF TypeOK
<1>2. fresh' \subseteq Clients  BY DEF TypeOK
<1> SUFFICES ASSUME NEW d \in fresh' PROVE ReadsOK(edit[d])'  BY DEF FreshInv
<1>3. PICK f : f = edit'[d] /\ ReadsOK(f)
  <2>1. CASE d = c  BY <1>1, <2>1
  <2>2. CASE d # c  BY <1>1, <1>2, <2>2 DEF FreshInv
  <2> QED  BY <2>1, <2>2
<1> QED  BY <1>3 DEF ReadsOK, HasCounted, Distinct, Placed

LEMMA ContinueReads ==
    ASSUME TypeOK, FreshInv, NEW c \in Clients, NEW e, Continue(c, e), c \in fresh => ReadsOK(e)
    PROVE  FreshInv'
BY ReadsKept DEF Continue, rows

LEMMA NothingRead == ReadsOK(NoEdit)
BY NothingIsNoWait DEF ReadsOK, HasCounted

LEMMA BeginReads ==
    ASSUME NEW c \in Clients, Begin(c)
    PROVE  \E e : Accept(c, e) /\ ReadsOK(e)
<1>1. ASSUME NEW op, NEW step \in {"count", "write"}, NEW n, NEW pos, op = "remove" => pos >= 0
      PROVE  ReadsOK(Edit(op, step, n, pos))
  BY <1>1 DEF Edit, ReadsOK, HasCounted
<1>2. CASE \E p \in Positions : Accept(c, Edit("remove", "write", 0, IF p < 0 THEN 0 ELSE p))
  <2>1. PICK p \in Positions : Accept(c, Edit("remove", "write", 0, IF p < 0 THEN 0 ELSE p))
    BY <1>2
  <2>2. (IF p < 0 THEN 0 ELSE p) >= 0  BY QueueConstants
  <2> QED  BY <1>1, <2>1, <2>2
<1>3. CASE \E n \in BatchSizes, p \in Positions : Accept(c, Edit("play", "count", n, p))
  BY <1>1, <1>3
<1>4. CASE \/ Accept(c, Edit("requeue", "write", 0, 0)) \/ Accept(c, Edit("shuffle", "write", 0, 0))
           \/ Accept(c, Edit("save", "count", 0, 0)) \/ Accept(c, Edit("load", "count", 0, 0))
  BY <1>1, <1>4
<1> QED  BY <1>2, <1>3, <1>4 DEF Begin

LEMMA ReadKeysReads ==
    ASSUME OvershootInv, TypeOK, FreshInv, NEW c \in Clients, ReadKeys(c)
    PROVE  FreshInv'
<1> DEFINE pos == ClampPosition(edit[c].pos, edit[c].qlen)
<1>1. PICK prev \in ScanKey(queue, ord, pos - 1), next \in ScanKey(queue, ord, pos) :
         Continue(c, [edit[c] EXCEPT !.range = OrdKeyRange(edit[c].qlen, pos, prev, next),
                                     !.step = "insert"])
  BY DEF ReadKeys
<1>2. PICK e : e = [edit[c] EXCEPT !.range = OrdKeyRange(edit[c].qlen, pos, prev, next), !.step = "insert"]
  OBVIOUS
<1>3. edit[c] \in EditType /\ EditOK(edit[c], SavedRows)  BY DEF TypeOK, OvershootInv, Typed
<1>4. edit[c].step = "keys" /\ edit[c].op = "play"  BY <1>3 DEF ReadKeys, At, EditOK
<1>5. /\ e.op = "play" /\ e.step = "insert" /\ e.qlen = edit[c].qlen /\ e.pos = edit[c].pos
      /\ e.range = OrdKeyRange(edit[c].qlen, pos, prev, next)
  BY <1>2, <1>3, <1>4 DEF EditType
<1>6. ASSUME c \in fresh PROVE ReadsOK(e)
  <2>1. edit[c].qlen = Cardinality(queue)  BY <1>4, <1>6 DEF FreshInv, ReadsOK, HasCounted
  <2>2. ASSUME Distinct(queue, ord)
        PROVE  Placed(queue, ord, e.range, ClampPosition(e.pos, Cardinality(queue)))
    <3>1. Ordered(queue, ord)  BY <2>2, QueueOrdered
    <3>2. pos \in 0 .. Cardinality(queue)
      <4>1. edit[c].pos \in Int /\ edit[c].qlen \in Nat  BY <1>3 DEF EditType
      <4> QED  BY <2>1, <4>1, ClampsToInt
    <3> HIDE DEF pos
    <3>3. Placed(queue, ord, OrdKeyRange(Cardinality(queue), pos, prev, next), pos)
      BY <3>1, <3>2, RangeIsPlaced
    <3> QED  BY <1>5, <2>1, <3>3 DEF pos
  <2> QED  BY <1>5, <2>1, <2>2 DEF ReadsOK
<1> QED  BY <1>1, <1>2, <1>6, ContinueReads

LEMMA NextFresh == OvershootInv /\ TypeOK /\ FreshInv /\ [Next]_vars => FreshInv'
<1> SUFFICES ASSUME OvershootInv, TypeOK, FreshInv, [Next]_vars PROVE FreshInv'  OBVIOUS
<1>1. CASE UNCHANGED vars
  <2>1. edit' = edit /\ queue' = queue /\ ord' = ord /\ fresh' = fresh  BY <1>1 DEF vars, rows
  <2> SUFFICES ASSUME NEW d \in fresh' PROVE ReadsOK(edit[d])'  BY DEF FreshInv
  <2>2. PICK f : f = edit'[d] /\ ReadsOK(f)  BY <2>1 DEF FreshInv
  <2> QED  BY <2>1, <2>2 DEF ReadsOK, HasCounted, Distinct, Placed
<1>2. ASSUME NEW c \in Clients, Begin(c) PROVE FreshInv'
  <2>1. PICK e : Accept(c, e) /\ ReadsOK(e)  BY <1>2, BeginReads
  <2> QED  BY <2>1, ReadsKept DEF Accept, rows
<1>3. ASSUME NEW c \in Clients, Refuse(c) PROVE FreshInv'
  BY <1>3, NothingRead, ContinueReads DEF Refuse
<1>4. ASSUME NEW c \in Clients, CountForPlay(c) \/ CountForLoad(c) \/ CountForSave(c), ~Refuse(c)
      PROVE  FreshInv'
  <2>1. edit[c] \in EditType  BY DEF TypeOK
  <2>2. CASE CountForSave(c)
    <3>1. Continue(c, [edit[c] EXCEPT !.step = "copy"]) /\ edit[c].op = "save"
      BY <1>4, <2>2 DEF CountForSave
    <3>2. PICK e : e = [edit[c] EXCEPT !.step = "copy"]  OBVIOUS
    <3>3. e.op = "save"  BY <2>1, <3>1, <3>2 DEF EditType
    <3> QED  BY <3>1, <3>2, <3>3, ContinueReads DEF ReadsOK, HasCounted
  <2>3. CASE CountForPlay(c) \/ CountForLoad(c)
    <3>1. PICK step \in {"keys", "max"} :
             /\ Continue(c, [edit[c] EXCEPT !.qlen = Cardinality(queue), !.step = step])
             /\ edit[c].op \in {"play", "load"}
      BY <1>4, <2>3 DEF CountForPlay, CountForLoad
    <3>2. PICK e : e = [edit[c] EXCEPT !.qlen = Cardinality(queue), !.step = step]  OBVIOUS
    <3>3. e.op # "remove" /\ e.qlen = Cardinality(queue) /\ e.step # "insert"
      BY <2>1, <3>1, <3>2 DEF EditType
    <3> QED  BY <3>1, <3>2, <3>3, ContinueReads DEF ReadsOK
  <2> QED  BY <1>4, <2>2, <2>3
<1>5. ASSUME NEW c \in Clients, ReadMax(c) \/ Preview(c), ~Refuse(c) PROVE FreshInv'
  <2>1. edit[c] \in EditType /\ EditOK(edit[c], SavedRows)
    BY DEF TypeOK, OvershootInv, Typed
  <2>2. PICK e : Continue(c, e) /\ e.op = "load" /\ e.qlen = edit[c].qlen
    <3>1. edit[c].op = "load"  BY <1>5, <2>1 DEF ReadMax, Preview, At, EditOK
    <3>2. CASE ReadMax(c)
      <4>1. PICK m : Continue(c, [edit[c] EXCEPT !.qmax = m, !.step = "preview"])
        BY <3>2 DEF ReadMax
      <4>2. PICK e : e = [edit[c] EXCEPT !.qmax = m, !.step = "preview"]  OBVIOUS
      <4>3. e.op = "load" /\ e.qlen = edit[c].qlen  BY <2>1, <3>1, <4>2 DEF EditType
      <4> QED  BY <4>1, <4>2, <4>3
    <3>3. CASE Preview(c)
      <4>1. PICK n : Continue(c, [edit[c] EXCEPT !.n = n, !.step = "insert"])
        BY <1>5, <3>3 DEF Preview
      <4>2. PICK e : e = [edit[c] EXCEPT !.n = n, !.step = "insert"]  OBVIOUS
      <4>3. e.op = "load" /\ e.qlen = edit[c].qlen  BY <2>1, <3>1, <4>2 DEF EditType
      <4> QED  BY <4>1, <4>2, <4>3
    <3> QED  BY <1>5, <3>2, <3>3
  <2>3. HasCounted(edit[c])
    BY <1>5, <2>1 DEF ReadMax, Preview, At, EditOK, HasCounted
  <2>4. c \in fresh => ReadsOK(e)  BY <2>2, <2>3 DEF FreshInv, ReadsOK
  <2> QED  BY <2>2, <2>4, ContinueReads
<1>6. ASSUME NEW c \in Clients,
             InsertTracks(c) \/ LoadTracks(c) \/ RemoveAt(c) \/ Requeue(c) \/ Shuffle(c)
      PROVE  FreshInv'
  <2>1. fresh' = {}  BY <1>6 DEF InsertTracks, LoadTracks, RemoveAt, Requeue, Shuffle, Wrote
  <2> QED  BY <2>1 DEF FreshInv
<1>7. ASSUME NEW c \in Clients, CopyQueue(c) PROVE FreshInv'
  BY <1>7, NothingRead, ReadsKept DEF CopyQueue, rows
<1>8. ASSUME NEW c \in Clients, FailToReadKeys(c) PROVE FreshInv'
  <2>1. \A d \in fresh' : d \in fresh /\ d # c /\ edit'[d] = edit[d]
    BY <1>8 DEF FailToReadKeys, TypeOK
  <2>2. queue' = queue /\ ord' = ord  BY <1>8 DEF FailToReadKeys, rows
  <2> SUFFICES ASSUME NEW d \in fresh' PROVE ReadsOK(edit[d])'  BY DEF FreshInv
  <2>3. PICK f : f = edit'[d] /\ ReadsOK(f)  BY <2>1 DEF FreshInv
  <2> QED  BY <2>2, <2>3 DEF ReadsOK, HasCounted, Distinct, Placed
<1> QED  BY <1>1, <1>2, <1>3, <1>4, <1>5, <1>6, <1>7, <1>8, ReadKeysReads DEF Next

(***************************************************************************)
(* Play.                                                                   *)
(***************************************************************************)

(* What an INSERT of a Play's tracks between two neighbours does.          *)
LEMMA PlayInserts ==
    ASSUME OvershootInv, TypeOK, NEW c \in Clients, InsertTracks(c), HasRoom(c)
    PROVE  /\ queue \subseteq queue' /\ queue' \subseteq Tracks
           /\ \A t \in queue : ord'[t] = ord[t]
           /\ \A t \in queue' \ queue : /\ ord'[t] \in Int
                                        /\ edit[c].range.prev < ord'[t]
                                        /\ ord'[t] < edit[c].range.next
           /\ \A t, u \in queue' \ queue : ord'[t] = ord'[u] => t = u
<1> DEFINE n == edit[c].n
<1> DEFINE S == 1 .. n
<1> DEFINE id == NewIds(S)
<1> DEFINE prev == edit[c].range.prev
<1> DEFINE next == edit[c].range.next
<1> DEFINE rowsOf == {id[i] : i \in S}
<1> DEFINE key == [t \in rowsOf |-> SpreadKey(prev, next, n, CHOOSE i \in S : id[i] = t)]
<1>1. n \in Nat /\ prev \in Int /\ next \in Int  BY DEF TypeOK, EditType
<1>2. CanNumber(S) /\ InsertRows(key)  BY DEF InsertTracks
<1>3. next - prev > n  BY DEF InsertTracks, HasRoom
<1>4. IsFiniteSet(S)
  <2> HIDE DEF n
  <2> QED  BY <1>1, CountsUpTo
<1>5. id \in [S -> unused] /\ \A i, j \in S : id[i] = id[j] => i = j
  BY <1>2, <1>4, NewIdsAreNew DEF OvershootInv
<1>6. \A i \in S : key[id[i]] = SpreadKey(prev, next, n, i)
  <2> SUFFICES ASSUME NEW i \in S PROVE key[id[i]] = SpreadKey(prev, next, n, i)  OBVIOUS
  <2>1. id[i] \in rowsOf  OBVIOUS
  <2>2. (CHOOSE j \in S : id[j] = id[i]) = i
    <3> DEFINE j == CHOOSE k \in S : id[k] = id[i]
    <3>1. j \in S /\ id[j] = id[i]  OBVIOUS
    <3> HIDE DEF j, id, S
    <3> QED  BY <3>1, <1>5 DEF j
  <2> QED  BY <2>1, <2>2
<1>7. DOMAIN key = rowsOf  OBVIOUS
<1>8. \A i \in S : id[i] \in unused /\ id[i] \in rowsOf
  <2> SUFFICES ASSUME NEW i \in S PROVE id[i] \in unused /\ id[i] \in rowsOf  OBVIOUS
  <2>1. id[i] \in rowsOf  OBVIOUS
  <2> HIDE DEF id, S, rowsOf
  <2> QED  BY <1>5, <2>1
<1>9. \A t \in rowsOf : \E i \in S : id[i] = t  OBVIOUS
<1>10. \A i \in S : i \in 1 .. n  OBVIOUS
<1>11. queue \subseteq Tracks /\ unused \subseteq Tracks \ queue  BY DEF TypeOK
<1> HIDE DEF key, rowsOf, id, S, prev, next, n
<1>12. queue' = queue \cup rowsOf /\ queue' \ queue = rowsOf /\ queue' \subseteq Tracks
  BY <1>2, <1>7, <1>8, <1>9, <1>11 DEF InsertRows
<1>13. \A i \in S : ord'[id[i]] = SpreadKey(prev, next, n, i)
  BY <1>2, <1>6, <1>7, <1>8, <1>11 DEF InsertRows
<1>14. \A t \in queue : ord'[t] = ord[t]
  BY <1>2, <1>7, <1>8, <1>9, <1>11 DEF InsertRows
<1>15. ASSUME NEW t \in rowsOf PROVE ord'[t] \in Int /\ prev < ord'[t] /\ ord'[t] < next
  <2>1. PICK i \in S : id[i] = t  BY <1>9
  <2>2. i \in 1 .. n /\ i \in Int  BY <1>1, <1>10
  <2>3. ord'[t] = SpreadKey(prev, next, n, i)  BY <1>13, <2>1
  <2>4. SpreadKey(prev, next, n, i) \in Int  BY <1>1, <2>2, SpreadKeyIsInt
  <2>5. prev < SpreadKey(prev, next, n, i) /\ SpreadKey(prev, next, n, i) < next
    BY <1>1, <1>3, <2>2, SpreadsBetween
  <2> QED  BY <2>3, <2>4, <2>5
<1>16. ASSUME NEW t \in rowsOf, NEW u \in rowsOf, ord'[t] = ord'[u] PROVE t = u
  <2>1. PICK i \in S, j \in S : id[i] = t /\ id[j] = u  BY <1>9
  <2>2. i \in 1 .. n /\ j \in 1 .. n /\ i \in Int /\ j \in Int  BY <1>1, <1>10
  <2>3. SpreadKey(prev, next, n, i) = SpreadKey(prev, next, n, j)  BY <1>13, <1>16, <2>1
  <2>4. SpreadKey(prev, next, n, i) \in Int  BY <1>1, <2>2, SpreadKeyIsInt
  <2>5. ~(i < j)
    <3> SUFFICES ASSUME i < j PROVE FALSE  OBVIOUS
    <3>1. SpreadKey(prev, next, n, i) < SpreadKey(prev, next, n, j)
      BY <1>1, <1>3, <2>2, SpreadsInOrder
    <3> QED  BY <2>3, <2>4, <3>1
  <2>6. ~(j < i)
    <3> SUFFICES ASSUME j < i PROVE FALSE  OBVIOUS
    <3>1. SpreadKey(prev, next, n, j) < SpreadKey(prev, next, n, i)
      BY <1>1, <1>3, <2>2, SpreadsInOrder
    <3> QED  BY <2>3, <2>4, <3>1
  <2> QED  BY <2>1, <2>2, <2>5, <2>6
<1> QED  BY <1>12, <1>14, <1>15, <1>16 DEF prev, next

(* How many tracks a position asks to be ahead, or behind.                 *)
LEMMA ClampCounts ==
    ASSUME NEW asked \in Int, NEW here \in Nat
    PROVE  IF asked >= 0
             THEN ClampPosition(asked, here) = (IF asked < here THEN asked ELSE here)
             ELSE here - ClampPosition(asked, here) = (IF -asked - 1 < here THEN -asked - 1 ELSE here)
BY DEF ClampPosition

LEMMA PlayGoesWhereAsked ==
    ASSUME OvershootInv, TypeOK, NEW c \in Clients, InsertTracks(c), HasRoom(c),
           Distinct(queue, ord), ReadsOK(edit[c]), edit[c].op = "play"
    PROVE  LET asked == edit[c].pos
               here  == Cardinality(queue)
               fewer(k) == IF k < here THEN k ELSE here
           IN  /\ Distinct(queue', ord')
               /\ \A t \in queue : ord'[t] = ord[t]
               /\ \A t \in queue' \ queue :
                     IF asked >= 0
                       THEN Cardinality({u \in queue : ord[u] < ord'[t]}) = fewer(asked)
                       ELSE Cardinality({u \in queue : ord[u] > ord'[t]}) = fewer(-asked - 1)
<1> DEFINE asked == edit[c].pos
<1> DEFINE here == Cardinality(queue)
<1> DEFINE p == ClampPosition(asked, here)
<1> DEFINE r == edit[c].range
<1> DEFINE before == {u \in queue : ord[u] <= r.prev}
<1>1. Placed(queue, ord, r, p)  BY DEF InsertTracks, At, ReadsOK
<1>2. \A t \in queue : ord[t] \in Int  BY DEF TypeOK
<1>3. IsFiniteSet(queue) /\ here \in Nat /\ asked \in Int
  BY Counting DEF OvershootInv, Rows, TypeOK, EditType
<1>4. before \subseteq queue /\ Cardinality(before) = p  BY <1>1 DEF Placed
<1>5. r.prev \in Int /\ r.next \in Int /\ \A u \in queue : ord[u] <= r.prev \/ r.next <= ord[u]
  BY <1>1 DEF Placed
<1>6. /\ \A t \in queue : ord'[t] = ord[t]
      /\ \A t \in queue' \ queue : ord'[t] \in Int /\ r.prev < ord'[t] /\ ord'[t] < r.next
      /\ \A t, u \in queue' \ queue : ord'[t] = ord'[u] => t = u
  BY PlayInserts
<1>7. Distinct(queue', ord')
  <2> SUFFICES ASSUME NEW t \in queue', NEW u \in queue', ord'[t] = ord'[u] PROVE t = u
    BY DEF Distinct
  <2>1. CASE t \in queue /\ u \in queue  BY <1>6, <2>1 DEF Distinct
  <2>2. CASE t \in queue /\ u \notin queue  BY <1>2, <1>5, <1>6, <2>2
  <2>3. CASE t \notin queue /\ u \in queue  BY <1>2, <1>5, <1>6, <2>3
  <2>4. CASE t \notin queue /\ u \notin queue  BY <1>6, <2>4
  <2> QED  BY <2>1, <2>2, <2>3, <2>4
<1>8. ASSUME NEW t \in queue' \ queue
      PROVE  /\ Cardinality({u \in queue : ord[u] < ord'[t]}) = p
             /\ Cardinality({u \in queue : ord[u] > ord'[t]}) = here - p
  <2>1. PICK k : k = ord'[t] /\ k \in Int /\ r.prev < k /\ k < r.next  BY <1>6
  <2>2. {u \in queue : ord[u] < k} = before  BY <1>2, <1>5, <2>1
  <2>3. {u \in queue : ord[u] > k} = queue \ before  BY <1>2, <1>5, <2>1
  <2>4. Cardinality(queue \ before) = here - Cardinality(queue \cap before)
    BY <1>3, FS_Difference
  <2>5. queue \cap before = before  OBVIOUS
  <2> QED  BY <1>4, <2>1, <2>2, <2>3, <2>4, <2>5
<1> HIDE DEF p, here, asked
<1>9. IF asked >= 0
        THEN p = (IF asked < here THEN asked ELSE here)
        ELSE here - p = (IF -asked - 1 < here THEN -asked - 1 ELSE here)
  BY <1>3, ClampCounts DEF p
<1> QED  BY <1>6, <1>7, <1>8, <1>9 DEF here, asked

(* A request's edit is changed by no step but its own.                     *)
LEMMA OwnStep ==
    ASSUME TypeOK, Next, NEW c \in Clients, edit'[c] # edit[c]
    PROVE  \/ Begin(c)
           \/ CountForPlay(c) \/ ReadKeys(c) \/ FailToReadKeys(c) \/ InsertTracks(c)
           \/ CountForLoad(c) \/ ReadMax(c) \/ Preview(c) \/ LoadTracks(c)
           \/ CountForSave(c) \/ CopyQueue(c)
           \/ RemoveAt(c) \/ Requeue(c) \/ Shuffle(c)
<1>1. PICK d \in Clients :
         \/ Begin(d)
         \/ CountForPlay(d) \/ ReadKeys(d) \/ FailToReadKeys(d) \/ InsertTracks(d)
         \/ CountForLoad(d) \/ ReadMax(d) \/ Preview(d) \/ LoadTracks(d)
         \/ CountForSave(d) \/ CopyQueue(d)
         \/ RemoveAt(d) \/ Requeue(d) \/ Shuffle(d)
  BY DEF Next
<1>2. d = c  BY <1>1, OneRequestMoves
<1> QED  BY <1>1, <1>2

(* The reads of every request are what it takes them for while no write    *)
(* comes between.                                                          *)
LEMMA ReadsStayGood == Spec => [](OvershootInv /\ TypeOK /\ FreshInv)
<1>1. Init => FreshInv  BY DEF Init, FreshInv
<1> QED
  BY <1>1, InitOvershoot, NextOvershoot, InitTypeOK, NextTypeOK, NextFresh, PTL DEF Spec

(* "-1 means put track as last" (play.go): a Play that could read the keys *)
(* and that no write has come in between of puts its tracks behind as many others as asked, or before as *)
(* many, each at a place of its own, with any batch, position and queue    *)
(* whose keys leave room; SetOrdKeys' rounding collides none of them.      *)
THEOREM PlayGoesToItsPlace == Spec => PlayedWhereAsked
<1> DEFINE PlayStep ==
       \A c \in fresh :
          /\ Inserts(c) /\ edit[c].op = "play" /\ HasRoom(c) /\ Distinct(queue, ord)
          => LET asked == edit[c].pos
                 here  == Cardinality(queue)
                 fewer(k) == IF k < here THEN k ELSE here
             IN  /\ Distinct(queue', ord')
                 /\ \A t \in queue : ord'[t] = ord[t]
                 /\ \A t \in queue' \ queue :
                       IF asked >= 0
                         THEN Cardinality({u \in queue : ord[u] < ord'[t]}) = fewer(asked)
                         ELSE Cardinality({u \in queue : ord[u] > ord'[t]}) = fewer(-asked - 1)
<1>1. OvershootInv /\ TypeOK /\ FreshInv /\ [Next]_vars => [PlayStep]_vars
  <2> SUFFICES ASSUME OvershootInv, TypeOK, FreshInv, Next,
                      NEW c \in fresh, Inserts(c), edit[c].op = "play"
               PROVE  InsertTracks(c) /\ c \in Clients /\ ReadsOK(edit[c])
    BY PlayGoesWhereAsked
  <2>1. c \in Clients /\ edit[c].step = "insert" /\ edit'[c] # edit[c]
    BY DEF Inserts, At, TypeOK
  <2>2. InsertTracks(c)
    BY <2>1, OwnStep
    DEF Begin, Accept, CountForPlay, ReadKeys, FailToReadKeys, CountForLoad, LoadTracks, ReadMax,
        Preview, CountForSave, CopyQueue, RemoveAt, Requeue, Shuffle, At
  <2> QED  BY <2>1, <2>2 DEF FreshInv
<1> QED  BY <1>1, ReadsStayGood, PTL DEF Spec, PlayedWhereAsked

(***************************************************************************)
(* Writes that are not announced as a new head.                            *)
(***************************************************************************)
LEMMA PlayKeepsHead ==
    ASSUME OvershootInv, TypeOK, NEW c \in Clients, InsertTracks(c), HasRoom(c),
           Distinct(queue, ord), ReadsOK(edit[c]), ~told'
    PROVE  Heads(queue', ord') = Heads(queue, ord)
<1> DEFINE r == edit[c].range
<1> DEFINE p == ClampPosition(edit[c].pos, Cardinality(queue))
<1>1. Placed(queue, ord, r, p)  BY DEF InsertTracks, At, ReadsOK
<1>2. ~r.first  BY DEF InsertTracks, Wrote
<1>3. \A t \in queue : ord[t] \in Int  BY DEF TypeOK
<1>4. /\ queue \subseteq queue'
      /\ \A t \in queue : ord'[t] = ord[t]
      /\ \A t \in queue' \ queue : ord'[t] \in Int /\ r.prev < ord'[t]
  BY PlayInserts
<1>5. PICK w \in queue : ord[w] <= r.prev
  <2>1. Cardinality({u \in queue : ord[u] <= r.prev}) # 0  BY <1>1, <1>2 DEF Placed
  <2> QED  BY <2>1, FS_EmptySet
<1>6. r.prev \in Int  BY <1>1 DEF Placed
<1>7. \A t \in queue' \ queue : ord[w] < ord'[t]  BY <1>3, <1>4, <1>5, <1>6
<1> QED  BY <1>3, <1>4, <1>7 DEF Heads

LEMMA LoadKeepsHead ==
    ASSUME OvershootInv, TypeOK, NEW c \in Clients, LoadTracks(c),
           \A t \in queue : ord[t] <= edit[c].qmax, ReadsOK(edit[c]), ~told'
    PROVE  Heads(queue', ord') = Heads(queue, ord)
<1>1. edit[c].qlen = Cardinality(queue)  BY DEF LoadTracks, At, ReadsOK, HasCounted
<1>2. edit[c].qlen # 0  BY DEF LoadTracks, Wrote
<1>3. PICK w \in queue : TRUE  BY <1>1, <1>2, FS_EmptySet
<1>4. \A t \in queue, u \in queue' \ queue : ord'[t] < ord'[u]  BY LoadGoesBehind
<1>5. \A t \in queue : ord[t] \in Int /\ ord'[t] \in Int /\ ord'[t] = ord[t]
  <2> DEFINE S == DOMAIN playlist
  <2> DEFINE id == NewIds(S)
  <2> DEFINE rowsOf == {id[u] : u \in S}
  <2> DEFINE shifted(first) ==
         [t \in rowsOf |-> BaseOrdKey(edit[c].qmax, playlist[first]) + playlist[CHOOSE u \in S : id[u] = t]]
  <2>1. PICK first \in Heads(S, playlist) : InsertRows(shifted(first))  BY DEF LoadTracks
  <2>2. DOMAIN shifted(first) = rowsOf  OBVIOUS
  <2>3. PICK key : InsertRows(key) /\ DOMAIN key = rowsOf
    <3> HIDE DEF shifted, rowsOf
    <3> QED  BY <2>1, <2>2
  <2>4. id \in [S -> unused]  BY Counting, NewIdsAreNew DEF OvershootInv, LoadTracks
  <2>5. DOMAIN key \subseteq unused
    <3> SUFFICES ASSUME NEW u \in S PROVE id[u] \in unused  BY <2>3
    <3> HIDE DEF S, id
    <3> QED  BY <2>4
  <2> QED  BY <2>3, <2>5 DEF InsertRows, TypeOK
<1>6. queue \subseteq queue'
  BY DEF LoadTracks, InsertRows
<1>7. \A t \in queue' : ord'[t] \in Int  BY LoadTypeOK DEF TypeOK
<1> QED  BY <1>3, <1>4, <1>5, <1>6, <1>7 DEF Heads

LEMMA RemoveKeepsHead ==
    ASSUME OvershootInv, TypeOK, NEW c \in Clients, RemoveAt(c), rows' # rows,
           Distinct(queue, ord), ReadsOK(edit[c]), ~told'
    PROVE  Heads(queue', ord') = Heads(queue, ord)
<1> DEFINE p == edit[c].pos
<1>1. PICK t \in AtPosition(queue, ord, p) : queue' = queue \ {t} /\ ord' = [ord EXCEPT ![t] = 0]
  BY DEF RemoveAt, rows
<1>2. p \in Int /\ p > 0
  <2>1. p \in Int  BY DEF TypeOK, EditType
  <2>2. p # 0  BY DEF RemoveAt, Wrote
  <2>3. p >= 0  BY DEF RemoveAt, ReadsOK
  <2> QED  BY <2>1, <2>2, <2>3
<1>3. Ordered(queue, ord)  BY QueueOrdered
<1>4. t \in queue /\ Rank(queue, ord, t) = p
  <2>1. t \in queue  BY DEF AtPosition
  <2> QED  BY <1>2, <1>3, <2>1, AtRank
<1>5. PICK w \in queue : ord[w] < ord[t]
  <2>1. Below(queue, ord, t) # {}  BY <1>2, <1>4, FS_EmptySet DEF Rank
  <2> QED  BY <2>1 DEF Below
<1>6. \A u \in queue : ord[u] \in Int  BY DEF TypeOK
<1>7. w \in queue' /\ \A u \in queue' : ord'[u] = ord[u]  BY <1>1, <1>5, <1>6 DEF TypeOK
<1> QED  BY <1>1, <1>4, <1>5, <1>6, <1>7 DEF Heads

LEMMA ShuffleKeepsHead ==
    ASSUME TypeOK, NEW c \in Clients, Shuffle(c), rows' # rows, Distinct(queue, ord)
    PROVE  Heads(queue', ord') = Heads(queue, ord)
<1>1. PICK t \in Heads(queue, ord) :
         \E key \in [queue \ {t} -> ShuffledKeys(ord[t])] :
            /\ ord' = [u \in Tracks |-> IF u \in queue \ {t} THEN key[u] ELSE ord[u]]
            /\ queue' = queue
  BY DEF Shuffle, rows
<1>2. PICK key \in [queue \ {t} -> ShuffledKeys(ord[t])] :
         /\ ord' = [u \in Tracks |-> IF u \in queue \ {t} THEN key[u] ELSE ord[u]]
         /\ queue' = queue
  BY <1>1
<1>3. t \in queue /\ queue \subseteq Tracks /\ \A u \in queue : ord[u] \in Int /\ ord[t] <= ord[u]
  BY <1>1 DEF Heads, TypeOK
<1>4. \A u \in queue \ {t} : ord'[u] \in Int /\ ord[t] < ord'[u]
  BY <1>2, <1>3, OrdKeyConstants DEF ShuffledKeys
<1>5. ord'[t] = ord[t]  BY <1>2, <1>3
<1>6. Heads(queue', ord') = {t}  BY <1>2, <1>3, <1>4, <1>5 DEF Heads
<1>7. Heads(queue, ord) = {t}  BY <1>3 DEF Heads, Distinct
<1> QED  BY <1>6, <1>7

(* A write that is not announced to the play loop leaves the current track *)
(* the current track: the loop need not be told.                           *)
THEOREM UnannouncedKeepsHead == Spec => QuietWritesKeepHead
<1> DEFINE QuietStep ==
       \A c \in fresh :
          /\ edit'[c] # edit[c]
          /\ rows' # rows
          /\ HasRoom(c) /\ Distinct(queue, ord)
          /\ ~told'
          => Heads(queue', ord') = Heads(queue, ord)
<1>1. OvershootInv /\ TypeOK /\ FreshInv /\ MaxIsMax /\ [Next]_vars => [QuietStep]_vars
  <2> SUFFICES ASSUME OvershootInv, TypeOK, FreshInv, MaxIsMax, Next,
                      NEW c \in fresh, edit'[c] # edit[c], rows' # rows,
                      HasRoom(c), Distinct(queue, ord), ~told'
               PROVE  Heads(queue', ord') = Heads(queue, ord)
    OBVIOUS
  <2>1. c \in Clients /\ ReadsOK(edit[c])  BY DEF TypeOK, FreshInv
  <2>2. CASE InsertTracks(c)  BY <2>1, <2>2, PlayKeepsHead
  <2>3. CASE LoadTracks(c)
    <3>1. \A t \in queue : ord[t] <= edit[c].qmax  BY <2>3 DEF LoadTracks, At, MaxIsMax
    <3> QED  BY <2>1, <2>3, <3>1, LoadKeepsHead
  <2>4. CASE RemoveAt(c)  BY <2>1, <2>4, RemoveKeepsHead
  <2>5. CASE Shuffle(c)  BY <2>1, <2>5, ShuffleKeepsHead
  <2>6. ~Requeue(c)  BY DEF Requeue, Wrote
  <2>7. ~Begin(c)  BY DEF Begin, Accept
  <2>8. ~(CountForPlay(c) \/ ReadKeys(c) \/ FailToReadKeys(c) \/ CountForLoad(c))
    BY DEF CountForPlay, ReadKeys, FailToReadKeys, CountForLoad, Refuse, Continue
  <2>9. ~(ReadMax(c) \/ Preview(c) \/ CountForSave(c) \/ CopyQueue(c))
    BY DEF ReadMax, Preview, CountForSave, CopyQueue, Refuse, Continue
  <2> QED  BY <2>1, <2>2, <2>3, <2>4, <2>5, <2>6, <2>7, <2>8, <2>9, OwnStep
<1>2. Init => MaxIsMax  BY DEF Init, MaxIsMax
<1>3. Spec => []MaxIsMax
  BY <1>2, InitOvershoot, NextOvershoot, InitTypeOK, NextTypeOK, NextMaxIsMax, PTL DEF Spec
<1> QED  BY <1>1, <1>3, ReadsStayGood, PTL DEF Spec, QuietWritesKeepHead
================================================================================
