------------------------------ MODULE OrdKeys ------------------------------
(***************************************************************************)
(* How ProjectOrca orders a queue.  A row of the tracks table carries a    *)
(* float64 ord_key; every query is "ORDER BY ord_key OFFSET p LIMIT n",    *)
(* with nothing to break a tie.  A new track is put between the keys of    *)
(* its neighbours (service/play.go), a requeued one after the last row     *)
(* (models/track_remote.go).                                               *)
(*                                                                         *)
(* Keys are integers here: the unit is the distance between two            *)
(* neighbouring float64 values near the keys of the queue, so the gap of   *)
(* 100 the code leaves is a whole number of units and the rounding to the  *)
(* nearest float64 (ties to even) is rounding to an integer.               *)
(***************************************************************************)
EXTENDS Integers, FiniteSets

CONSTANTS
    EdgeOrdKeyDiff,      \* edgeOrdKeyDiff: the gap left at either end of a queue
    RequeueOrdKeyDiff,   \* RequeueOrdKeyDiff: how far behind the last row a requeue lands
    NoKey                \* no row to scan a key from

ASSUME OrdKeyConstants ==
    /\ EdgeOrdKeyDiff \in Nat \ {0}
    /\ RequeueOrdKeyDiff \in Nat \ {0}
    /\ NoKey \notin Int

(* q is a set of rows, key a function giving the ord_key of each.          *)

(* The rows OFFSET p LIMIT 1 may return: one, or any of those tied at p.   *)
AtPosition(q, key, p) ==
    {t \in q : /\ Cardinality({u \in q : key[u] < key[t]}) <= p
               /\ p < Cardinality({u \in q : key[u] <= key[t]})}

(* The rows CurrentTrackQuery may return: those nothing is ahead of.       *)
Heads(q, key) == {t \in q : \A u \in q : key[t] <= key[u]}

(* Slip: plus 50 on any row.                                               *)
RequeueBehindAny(q, key) == {key[t] + RequeueOrdKeyDiff : t \in q}

(* The key a requeued row may get: ORDER BY ord_key DESC LIMIT 1, plus 50. *)
RequeueKeys(q, key) ==
    {key[t] + RequeueOrdKeyDiff : t \in {u \in q : \A v \in q : key[v] <= key[u]}}

(* Slip: -1 is before the last track.                                      *)
ClampShort(position, qlen) ==
    LET wrapped == IF position < 0 THEN qlen + position ELSE position
    IN  IF wrapped < 0 THEN 0 ELSE IF wrapped > qlen THEN qlen ELSE wrapped

(* A negative position counts from the end; the result is in 0 .. qlen.    *)
ClampPosition(position, qlen) ==
    LET wrapped == IF position < 0 THEN qlen + position + 1 ELSE position
    IN  IF wrapped < 0 THEN 0 ELSE IF wrapped > qlen THEN qlen ELSE wrapped

KeyRange(prev, next, first) == [prev |-> prev, next |-> next, first |-> first]

DefaultRange == KeyRange(0, EdgeOrdKeyDiff, TRUE)

(* What scanning the key of the row at position p yields; NoKey without one. *)
ScanKey(q, key, p) ==
    IF AtPosition(q, key, p) = {} THEN {NoKey} ELSE {key[t] : t \in AtPosition(q, key, p)}

(* The open interval new tracks go to and whether the head of the queue is *)
(* affected, from the keys scanned before and at the position.  qlen was   *)
(* counted by an earlier query, so the row to scan may be gone: the scan   *)
(* fails.  Where the query or a scan fails for another reason the range is *)
(* the default one, too (FailToReadKeys of QueueOrder and of Handlers).    *)
OrdKeyRange(qlen, pos, prev, next) ==
    IF qlen = 0 \/ (pos = 0 /\ next = NoKey) \/ (pos # 0 /\ prev = NoKey) THEN DefaultRange
    ELSE IF pos = 0     THEN KeyRange(next - EdgeOrdKeyDiff, next, TRUE)
    ELSE IF next = NoKey THEN KeyRange(prev, prev + EdgeOrdKeyDiff, FALSE)
    ELSE KeyRange(prev, next, FALSE)

(* a / b rounded to the nearest integer, ties to even, b > 0.              *)
RoundDiv(a, b) ==
    LET down == a \div b
        rest == a % b
    IN  IF 2 * rest < b \/ (2 * rest = b /\ down % 2 = 0) THEN down ELSE down + 1

(* The key SetOrdKeys gives the i-th of n tracks put between prev and next. *)
SpreadKey(prev, next, n, i) == RoundDiv(prev * (n + 1) + (next - prev) * i, n + 1)
=============================================================================
