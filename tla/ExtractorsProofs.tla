-------------------------- MODULE ExtractorsProofs --------------------------
(***************************************************************************)
(* Theorems about Extractors, for any number of requests, any collection   *)
(* and page size, whatever the services answer and when tokens expire:     *)
(* refreshToken keeps Spotify.token and Spotify.client a pair; what the    *)
(* extractors answer is whole, in whatever order its pages come in.        *)
(***************************************************************************)
EXTENDS Extractors, SequenceTheorems, WellFoundedInduction, TLAPS

(***************************************************************************)
(* The token and the client.                                               *)
(***************************************************************************)

Replacing(c) == step[c] \in {"swap", "client"}

(* The functions have their domains; the request inside Lock, and only it, *)
(* is between TakeLock and StoreClient.                                    *)
WriterInside ==
    /\ DOMAIN step = Callers /\ step = [c \in Callers |-> step[c]]
    /\ DOMAIN fresh = Callers /\ fresh = [c \in Callers |-> fresh[c]]
    /\ \A c \in Callers : Replacing(c) => writer = c

HalfStored == \A c \in Callers : step[c] = "client" => token = fresh[c]

IInv == WriterInside /\ HalfStored /\ ClientOfToken

LEMMA InitIInv == Init => IInv
BY DEF Init, IInv, WriterInside, HalfStored, ClientOfToken, Replacing

(* A step of c that neither enters nor is inside Lock.                     *)
LEMMA Elsewhere ==
    ASSUME IInv, NEW c \in Callers, ~Replacing(c),
           DOMAIN step' = Callers, step' = [step EXCEPT ![c] = step'[c]],
           ~Replacing(c)',
           fresh' = [fresh EXCEPT ![c] = fresh'[c]],
           UNCHANGED <<token, client, writer>>
    PROVE  IInv'
<1>1. \A d \in Callers \ {c} : step'[d] = step[d] /\ fresh'[d] = fresh[d]
    BY DEF IInv, WriterInside
<1>2. WriterInside'
    BY <1>1 DEF IInv, WriterInside, Replacing
<1>3. HalfStored'
    BY <1>1 DEF IInv, HalfStored, WriterInside, Replacing
<1>4. ClientOfToken'
    BY DEF IInv, ClientOfToken
<1> QED
    BY <1>2, <1>3, <1>4 DEF IInv

(* Steps of the service, and of the goroutines of a playlist.              *)
LEMMA Unmoved == IInv /\ UNCHANGED <<token, client, writer, step, fresh>> => IInv'
BY DEF IInv, WriterInside, HalfStored, ClientOfToken, Replacing

LEMMA NextIInv == IInv /\ [Next]_vars => IInv'
<1> SUFFICES ASSUME IInv, [Next]_vars PROVE IInv'
    OBVIOUS
<1> USE DEF At, Goto
<1>0. ASSUME UNCHANGED vars PROVE IInv'
    BY <1>0, Unmoved DEF vars, tokens, pair, mutex, local
<1>1. ASSUME NEW c \in Callers, ExtractTracksData(c) PROVE IInv'
    <2>1. UNCHANGED <<token, client, writer, fresh>> /\ step[c] = "idle"
        BY <1>1 DEF ExtractTracksData, tokens, pair, mutex, local
    <2>2. \E s \in {"check", "fetch"} : step' = [step EXCEPT ![c] = s]
        BY <1>1 DEF ExtractTracksData
    <2> QED
        BY <2>1, <2>2, Elsewhere DEF IInv, WriterInside, Replacing
<1>2. ASSUME NEW c \in Callers, Fetch(c) PROVE IInv'
    <2>1. UNCHANGED <<token, client, writer, fresh>> /\ step[c] = "fetch"
        BY <1>2 DEF Fetch, tokens, pair, mutex
    <2>2. \E s \in {"answered", "failed"} : step' = [step EXCEPT ![c] = s]
        BY <1>2 DEF Fetch, Answer
    <2> QED
        BY <2>1, <2>2, Elsewhere DEF IInv, WriterInside, Replacing
<1>3. ASSUME NEW c \in Callers, CheckToken(c) PROVE IInv'
    <2>1. UNCHANGED <<token, client, writer, fresh>> /\ step[c] = "check"
        BY <1>3 DEF CheckToken, RLock, tokens, pair, mutex, local
    <2>2. \E s \in {"call", "renew"} : step' = [step EXCEPT ![c] = s]
        BY <1>3 DEF CheckToken
    <2> QED
        BY <2>1, <2>2, Elsewhere DEF IInv, WriterInside, Replacing
<1>4. ASSUME NEW c \in Callers, FetchToken(c) PROVE IInv'
    <2>1. UNCHANGED <<token, client, writer>> /\ step[c] = "renew"
        BY <1>4 DEF FetchToken, LeaveCheck, RUnlock, pair
    <2>2. \E s \in {"lock", "failed"} : step' = [step EXCEPT ![c] = s]
        BY <1>4 DEF FetchToken, FetchFails
    <2>3. fresh' = [fresh EXCEPT ![c] = fresh'[c]]
        BY <1>4 DEF FetchToken, IInv, WriterInside
    <2> QED
        BY <2>1, <2>2, <2>3, Elsewhere DEF IInv, WriterInside, Replacing
<1>5. ASSUME NEW c \in Callers, Lock(c) PROVE IInv'
    BY <1>5, Elsewhere DEF Lock, tokens, pair, local, IInv, WriterInside, Replacing
<1>6. ASSUME NEW c \in Callers, TakeLock(c) PROVE IInv'
    <2>1. writer = Nobody /\ writer' = c /\ step' = [step EXCEPT ![c] = "swap"]
        BY <1>6 DEF TakeLock, LockFree
    <2>2. UNCHANGED <<token, client, fresh>>
        BY <1>6 DEF TakeLock, tokens, pair, local
    <2>3. \A d \in Callers : ~Replacing(d)
        BY <2>1, ExtractorsConstants DEF IInv, WriterInside
    <2>4. \A d \in Callers \ {c} : step'[d] = step[d]
        BY <2>1 DEF IInv, WriterInside
    <2>5. c # Nobody
        BY ExtractorsConstants
    <2> QED
        BY <2>1, <2>2, <2>3, <2>4, <2>5
        DEF IInv, WriterInside, HalfStored, ClientOfToken, Replacing
<1>7. ASSUME NEW c \in Callers, StoreToken(c) PROVE IInv'
    <2>1. writer = c /\ writer' = c /\ c # Nobody
        BY <1>7, ExtractorsConstants DEF StoreToken, mutex, IInv, WriterInside, Replacing
    <2>2. step' = [step EXCEPT ![c] = "client"] /\ token' = fresh[c] /\ UNCHANGED fresh
        BY <1>7 DEF StoreToken, local
    <2>3. \A d \in Callers \ {c} : ~Replacing(d) /\ step'[d] = step[d]
        BY <2>1, <2>2 DEF IInv, WriterInside
    <2> QED
        BY <2>1, <2>2, <2>3 DEF IInv, WriterInside, HalfStored, ClientOfToken, Replacing
<1>8. ASSUME NEW c \in Callers, StoreClient(c) PROVE IInv'
    <2>1. writer = c /\ token = fresh[c]
        BY <1>8 DEF StoreClient, IInv, WriterInside, HalfStored, Replacing
    <2>2. /\ step' = [step EXCEPT ![c] = "call"] /\ fresh' = [fresh EXCEPT ![c] = 0]
          /\ client' = fresh[c] /\ UNCHANGED token
        BY <1>8 DEF StoreClient
    <2>3. \A d \in Callers \ {c} : ~Replacing(d) /\ step'[d] = step[d] /\ fresh'[d] = fresh[d]
        BY <2>1, <2>2 DEF IInv, WriterInside
    <2> QED
        BY <2>1, <2>2, <2>3 DEF IInv, WriterInside, HalfStored, ClientOfToken, Replacing
<1>9. ASSUME NEW c \in Callers, StartCall(c) PROVE IInv'
    BY <1>9, Elsewhere DEF StartCall, RLock, tokens, pair, local, IInv, WriterInside, Replacing
<1>10. ASSUME NEW c \in Callers, CallFails(c) PROVE IInv'
    BY <1>10, Elsewhere DEF CallFails, RUnlock, tokens, pair, IInv, WriterInside, Replacing
<1>11. ASSUME NEW c \in Callers, EndTrack(c) PROVE IInv'
    <2>1. UNCHANGED <<token, client, writer, fresh>> /\ step[c] = "reading"
        BY <1>11 DEF EndTrack, RUnlock, tokens, pair
    <2>2. \E s \in {"answered", "failed"} : step' = [step EXCEPT ![c] = s]
        BY <1>11 DEF EndTrack, Answer
    <2> QED
        BY <2>1, <2>2, Elsewhere DEF IInv, WriterInside, Replacing
<1>12. ASSUME NEW c \in Callers, EndAlbumPage(c) PROVE IInv'
    <2>1. UNCHANGED <<token, client, writer, fresh>> /\ step[c] = "reading"
        BY <1>12 DEF EndAlbumPage, RUnlock, tokens, pair
    <2>2. \E s \in {"answered", "failed", "call"} : step' = [step EXCEPT ![c] = s]
        BY <1>12 DEF EndAlbumPage, Answer
    <2> QED
        BY <2>1, <2>2, Elsewhere DEF IInv, WriterInside, Replacing
<1>13. ASSUME NEW c \in Callers, EndPlaylist(c) PROVE IInv'
    BY <1>13, Elsewhere DEF EndPlaylist, RUnlock, tokens, pair, IInv, WriterInside, Replacing
<1>14. ASSUME NEW c \in Callers, NEW p \in DOMAIN page[c], Page(c, p) PROVE IInv'
    <2>1. UNCHANGED <<token, client, writer, step, fresh>>
        BY <1>14 DEF Page, StartPage, EndPage, RLock, RUnlock, tokens, pair
    <2> QED
        BY <2>1, Unmoved
<1>15. ASSUME NEW c \in Callers, JoinPages(c) PROVE IInv'
    <2>1. UNCHANGED <<token, client, writer, fresh>> /\ step[c] = "pages"
        BY <1>15 DEF JoinPages, tokens, pair, mutex
    <2>2. \E s \in {"answered", "failed"} : step' = [step EXCEPT ![c] = s]
        BY <1>15 DEF JoinPages, Answer
    <2> QED
        BY <2>1, <2>2, Elsewhere DEF IInv, WriterInside, Replacing
<1>16. ASSUME Expire \/ Edit PROVE IInv'
    BY <1>16, Unmoved DEF Expire, Edit, tokens, pair, mutex, local
<1> QED
    BY <1>0, <1>1, <1>2, <1>3, <1>4, <1>5, <1>6, <1>7, <1>8, <1>9, <1>10, <1>11,
       <1>12, <1>13, <1>14, <1>15, <1>16 DEF Next, Caller

(* Outside Lock the client of the Spotify extractor is the one made with   *)
(* its token: two requests that replace an expired token at once never mix *)
(* theirs.                                                                 *)
THEOREM TokenAndClientArePaired == Spec => []ClientOfToken
<1>1. IInv => ClientOfToken
    BY DEF IInv
<1> QED
    BY InitIInv, NextIInv, <1>1, PTL DEF Spec

(***************************************************************************)
(* Induction and recursion up to a number.  The sets and functions they    *)
(* are stated with are elements, so that they can be cited for any.        *)
(***************************************************************************)

LEMMA LeastNat ==
    ASSUME NEW T \in SUBSET Nat, T # {}
    PROVE  \E n \in T : \A m \in T : n <= m
<1>1. IsWellFoundedOn({ss \in Nat \X Nat : ss[1] < ss[2]}, Nat)
  BY NatLessThanWellFounded DEF OpToRel
<1>2. PICK n \in T : \A m \in T : <<m, n>> \notin {ss \in Nat \X Nat : ss[1] < ss[2]}
  BY <1>1, WFMin
<1>3. \A m \in T : ~(m < n)  BY <1>2
<1> QED  BY <1>3

LEMMA UpTo ==
    ASSUME NEW n \in Nat, NEW G, 0 \in G,
           \A i \in 1 .. n : i - 1 \in G => i \in G
    PROVE  \A i \in 0 .. n : i \in G
<1>1. SUFFICES ASSUME (0 .. n) \ G # {} PROVE FALSE  OBVIOUS
<1>2. PICK k \in (0 .. n) \ G : \A m \in (0 .. n) \ G : k <= m
  <2>1. (0 .. n) \ G \in SUBSET Nat  OBVIOUS
  <2> QED  BY <1>1, <2>1, LeastNat
<1>3. k \in 1 .. n /\ k - 1 \in 0 .. n /\ ~(k <= k - 1)  BY <1>2
<1> QED  BY <1>2, <1>3

Iterates(f, n, T, base, next) ==
    /\ f \in [0 .. n -> T]
    /\ f[0] = base /\ \A i \in 1 .. n : f[i] = next[i][f[i - 1]]

LEMMA RecursionUpTo ==
    ASSUME NEW n \in Nat, NEW T, NEW base \in T, NEW next \in [1 .. n -> [T -> T]]
    PROVE  \E f : Iterates(f, n, T, base, next)
<1> DEFINE Good(k, f) == f[0] = base /\ \A i \in 1 .. k : f[i] = next[i][f[i - 1]]
           G == {k \in 0 .. n : \E f \in [0 .. k -> T] : Good(k, f)}
<1>1. 0 \in G
  <2> DEFINE f == [i \in 0 .. 0 |-> base]
  <2>1. f \in [0 .. 0 -> T] /\ Good(0, f)  OBVIOUS
  <2>2. 0 \in 0 .. n  OBVIOUS
  <2> HIDE DEF f, Good
  <2> QED  BY <2>1, <2>2
<1>2. ASSUME NEW k \in 1 .. n, k - 1 \in G PROVE k \in G
  <2>1. PICK f \in [0 .. k - 1 -> T] : Good(k - 1, f)  BY <1>2
  <2> DEFINE g == [i \in 0 .. k |-> IF i = k THEN next[k][f[k - 1]] ELSE f[i]]
  <2>2. k - 1 \in 0 .. k - 1 /\ f[k - 1] \in T /\ next[k][f[k - 1]] \in T  OBVIOUS
  <2>3. g \in [0 .. k -> T]
    <3>1. \A i \in 0 .. k : i # k => i \in 0 .. k - 1  OBVIOUS
    <3> QED  BY <2>2, <3>1
  <2>4. g[0] = base  BY <2>1
  <2>5. ASSUME NEW i \in 1 .. k PROVE g[i] = next[i][g[i - 1]]
    <3>1. i - 1 \in 0 .. k /\ i - 1 # k /\ g[i - 1] = f[i - 1]  OBVIOUS
    <3>2. CASE i = k  BY <3>1, <3>2
    <3>3. CASE i # k
      <4>1. i \in 1 .. k - 1 /\ i \in 0 .. k  BY <3>3
      <4>2. f[i] = next[i][f[i - 1]]  BY <2>1, <4>1
      <4> QED  BY <3>1, <3>3, <4>1, <4>2
    <3> QED  BY <3>2, <3>3
  <2>6. Good(k, g)  BY <2>4, <2>5
  <2> HIDE DEF g, Good
  <2> QED  BY <2>3, <2>6
<1>3. n \in G
  <2> HIDE DEF G
  <2>1. \A i \in 0 .. n : i \in G  BY <1>1, <1>2, UpTo
  <2> QED  BY <2>1
<1>4. PICK f \in [0 .. n -> T] : Good(n, f)  BY <1>3
<1> QED  BY <1>4 DEF Iterates

(***************************************************************************)
(* The loops over the tracks of an answer.                                 *)
(***************************************************************************)

(* f[i] is what has been kept of the first i tracks.                       *)
Keeps(f, items, A, S) ==
    /\ f \in [0 .. Len(items) -> Seq(A \ S)]
    /\ f[0] = <<>>
    /\ \A i \in 1 .. Len(items) :
          f[i] = IF items[i] \in S THEN f[i - 1] ELSE Append(f[i - 1], items[i])
    /\ Without(items, S) = f[Len(items)]

LEMMA WithoutKeeps ==
    ASSUME NEW A, NEW items \in Seq(A), NEW S
    PROVE  \E f : Keeps(f, items, A, S)
<1> DEFINE n == Len(items)
           T == Seq(A \ S)
           next == [i \in 1 .. n |-> [s \in T |-> IF items[i] \in S THEN s ELSE Append(s, items[i])]]
           K == CHOOSE kept : kept = [i \in 0 .. n |->
                   IF i = 0 THEN <<>>
                   ELSE IF items[i] \in S THEN kept[i - 1] ELSE Append(kept[i - 1], items[i])]
<1>1. n \in Nat /\ \A i \in 1 .. n : items[i] \in A  BY ElementOfSeq
<1>2. next \in [1 .. n -> [T -> T]]
  <2>1. ASSUME NEW i \in 1 .. n, NEW s \in T, items[i] \notin S PROVE Append(s, items[i]) \in T
    BY <1>1, <2>1, AppendProperties
  <2> HIDE DEF T
  <2> QED  BY <2>1
<1>3. <<>> \in T  OBVIOUS
<1>4. PICK f \in [0 .. n -> T] : f[0] = <<>> /\ \A i \in 1 .. n : f[i] = next[i][f[i - 1]]
  <2>1. n \in Nat  BY <1>1
  <2> HIDE DEF n, T, next
  <2>2. PICK f : Iterates(f, n, T, <<>>, next)  BY <1>2, <1>3, <2>1, RecursionUpTo
  <2> QED  BY <2>2 DEF Iterates
<1>5. \A i \in 1 .. n : f[i] = IF items[i] \in S THEN f[i - 1] ELSE Append(f[i - 1], items[i])
  <2> SUFFICES ASSUME NEW i \in 1 .. n
               PROVE  f[i] = IF items[i] \in S THEN f[i - 1] ELSE Append(f[i - 1], items[i])
    OBVIOUS
  <2>1. i - 1 \in 0 .. n  BY <1>1
  <2>2. f[i - 1] \in T  BY <1>4, <2>1
  <2> HIDE DEF n, T
  <2> QED  BY <1>4, <2>2
<1>6. K = [i \in 0 .. n |-> IF i = 0 THEN <<>>
             ELSE IF items[i] \in S THEN K[i - 1] ELSE Append(K[i - 1], items[i])]
  <2>1. f = [i \in 0 .. n |-> IF i = 0 THEN <<>>
               ELSE IF items[i] \in S THEN f[i - 1] ELSE Append(f[i - 1], items[i])]
    <3>1. \A i \in 0 .. n : i = 0 \/ i \in 1 .. n  BY <1>1
    <3> HIDE DEF n, T
    <3> QED  BY <1>4, <1>5, <3>1
  <2> QED  BY <2>1, Zenon
<1>7. Without(items, S) = K[n]  BY DEF Without
<1>8. \A i \in 0 .. n : K[i] = f[i]
  <2> DEFINE G == {i \in 0 .. n : K[i] = f[i]}
  <2> HIDE DEF K
  <2>1. 0 \in G  BY <1>1, <1>4, <1>6
  <2>2. ASSUME NEW i \in 1 .. n, i - 1 \in G PROVE i \in G
    <3>1. i \in 0 .. n /\ i # 0 /\ K[i - 1] = f[i - 1]  BY <1>1, <2>2
    <3>2. K[i] = IF items[i] \in S THEN K[i - 1] ELSE Append(K[i - 1], items[i])  BY <1>6, <3>1
    <3>3. K[i] = f[i]  BY <1>5, <3>1, <3>2
    <3> QED  BY <3>1, <3>3
  <2>3. \A i \in 0 .. n : i \in G
    <3> HIDE DEF G, n
    <3> QED  BY <1>1, <2>1, <2>2, UpTo
  <2> QED  BY <2>3
<1>9. n \in 0 .. n  BY <1>1
<1>10. Without(items, S) = f[n]
  <2> HIDE DEF K
  <2> QED  BY <1>7, <1>8, <1>9
<1> QED  BY <1>4, <1>5, <1>10 DEF Keeps

LEMMA WithoutTyped ==
    ASSUME NEW A, NEW items \in Seq(A), NEW S
    PROVE  Without(items, S) \in Seq(A \ S)
<1>1. PICK f : Keeps(f, items, A, S)  BY WithoutKeeps
<1>2. Len(items) \in 0 .. Len(items)  OBVIOUS
<1> QED  BY <1>1, <1>2 DEF Keeps

(* A loop that skips at the same places keeps the same.                    *)
LEMMA WithoutSame ==
    ASSUME NEW A, NEW B, NEW a \in Seq(A), NEW b \in Seq(B), NEW S, NEW T,
           Len(a) = Len(b),
           \A i \in 1 .. Len(a) : /\ a[i] \in S <=> b[i] \in T
                                  /\ a[i] \notin S => a[i] = b[i]
    PROVE  Without(a, S) = Without(b, T)
<1>1. PICK f : Keeps(f, a, A, S)  BY WithoutKeeps
<1>2. PICK g : Keeps(g, b, B, T)  BY WithoutKeeps
<1> DEFINE n == Len(a)
           G == {i \in 0 .. n : f[i] = g[i]}
<1>3. n \in Nat  OBVIOUS
<1>4. 0 \in G  BY <1>1, <1>2, <1>3 DEF Keeps
<1>5. ASSUME NEW i \in 1 .. n, i - 1 \in G PROVE i \in G
  <2>1. f[i - 1] = g[i - 1] /\ i \in 0 .. n  BY <1>5
  <2>2. f[i] = IF a[i] \in S THEN f[i - 1] ELSE Append(f[i - 1], a[i])  BY <1>1 DEF Keeps
  <2>3. g[i] = IF b[i] \in T THEN g[i - 1] ELSE Append(g[i - 1], b[i])  BY <1>2 DEF Keeps
  <2>4. (a[i] \in S <=> b[i] \in T) /\ (a[i] \notin S => a[i] = b[i])  OBVIOUS
  <2>5. f[i] = g[i]  BY <2>1, <2>2, <2>3, <2>4
  <2> QED  BY <2>1, <2>5
<1>6. \A i \in 0 .. n : i \in G
  <2> HIDE DEF G, n
  <2> QED  BY <1>3, <1>4, <1>5, UpTo
<1>7. f[n] = g[n]  BY <1>3, <1>6
<1> QED  BY <1>1, <1>2, <1>7 DEF Keeps

(* One with nothing to skip keeps all.                                     *)
LEMMA WithoutNone ==
    ASSUME NEW A, NEW items \in Seq(A), NEW S, \A i \in 1 .. Len(items) : items[i] \notin S
    PROVE  Without(items, S) = items
<1>1. PICK f : Keeps(f, items, A, S)  BY WithoutKeeps
<1> DEFINE n == Len(items)
           G == {i \in 0 .. n : f[i] = SubSeq(items, 1, i)}
<1>2. n \in Nat  OBVIOUS
<1>3. 0 \in G  BY <1>1, <1>2 DEF Keeps
<1>4. ASSUME NEW i \in 1 .. n, i - 1 \in G PROVE i \in G
  <2>1. f[i - 1] = SubSeq(items, 1, i - 1) /\ i \in 0 .. n  BY <1>4
  <2>2. f[i] = Append(SubSeq(items, 1, i - 1), items[i])  BY <1>1, <2>1 DEF Keeps
  <2>3. SubSeq(items, 1, i) = Append(SubSeq(items, 1, i - 1), items[i])
    BY SubSeqRecursiveSecond, SubSeqProperties, AppendProperties
  <2> QED  BY <2>1, <2>2, <2>3
<1>5. \A i \in 0 .. n : i \in G
  <2> HIDE DEF G, n
  <2> QED  BY <1>2, <1>3, <1>4, UpTo
<1>6. f[n] = SubSeq(items, 1, n)  BY <1>2, <1>5
<1> QED  BY <1>1, <1>6, SubSeqFull DEF Keeps

(***************************************************************************)
(* Flatten, and the pages of a playlist.                                   *)
(***************************************************************************)

(* f[i] is what the first i sequences come to.                             *)
Joins(f, seqs, A) ==
    /\ f \in [0 .. Len(seqs) -> Seq(A)]
    /\ f[0] = <<>>
    /\ \A i \in 1 .. Len(seqs) : f[i] = f[i - 1] \o seqs[i]
    /\ FlattenSeq(seqs) = f[Len(seqs)]

LEMMA FlattenJoins ==
    ASSUME NEW A, NEW seqs \in Seq(Seq(A))
    PROVE  \E f : Joins(f, seqs, A)
<1> DEFINE n == Len(seqs)
           T == Seq(A)
           next == [i \in 1 .. n |-> [s \in T |-> s \o seqs[i]]]
           K == CHOOSE flatten : flatten = [i \in 1 .. n |->
                   IF i = 1 THEN seqs[i] ELSE flatten[i - 1] \o seqs[i]]
<1>1. n \in Nat /\ \A i \in 1 .. n : seqs[i] \in T  BY ElementOfSeq
<1>2. next \in [1 .. n -> [T -> T]]
  <2>1. ASSUME NEW i \in 1 .. n, NEW s \in T PROVE s \o seqs[i] \in T
    BY <1>1, ConcatProperties
  <2> HIDE DEF T
  <2> QED  BY <2>1
<1>3. <<>> \in T  OBVIOUS
<1>4. PICK f \in [0 .. n -> T] : f[0] = <<>> /\ \A i \in 1 .. n : f[i] = next[i][f[i - 1]]
  <2>1. n \in Nat  BY <1>1
  <2> HIDE DEF n, T, next
  <2>2. PICK f : Iterates(f, n, T, <<>>, next)  BY <1>2, <1>3, <2>1, RecursionUpTo
  <2> QED  BY <2>2 DEF Iterates
<1>5. \A i \in 1 .. n : f[i] = f[i - 1] \o seqs[i]
  <2> SUFFICES ASSUME NEW i \in 1 .. n PROVE f[i] = f[i - 1] \o seqs[i]  OBVIOUS
  <2>1. i - 1 \in 0 .. n  BY <1>1
  <2>2. f[i - 1] \in T  BY <1>4, <2>1
  <2> HIDE DEF n, T
  <2> QED  BY <1>4, <2>2
<1>6. CASE n = 0
  <2>1. FlattenSeq(seqs) = seqs  BY <1>6 DEF FlattenSeq
  <2>2. seqs = <<>>  BY <1>6, EmptySeq
  <2> QED  BY <1>4, <1>5, <1>6, <2>1, <2>2 DEF Joins
<1>7. 1 \in 1 .. n => f[1] = <<>> \o seqs[1]
  <2>1. 1 - 1 = 0  OBVIOUS
  <2> HIDE DEF n, T
  <2> QED  BY <1>4, <1>5, <2>1
<1>8. CASE n # 0
  <2> DEFINE g == [i \in 1 .. n |-> f[i]]
  <2>1. g = [i \in 1 .. n |-> IF i = 1 THEN seqs[i] ELSE g[i - 1] \o seqs[i]]
    <3>1. ASSUME NEW i \in 1 .. n
          PROVE  f[i] = IF i = 1 THEN seqs[i] ELSE g[i - 1] \o seqs[i]
      <4>1. CASE i = 1
        <5>1. seqs[1] \in T  BY <1>1, <4>1
        <5> QED  BY <1>7, <4>1, <5>1, ConcatEmptySeq
      <4>2. CASE i # 1
        <5>1. i - 1 \in 1 .. n  BY <1>1, <4>2
        <5>2. g[i - 1] = f[i - 1]  BY <5>1
        <5> QED  BY <1>5, <4>2, <5>2
      <4> QED  BY <4>1, <4>2
    <3> QED  BY <3>1
  <2>2. K = [i \in 1 .. n |-> IF i = 1 THEN seqs[i] ELSE K[i - 1] \o seqs[i]]
    <3> HIDE DEF g
    <3> QED  BY <2>1, Zenon
  <2>3. FlattenSeq(seqs) = K[n]  BY <1>8 DEF FlattenSeq
  <2> DEFINE G == {i \in 0 .. n : i # 0 => K[i] = f[i]}
  <2>4. 0 \in G  BY <1>1
  <2>5. ASSUME NEW i \in 1 .. n, i - 1 \in G PROVE i \in G
    <3> HIDE DEF K
    <3>1. i \in 0 .. n /\ (i # 1 => K[i - 1] = f[i - 1])  BY <1>1, <2>5
    <3>2. CASE i = 1
      <4>1. K[1] = seqs[1]  BY <2>2, <3>2
      <4>2. seqs[1] \in T  BY <1>1, <3>2
      <4> QED  BY <1>7, <3>1, <3>2, <4>1, <4>2, ConcatEmptySeq
    <3>3. CASE i # 1
      <4>1. K[i] = K[i - 1] \o seqs[i]  BY <2>2, <3>3
      <4> QED  BY <1>5, <3>1, <3>3, <4>1
    <3> QED  BY <3>2, <3>3
  <2>6. \A i \in 0 .. n : i \in G
    <3> HIDE DEF G, n
    <3> QED  BY <1>1, <2>4, <2>5, UpTo
  <2>7. K[n] = f[n]
    <3> HIDE DEF K
    <3> QED  BY <1>1, <1>8, <2>6
  <2>8. FlattenSeq(seqs) = f[n]
    <3> HIDE DEF K
    <3> QED  BY <2>3, <2>7
  <2> QED  BY <1>4, <1>5, <2>8 DEF Joins
<1> QED  BY <1>6, <1>8

(* The first n tracks, or all if there are fewer.                          *)
Prefix(items, n) == SubSeq(items, 1, IF n < Len(items) THEN n ELSE Len(items))

LEMMA PartTyped ==
    ASSUME NEW A, NEW items \in Seq(A), NEW first \in Nat \ {0}, NEW last \in Nat
    PROVE  Part(items, first, last) \in Seq(A)
<1> DEFINE end == IF last < Len(items) THEN last ELSE Len(items)
<1>1. end \in Int /\ first \in Int /\ \A i \in first .. end : items[i] \in A  BY ElementOfSeq
<1> HIDE DEF end
<1>2. SubSeq(items, first, end) \in Seq(A)  BY <1>1, SubSeqProperties
<1> QED  BY <1>2 DEF Part, end

(* A page goes on where the ones before it end.                            *)
LEMMA PageGoesOn ==
    ASSUME NEW A, NEW items \in Seq(A), NEW k \in 0 .. Len(items), NEW size \in Nat
    PROVE  SubSeq(items, 1, k) \o Part(items, k + 1, k + size) = Prefix(items, k + size)
<1> DEFINE end == IF k + size < Len(items) THEN k + size ELSE Len(items)
<1>1. 1 \in 1 .. Len(items) + 1 /\ k \in 1 - 1 .. Len(items) /\ end \in k .. Len(items)
  OBVIOUS
<1> HIDE DEF end
<1>2. SubSeq(items, 1, k) \o SubSeq(items, k + 1, end) = SubSeq(items, 1, end)
  BY <1>1, ConcatAdjacentSubSeq
<1> QED  BY <1>2 DEF Part, Prefix, end

LEMMA TimesOneMore ==
    ASSUME NEW i \in Int, NEW b \in Nat
    PROVE  (i + 1) * b = i * b + b
OBVIOUS

LEMMA TimesMonotone ==
    ASSUME NEW i \in Int, NEW j \in Int, NEW b \in Nat, i <= j
    PROVE  i * b <= j * b
OBVIOUS

LEMMA DividesWithRest ==
    ASSUME NEW a \in Int, NEW b \in Nat \ {0}
    PROVE  /\ a \div b \in Int /\ a % b \in 0 .. b - 1
           /\ a = b * (a \div b) + (a % b)
OBVIOUS

(* The pages are just enough: the last one begins within the collection,   *)
(* and ends it.                                                            *)
LEMMA PagesSuffice ==
    ASSUME NEW total \in Nat
    PROVE  /\ PageCount(total) \in Nat
           /\ total <= PageCount(total) * PageSize
           /\ \A p \in 1 .. PageCount(total) : (p - 1) * PageSize < total
<1> DEFINE a == total + PageSize - 1
           P == a \div PageSize
           rest == a % PageSize
<1>1. PageSize \in Nat \ {0} /\ a \in Nat  BY ExtractorsConstants
<1>2. P \in Int /\ rest \in 0 .. PageSize - 1 /\ a = PageSize * P + rest
  BY <1>1, DividesWithRest
<1>3. PageCount(total) = P  BY DEF PageCount
<1>4. a = total + PageSize - 1  OBVIOUS
<1> HIDE DEF P, rest, a
<1>5. PageSize * P = P * PageSize /\ P * PageSize \in Int  BY <1>1, <1>2
<1>6. total <= P * PageSize /\ P * PageSize <= total + PageSize - 1
  BY <1>1, <1>2, <1>4, <1>5
<1>7. P \in Nat
  <2> SUFFICES ASSUME P <= -1 PROVE FALSE  BY <1>2
  <2>1. P * PageSize <= (-1) * PageSize  BY <1>1, <1>2, TimesMonotone
  <2> QED  BY <1>1, <1>5, <1>6, <2>1
<1>8. ASSUME NEW p \in 1 .. P PROVE (p - 1) * PageSize < total
  <2>1. p - 1 \in Int /\ p \in Int /\ p <= P /\ (p - 1) + 1 = p  BY <1>2
  <2>2. p * PageSize <= P * PageSize  BY <1>1, <1>2, <2>1, TimesMonotone
  <2>3. p * PageSize = (p - 1) * PageSize + PageSize  BY <1>1, <2>1, TimesOneMore
  <2>4. (p - 1) * PageSize \in Int /\ p * PageSize \in Int  BY <1>1, <2>1
  <2> QED  BY <1>1, <1>5, <1>6, <2>2, <2>3, <2>4
<1> QED  BY <1>3, <1>6, <1>7, <1>8

(* What the goroutines of getPlaylistItemsIter have left, put together, is *)
(* the playlist.                                                           *)
LEMMA PagesJoin ==
    ASSUME NEW A, NEW items \in Seq(A), NEW seqs \in Seq(Seq(A)),
           Len(seqs) = PageCount(Len(items)),
           \A p \in 1 .. Len(seqs) :
              seqs[p] = Part(items, (p - 1) * PageSize + 1, (p - 1) * PageSize + PageSize)
    PROVE  FlattenSeq(seqs) = items
<1> DEFINE P == Len(seqs)
           total == Len(items)
<1>1. PICK f : Joins(f, seqs, A)  BY FlattenJoins
<1>2. /\ P \in Nat /\ total \in Nat /\ PageSize \in Nat
      /\ total <= P * PageSize
      /\ \A p \in 1 .. P : (p - 1) * PageSize < total
  <2>1. P = PageCount(total) /\ total \in Nat /\ PageSize \in Nat  BY ExtractorsConstants
  <2> HIDE DEF P, total
  <2> QED  BY <2>1, PagesSuffice
<1>3. f[0] = <<>> /\ \A p \in 1 .. P : f[p] = f[p - 1] \o seqs[p]  BY <1>1 DEF Joins
<1> DEFINE G == {p \in 0 .. P : f[p] = Prefix(items, p * PageSize)}
<1>4. 0 \in G
  <2>1. 0 * PageSize = 0  BY <1>2
  <2>2. Prefix(items, 0) = <<>>  BY <1>2, SubSeqEmpty DEF Prefix
  <2> QED  BY <1>2, <1>3, <2>1, <2>2
<1>5. ASSUME NEW p \in 1 .. P, p - 1 \in G PROVE p \in G
  <2> DEFINE k == (p - 1) * PageSize
  <2>1. k \in 0 .. total /\ k < total  BY <1>2
  <2>2. p * PageSize = k + PageSize  BY <1>2
  <2>3. f[p - 1] = Prefix(items, k)  BY <1>5
  <2>4. seqs[p] = Part(items, k + 1, k + PageSize)  OBVIOUS
  <2>5. p \in 0 .. P /\ f[p] = f[p - 1] \o seqs[p]  BY <1>3
  <2> HIDE DEF k, P
  <2>6. Prefix(items, k) = SubSeq(items, 1, k)  BY <2>1 DEF Prefix
  <2>7. f[p] = Prefix(items, k + PageSize)
    BY <1>2, <2>1, <2>3, <2>4, <2>5, <2>6, PageGoesOn
  <2> QED  BY <2>2, <2>5, <2>7
<1>6. \A p \in 0 .. P : p \in G
  <2> HIDE DEF G, P
  <2> QED  BY <1>2, <1>4, <1>5, UpTo
<1>7. f[P] = Prefix(items, P * PageSize)  BY <1>2, <1>6
<1>8. P * PageSize \in Nat  BY <1>2
<1>9. Prefix(items, P * PageSize) = items  BY <1>2, <1>8, SubSeqFull DEF Prefix
<1> QED  BY <1>1, <1>7, <1>9 DEF Joins

(***************************************************************************)
(* What a member of the chain makes of a collection.                       *)
(***************************************************************************)

(* Tracks have numbers from 1 on; 0 is that of a blank row.                *)
Tracks == Nat \ {0}

(* Rows with tracks, and the blank ones of an album.                       *)
GoodRows == {Blank} \cup [track : Tracks, url : {"web", "search", "yandex"}]

TracksOf(answer) == [i \in DOMAIN answer |-> answer[i].track]
Whole(answer, q, items) ==
    Without(TracksOf(answer), Unplayable \cup {0}) = Playable(Named(q, items))

LEMMA NamedTyped ==
    ASSUME NEW q, NEW items \in Seq(Tracks)
    PROVE  Named(q, items) \in Seq(Tracks)
BY PartTyped DEF Named

LEMMA RowsTyped ==
    ASSUME NEW items \in Seq(Tracks), NEW url \in {"web", "search", "yandex"}
    PROVE  /\ ToRows(items, url) \in Seq(GoodRows)
           /\ TracksOf(ToRows(items, url)) = items
<1>1. /\ DOMAIN items = 1 .. Len(items) /\ Len(items) \in Nat
      /\ \A i \in 1 .. Len(items) : items[i] \in Tracks
      /\ items = [i \in 1 .. Len(items) |-> items[i]]
  BY ElementOfSeq
<1>2. ASSUME NEW i \in 1 .. Len(items)
      PROVE  Row(items[i], url) \in GoodRows /\ Row(items[i], url).track = items[i]
  BY <1>1 DEF Row, GoodRows
<1>3. ToRows(items, url) = [i \in 1 .. Len(items) |-> Row(items[i], url)]
  BY <1>1 DEF ToRows
<1>4. ToRows(items, url) \in [1 .. Len(items) -> GoodRows]  BY <1>2, <1>3
<1>5. TracksOf(ToRows(items, url)) = [i \in 1 .. Len(items) |-> items[i]]
  BY <1>2, <1>3 DEF TracksOf
<1> QED  BY <1>1, <1>4, <1>5

LEMMA AlbumTyped ==
    ASSUME NEW items \in Seq(Tracks)
    PROVE  /\ AlbumRows(items) \in Seq(GoodRows)
           /\ TracksOf(AlbumRows(items))
                 = [i \in 1 .. Len(items) |-> IF items[i] \in Unplayable THEN 0 ELSE items[i]]
<1>1. /\ DOMAIN items = 1 .. Len(items) /\ Len(items) \in Nat
      /\ \A i \in 1 .. Len(items) : items[i] \in Tracks
  BY ElementOfSeq
<1> DEFINE row(i) == IF items[i] \in Unplayable THEN Blank ELSE Row(items[i], "web")
<1>2. ASSUME NEW i \in 1 .. Len(items)
      PROVE  row(i) \in GoodRows /\ row(i).track = IF items[i] \in Unplayable THEN 0 ELSE items[i]
  BY <1>1 DEF Row, GoodRows, Blank
<1>3. AlbumRows(items) = [i \in 1 .. Len(items) |-> row(i)]
  BY <1>1 DEF AlbumRows
<1> HIDE DEF row
<1>4. AlbumRows(items) \in [1 .. Len(items) -> GoodRows]  BY <1>2, <1>3
<1>5. TracksOf(AlbumRows(items))
        = [i \in 1 .. Len(items) |-> IF items[i] \in Unplayable THEN 0 ELSE items[i]]
  BY <1>2, <1>3 DEF TracksOf
<1> QED  BY <1>1, <1>4, <1>5

LEMMA PlayableTyped ==
    ASSUME NEW items \in Seq(Tracks)
    PROVE  Playable(items) \in Seq(Tracks \ Unplayable) /\ Playable(items) \in Seq(Tracks)
<1>1. Playable(items) \in Seq(Tracks \ Unplayable)  BY WithoutTyped DEF Playable
<1> QED  BY <1>1, SeqMonotonic

LEMMA PlayableWhole ==
    ASSUME NEW items \in Seq(Tracks)
    PROVE  Without(Playable(items), Unplayable \cup {0}) = Playable(items)
<1> DEFINE kept == Playable(items)
<1>1. kept \in Seq(Tracks \ Unplayable)  BY PlayableTyped
<1> HIDE DEF kept
<1>2. \A i \in 1 .. Len(kept) : kept[i] \notin Unplayable \cup {0}
  <2>1. \A i \in 1 .. Len(kept) : kept[i] \in Tracks \ Unplayable  BY <1>1, ElementOfSeq
  <2> QED  BY <2>1 DEF Tracks
<1>3. Without(kept, Unplayable \cup {0}) = kept  BY <1>1, <1>2, WithoutNone
<1> QED  BY <1>3 DEF kept

LEMMA AllWhole ==
    ASSUME NEW items \in Seq(Tracks), NEW tracks \in Seq(Nat), Len(tracks) = Len(items),
           \A i \in 1 .. Len(items) :
              tracks[i] = items[i] \/ (tracks[i] = 0 /\ items[i] \in Unplayable)
    PROVE  Without(tracks, Unplayable \cup {0}) = Playable(items)
<1>1. \A i \in 1 .. Len(items) : items[i] # 0  BY ElementOfSeq DEF Tracks
<1>2. \A i \in 1 .. Len(tracks) :
         /\ tracks[i] \in Unplayable \cup {0} <=> items[i] \in Unplayable
         /\ tracks[i] \notin Unplayable \cup {0} => tracks[i] = items[i]
  BY <1>1
<1> QED  BY <1>2, WithoutSame DEF Playable

LEMMA DataWhole ==
    ASSUME NEW e \in Sites, NEW q, NEW items \in Seq(Tracks)
    PROVE  /\ TrackData(e, q, items) \in Seq(GoodRows)
           /\ Whole(TrackData(e, q, items), q, items)
<1> DEFINE named == Named(q, items)
<1>1. named \in Seq(Tracks) /\ Playable(named) \in Seq(Tracks)  BY NamedTyped, PlayableTyped
<1>2. ASSUME NEW url \in {"web", "search", "yandex"}
      PROVE  /\ ToRows(Playable(named), url) \in Seq(GoodRows)
             /\ Whole(ToRows(Playable(named), url), q, items)
  <2>1. TracksOf(ToRows(Playable(named), url)) = Playable(named)  BY <1>1, RowsTyped
  <2>2. Without(Playable(named), Unplayable \cup {0}) = Playable(named)  BY <1>1, PlayableWhole
  <2>3. ToRows(Playable(named), url) \in Seq(GoodRows)  BY <1>1, RowsTyped
  <2> QED  BY <2>1, <2>2, <2>3 DEF Whole
<1>3. CASE e = "spotify" /\ q.kind = "album"
  <2> DEFINE tracks == [i \in 1 .. Len(items) |-> IF items[i] \in Unplayable THEN 0 ELSE items[i]]
  <2>1. TrackData(e, q, items) = AlbumRows(items)  BY <1>3 DEF TrackData
  <2>2. AlbumRows(items) \in Seq(GoodRows) /\ TracksOf(AlbumRows(items)) = tracks
    BY AlbumTyped
  <2>3. tracks \in Seq(Nat) /\ Len(tracks) = Len(items)
    <3>1. \A i \in 1 .. Len(items) : items[i] \in Nat  BY ElementOfSeq DEF Tracks
    <3>2. Len(items) \in Nat  OBVIOUS
    <3> QED  BY <3>1, <3>2
  <2>4. \A i \in 1 .. Len(items) :
           tracks[i] = items[i] \/ (tracks[i] = 0 /\ items[i] \in Unplayable)
    OBVIOUS
  <2> HIDE DEF tracks
  <2>5. Without(tracks, Unplayable \cup {0}) = Playable(items)  BY <2>3, <2>4, AllWhole
  <2>6. Named(q, items) = items  BY <1>3 DEF Named
  <2> QED  BY <2>1, <2>2, <2>5, <2>6 DEF Whole
<1>4. CASE e = "vk"
  <2>1. TrackData(e, q, items) = ToRows(named, "search")  BY <1>4 DEF TrackData
  <2>2. ToRows(named, "search") \in Seq(GoodRows) /\ TracksOf(ToRows(named, "search")) = named
    BY <1>1, RowsTyped
  <2>3. Without(named, Unplayable \cup {0}) = Playable(named)
    <3>1. named \in Seq(Nat)  BY <1>1, SeqMonotonic DEF Tracks
    <3> HIDE DEF named
    <3> QED  BY <1>1, <3>1, AllWhole
  <2> QED  BY <2>1, <2>2, <2>3 DEF Whole
<1>5. CASE ~(e = "spotify" /\ q.kind = "album") /\ e # "vk"
  <2>1. PICK url \in {"web", "search", "yandex"} : TrackData(e, q, items) = ToRows(Playable(named), url)
    <3>1. CASE e = "spotify"  BY <1>5, <3>1 DEF TrackData
    <3>2. CASE e = "yandex"  BY <3>2 DEF TrackData
    <3>3. CASE e = "ytdl"  BY <3>3 DEF TrackData
    <3> QED  BY <1>5, <3>1, <3>2, <3>3 DEF Sites
  <2> QED  BY <1>2, <2>1
<1> QED  BY <1>3, <1>4, <1>5

(***************************************************************************)
(* The chain.                                                              *)
(***************************************************************************)

LEMMA MinIsLeast ==
    ASSUME NEW T \in SUBSET Nat, T # {}
    PROVE  Min(T) \in T /\ \A m \in T : Min(T) <= m
<1>1. \E n \in T : \A m \in T : n <= m  BY LeastNat
<1> QED  BY <1>1 DEF Min

(* ytdl, which takes everything but a blank row, is the last member, and   *)
(* no member is there twice.                                               *)
ChainInv ==
    /\ chain \in Seq(Sites) /\ Len(chain) # 0
    /\ chain[Len(chain)] = "ytdl"
    /\ \A i, j \in 1 .. Len(chain) : chain[i] = chain[j] => i = j

Distinct(s) == \A i, j \in 1 .. Len(s) : s[i] = s[j] => i = j

LEMMA OneMoreMember ==
    ASSUME NEW E, NEW s \in Seq(E), Distinct(s), NEW e, e \notin E
    PROVE  /\ s \o <<e>> \in Seq(E \cup {e}) /\ Distinct(s \o <<e>>)
           /\ Len(s \o <<e>>) = Len(s) + 1 /\ (s \o <<e>>)[Len(s) + 1] = e
<1>1. s \in Seq(E \cup {e}) /\ s \o <<e>> = Append(s, e)  BY SeqMonotonic, AppendIsConcat
<1> DEFINE t == Append(s, e)
<1>2. /\ t \in Seq(E \cup {e}) /\ Len(t) = Len(s) + 1 /\ t[Len(s) + 1] = e
      /\ \A i \in 1 .. Len(s) : t[i] = s[i]
  BY <1>1, AppendProperties
<1>3. \A i \in 1 .. Len(s) : s[i] # e  BY ElementOfSeq
<1>4. Len(s) \in Nat  OBVIOUS
<1>5. \A i \in 1 .. Len(t) : i = Len(s) + 1 \/ i \in 1 .. Len(s)  BY <1>2, <1>4
<1> HIDE DEF t
<1>6. Distinct(t)  BY <1>2, <1>3, <1>5 DEF Distinct
<1> QED  BY <1>1, <1>2, <1>6 DEF t

LEMMA AddedIfConfigured ==
    ASSUME NEW E, NEW s \in Seq(E), Distinct(s), NEW e, e \notin E, NEW configured
    PROVE  /\ s \o IfConfigured(e, configured) \in Seq(E \cup {e})
           /\ Distinct(s \o IfConfigured(e, configured))
<1>1. CASE e \in configured
  BY <1>1, OneMoreMember DEF IfConfigured
<1>2. CASE e \notin configured
  <2>1. s \o IfConfigured(e, configured) = s  BY <1>2, ConcatEmptySeq DEF IfConfigured
  <2> QED  BY <2>1, SeqMonotonic
<1> QED  BY <1>1, <1>2

LEMMA InitChain == Init => ChainInv
<1> SUFFICES ASSUME Init PROVE ChainInv  OBVIOUS
<1>1. PICK configured : chain = InitExtractors(configured)  BY DEF Init
<1> DEFINE s == IfConfigured("spotify", configured)
           sv == s \o IfConfigured("vk", configured)
           svy == sv \o IfConfigured("yandex", configured)
<1>2. s \in Seq({"spotify"}) /\ Distinct(s)
  BY DEF IfConfigured, Distinct
<1>3. sv \in Seq({"spotify", "vk"}) /\ Distinct(sv)
  <2>1. {"spotify", "vk"} = {"spotify"} \cup {"vk"} /\ "vk" \notin {"spotify"}  OBVIOUS
  <2> HIDE DEF s
  <2> QED  BY <1>2, <2>1, AddedIfConfigured
<1>4. svy \in Seq({"spotify", "vk", "yandex"}) /\ Distinct(svy)
  <2>1. /\ {"spotify", "vk", "yandex"} = {"spotify", "vk"} \cup {"yandex"}
        /\ "yandex" \notin {"spotify", "vk"}
    OBVIOUS
  <2> HIDE DEF sv
  <2> QED  BY <1>3, <2>1, AddedIfConfigured
<1>5. chain = svy \o <<"ytdl">>  BY <1>1 DEF InitExtractors
<1>6. Len(svy) \in Nat  BY <1>4
<1> HIDE DEF svy
<1>7. /\ chain \in Seq(Sites) /\ Distinct(chain)
      /\ Len(chain) = Len(svy) + 1 /\ chain[Len(svy) + 1] = "ytdl"
  <2>1. /\ Sites = {"spotify", "vk", "yandex"} \cup {"ytdl"}
        /\ "ytdl" \notin {"spotify", "vk", "yandex"}
    BY DEF Sites
  <2> QED  BY <1>4, <1>5, <2>1, OneMoreMember
<1> QED  BY <1>6, <1>7 DEF ChainInv, Distinct

LEMMA ExtractorThere ==
    ASSUME ChainInv, NEW q
    PROVE  Extractor(q) \in Sites
<1> DEFINE S == {i \in DOMAIN chain : QueryMatches(chain[i], q)}
<1>1. Len(chain) \in S /\ S \in SUBSET Nat /\ S \subseteq 1 .. Len(chain)
  BY DEF ChainInv, QueryMatches
<1> HIDE DEF S
<1>2. Min(S) \in 1 .. Len(chain)  BY <1>1, MinIsLeast
<1>3. chain[Min(S)] \in Sites  BY <1>2, ElementOfSeq DEF ChainInv
<1> QED  BY <1>3 DEF Extractor, S

LEMMA RowsTaken ==
    ASSUME ChainInv, NEW row \in GoodRows
    PROVE  /\ Takers(row.url) = {} => row = Blank
           /\ row.url = "yandex" /\ Contains(chain, "yandex") => Streamer(row.url) = "yandex"
<1> DEFINE n == Len(chain)
<1>1. n \in 1 .. n /\ DOMAIN chain = 1 .. n /\ n \in Nat /\ chain[n] = "ytdl"
  BY DEF ChainInv
<1>2. ASSUME row # Blank PROVE n \in Takers(row.url)
  <2>1. row.url \in {"web", "search", "yandex"}  BY <1>2 DEF GoodRows
  <2> QED  BY <1>1, <2>1 DEF Takers, ExtractionURLMatches
<1>3. ASSUME row.url = "yandex", Contains(chain, "yandex") PROVE Streamer(row.url) = "yandex"
  <2> DEFINE T == Takers("yandex")
             first == Min(T)
  <2>1. PICK j \in 1 .. n : chain[j] = "yandex"  BY <1>3 DEF Contains
  <2>2. /\ T \in SUBSET Nat /\ T \subseteq 1 .. n /\ j \in T
        /\ \A i \in T : chain[i] \in {"yandex", "ytdl"}
    BY <1>1, <2>1 DEF Takers, ExtractionURLMatches
  <2> HIDE DEF T
  <2>3. first \in T /\ first <= j  BY <2>2, MinIsLeast
  <2> HIDE DEF first
  <2>4. j # n  BY <1>1, <2>1
  <2>5. first # n
    <3>1. first \in 1 .. n  BY <2>2, <2>3
    <3> HIDE DEF n
    <3> QED  BY <1>1, <2>1, <2>3, <2>4, <3>1
  <2>6. chain[first] # "ytdl"  BY <1>1, <2>2, <2>3, <2>5 DEF ChainInv
  <2> QED  BY <1>3, <2>2, <2>3, <2>6 DEF Streamer, T, first
<1> QED  BY <1>2, <1>3

(***************************************************************************)
(* Types.                                                                  *)
(***************************************************************************)

Steps == {"idle", "check", "renew", "lock", "wait", "swap", "client", "call",
          "reading", "pages", "fetch", "answered", "failed"}
Pages == [state : {"todo", "reading", "done", "failed"}, items : Seq(Tracks)]

ServiceTyped == ChainInv /\ coll \in Seq(Tracks) /\ edits \in 0 .. MaxEdits

(* A request that is to replace the token has one to replace it with.      *)
TokensTyped ==
    /\ issued \in Nat /\ token \in 1 .. issued /\ client \in 1 .. issued /\ dead \in 0 .. issued
    /\ fresh \in [Callers -> 0 .. issued]
    /\ \A c \in Callers : step[c] \in {"lock", "wait", "swap", "client"} => fresh[c] # 0

MutexTyped ==
    /\ readers \subseteq Callers \X Nat
    /\ waiting \subseteq Callers /\ writer \in Callers \cup {Nobody}

LocalTyped ==
    /\ step \in [Callers -> Steps] /\ query \in [Callers -> Queries]
    /\ got \in [Callers -> Seq(Tracks)]
    /\ page \in [Callers -> Seq(Pages)]
    /\ rows \in [Callers -> Seq(GoodRows)]

AnswerTyped == ServiceTyped /\ TokensTyped /\ MutexTyped /\ LocalTyped

LEMMA InitAnswerTyped == Init => AnswerTyped
<1> SUFFICES ASSUME Init PROVE AnswerTyped  OBVIOUS
<1>1. coll \in Seq(Tracks)
  <2>1. PICK n \in 0 .. MaxTracks : coll = [i \in 1 .. n |-> i]  BY DEF Init
  <2> QED  BY <2>1, ExtractorsConstants DEF Tracks
<1>2. ServiceTyped
  <2>1. edits = 0 /\ 0 \in 0 .. MaxEdits  BY ExtractorsConstants DEF Init
  <2> QED  BY <1>1, <2>1, InitChain DEF ServiceTyped
<1>3. TokensTyped
  <2>1. issued = 1 /\ token = 1 /\ client = 1 /\ dead = 0  BY DEF Init
  <2>2. \A c \in Callers : step[c] = "idle"  BY DEF Init
  <2>3. fresh = [c \in Callers |-> 0]  BY DEF Init
  <2> QED  BY <2>1, <2>2, <2>3 DEF TokensTyped
<1>4. MutexTyped  BY DEF Init, MutexTyped
<1>5. LocalTyped
  <2>1. "idle" \in Steps /\ <<>> \in Seq(Tracks) /\ <<>> \in Seq(Pages) /\ <<>> \in Seq(GoodRows)
    BY DEF Steps
  <2> QED  BY <2>1 DEF Init, LocalTyped
<1> QED  BY <1>2, <1>3, <1>4, <1>5 DEF AnswerTyped

LEMMA EditedTyped ==
    ASSUME ServiceTyped, Edit
    PROVE  ServiceTyped'
<1>1. edits' = edits + 1 /\ edits' \in 1 .. MaxEdits
  BY ExtractorsConstants DEF Edit, ServiceTyped
<1>2. CASE coll' = Append(coll, MaxTracks + edits')
  <2>1. MaxTracks + edits' \in Tracks  BY <1>1, ExtractorsConstants DEF Tracks
  <2>2. coll' \in Seq(Tracks)  BY <1>2, <2>1, AppendProperties DEF ServiceTyped
  <2> QED  BY <1>1, <2>2 DEF Edit, ServiceTyped, ChainInv
<1>3. ASSUME NEW i \in DOMAIN coll, coll' = RemoveAt(coll, i) PROVE ServiceTyped'
  <2>1. coll \in Seq(Tracks) /\ Len(coll) \in Nat /\ i \in 1 .. Len(coll)  BY <1>3 DEF ServiceTyped
  <2>2. \A j \in 1 .. Len(coll) : coll[j] \in Tracks  BY <2>1, ElementOfSeq
  <2>3. SubSeq(coll, 1, i - 1) \in Seq(Tracks)
    <3>1. \A j \in 1 .. i - 1 : coll[j] \in Tracks  BY <2>1, <2>2
    <3> QED  BY <2>1, <3>1, SubSeqProperties
  <2>4. SubSeq(coll, i + 1, Len(coll)) \in Seq(Tracks)
    <3>1. \A j \in i + 1 .. Len(coll) : coll[j] \in Tracks  BY <2>1, <2>2
    <3> QED  BY <2>1, <3>1, SubSeqProperties
  <2>5. coll' \in Seq(Tracks)  BY <1>3, <2>3, <2>4, ConcatProperties DEF RemoveAt
  <2> QED  BY <1>1, <2>5 DEF Edit, ServiceTyped, ChainInv
<1> QED  BY <1>2, <1>3 DEF Edit

LEMMA StepService == ServiceTyped /\ [Next]_vars => ServiceTyped'
<1> SUFFICES ASSUME ServiceTyped, [Next]_vars PROVE ServiceTyped'  OBVIOUS
<1>1. CASE UNCHANGED service
  BY <1>1 DEF service, ServiceTyped, ChainInv
<1>2. ASSUME NEW c \in Callers, Caller(c) PROVE UNCHANGED service
  BY <1>2 DEF Caller, ExtractTracksData, Fetch, CheckToken, FetchToken, Lock, TakeLock, StoreToken,
              StoreClient, StartCall, CallFails, EndTrack, EndAlbumPage, EndPlaylist, JoinPages
<1>3. ASSUME NEW c \in Callers, NEW p \in DOMAIN page[c], Page(c, p) PROVE UNCHANGED service
  BY <1>3 DEF Page, StartPage, EndPage
<1>4. CASE Expire  BY <1>1, <1>4 DEF Expire
<1>5. CASE Edit  BY <1>5, EditedTyped
<1>6. CASE UNCHANGED vars  BY <1>1, <1>6 DEF vars
<1> QED  BY <1>1, <1>2, <1>3, <1>4, <1>5, <1>6 DEF Next

LEMMA StepMutex == MutexTyped /\ LocalTyped /\ [Next]_vars => MutexTyped'
<1> SUFFICES ASSUME MutexTyped, LocalTyped, [Next]_vars PROVE MutexTyped'  OBVIOUS
<1>1. CASE UNCHANGED mutex
  BY <1>1 DEF mutex, MutexTyped
<1>2. ASSUME NEW c \in Callers, NEW p \in Nat, RLock(c, p) \/ RUnlock(c, p) PROVE MutexTyped'
  BY <1>2 DEF RLock, RUnlock, MutexTyped
<1>3. ASSUME NEW c \in Callers, Caller(c) PROVE MutexTyped'
  <2>1. CASE Lock(c)  BY <2>1 DEF Lock, MutexTyped
  <2>2. CASE TakeLock(c)  BY <2>2 DEF TakeLock, MutexTyped
  <2>3. CASE StoreClient(c)  BY <2>3 DEF StoreClient, MutexTyped
  <2>4. CASE ExtractTracksData(c) \/ Fetch(c) \/ StoreToken(c) \/ JoinPages(c)
    BY <1>1, <2>4 DEF ExtractTracksData, Fetch, StoreToken, JoinPages
  <2>5. CASE CheckToken(c) \/ FetchToken(c) \/ StartCall(c) \/ CallFails(c)
    BY <1>1, <1>2, <2>5 DEF CheckToken, FetchToken, LeaveCheck, StartCall, CallFails
  <2>6. CASE EndTrack(c) \/ EndAlbumPage(c) \/ EndPlaylist(c)
    BY <1>2, <2>6 DEF EndTrack, EndAlbumPage, EndPlaylist
  <2> QED  BY <1>3, <2>1, <2>2, <2>3, <2>4, <2>5, <2>6 DEF Caller
<1>4. ASSUME NEW c \in Callers, NEW p \in DOMAIN page[c], Page(c, p) PROVE MutexTyped'
  <2>1. p \in Nat
    <3>1. page[c] \in Seq(Pages)  BY DEF LocalTyped
    <3> QED  BY <3>1
  <2> QED  BY <1>2, <1>4, <2>1 DEF Page, StartPage, EndPage
<1>5. CASE Expire \/ Edit  BY <1>1, <1>5 DEF Expire, Edit
<1>6. CASE UNCHANGED vars  BY <1>1, <1>6 DEF vars
<1> QED  BY <1>3, <1>4, <1>5, <1>6 DEF Next

LEMMA StepTokens == TokensTyped /\ LocalTyped /\ [Next]_vars => TokensTyped'
<1> SUFFICES ASSUME TokensTyped, LocalTyped, [Next]_vars PROVE TokensTyped'  OBVIOUS
<1> USE DEF At, Goto
<1>1. ASSUME NEW c \in Callers, NEW s, step' = [step EXCEPT ![c] = s],
             s \notin {"lock", "wait", "swap", "client"},
             UNCHANGED <<tokens, fresh>>
      PROVE  TokensTyped'
  <2>1. \A d \in Callers : step'[d] = IF d = c THEN s ELSE step[d]  BY <1>1 DEF LocalTyped
  <2> QED  BY <1>1, <2>1 DEF tokens, pair, TokensTyped
<1>2. CASE UNCHANGED <<tokens, fresh, step>>
  BY <1>2 DEF tokens, pair, TokensTyped
<1>3. ASSUME NEW c \in Callers, Caller(c) PROVE TokensTyped'
  <2> USE DEF local
  <2>1. CASE ExtractTracksData(c)
    <3>1. PICK s \in {"check", "fetch"} : step' = [step EXCEPT ![c] = s]
      BY <2>1 DEF ExtractTracksData
    <3> QED  BY <1>1, <2>1, <3>1 DEF ExtractTracksData
  <2>2. CASE Fetch(c) \/ EndTrack(c) \/ EndAlbumPage(c) \/ JoinPages(c)
    <3>1. PICK s \in {"answered", "failed", "call"} : step' = [step EXCEPT ![c] = s]
      BY <2>2 DEF Fetch, EndTrack, EndAlbumPage, JoinPages, Answer
    <3>2. UNCHANGED <<tokens, fresh>>  BY <2>2 DEF Fetch, EndTrack, EndAlbumPage, JoinPages
    <3> QED  BY <1>1, <3>1, <3>2
  <2>3. CASE CheckToken(c)
    <3>1. PICK s \in {"call", "renew"} : step' = [step EXCEPT ![c] = s]
      BY <2>3 DEF CheckToken
    <3> QED  BY <1>1, <2>3, <3>1 DEF CheckToken
  <2>4. CASE StartCall(c) \/ CallFails(c) \/ EndPlaylist(c)
    <3>1. PICK s \in {"reading", "failed", "pages"} : step' = [step EXCEPT ![c] = s]
      BY <2>4 DEF StartCall, CallFails, EndPlaylist
    <3>2. UNCHANGED <<tokens, fresh>>  BY <2>4 DEF StartCall, CallFails, EndPlaylist
    <3> QED  BY <1>1, <3>1, <3>2
  <2>5. CASE FetchToken(c)
    <3>1. UNCHANGED <<token, client, dead>>  BY <2>5 DEF FetchToken, pair
    <3>2. CASE /\ issued' = issued + 1 /\ fresh' = [fresh EXCEPT ![c] = issued']
               /\ step' = [step EXCEPT ![c] = "lock"]
      <4>1. issued' \in Nat /\ issued' > issued /\ issued' # 0  BY <3>2 DEF TokensTyped
      <4>2. /\ token' \in 1 .. issued' /\ client' \in 1 .. issued' /\ dead' \in 0 .. issued'
        BY <3>1, <4>1 DEF TokensTyped
      <4>3. fresh' \in [Callers -> 0 .. issued']
        <5>1. \A d \in Callers : fresh[d] \in 0 .. issued'  BY <4>1 DEF TokensTyped
        <5>2. issued' \in 0 .. issued'  BY <4>1
        <5> QED  BY <3>2, <5>1, <5>2 DEF TokensTyped
      <4>4. \A d \in Callers : step'[d] \in {"lock", "wait", "swap", "client"} => fresh'[d] # 0
        BY <3>2, <4>1 DEF TokensTyped, LocalTyped
      <4> QED  BY <4>1, <4>2, <4>3, <4>4 DEF TokensTyped
    <3>3. CASE step' = [step EXCEPT ![c] = "failed"] /\ UNCHANGED <<issued, fresh>>
      BY <1>1, <3>1, <3>3 DEF tokens, pair
    <3> QED  BY <2>5, <3>2, <3>3 DEF FetchToken, FetchFails
  <2>6. CASE Lock(c) \/ TakeLock(c)
    <3>1. /\ step[c] \in {"lock", "wait"} /\ UNCHANGED <<tokens, fresh>>
      BY <2>6 DEF Lock, TakeLock
    <3>2. \A d \in Callers : d # c => step'[d] = step[d]
      BY <2>6 DEF Lock, TakeLock, LocalTyped
    <3> QED  BY <3>1, <3>2 DEF tokens, pair, TokensTyped
  <2>7. CASE StoreToken(c)
    <3>1. /\ step[c] = "swap" /\ token' = fresh[c] /\ UNCHANGED <<client, issued, dead, fresh>>
          /\ step' = [step EXCEPT ![c] = "client"]
      BY <2>7 DEF StoreToken
    <3>2. token' \in 1 .. issued  BY <3>1 DEF TokensTyped
    <3>3. \A d \in Callers : d # c => step'[d] = step[d]  BY <3>1 DEF LocalTyped
    <3> QED  BY <3>1, <3>2, <3>3 DEF TokensTyped
  <2>8. CASE StoreClient(c)
    <3>1. /\ step[c] = "client" /\ client' = fresh[c] /\ UNCHANGED <<token, issued, dead>>
          /\ step' = [step EXCEPT ![c] = "call"] /\ fresh' = [fresh EXCEPT ![c] = 0]
      BY <2>8 DEF StoreClient
    <3>2. client' \in 1 .. issued  BY <3>1 DEF TokensTyped
    <3>3. fresh' \in [Callers -> 0 .. issued]  BY <3>1 DEF TokensTyped
    <3>4. /\ \A d \in Callers : d # c => step'[d] = step[d] /\ fresh'[d] = fresh[d]
          /\ step'[c] = "call"
      BY <3>1 DEF LocalTyped, TokensTyped
    <3> QED  BY <3>1, <3>2, <3>3, <3>4 DEF TokensTyped
  <2> QED  BY <1>3, <2>1, <2>2, <2>3, <2>4, <2>5, <2>6, <2>7, <2>8 DEF Caller
<1>4. ASSUME NEW c \in Callers, NEW p \in DOMAIN page[c], Page(c, p) PROVE TokensTyped'
  BY <1>2, <1>4 DEF Page, StartPage, EndPage
<1>5. CASE Expire
  <2>1. dead' \in 0 .. issued /\ UNCHANGED <<pair, issued, step, fresh>>
    BY <1>5 DEF Expire, local, TokensTyped
  <2> QED  BY <2>1 DEF pair, TokensTyped
<1>6. CASE Edit  BY <1>2, <1>6 DEF Edit, local
<1>7. CASE UNCHANGED vars  BY <1>2, <1>7 DEF vars, local
<1> QED  BY <1>3, <1>4, <1>5, <1>6, <1>7 DEF Next

(* Where a request goes, and with what.                                    *)
LEMMA GotoTyped ==
    ASSUME LocalTyped, NEW c \in Callers, NEW s \in Steps, Goto(c, s)
    PROVE  /\ step' \in [Callers -> Steps] /\ step'[c] = s
           /\ \A d \in Callers : d # c => step'[d] = step[d]
BY DEF LocalTyped, Goto

LEMMA AnswerMoves ==
    ASSUME LocalTyped, NEW c \in Callers, NEW answer \in Seq(GoodRows), Answer(c, answer)
    PROVE  /\ step' \in [Callers -> Steps] /\ rows' \in [Callers -> Seq(GoodRows)]
           /\ \A d \in Callers : d # c => step'[d] = step[d] /\ rows'[d] = rows[d]
           /\ step'[c] \in {"answered", "failed"}
           /\ step'[c] = "answered" => rows'[c] = answer
<1>1. "answered" \in Steps /\ "failed" \in Steps  BY DEF Steps
<1>2. CASE Goto(c, "failed") /\ UNCHANGED rows
  BY <1>1, <1>2, GotoTyped DEF LocalTyped
<1>3. CASE Goto(c, "answered") /\ rows' = [rows EXCEPT ![c] = answer]
  BY <1>1, <1>3, GotoTyped DEF LocalTyped
<1> QED  BY <1>2, <1>3 DEF Answer

LEMMA PageAtTyped ==
    ASSUME ServiceTyped, NEW k \in Nat
    PROVE  PageAt(k) \in Seq(Tracks)
<1>1. k + 1 \in Nat \ {0} /\ k + PageSize \in Nat  BY ExtractorsConstants
<1> QED  BY <1>1, PartTyped DEF PageAt, ServiceTyped

(* The answer a step of c gives, if it gives one.                          *)
Items(c) == [p \in DOMAIN page[c] |-> page[c][p].items]
Given(c) ==
    CASE step[c] = "fetch" -> TrackData(Extractor(query[c]), query[c], coll)
      [] step[c] = "reading" /\ query[c].kind = "track" -> TrackData("spotify", query[c], coll)
      [] step[c] = "reading" /\ query[c].kind # "track" ->
            TrackData("spotify", query[c], got[c] \o PageAt(Len(got[c])))
      [] step[c] = "pages" -> TrackData("spotify", query[c], FlattenSeq(Items(c)))

LEMMA ItemsTyped ==
    ASSUME LocalTyped, NEW c \in Callers
    PROVE  /\ Items(c) \in Seq(Seq(Tracks)) /\ Len(Items(c)) = Len(page[c])
           /\ DOMAIN page[c] = 1 .. Len(page[c]) /\ Len(page[c]) \in Nat
           /\ \A p \in 1 .. Len(page[c]) : Items(c)[p] = page[c][p].items
<1>1. page[c] \in Seq(Pages)  BY DEF LocalTyped
<1>2. \A p \in 1 .. Len(page[c]) : page[c][p] \in Pages  BY <1>1, ElementOfSeq
<1>3. \A p \in 1 .. Len(page[c]) : page[c][p].items \in Seq(Tracks)  BY <1>2 DEF Pages
<1>4. DOMAIN page[c] = 1 .. Len(page[c]) /\ Len(page[c]) \in Nat  BY <1>1
<1> QED  BY <1>3, <1>4 DEF Items

LEMMA GivenTyped ==
    ASSUME ServiceTyped, LocalTyped, NEW c \in Callers, step[c] \in {"fetch", "reading", "pages"}
    PROVE  Given(c) \in Seq(GoodRows)
<1>1. coll \in Seq(Tracks) /\ Extractor(query[c]) \in Sites /\ "spotify" \in Sites
  BY ExtractorThere DEF ServiceTyped, Sites
<1>2. got[c] \o PageAt(Len(got[c])) \in Seq(Tracks)
  <2>1. got[c] \in Seq(Tracks) /\ Len(got[c]) \in Nat  BY DEF LocalTyped
  <2> QED  BY <2>1, PageAtTyped, ConcatProperties
<1>3. FlattenSeq(Items(c)) \in Seq(Tracks)
  <2>1. Items(c) \in Seq(Seq(Tracks))  BY ItemsTyped
  <2>2. PICK f : Joins(f, Items(c), Tracks)  BY <2>1, FlattenJoins
  <2>3. Len(Items(c)) \in 0 .. Len(Items(c))  BY <2>1
  <2> QED  BY <2>2, <2>3 DEF Joins
<1>4. CASE step[c] = "fetch"  BY <1>1, <1>4, DataWhole DEF Given
<1>5. CASE step[c] = "reading" /\ query[c].kind = "track"  BY <1>1, <1>5, DataWhole DEF Given
<1>6. CASE step[c] = "reading" /\ query[c].kind # "track"  BY <1>1, <1>2, <1>6, DataWhole DEF Given
<1>7. CASE step[c] = "pages"  BY <1>1, <1>3, <1>7, DataWhole DEF Given
<1> QED  BY <1>4, <1>5, <1>6, <1>7

(* Steps that answer.                                                      *)
Answers(c) ==
    /\ step[c] \in {"fetch", "reading", "pages"} /\ Answer(c, Given(c))
    /\ UNCHANGED <<query, coll, edits>>
    /\ step[c] = "reading" /\ query[c].kind # "track" =>
          query[c].kind = "album" /\ AllTracks(got[c] \o PageAt(Len(got[c])))
    /\ step[c] = "pages" => \A p \in DOMAIN page[c] : page[c][p].state = "done"
    /\ \A d \in Callers : d # c => got'[d] = got[d] /\ page'[d] = page[d]
    /\ got'[c] \in {got[c], <<>>} /\ page'[c] \in {page[c], <<>>}
    /\ DOMAIN got' = Callers /\ got' = [d \in Callers |-> got'[d]]
    /\ DOMAIN page' = Callers /\ page' = [d \in Callers |-> page'[d]]

LEMMA AnswersTyped ==
    ASSUME ServiceTyped, LocalTyped, NEW c \in Callers, Answers(c)
    PROVE  LocalTyped'
<1>1. Given(c) \in Seq(GoodRows)  BY GivenTyped DEF Answers
<1>2. step' \in [Callers -> Steps] /\ rows' \in [Callers -> Seq(GoodRows)]
  BY <1>1, AnswerMoves DEF Answers
<1>3. got' \in [Callers -> Seq(Tracks)]
  <2>1. \A d \in Callers : got'[d] \in {got[d], <<>>}  BY DEF Answers
  <2>2. \A d \in Callers : got[d] \in Seq(Tracks)  BY DEF LocalTyped
  <2>3. \A d \in Callers : got'[d] \in Seq(Tracks)  BY <2>1, <2>2, EmptySeq
  <2> QED  BY <2>3 DEF Answers
<1>4. page' \in [Callers -> Seq(Pages)]
  <2>1. \A d \in Callers : page'[d] \in {page[d], <<>>}  BY DEF Answers
  <2>2. \A d \in Callers : page[d] \in Seq(Pages)  BY DEF LocalTyped
  <2>3. \A d \in Callers : page'[d] \in Seq(Pages)  BY <2>1, <2>2, EmptySeq
  <2> QED  BY <2>3 DEF Answers
<1> QED  BY <1>2, <1>3, <1>4 DEF Answers, LocalTyped

(* The other steps of a request.                                           *)
Moves(c) ==
    /\ \E s \in Steps \ {"answered", "pages"} : Goto(c, s)
    /\ UNCHANGED <<coll, edits, query, got, page, rows>>

Fails(c) ==
    /\ Goto(c, "failed")
    /\ \/ got' = [got EXCEPT ![c] = <<>>] /\ UNCHANGED page
       \/ page' = [page EXCEPT ![c] = <<>>] /\ UNCHANGED got
    /\ UNCHANGED <<coll, edits, query, rows>>

ReadsOn(c) ==
    /\ Goto(c, "call")
    /\ got' = [got EXCEPT ![c] = got[c] \o PageAt(Len(got[c]))]
    /\ UNCHANGED <<coll, edits, query, page, rows>>

LEMMA CallerKinds ==
    ASSUME LocalTyped, NEW c \in Callers, Caller(c)
    PROVE  Answers(c) \/ Moves(c) \/ Fails(c) \/ ReadsOn(c) \/ EndPlaylist(c)
<1> USE DEF service, local, At
<1>1. ASSUME NEW s \in Steps \ {"answered", "pages"}, Goto(c, s),
             UNCHANGED <<coll, edits, query, got, page, rows>>
      PROVE  Moves(c)
  BY <1>1 DEF Moves
<1>2. Steps \ {"answered", "pages"}
        = {"idle", "check", "renew", "lock", "wait", "swap", "client", "call", "reading", "fetch", "failed"}
  BY DEF Steps
<1>3. /\ DOMAIN got = Callers /\ got = [d \in Callers |-> got[d]]
      /\ DOMAIN page = Callers /\ page = [d \in Callers |-> page[d]]
  BY DEF LocalTyped
<1>4. CASE ExtractTracksData(c)
  <2>1. PICK s \in {"check", "fetch"} : Goto(c, s)  BY <1>4 DEF ExtractTracksData
  <2> QED  BY <1>1, <1>2, <1>4, <2>1 DEF ExtractTracksData
<1>5. CASE Fetch(c)
  <2>1. CASE Answer(c, TrackData(Extractor(query[c]), query[c], coll))
    <3>1. Answer(c, Given(c))  BY <1>5, <2>1 DEF Fetch, Given
    <3> QED  BY <1>3, <1>5, <3>1 DEF Fetch, Answers
  <2>2. CASE Goto(c, "failed") /\ UNCHANGED rows
    BY <1>1, <1>2, <1>5, <2>2 DEF Fetch
  <2> QED  BY <1>5, <2>1, <2>2 DEF Fetch
<1>6. CASE CheckToken(c)
  <2>1. PICK s \in {"call", "renew"} : Goto(c, s)  BY <1>6 DEF CheckToken
  <2> QED  BY <1>1, <1>2, <1>6, <2>1 DEF CheckToken
<1>7. CASE FetchToken(c)
  <2>1. PICK s \in {"lock", "failed"} : Goto(c, s)  BY <1>7 DEF FetchToken, FetchFails
  <2> QED  BY <1>1, <1>2, <1>7, <2>1 DEF FetchToken
<1>8. CASE Lock(c) \/ TakeLock(c) \/ StoreToken(c) \/ StoreClient(c) \/ StartCall(c)
  <2>1. PICK s \in {"wait", "swap", "client", "call", "reading"} : Goto(c, s)
    BY <1>8 DEF Lock, TakeLock, StoreToken, StoreClient, StartCall
  <2>2. UNCHANGED <<coll, edits, query, got, page, rows>>
    BY <1>8 DEF Lock, TakeLock, StoreToken, StoreClient, StartCall
  <2> QED  BY <1>1, <1>2, <2>1, <2>2
<1>9. CASE CallFails(c)
  BY <1>9 DEF CallFails, Fails
<1>10. CASE EndTrack(c)
  <2>1. Answer(c, Given(c))  BY <1>10 DEF EndTrack, Given
  <2> QED  BY <1>3, <1>10, <2>1 DEF EndTrack, Answers
<1>11. CASE EndAlbumPage(c)
  <2> DEFINE tracks == got[c] \o PageAt(Len(got[c]))
  <2>1. CASE AllTracks(tracks)
    <3>1. step[c] = "reading" /\ query[c].kind = "album" /\ UNCHANGED <<query, coll, edits, page>>
      BY <1>11 DEF EndAlbumPage
    <3>2. Answer(c, TrackData("spotify", query[c], tracks)) /\ got' = [got EXCEPT ![c] = <<>>]
      BY <1>11, <2>1 DEF EndAlbumPage
    <3>3. Given(c) = TrackData("spotify", query[c], tracks)  BY <3>1 DEF Given
    <3>4. /\ \A d \in Callers : d # c => got'[d] = got[d]
          /\ got'[c] = <<>> /\ DOMAIN got' = Callers /\ got' = [d \in Callers |-> got'[d]]
      BY <1>3, <3>2
    <3> QED  BY <1>3, <2>1, <3>1, <3>2, <3>3, <3>4 DEF Answers
  <2>2. CASE ~AllTracks(tracks)
    BY <1>11, <2>2 DEF EndAlbumPage, ReadsOn
  <2> QED  BY <2>1, <2>2
<1>12. CASE JoinPages(c)
  <2>1. CASE \E p \in DOMAIN page[c] : page[c][p].state = "failed"
    BY <1>12, <2>1 DEF JoinPages, Fails
  <2>2. CASE ~\E p \in DOMAIN page[c] : page[c][p].state = "failed"
    <3>1. /\ step[c] = "pages" /\ UNCHANGED <<query, coll, edits, got>>
          /\ \A p \in DOMAIN page[c] : page[c][p].state = "done"
      BY <1>12, <2>2 DEF JoinPages
    <3>2. Answer(c, TrackData("spotify", query[c], FlattenSeq(Items(c)))) /\ page' = [page EXCEPT ![c] = <<>>]
      BY <1>12, <2>2 DEF JoinPages, Items
    <3>3. Given(c) = TrackData("spotify", query[c], FlattenSeq(Items(c)))  BY <3>1 DEF Given
    <3>4. /\ \A d \in Callers : d # c => page'[d] = page[d]
          /\ page'[c] = <<>> /\ DOMAIN page' = Callers /\ page' = [d \in Callers |-> page'[d]]
      BY <1>3, <3>2
    <3> QED  BY <1>3, <3>1, <3>2, <3>3, <3>4 DEF Answers
  <2> QED  BY <2>1, <2>2
<1> QED  BY <1>4, <1>5, <1>6, <1>7, <1>8, <1>9, <1>10, <1>11, <1>12 DEF Caller

(* A step of the goroutine of page p.                                      *)
PageMoves(c, p) ==
    /\ \E e \in Pages :
          /\ e.state = "done" => e.items = PageAt((p - 1) * PageSize)
          /\ page' = [page EXCEPT ![c] = [page[c] EXCEPT ![p] = e]]
    /\ UNCHANGED <<coll, edits, step, query, got, rows>>

LEMMA PageKinds ==
    ASSUME ServiceTyped, LocalTyped, NEW c \in Callers, NEW p \in DOMAIN page[c], Page(c, p)
    PROVE  PageMoves(c, p)
<1>1. page[c] \in Seq(Pages) /\ p \in 1 .. Len(page[c]) /\ page[c][p] \in Pages
  <2>1. page[c] \in Seq(Pages)  BY DEF LocalTyped
  <2> QED  BY <2>1, ElementOfSeq
<1>2. UNCHANGED <<coll, edits, step, query, got, rows>>
  BY DEF Page, StartPage, EndPage, service
<1>3. page \in [Callers -> Seq(Pages)]  BY DEF LocalTyped
<1>4. ASSUME NEW s \in {"reading", "failed"}, page' = [page EXCEPT ![c][p].state = s]
      PROVE  PageMoves(c, p)
  <2> DEFINE e == [page[c][p] EXCEPT !.state = s]
  <2>1. e \in Pages /\ e.state # "done"  BY <1>1 DEF Pages
  <2>2. page' = [page EXCEPT ![c] = [page[c] EXCEPT ![p] = e]]  BY <1>4
  <2> HIDE DEF e
  <2> QED  BY <1>2, <2>1, <2>2 DEF PageMoves
<1>5. ASSUME page' = [page EXCEPT ![c][p].state = "done",
                                  ![c][OwnPlace(c, p)].items = PageAt((p - 1) * PageSize)]
      PROVE  PageMoves(c, p)
  <2> DEFINE read == PageAt((p - 1) * PageSize)
             e == [page[c][p] EXCEPT !.state = "done", !.items = read]
  <2>1. read \in Seq(Tracks)
    <3>1. (p - 1) * PageSize \in Nat  BY <1>1, ExtractorsConstants
    <3> QED  BY <3>1, PageAtTyped
  <2> HIDE DEF read
  <2>2. e \in Pages /\ e.items = read  BY <1>1, <2>1 DEF Pages
  <2>3. page' = [page EXCEPT ![c][p].state = "done", ![c][p].items = read]
    BY <1>5 DEF OwnPlace, read
  <2>4. page' = [page EXCEPT ![c] = [page[c] EXCEPT ![p] = e]]  BY <1>1, <1>3, <2>3
  <2> HIDE DEF e
  <2> QED  BY <1>2, <2>2, <2>4 DEF PageMoves, read
<1> QED  BY <1>4, <1>5 DEF Page, StartPage, EndPage

LEMMA NewPages ==
    ASSUME ServiceTyped, LocalTyped, NEW c \in Callers, EndPlaylist(c)
    PROVE  /\ page' \in [Callers -> Seq(Pages)]
           /\ Len(page'[c]) = PageCount(Len(coll))
           /\ \A p \in DOMAIN page'[c] : page'[c][p].state = "todo"
           /\ \A d \in Callers : d # c => page'[d] = page[d]
<1> DEFINE P == PageCount(Len(coll))
           new == [p \in 1 .. P |-> Todo]
<1>1. P \in Nat
  <2>1. Len(coll) \in Nat  BY DEF ServiceTyped
  <2> QED  BY <2>1, PagesSuffice
<1>2. Todo \in Pages /\ Todo.state = "todo"
  <2>1. <<>> \in Seq(Tracks)  OBVIOUS
  <2> QED  BY <2>1 DEF Todo, Pages
<1> HIDE DEF P
<1>3. new \in Seq(Pages) /\ Len(new) = P /\ \A p \in DOMAIN new : new[p].state = "todo"
  BY <1>1, <1>2
<1>4. page' = [page EXCEPT ![c] = new]  BY DEF EndPlaylist, P
<1> HIDE DEF new
<1> QED  BY <1>3, <1>4 DEF LocalTyped, P

LEMMA StepLocal == ServiceTyped /\ LocalTyped /\ [Next]_vars => LocalTyped'
<1> SUFFICES ASSUME ServiceTyped, LocalTyped, [Next]_vars PROVE LocalTyped'  OBVIOUS
<1>1. ASSUME NEW c \in Callers, Caller(c) PROVE LocalTyped'
  <2>1. CASE Answers(c)  BY <2>1, AnswersTyped
  <2>2. CASE Moves(c)
    <3>1. PICK s \in Steps : Goto(c, s)  BY <2>2 DEF Moves
    <3> QED  BY <2>2, <3>1, GotoTyped DEF Moves, LocalTyped
  <2>3. CASE Fails(c)
    <3>1. "failed" \in Steps  BY DEF Steps
    <3>2. step' \in [Callers -> Steps]  BY <2>3, <3>1, GotoTyped DEF Fails
    <3>3. <<>> \in Seq(Tracks) /\ <<>> \in Seq(Pages)  OBVIOUS
    <3> QED  BY <2>3, <3>2, <3>3 DEF Fails, LocalTyped
  <2>4. CASE ReadsOn(c)
    <3>1. "call" \in Steps  BY DEF Steps
    <3>2. step' \in [Callers -> Steps]  BY <2>4, <3>1, GotoTyped DEF ReadsOn
    <3>3. got[c] \o PageAt(Len(got[c])) \in Seq(Tracks)
      <4>1. got[c] \in Seq(Tracks) /\ Len(got[c]) \in Nat  BY DEF LocalTyped
      <4> QED  BY <4>1, PageAtTyped, ConcatProperties
    <3> QED  BY <2>4, <3>2, <3>3 DEF ReadsOn, LocalTyped
  <2>5. CASE EndPlaylist(c)
    <3>1. "pages" \in Steps  BY DEF Steps
    <3>2. step' \in [Callers -> Steps]  BY <2>5, <3>1, GotoTyped DEF EndPlaylist
    <3>3. page' \in [Callers -> Seq(Pages)]  BY <2>5, NewPages
    <3> QED  BY <2>5, <3>2, <3>3 DEF EndPlaylist, LocalTyped
  <2> QED  BY <1>1, <2>1, <2>2, <2>3, <2>4, <2>5, CallerKinds
<1>2. ASSUME NEW c \in Callers, NEW p \in DOMAIN page[c], Page(c, p) PROVE LocalTyped'
  <2>1. PageMoves(c, p)  BY <1>2, PageKinds
  <2>2. PICK e \in Pages : page' = [page EXCEPT ![c] = [page[c] EXCEPT ![p] = e]]
    BY <2>1 DEF PageMoves
  <2>3. page[c] \in Seq(Pages)  BY DEF LocalTyped
  <2>4. [page[c] EXCEPT ![p] = e] \in Seq(Pages)  BY <2>3, ExceptSeq
  <2> QED  BY <2>1, <2>2, <2>4 DEF PageMoves, LocalTyped
<1>3. CASE UNCHANGED <<step, local>>  BY <1>3 DEF local, LocalTyped
<1> QED  BY <1>1, <1>2, <1>3 DEF Next, Expire, Edit, vars

LEMMA StepTyped == AnswerTyped /\ [Next]_vars => AnswerTyped'
BY StepService, StepTokens, StepMutex, StepLocal DEF AnswerTyped

LEMMA TypedAlways == Spec => []AnswerTyped
BY InitAnswerTyped, StepTyped, PTL DEF Spec

(***************************************************************************)
(* Whole answers.  While the collection is not edited, a request has read  *)
(* the beginning of it, each page that is done has its own tracks, and     *)
(* there are as many as it takes; the answer is then whole.                *)
(***************************************************************************)

Begins(c) == Len(got[c]) <= Len(coll) /\ got[c] = SubSeq(coll, 1, Len(got[c]))
PagesRead(c) ==
    \A p \in DOMAIN page[c] :
        page[c][p].state = "done" => page[c][p].items = PageAt((p - 1) * PageSize)
PagesOfAll(c) == step[c] = "pages" => Len(page[c]) = PageCount(Len(coll))
Answered(c)   == step[c] = "answered" => Whole(rows[c], query[c], coll)

WholeOf(c) == Begins(c) /\ PagesRead(c) /\ PagesOfAll(c) /\ Answered(c)
WholeInv   == edits = 0 => \A c \in Callers : WholeOf(c)

LEMMA InitWhole == Init => WholeInv
<1> SUFFICES ASSUME Init, NEW c \in Callers PROVE WholeOf(c)  BY DEF WholeInv
<1>1. got[c] = <<>> /\ page[c] = <<>> /\ step[c] = "idle"  BY DEF Init
<1>2. coll \in Seq(Tracks)  BY InitAnswerTyped DEF AnswerTyped, ServiceTyped
<1>3. Begins(c)
  <2>1. SubSeq(coll, 1, 0) = <<>> /\ Len(coll) \in Nat /\ Len(<<>>) = 0  BY <1>2, SubSeqEmpty
  <2> QED  BY <1>1, <2>1 DEF Begins
<1> QED  BY <1>1, <1>3 DEF WholeOf, PagesRead, PagesOfAll, Answered

(* The tracks read so far and the next page of them.                       *)
LEMMA NextTracks ==
    ASSUME ServiceTyped, LocalTyped, NEW c \in Callers, Begins(c)
    PROVE  LET tracks == got[c] \o PageAt(Len(got[c])) IN
           /\ tracks \in Seq(Tracks) /\ Len(tracks) <= Len(coll)
           /\ tracks = SubSeq(coll, 1, Len(tracks))
<1> DEFINE k == Len(got[c])
           end == IF k + PageSize < Len(coll) THEN k + PageSize ELSE Len(coll)
           tracks == got[c] \o PageAt(k)
<1>1. coll \in Seq(Tracks) /\ got[c] \in Seq(Tracks)  BY DEF ServiceTyped, LocalTyped
<1>2. PageSize \in Nat /\ Len(coll) \in Nat /\ k \in 0 .. Len(coll)
  BY <1>1, ExtractorsConstants DEF Begins
<1>3. got[c] = SubSeq(coll, 1, k)  BY DEF Begins
<1>4. end \in 0 .. Len(coll)  BY <1>2
<1>5. tracks = SubSeq(coll, 1, end)
  <2> HIDE DEF k
  <2>1. tracks = Prefix(coll, k + PageSize)  BY <1>1, <1>2, <1>3, PageGoesOn DEF PageAt
  <2> QED  BY <2>1 DEF Prefix
<1> HIDE DEF k, end, tracks
<1>6. \A i \in 1 .. end : coll[i] \in Tracks
  <2>1. \A i \in 1 .. end : i \in 1 .. Len(coll)  BY <1>2, <1>4
  <2> QED  BY <1>1, <2>1, ElementOfSeq
<1>7. SubSeq(coll, 1, end) \in Seq(Tracks) /\ Len(SubSeq(coll, 1, end)) = end
  BY <1>4, <1>6, SubSeqProperties
<1>8. tracks \in Seq(Tracks) /\ Len(tracks) <= Len(coll) /\ tracks = SubSeq(coll, 1, Len(tracks))
  BY <1>2, <1>4, <1>5, <1>7
<1> QED  BY <1>8 DEF tracks, k

LEMMA GivenWhole ==
    ASSUME ServiceTyped, LocalTyped, NEW c \in Callers, WholeOf(c), Answers(c)
    PROVE  Whole(Given(c), query[c], coll)
<1>1. coll \in Seq(Tracks) /\ Extractor(query[c]) \in Sites /\ "spotify" \in Sites
  BY ExtractorThere DEF ServiceTyped, Sites
<1>2. CASE step[c] = "fetch"  BY <1>1, <1>2, DataWhole DEF Given
<1>3. CASE step[c] = "reading" /\ query[c].kind = "track"  BY <1>1, <1>3, DataWhole DEF Given
<1>4. CASE step[c] = "reading" /\ query[c].kind # "track"
  <2> DEFINE tracks == got[c] \o PageAt(Len(got[c]))
  <2>1. tracks = SubSeq(coll, 1, Len(tracks))  BY NextTracks DEF WholeOf
  <2>2. Given(c) = TrackData("spotify", query[c], tracks)  BY <1>4 DEF Given
  <2>3. Len(tracks) = Len(coll)  BY <1>4 DEF Answers, AllTracks
  <2> HIDE DEF tracks
  <2>4. tracks = coll  BY <1>1, <2>1, <2>3, SubSeqFull
  <2> QED  BY <1>1, <2>2, <2>4, DataWhole
<1>5. CASE step[c] = "pages"
  <2> DEFINE seqs == Items(c)
  <2>1. /\ seqs \in Seq(Seq(Tracks)) /\ Len(seqs) = Len(page[c]) /\ DOMAIN page[c] = 1 .. Len(page[c])
        /\ \A p \in 1 .. Len(page[c]) : seqs[p] = page[c][p].items
    BY ItemsTyped
  <2> HIDE DEF seqs
  <2>2. Len(page[c]) = PageCount(Len(coll))  BY <1>5 DEF WholeOf, PagesOfAll
  <2>3. ASSUME NEW p \in 1 .. Len(seqs)
        PROVE  seqs[p] = Part(coll, (p - 1) * PageSize + 1, (p - 1) * PageSize + PageSize)
    <3>1. p \in DOMAIN page[c] /\ seqs[p] = page[c][p].items  BY <2>1
    <3>2. page[c][p].state = "done"  BY <1>5, <3>1 DEF Answers
    <3>3. page[c][p].items = PageAt((p - 1) * PageSize)  BY <3>1, <3>2 DEF WholeOf, PagesRead
    <3> QED  BY <3>1, <3>3 DEF PageAt
  <2>4. FlattenSeq(seqs) = coll  BY <1>1, <2>1, <2>2, <2>3, PagesJoin
  <2>5. Given(c) = TrackData("spotify", query[c], FlattenSeq(seqs))  BY <1>5 DEF Given, seqs
  <2> QED  BY <1>1, <2>4, <2>5, DataWhole
<1> QED  BY <1>2, <1>3, <1>4, <1>5 DEF Answers

(* Nothing of request d moves.                                             *)
Still(d) ==
    /\ step'[d] = step[d] /\ got'[d] = got[d] /\ page'[d] = page[d] /\ rows'[d] = rows[d]

LEMMA StillWhole ==
    ASSUME NEW d \in Callers, WholeOf(d), Still(d), UNCHANGED <<coll, query>>
    PROVE  WholeOf(d)'
BY DEF Still, WholeOf, Begins, PagesRead, PagesOfAll, Answered, PageAt

LEMMA CallerStill ==
    ASSUME LocalTyped, NEW c \in Callers, NEW d \in Callers, d # c, Caller(c), ~EndPlaylist(c)
    PROVE  Still(d) /\ UNCHANGED <<coll, edits, query>>
<1>1. CASE Answers(c)
  <2>1. step'[d] = step[d] /\ rows'[d] = rows[d]
    BY <1>1 DEF Answers, Answer, Goto, LocalTyped
  <2> QED  BY <1>1, <2>1 DEF Answers, Still
<1>2. CASE Moves(c)
  <2>1. PICK s \in Steps : Goto(c, s)  BY <1>2 DEF Moves
  <2> QED  BY <1>2, <2>1 DEF Moves, Goto, LocalTyped, Still
<1>3. CASE Fails(c)  BY <1>3 DEF Fails, Goto, LocalTyped, Still
<1>4. CASE ReadsOn(c)  BY <1>4 DEF ReadsOn, Goto, LocalTyped, Still
<1> QED  BY <1>1, <1>2, <1>3, <1>4, CallerKinds

LEMMA CallerWhole ==
    ASSUME ServiceTyped, LocalTyped, NEW c \in Callers, WholeOf(c), Caller(c)
    PROVE  WholeOf(c)'
<1>0. SubSeq(coll, 1, 0) = <<>> /\ 0 <= Len(coll)
  BY SubSeqEmpty DEF ServiceTyped
<1>1. CASE Answers(c)
  <2>1. Given(c) \in Seq(GoodRows)  BY <1>1, GivenTyped DEF Answers
  <2>2. /\ step'[c] \in {"answered", "failed"}
        /\ step'[c] = "answered" => rows'[c] = Given(c)
    BY <1>1, <2>1, AnswerMoves DEF Answers
  <2>3. UNCHANGED <<coll, query>>  BY <1>1 DEF Answers
  <2>4. Begins(c)'
    <3>1. CASE got'[c] = got[c]  BY <2>3, <3>1 DEF WholeOf, Begins
    <3>2. CASE got'[c] = <<>>  BY <1>0, <2>3, <3>2 DEF Begins
    <3> QED  BY <1>1, <3>1, <3>2 DEF Answers
  <2>5. PagesRead(c)'
    <3>1. CASE page'[c] = page[c]  BY <2>3, <3>1 DEF WholeOf, PagesRead, PageAt
    <3>2. CASE page'[c] = <<>>  BY <3>2 DEF PagesRead
    <3> QED  BY <1>1, <3>1, <3>2 DEF Answers
  <2>6. PagesOfAll(c)'  BY <2>2 DEF PagesOfAll
  <2>7. Answered(c)'  BY <1>1, <2>2, <2>3, GivenWhole DEF Answered
  <2> QED  BY <2>4, <2>5, <2>6, <2>7 DEF WholeOf
<1>2. CASE Moves(c)
  <2>1. PICK s \in Steps \ {"answered", "pages"} : Goto(c, s)  BY <1>2 DEF Moves
  <2>2. step'[c] \notin {"answered", "pages"}  BY <2>1 DEF Goto, LocalTyped
  <2> QED  BY <1>2, <2>2 DEF Moves, WholeOf, Begins, PagesRead, PagesOfAll, Answered, PageAt
<1>3. CASE Fails(c)
  <2>1. step'[c] = "failed" /\ UNCHANGED coll  BY <1>3 DEF Fails, Goto, LocalTyped
  <2>2. got'[c] \in {got[c], <<>>} /\ page'[c] \in {page[c], <<>>}  BY <1>3 DEF Fails, LocalTyped
  <2>3. Begins(c)'
    <3>1. CASE got'[c] = got[c]  BY <2>1, <3>1 DEF WholeOf, Begins
    <3>2. CASE got'[c] = <<>>  BY <1>0, <2>1, <3>2 DEF Begins
    <3> QED  BY <2>2, <3>1, <3>2
  <2>4. PagesRead(c)'
    <3>1. CASE page'[c] = page[c]  BY <2>1, <3>1 DEF WholeOf, PagesRead, PageAt
    <3>2. CASE page'[c] = <<>>  BY <3>2 DEF PagesRead
    <3> QED  BY <2>2, <3>1, <3>2
  <2> QED  BY <2>1, <2>3, <2>4 DEF WholeOf, PagesOfAll, Answered
<1>4. CASE ReadsOn(c)
  <2> DEFINE tracks == got[c] \o PageAt(Len(got[c]))
  <2>1. Len(tracks) <= Len(coll) /\ tracks = SubSeq(coll, 1, Len(tracks))
    BY NextTracks DEF WholeOf
  <2>2. got'[c] = tracks /\ step'[c] = "call" /\ UNCHANGED <<coll, page>>
    BY <1>4 DEF ReadsOn, Goto, LocalTyped
  <2> HIDE DEF tracks
  <2> QED  BY <2>1, <2>2 DEF WholeOf, Begins, PagesRead, PagesOfAll, Answered, PageAt
<1>5. CASE EndPlaylist(c)
  <2>1. /\ Len(page'[c]) = PageCount(Len(coll))
        /\ \A p \in DOMAIN page'[c] : page'[c][p].state = "todo"
    BY <1>5, NewPages
  <2>2. step'[c] = "pages" /\ UNCHANGED <<coll, got>>
    BY <1>5 DEF EndPlaylist, Goto, LocalTyped, service
  <2> QED  BY <2>1, <2>2 DEF WholeOf, Begins, PagesRead, PagesOfAll, Answered
<1> QED  BY <1>1, <1>2, <1>3, <1>4, <1>5, CallerKinds

LEMMA PageWhole ==
    ASSUME LocalTyped, NEW c \in Callers, NEW p \in DOMAIN page[c], PageMoves(c, p), WholeOf(c)
    PROVE  WholeOf(c)'
<1>1. PICK e \in Pages : /\ e.state = "done" => e.items = PageAt((p - 1) * PageSize)
                         /\ page' = [page EXCEPT ![c] = [page[c] EXCEPT ![p] = e]]
  BY DEF PageMoves
<1>2. page[c] \in Seq(Pages) /\ p \in 1 .. Len(page[c])
  <2>1. page[c] \in Seq(Pages)  BY DEF LocalTyped
  <2> QED  BY <2>1
<1>3. page'[c] = [page[c] EXCEPT ![p] = e]  BY <1>1 DEF LocalTyped
<1>4. /\ Len(page'[c]) = Len(page[c]) /\ DOMAIN page'[c] = DOMAIN page[c]
      /\ \A q \in DOMAIN page[c] : page'[c][q] = IF q = p THEN e ELSE page[c][q]
  BY <1>2, <1>3, ExceptSeq
<1>5. PagesRead(c)'  BY <1>1, <1>4 DEF PageMoves, WholeOf, PagesRead, PageAt
<1> QED  BY <1>4, <1>5 DEF PageMoves, WholeOf, Begins, PagesOfAll, Answered

LEMMA StepWhole == AnswerTyped /\ WholeInv /\ [Next]_vars => WholeInv'
<1> SUFFICES ASSUME ServiceTyped, LocalTyped, WholeInv, [Next]_vars,
                    edits' = 0, NEW d \in Callers
             PROVE  WholeOf(d)'
  BY DEF AnswerTyped, WholeInv
<1>1. ASSUME UNCHANGED <<edits, coll, query>>, Still(d) PROVE WholeOf(d)'
  BY <1>1, StillWhole DEF WholeInv
<1>2. ASSUME NEW c \in Callers, Caller(c) PROVE WholeOf(d)'
  <2>1. UNCHANGED edits
    BY <1>2 DEF Caller, ExtractTracksData, Fetch, CheckToken, FetchToken, Lock, TakeLock, StoreToken,
                StoreClient, StartCall, CallFails, EndTrack, EndAlbumPage, EndPlaylist, JoinPages,
                service
  <2>2. CASE d = c  BY <1>2, <2>1, <2>2, CallerWhole DEF WholeInv
  <2>3. CASE d # c /\ EndPlaylist(c)
    <3>1. step'[d] = step[d]  BY <2>3 DEF EndPlaylist, Goto, LocalTyped
    <3>2. page'[d] = page[d]  BY <2>3, NewPages
    <3> QED  BY <1>1, <2>3, <3>1, <3>2 DEF EndPlaylist, Still, service
  <2>4. CASE d # c /\ ~EndPlaylist(c)  BY <1>1, <1>2, <2>4, CallerStill
  <2> QED  BY <2>2, <2>3, <2>4
<1>3. ASSUME NEW c \in Callers, NEW p \in DOMAIN page[c], Page(c, p) PROVE WholeOf(d)'
  <2>1. PageMoves(c, p)  BY <1>3, PageKinds
  <2>2. CASE d = c  BY <2>1, <2>2, PageWhole DEF WholeInv, PageMoves
  <2>3. CASE d # c
    <3>1. page'[d] = page[d]  BY <2>1, <2>3 DEF PageMoves, LocalTyped
    <3> QED  BY <1>1, <2>1, <3>1 DEF PageMoves, Still
  <2> QED  BY <2>2, <2>3
<1>4. ~Edit
  <2>1. edits \in Nat  BY ExtractorsConstants DEF ServiceTyped
  <2> QED  BY <2>1 DEF Edit
<1>5. CASE Expire  BY <1>1, <1>5 DEF Expire, service, local, Still
<1>6. CASE UNCHANGED vars  BY <1>1, <1>6 DEF vars, service, local, Still
<1> QED  BY <1>2, <1>3, <1>4, <1>5, <1>6 DEF Next

(***************************************************************************)
(* Nobody waits for himself.                                               *)
(***************************************************************************)

(* A request changes what is its own.                                      *)
LEMMA CallerAlone ==
    ASSUME ServiceTyped, LocalTyped, NEW c \in Callers, Caller(c)
    PROVE  \A d \in Callers : d # c => step'[d] = step[d] /\ page'[d] = page[d]
<1>1. CASE Answers(c)
  <2>1. Given(c) \in Seq(GoodRows)  BY <1>1, GivenTyped DEF Answers
  <2> QED  BY <1>1, <2>1, AnswerMoves DEF Answers
<1>2. CASE Moves(c)
  <2>1. PICK s \in Steps : Goto(c, s)  BY <1>2 DEF Moves
  <2> QED  BY <1>2, <2>1, GotoTyped DEF Moves
<1>3. CASE Fails(c) \/ ReadsOn(c) \/ EndPlaylist(c)
  <2>1. PICK s \in {"failed", "call", "pages"} : Goto(c, s)
    BY <1>3 DEF Fails, ReadsOn, EndPlaylist
  <2>2. s \in Steps  BY DEF Steps
  <2>3. \A d \in Callers : d # c => page'[d] = page[d]
    BY <1>3 DEF Fails, ReadsOn, EndPlaylist, LocalTyped
  <2> QED  BY <2>1, <2>2, <2>3, GotoTyped
<1> QED  BY <1>1, <1>2, <1>3, CallerKinds

(* A request that is outside Lock, and holds RLock afterwards only where   *)
(* it goes on.                                                             *)
LEMMA GoesOnAlone ==
    ASSUME HoldersGoOn, MutexTyped, NEW c \in Callers, step[c] \notin {"swap", "client"},
           \A d \in Callers : d # c => step'[d] = step[d] /\ page'[d] = page[d],
           readers' \subseteq Callers \X Nat, writer' = writer,
           \A r \in readers' :
              IF r[1] = c THEN r[2] = 0 /\ step'[c] \in {"renew", "reading"} ELSE r \in readers
    PROVE  HoldersGoOn'
<1>1. writer' # Nobody => step'[writer'] \in {"swap", "client"}
  BY DEF HoldersGoOn, MutexTyped
<1>2. ASSUME NEW r \in readers'
      PROVE  \/ r[2] = 0 /\ step'[r[1]] \in {"renew", "reading"}
             \/ r[2] \in DOMAIN page'[r[1]] /\ At(r[1], "pages")' /\ page'[r[1]][r[2]].state = "reading"
  <2>1. r[1] \in Callers  OBVIOUS
  <2> QED  BY <2>1 DEF HoldersGoOn, At
<1> QED  BY <1>1, <1>2 DEF HoldersGoOn

LEMMA CallerGoesOn ==
    ASSUME ServiceTyped, LocalTyped, MutexTyped, MutexTyped', HoldersGoOn,
           NEW c \in Callers, Caller(c)
    PROVE  HoldersGoOn'
<1>1. \A d \in Callers : d # c => step'[d] = step[d] /\ page'[d] = page[d]
  BY CallerAlone
<1>2. readers \subseteq Callers \X Nat /\ readers' \subseteq Callers \X Nat  BY DEF MutexTyped
<1>3. \A s \in Steps : Goto(c, s) => step'[c] = s  BY GotoTyped
<1>4. \A r \in readers : r[1] = c =>
         \/ r = <<c, 0>> /\ step[c] \in {"renew", "reading"}
         \/ r[2] \in DOMAIN page[c] /\ step[c] = "pages" /\ page[c][r[2]].state = "reading"
  BY <1>2 DEF HoldersGoOn, At
<1>5. ASSUME UNCHANGED <<readers, writer>>, step[c] \notin {"swap", "client", "renew", "reading", "pages"}
      PROVE  HoldersGoOn'
  BY <1>1, <1>2, <1>4, <1>5, GoesOnAlone
<1>6. ASSUME RLock(c, 0), step'[c] \in {"renew", "reading"},
             step[c] \notin {"swap", "client", "renew", "reading", "pages"}
      PROVE  HoldersGoOn'
  <2>1. \A r \in readers' : IF r[1] = c THEN r[2] = 0 ELSE r \in readers
    BY <1>2, <1>4, <1>6 DEF RLock
  <2> QED  BY <1>1, <1>2, <1>6, <2>1, GoesOnAlone DEF RLock
<1>7. ASSUME RUnlock(c, 0), step[c] \in {"renew", "reading"} PROVE HoldersGoOn'
  <2>1. \A r \in readers' : r[1] # c /\ r \in readers
    BY <1>2, <1>4, <1>7 DEF RUnlock
  <2> QED  BY <1>1, <1>2, <1>7, <2>1, GoesOnAlone DEF RUnlock
<1> USE DEF At
<1>8. CASE ExtractTracksData(c) \/ Fetch(c) \/ Lock(c)
  BY <1>5, <1>8 DEF ExtractTracksData, Fetch, Lock, mutex
<1>9. CASE CheckToken(c)
  <2>1. CASE Goto(c, "call") /\ UNCHANGED mutex  BY <1>5, <1>9, <2>1 DEF CheckToken, mutex
  <2>2. CASE Goto(c, "renew") /\ RLock(c, 0)
    BY <1>3, <1>6, <1>9, <2>2 DEF CheckToken, Steps
  <2> QED  BY <1>9, <2>1, <2>2 DEF CheckToken
<1>10. CASE FetchToken(c) \/ CallFails(c) \/ EndTrack(c) \/ EndAlbumPage(c) \/ EndPlaylist(c)
  BY <1>7, <1>10 DEF FetchToken, LeaveCheck, CallFails, EndTrack, EndAlbumPage, EndPlaylist
<1>11. CASE StartCall(c)
  BY <1>3, <1>6, <1>11 DEF StartCall, Steps
<1>12. CASE TakeLock(c)
  <2>1. readers' = {} /\ writer' = c /\ step'[c] = "swap"
    BY <1>3, <1>12 DEF TakeLock, LockFree, Steps
  <2> QED  BY <2>1 DEF HoldersGoOn
<1>13. CASE StoreToken(c)
  <2>1. step[c] = "swap" /\ step'[c] = "client" /\ UNCHANGED <<readers, writer>>
    BY <1>3, <1>13 DEF StoreToken, mutex, Steps
  <2>2. \A r \in readers : r[1] # c  BY <1>4, <2>1
  <2> QED  BY <1>1, <1>2, <2>1, <2>2 DEF HoldersGoOn, MutexTyped
<1>14. CASE StoreClient(c)
  <2>1. step[c] = "client" /\ writer' = Nobody /\ UNCHANGED readers  BY <1>14 DEF StoreClient
  <2>2. \A r \in readers : r[1] # c  BY <1>4, <2>1
  <2> QED  BY <1>1, <1>2, <2>1, <2>2 DEF HoldersGoOn
<1>15. CASE JoinPages(c)
  <2>1. \A r \in readers : r[1] # c  BY <1>4, <1>15 DEF JoinPages
  <2>2. step[c] = "pages" /\ UNCHANGED <<readers, writer>>  BY <1>15 DEF JoinPages, mutex
  <2> QED  BY <1>1, <1>2, <2>1, <2>2, GoesOnAlone
<1> QED  BY <1>8, <1>9, <1>10, <1>11, <1>12, <1>13, <1>14, <1>15 DEF Caller

LEMMA PageGoesOnAlone ==
    ASSUME LocalTyped, MutexTyped, HoldersGoOn,
           NEW c \in Callers, NEW p \in DOMAIN page[c], Page(c, p)
    PROVE  HoldersGoOn'
<1> USE DEF At
<1>1. page[c] \in Seq(Pages) /\ p \in 1 .. Len(page[c]) /\ Len(page[c]) \in Nat
  BY DEF LocalTyped
<1>2. UNCHANGED <<step, writer>> /\ step[c] = "pages"  BY DEF Page, StartPage, EndPage, RLock, RUnlock
<1>3. DOMAIN page' = Callers /\ \A d \in Callers : DOMAIN page'[d] = DOMAIN page[d]
  BY DEF Page, StartPage, EndPage, LocalTyped
<1>4. \A d \in Callers : \A q \in DOMAIN page[d] :
         <<d, q>> # <<c, p>> => page'[d][q].state = page[d][q].state
  BY <1>1 DEF Page, StartPage, EndPage, OwnPlace, LocalTyped
<1>5. \A r \in readers : /\ r = <<r[1], r[2]>> /\ r[1] \in Callers
                         /\ r[2] = 0 => step[r[1]] # "pages" \/ r[2] \in DOMAIN page[r[1]]
  BY DEF MutexTyped, HoldersGoOn
<1>6. CASE StartPage(c, p)
  <2>1. page'[c][p].state = "reading"  BY <1>1, <1>6 DEF StartPage, LocalTyped, Pages
  <2>2. readers' = readers \cup {<<c, p>>}  BY <1>6 DEF StartPage, RLock
  <2> QED  BY <1>2, <1>3, <1>4, <1>5, <2>1, <2>2 DEF HoldersGoOn
<1>7. CASE EndPage(c, p)
  <2>1. readers' = readers \ {<<c, p>>}  BY <1>7 DEF EndPage, RUnlock
  <2> QED  BY <1>2, <1>3, <1>4, <1>5, <2>1 DEF HoldersGoOn
<1> QED  BY <1>6, <1>7 DEF Page

LEMMA StepGoesOn == AnswerTyped /\ HoldersGoOn /\ [Next]_vars => HoldersGoOn'
<1> SUFFICES ASSUME AnswerTyped, HoldersGoOn, [Next]_vars PROVE HoldersGoOn'  OBVIOUS
<1>1. MutexTyped'  BY StepMutex DEF AnswerTyped
<1>2. CASE UNCHANGED <<mutex, step, page>>  BY <1>2 DEF mutex, HoldersGoOn, At
<1> QED  BY <1>1, <1>2, CallerGoesOn, PageGoesOnAlone
         DEF Next, Expire, Edit, vars, local, AnswerTyped

(***************************************************************************)
(* The theorems.                                                           *)
(***************************************************************************)

(* Every variable of the extractors keeps its type; what a request puts    *)
(* into the queue are rows of tracks, and blank rows.                      *)
THEOREM ExtractorsTyped == Spec => []TypeOK
<1>1. AnswerTyped => TypeOK
  <2> SUFFICES ASSUME AnswerTyped PROVE TypeOK  OBVIOUS
  <2> USE DEF AnswerTyped
  <2>1. Tracks \subseteq Nat /\ GoodRows \subseteq Rows
    BY DEF Tracks, GoodRows, Rows, Blank, Row
  <2>2. coll \in Seq(Nat)  BY <2>1, SeqMonotonic DEF ServiceTyped
  <2>3. got \in [Callers -> Seq(Nat)]
    <3>1. Seq(Tracks) \subseteq Seq(Nat)  BY <2>1, SeqMonotonic
    <3> QED  BY <3>1 DEF LocalTyped
  <2>4. rows \in [Callers -> Seq(Rows)]
    <3>1. Seq(GoodRows) \subseteq Seq(Rows)  BY <2>1, SeqMonotonic
    <3> QED  BY <3>1 DEF LocalTyped
  <2>5. page \in [Callers -> Seq([state : {"todo", "reading", "done", "failed"}, items : Seq(Nat)])]
    <3>1. Seq(Tracks) \subseteq Seq(Nat)  BY <2>1, SeqMonotonic
    <3>2. Pages \subseteq [state : {"todo", "reading", "done", "failed"}, items : Seq(Nat)]
      BY <3>1 DEF Pages
    <3>3. Seq(Pages) \subseteq Seq([state : {"todo", "reading", "done", "failed"}, items : Seq(Nat)])
      BY <3>2, SeqMonotonic
    <3> QED  BY <3>3 DEF LocalTyped
  <2>6. chain \in Seq(Sites) /\ edits \in 0 .. MaxEdits  BY DEF ServiceTyped, ChainInv
  <2>7. step \in [Callers -> Steps] /\ query \in [Callers -> Queries]  BY DEF LocalTyped
  <2> QED
    BY <2>2, <2>3, <2>4, <2>5, <2>6, <2>7 DEF TypeOK, TokensTyped, MutexTyped, Steps
<1> QED  BY <1>1, TypedAlways, PTL

(* Some member of the chain finds a stream for every row that is not a     *)
(* blank one of an album, and that of a Yandex Music track goes to the     *)
(* member with the credentials, whatever is configured.                    *)
THEOREM RowsFindStreams == Spec => []RowsStream
<1>1. AnswerTyped => RowsStream
  <2> SUFFICES ASSUME AnswerTyped, NEW c \in Callers, NEW i \in DOMAIN rows[c]
               PROVE  /\ Takers(rows[c][i].url) = {} => rows[c][i] = Blank
                      /\ rows[c][i].url = "yandex" /\ Contains(chain, "yandex")
                            => Streamer(rows[c][i].url) = "yandex"
    BY DEF RowsStream
  <2>1. rows[c] \in Seq(GoodRows)  BY DEF AnswerTyped, LocalTyped
  <2>2. rows[c][i] \in GoodRows  BY <2>1, ElementOfSeq
  <2> QED  BY <2>2, RowsTaken DEF AnswerTyped, ServiceTyped
<1> QED  BY <1>1, TypedAlways, PTL

(* Unless the collection is edited, an answer has its playable tracks, all *)
(* of them once and in order, however many pages it is read in and in      *)
(* whatever order they come.                                               *)
THEOREM AnswersAreWhole == Spec => []WholeAnswer
<1>1. WholeInv => WholeAnswer
  BY DEF WholeInv, WholeOf, Answered, Whole, TracksOf, WholeAnswer, At
<1> QED  BY InitAnswerTyped, InitWhole, StepTyped, StepWhole, <1>1, PTL DEF Spec

(* Whoever has the lock of the token goes on without asking for it again,  *)
(* so refreshToken, calls and pages of any number of requests never stop   *)
(* each other for good.                                                    *)
THEOREM NobodyWaitsForHimself == Spec => []HoldersGoOn
<1>1. Init => HoldersGoOn  BY DEF Init, HoldersGoOn
<1> QED  BY InitAnswerTyped, StepTyped, StepGoesOn, <1>1, PTL DEF Spec
=============================================================================
