----------------------- MODULE CloudMatchClientProofs -----------------------
(***************************************************************************)
(* Theorems about CloudMatchClient, for every set of calls and topics and  *)
(* every size of the queues.                                               *)
(***************************************************************************)
EXTENDS CloudMatchClient, TLAPS, FiniteSetTheorems, SequenceTheorems, WellFoundedInduction

-----------------------------------------------------------------------------
(* The inductive invariant                                                 *)

Once(q) == \A i, j \in DOMAIN q : q[i] = q[j] => i = j
OnceResults(q) ==
    \A i, j \in DOMAIN q :
        IsResult(q[i]) /\ IsResult(q[j]) /\ q[i].call = q[j].call /\ q[i].call \in Calls => i = j

\* The generation of the worker is the oldest, the atomic one the newest; they
\* differ while Stop waits.  A worker on its way has put its call somewhere.
ControlOK ==
    /\ wgen <= gen /\ gen <= cgen /\ (stopping <=> gen # cgen)
    /\ stopping => turnedAway = None
    /\ ~started => pc = "off"
    /\ pc = "off" => settling = <<>>
    /\ hand # None <=> pc \in {"register", "reregister", "send", "rename"}
    /\ wgen # gen => acks = <<>>
    /\ pc \in {"register", "reregister"} => hand \in Registrations
    /\ pc = "rename" => hand \in Renames
    /\ \A c \in accepted \cap (Joins \cup Renames) : c \in Elements(order)

TurnedCalls == IF turnedAway = None THEN {} ELSE {turnedAway.call}
HandCalls == IF wgen = gen THEN {hand} ELSE {}
SettlingCalls == IF wgen = gen THEN ResultsIn(settling) ELSE {}
DeliveredCalls == {m.call : m \in delivered}

\* In how many places an open call is.
Open(c) ==
    Count(c \in Elements(commands)) + Count(c = latest) + Count(c \in HandCalls)
    + Count(c \in Elements(acks)) + Count(c \in SettlingCalls) + Count(c \in TurnedCalls)
    + Count(c \in ResultsIn(inbound))

\* A call is in one place at most, and there once.
CallsApart ==
    \A c \in Calls :
        Count(New(c)) + Open(c) + Count(c \in DeliveredCalls) + Count(c \in withdrawn) <= 1
QueuesOnce ==
    /\ Once(commands) /\ Once(acks) /\ OnceResults(inbound)
    /\ wgen = gen => OnceResults(settling)
    /\ \A m, n \in delivered : m.call = n.call /\ m.call \in Calls => m = n

\* Snapshots are numbered upwards: what was sent, is being sent and waits are in
\* this order.
SnapshotsOK ==
    /\ \A u, v \in Uploads : u < v /\ ~New(v) => ~New(u)
    /\ hand \in Uploads /\ wgen = gen /\ latest # None => hand < latest
    /\ turnedAway # None => turnedAway.code # "ended"
    /\ turnedAway # None /\ turnedAway.code = "canceled" =>
         \E v \in Uploads : v > turnedAway.call /\ ~New(v)
    /\ UploadsInOrder /\ NewestSnapshotKept

\* One rejoin at most is under way.
RejoinApart ==
    /\ \A i, j \in DOMAIN acks : acks[i] = Rejoin /\ acks[j] = Rejoin => i = j
    /\ hand = Rejoin /\ wgen = gen => Rejoin \notin Elements(acks)

Inv ==
    /\ TypeOK /\ ControlOK /\ CallsApart /\ QueuesOnce /\ ReservationsExact /\ RoomForResults
    /\ SnapshotsOK /\ RejoinApart

-----------------------------------------------------------------------------
(* Numbers and finite sets                                                 *)

\* A set of numbers has a least element: what takes the place of induction.
LEMMA LeastElement ==
    ASSUME NEW T \in SUBSET Nat, T # {}
    PROVE  \E n \in T : \A m \in T : n <= m
  <1>1. OpToRel(<, Nat) = {ss \in Nat \X Nat : ss[1] < ss[2]}
    BY Zenon DEF OpToRel
  <1>2. \E x \in T : \A y \in T : ~ (<<y, x>> \in OpToRel(<, Nat))
    BY NatLessThanWellFounded, WFMin, Zenon
  <1>3. PICK x \in T : \A y \in T : ~ (<<y, x>> \in {ss \in Nat \X Nat : ss[1] < ss[2]})
    BY <1>1, <1>2, Zenon
  <1>4. ASSUME NEW y \in T PROVE x <= y
    <2>1. <<y, x>> \in Nat \X Nat /\ <<y, x>>[1] = y /\ <<y, x>>[2] = x
      OBVIOUS
    <2>2. ~ (<<y, x>>[1] < <<y, x>>[2])
      BY <1>3, <2>1, Zenon
    <2> QED
      BY <2>1, <2>2
  <1> QED
    BY <1>4

\* f lists the elements of I in their order.
Lists(f, I) ==
    /\ f \in [1..Cardinality(I) -> I]
    /\ \A i, j \in 1..Cardinality(I) : i < j => f[i] < f[j]

LEMMA PlacesFinite ==
    ASSUME NEW n \in Nat, NEW I \in SUBSET (1..n)
    PROVE  IsFiniteSet(I) /\ Cardinality(I) \in Nat
  <1>1. IsFiniteSet(1..n)
    BY FS_Interval
  <1> QED
    BY <1>1, FS_Subset, FS_CardinalityType

\* Every set of places can be listed in order: by its largest element.
LEMMA ListExists ==
    ASSUME NEW n \in Nat, NEW I \in SUBSET (1..n)
    PROVE  \E f : Lists(f, I)
  <1> DEFINE Bad == {m \in Nat : \E J \in SUBSET (1..m) : \A f : ~Lists(f, J)}
  <1>1. SUFFICES Bad = {}
    <2>1. n \notin Bad
      BY <1>1
    <2> QED
      BY <2>1
  <1>2. SUFFICES ASSUME Bad # {} PROVE FALSE
    OBVIOUS
  <1>3. PICK m \in Bad : \A k \in Bad : m <= k
    <2>1. Bad \in SUBSET Nat
      OBVIOUS
    <2> HIDE DEF Bad
    <2> QED
      BY <1>2, <2>1, LeastElement
  <1>4. PICK J \in SUBSET (1..m) : \A f : ~Lists(f, J)
    BY <1>3
  <1>5. m \in Nat /\ IsFiniteSet(J) /\ Cardinality(J) \in Nat
    BY <1>3, PlacesFinite
  <1>6. m # 0
    <2> SUFFICES ASSUME m = 0 PROVE FALSE
      OBVIOUS
    <2>1. J = {}
      BY <1>5
    <2>2. Cardinality(J) = 0
      BY <2>1, FS_EmptySet
    <2>3. Lists(<<>>, J)
      BY <2>1, <2>2 DEF Lists
    <2> QED
      BY <2>3, <1>4
  <1>7. m - 1 \in Nat /\ m - 1 \notin Bad
    BY <1>3, <1>5, <1>6
  <1>8. \A K \in SUBSET (1..(m - 1)) : \E f : Lists(f, K)
    BY <1>7
  <1>9. CASE m \notin J
    <2>1. J \in SUBSET (1..(m - 1))
      BY <1>9, <1>5
    <2> QED
      BY <2>1, <1>8, <1>4
  <1>10. CASE m \in J
    <2> DEFINE K == J \ {m}
    <2>1. K \in SUBSET (1..(m - 1))
      BY <1>5
    <2>2. Cardinality(K) = Cardinality(J) - 1
      BY <1>10, <1>5, FS_RemoveElement
    <2>3. PICK f : Lists(f, K)
      BY <2>1, <1>8
    <2> DEFINE g == [i \in 1..Cardinality(J) |-> IF i = Cardinality(J) THEN m ELSE f[i]]
    <2>4. ASSUME NEW i \in 1..Cardinality(J), i # Cardinality(J)
          PROVE  i \in 1..Cardinality(K) /\ f[i] \in K /\ g[i] = f[i]
      <3>1. i \in 1..Cardinality(K)
        BY <2>2, <2>4, <1>5
      <3>2. f[i] \in K
        BY <2>3, <3>1 DEF Lists
      <3> QED
        BY <2>4, <3>1, <3>2
    <2>5. g \in [1..Cardinality(J) -> J]
      BY <2>4, <1>10
    <2>6. ASSUME NEW i \in 1..Cardinality(J), NEW j \in 1..Cardinality(J), i < j
          PROVE  g[i] < g[j]
      <3>1. i \in 1..Cardinality(K) /\ f[i] \in K /\ g[i] = f[i]
        BY <2>4, <2>6, <1>5
      <3>2. CASE j = Cardinality(J)
        <4>1. f[i] \in 1..(m - 1) /\ g[j] = m
          BY <3>1, <3>2, <2>1
        <4> QED
          BY <3>1, <4>1, <1>5
      <3>3. CASE j # Cardinality(J)
        BY <3>1, <3>3, <2>2, <2>3, <2>4, <2>6 DEF Lists
      <3> QED
        BY <3>2, <3>3
    <2>7. Lists(g, J)
      BY <2>5, <2>6 DEF Lists
    <2> QED
      BY <2>7, <1>4
  <1> QED
    BY <1>9, <1>10

-----------------------------------------------------------------------------
(* Queues                                                                  *)

\* Every entry of p is one of q, and no two of p are the same one of q.
Within(p, q) ==
    \E f \in [DOMAIN p -> DOMAIN q] :
        /\ \A k \in DOMAIN p : p[k] = q[f[k]]
        /\ \A j, k \in DOMAIN p : f[j] = f[k] => j = k

LEMMA WithinFacts ==
    ASSUME NEW p, NEW q, Within(p, q)
    PROVE  /\ Elements(p) \subseteq Elements(q)
           /\ ResultsIn(p) \subseteq ResultsIn(q)
           /\ Once(q) => Once(p)
           /\ OnceResults(q) => OnceResults(p)
  <1> PICK f \in [DOMAIN p -> DOMAIN q] :
        /\ \A k \in DOMAIN p : p[k] = q[f[k]]
        /\ \A j, k \in DOMAIN p : f[j] = f[k] => j = k
    BY DEF Within
  <1>1. Elements(p) \subseteq Elements(q)
    BY DEF Elements
  <1>2. ResultsIn(p) \subseteq ResultsIn(q)
    BY <1>1 DEF ResultsIn
  <1>3. Once(q) => Once(p)
    BY DEF Once
  <1>4. ASSUME OnceResults(q) PROVE OnceResults(p)
    <2> SUFFICES ASSUME NEW i \in DOMAIN p, NEW j \in DOMAIN p,
                        IsResult(p[i]), IsResult(p[j]), p[i].call = p[j].call, p[i].call \in Calls
                 PROVE  i = j
      BY DEF OnceResults
    <2>1. f[i] \in DOMAIN q /\ f[j] \in DOMAIN q /\ p[i] = q[f[i]] /\ p[j] = q[f[j]]
      OBVIOUS
    <2>2. f[i] = f[j]
      BY <1>4, <2>1 DEF OnceResults
    <2> QED
      BY <2>2
  <1> QED
    BY <1>1, <1>2, <1>3, <1>4

\* The entries that are kept are those at the places I.
LEMMA KeptFacts ==
    ASSUME NEW S, NEW q \in Seq(S), NEW I \in SUBSET DOMAIN q
    PROVE  /\ Kept(q, I) \in Seq(S)
           /\ Len(Kept(q, I)) = Cardinality(I)
           /\ Within(Kept(q, I), q)
           /\ Elements(Kept(q, I)) = {q[i] : i \in I}
  <1> DEFINE n == Cardinality(I)
             f == InOrder(I)
  <1>1. DOMAIN q = 1..Len(q) /\ Len(q) \in Nat
    OBVIOUS
  <1>2. IsFiniteSet(I) /\ n \in Nat
    BY <1>1, PlacesFinite
  <1>3. Lists(f, I)
    <2>1. \E g : Lists(g, I)
      BY <1>1, ListExists
    <2>2. \E g \in [1..n -> I] : \A i, j \in 1..n : i < j => g[i] < g[j]
      BY <2>1 DEF Lists
    <2> QED
      BY <2>2, Zenon DEF Lists, InOrder
  <1> HIDE DEF f, n
  <1>4. f \in [1..n -> I] /\ \A i, j \in 1..n : i < j => f[i] < f[j]
    BY <1>3 DEF Lists, n
  <1>5. Kept(q, I) = [k \in 1..n |-> q[f[k]]]
    BY DEF Kept, n, f
  <1>6. Kept(q, I) \in [1..n -> S]
    BY <1>1, <1>4, <1>5
  <1>7. Kept(q, I) \in Seq(S) /\ Len(Kept(q, I)) = n /\ DOMAIN Kept(q, I) = 1..n
    BY <1>2, <1>6
  <1>8. \A k \in 1..n : Kept(q, I)[k] = q[f[k]]
    BY <1>5
  <1>9. ASSUME NEW j \in 1..n, NEW k \in 1..n, f[j] = f[k] PROVE j = k
    <2>1. j < k \/ k < j \/ j = k
      BY <1>2
    <2>2. f[j] \in Int /\ f[k] \in Int
      BY <1>1, <1>4
    <2> QED
      BY <1>4, <1>9, <2>1, <2>2
  <1>10. ASSUME NEW i \in I PROVE \E k \in 1..n : f[k] = i
    <2> SUFFICES ASSUME \A k \in 1..n : f[k] # i PROVE FALSE
      OBVIOUS
    <2> DEFINE J == I \ {i}
    <2>1. IsFiniteSet(J) /\ Cardinality(J) = n - 1
      BY <1>2, FS_RemoveElement DEF n
    <2>2. f \in [1..n -> J]
      BY <1>4
    <2>3. IsFiniteSet(1..n) /\ Cardinality(1..n) = n
      BY <1>2, FS_Interval
    <2>4. \E j, k \in 1..n : j # k /\ f[j] = f[k]
      <3> HIDE DEF J
      <3> QED
        BY <1>2, <2>1, <2>2, <2>3, FS_PigeonHole
    <2> QED
      BY <2>4, <1>9
  <1>11. /\ f \in [DOMAIN Kept(q, I) -> I]
         /\ \A k \in DOMAIN Kept(q, I) : Kept(q, I)[k] = q[f[k]]
         /\ \A j, k \in DOMAIN Kept(q, I) : f[j] = f[k] => j = k
         /\ \A i \in I : \E k \in DOMAIN Kept(q, I) : f[k] = i
    BY <1>4, <1>7, <1>8, <1>9, <1>10
  <1>12. Len(Kept(q, I)) = Cardinality(I)
    BY <1>7 DEF n
  <1>13. f \in [DOMAIN Kept(q, I) -> DOMAIN q]
    BY <1>11
  <1>14. Within(Kept(q, I), q)
    BY <1>11, <1>13 DEF Within
  <1>15. Elements(Kept(q, I)) = {q[i] : i \in I}
    BY <1>11 DEF Elements
  <1> QED
    BY <1>7, <1>12, <1>14, <1>15

LEMMA AppendFacts ==
    ASSUME NEW S, NEW q \in Seq(S), NEW x \in S
    PROVE  /\ Append(q, x) \in Seq(S) /\ Len(Append(q, x)) = Len(q) + 1
           /\ Elements(Append(q, x)) = Elements(q) \cup {x}
           /\ Once(q) /\ x \notin Elements(q) => Once(Append(q, x))
  <1>1. /\ Append(q, x) \in Seq(S) /\ Len(Append(q, x)) = Len(q) + 1
        /\ DOMAIN Append(q, x) = 1..(Len(q) + 1) /\ DOMAIN q = 1..Len(q) /\ Len(q) \in Nat
        /\ \A i \in 1..Len(q) : Append(q, x)[i] = q[i]
        /\ Append(q, x)[Len(q) + 1] = x
    OBVIOUS
  <1> DEFINE p == Append(q, x)
  <1> HIDE DEF p
  <1>2. \A i \in DOMAIN p : (i \in DOMAIN q /\ p[i] = q[i]) \/ (i = Len(q) + 1 /\ p[i] = x)
    BY <1>1 DEF p
  <1>3. \A i \in DOMAIN q : i \in DOMAIN p /\ p[i] = q[i]
    BY <1>1 DEF p
  <1>4. Len(q) + 1 \in DOMAIN p /\ p[Len(q) + 1] = x
    BY <1>1 DEF p
  <1>5. Elements(p) = Elements(q) \cup {x}
    BY <1>2, <1>3, <1>4 DEF Elements
  <1>6. Once(q) /\ x \notin Elements(q) => Once(p)
    BY <1>2 DEF Elements, Once
  <1> QED
    BY <1>1, <1>5, <1>6 DEF p

LEMMA ConsFacts ==
    ASSUME NEW S, NEW q \in Seq(S), NEW x \in S
    PROVE  /\ <<x>> \o q \in Seq(S) /\ Len(<<x>> \o q) = Len(q) + 1
           /\ Elements(<<x>> \o q) = Elements(q) \cup {x}
           /\ Once(q) /\ x \notin Elements(q) => Once(<<x>> \o q)
  <1>1. /\ <<x>> \o q \in Seq(S) /\ Len(<<x>> \o q) = Len(q) + 1
        /\ DOMAIN (<<x>> \o q) = 1..(Len(q) + 1) /\ DOMAIN q = 1..Len(q) /\ Len(q) \in Nat
        /\ \A i \in 1..Len(q) : (<<x>> \o q)[i + 1] = q[i]
        /\ (<<x>> \o q)[1] = x
    OBVIOUS
  <1> DEFINE p == <<x>> \o q
  <1> HIDE DEF p
  <1>2. \A i \in DOMAIN p : (i - 1 \in DOMAIN q /\ p[i] = q[i - 1]) \/ (i = 1 /\ p[i] = x)
    <2> TAKE i \in DOMAIN p
    <2>1. CASE i = 1
      BY <1>1, <2>1 DEF p
    <2>2. CASE i # 1
      <3>1. i - 1 \in 1..Len(q) /\ (i - 1) + 1 = i
        BY <1>1, <2>2 DEF p
      <3>2. p[(i - 1) + 1] = q[i - 1]
        BY <1>1, <3>1 DEF p
      <3> QED
        BY <1>1, <3>1, <3>2
    <2> QED
      BY <2>1, <2>2
  <1>3. \A i \in DOMAIN q : i + 1 \in DOMAIN p /\ p[i + 1] = q[i]
    BY <1>1 DEF p
  <1>4. 1 \in DOMAIN p /\ p[1] = x
    BY <1>1 DEF p
  <1>5. Elements(p) = Elements(q) \cup {x}
    BY <1>2, <1>3, <1>4 DEF Elements
  <1>6. ASSUME Once(q), x \notin Elements(q) PROVE Once(p)
    <2> SUFFICES ASSUME NEW i \in DOMAIN p, NEW j \in DOMAIN p, p[i] = p[j] PROVE i = j
      BY DEF Once
    <2>1. i \in Int /\ j \in Int
      BY <1>1 DEF p
    <2>2. CASE i = 1 /\ j = 1
      BY <2>2
    <2>3. CASE i # 1 /\ j # 1
      <3>1. i - 1 \in DOMAIN q /\ p[i] = q[i - 1] /\ j - 1 \in DOMAIN q /\ p[j] = q[j - 1]
        BY <1>2, <2>3
      <3>2. i - 1 = j - 1
        BY <1>6, <3>1 DEF Once
      <3> QED
        BY <2>1, <3>2
    <2>4. CASE (i = 1 /\ j # 1) \/ (i # 1 /\ j = 1)
      BY <1>2, <1>4, <1>6, <2>4 DEF Elements
    <2> QED
      BY <2>2, <2>3, <2>4
  <1> QED
    BY <1>1, <1>5, <1>6 DEF p

LEMMA TailFacts ==
    ASSUME NEW S, NEW q \in Seq(S), q # <<>>
    PROVE  /\ Tail(q) \in Seq(S) /\ Len(Tail(q)) = Len(q) - 1 /\ Len(q) > 0
           /\ Head(q) \in S /\ Within(Tail(q), q)
           /\ Elements(q) = Elements(Tail(q)) \cup {Head(q)}
           /\ Once(q) => Head(q) \notin Elements(Tail(q))
  <1>1. /\ Tail(q) \in Seq(S) /\ Len(Tail(q)) = Len(q) - 1 /\ Len(q) \in Nat /\ Len(q) > 0
        /\ DOMAIN Tail(q) = 1..(Len(q) - 1) /\ DOMAIN q = 1..Len(q)
        /\ \A i \in 1..(Len(q) - 1) : Tail(q)[i] = q[i + 1]
        /\ Head(q) = q[1] /\ Head(q) \in S
    OBVIOUS
  <1> DEFINE p == Tail(q)
             f == [i \in 1..(Len(q) - 1) |-> i + 1]
  <1> HIDE DEF p
  <1>2. Within(p, q)
    <2>1. f \in [DOMAIN p -> DOMAIN q]
      BY <1>1 DEF p
    <2>2. \A k \in DOMAIN p : p[k] = q[f[k]]
      BY <1>1 DEF p
    <2>3. \A j, k \in DOMAIN p : f[j] = f[k] => j = k
      BY <1>1 DEF p
    <2> HIDE DEF f
    <2> QED
      BY <2>1, <2>2, <2>3 DEF Within
  <1>3. \A i \in DOMAIN q : i = 1 \/ (i - 1 \in DOMAIN p /\ q[i] = p[i - 1])
    <2> TAKE i \in DOMAIN q
    <2> SUFFICES ASSUME i # 1 PROVE i - 1 \in DOMAIN p /\ q[i] = p[i - 1]
      OBVIOUS
    <2>1. i - 1 \in 1..(Len(q) - 1) /\ (i - 1) + 1 = i
      BY <1>1
    <2>2. p[i - 1] = q[(i - 1) + 1]
      BY <1>1, <2>1 DEF p
    <2> QED
      BY <1>1, <2>1, <2>2 DEF p
  <1>4. 1 \in DOMAIN q /\ q[1] = Head(q)
    BY <1>1
  <1>5. Elements(p) \subseteq Elements(q)
    BY <1>2, WithinFacts
  <1>6. Elements(q) = Elements(p) \cup {Head(q)}
    BY <1>3, <1>4, <1>5 DEF Elements
  <1>7. ASSUME Once(q), Head(q) \in Elements(p) PROVE FALSE
    <2>1. PICK i \in DOMAIN p : p[i] = Head(q)
      BY <1>7 DEF Elements
    <2>2. i + 1 \in DOMAIN q /\ q[i + 1] = q[1] /\ i + 1 # 1
      BY <1>1, <2>1 DEF p
    <2> QED
      BY <1>4, <1>7, <2>2 DEF Once
  <1> QED
    BY <1>1, <1>2, <1>6, <1>7 DEF p

LEMMA RemovedFacts ==
    ASSUME NEW S, NEW q \in Seq(S), NEW i \in DOMAIN q
    PROVE  /\ Removed(q, i) \in Seq(S) /\ Len(Removed(q, i)) = Len(q) - 1 /\ Len(q) > 0
           /\ q[i] \in S /\ Within(Removed(q, i), q)
           /\ Elements(q) = Elements(Removed(q, i)) \cup {q[i]}
           /\ Once(q) => q[i] \notin Elements(Removed(q, i))
           /\ \A j \in DOMAIN Removed(q, i) : Removed(q, i)[j] = IF j < i THEN q[j] ELSE q[j + 1]
  <1> DEFINE p == Removed(q, i)
             f == [j \in 1..(Len(q) - 1) |-> IF j < i THEN j ELSE j + 1]
  <1>1. i \in 1..Len(q) /\ Len(q) \in Nat /\ Len(q) > 0 /\ DOMAIN q = 1..Len(q)
    OBVIOUS
  <1>2. /\ SubSeq(q, 1, i - 1) \in Seq(S) /\ Len(SubSeq(q, 1, i - 1)) = i - 1
        /\ \A j \in 1..(i - 1) : SubSeq(q, 1, i - 1)[j] = q[j]
    BY <1>1
  <1>3. /\ SubSeq(q, i + 1, Len(q)) \in Seq(S) /\ Len(SubSeq(q, i + 1, Len(q))) = Len(q) - i
        /\ \A j \in 1..(Len(q) - i) : SubSeq(q, i + 1, Len(q))[j] = q[i + j]
    BY <1>1
  <1>4. p \in Seq(S) /\ Len(p) = Len(q) - 1 /\ DOMAIN p = 1..(Len(q) - 1)
    <2>1. p \in Seq(S) /\ Len(p) = (i - 1) + (Len(q) - i)
      BY <1>2, <1>3, ConcatProperties DEF Removed
    <2> HIDE DEF p
    <2>2. Len(p) = Len(q) - 1
      BY <1>1, <2>1
    <2> QED
      BY <2>1, <2>2
  <1>5. \A j \in 1..(Len(q) - 1) : p[j] = q[f[j]]
    <2> TAKE j \in 1..(Len(q) - 1)
    <2>3. p[j] = IF j <= i - 1 THEN SubSeq(q, 1, i - 1)[j] ELSE SubSeq(q, i + 1, Len(q))[j - (i - 1)]
      <3> DEFINE a == SubSeq(q, 1, i - 1)
                 b == SubSeq(q, i + 1, Len(q))
      <3>1. a \in Seq(S) /\ b \in Seq(S) /\ Len(a) = i - 1 /\ Len(b) = Len(q) - i /\ p = a \o b
        BY <1>2, <1>3 DEF Removed
      <3> HIDE DEF a, b, p
      <3>2. \A k \in 1..(Len(a) + Len(b)) : (a \o b)[k] = IF k <= Len(a) THEN a[k] ELSE b[k - Len(a)]
        BY <3>1, ConcatProperties
      <3>3. j \in 1..(Len(a) + Len(b))
        BY <1>1, <3>1
      <3>4. p[j] = IF j <= i - 1 THEN a[j] ELSE b[j - (i - 1)]
        BY <3>1, <3>2, <3>3
      <3> QED
        BY <3>4 DEF a, b
    <2>1. CASE j < i
      <3>1. j \in 1..(i - 1)
        BY <1>1, <2>1
      <3> QED
        BY <1>2, <2>1, <2>3, <3>1
    <2>2. CASE ~(j < i)
      <3>1. p[j] = SubSeq(q, i + 1, Len(q))[j - (i - 1)]
        BY <1>1, <2>2, <2>3
      <3>2. j - (i - 1) \in 1..(Len(q) - i) /\ i + (j - (i - 1)) = j + 1
        BY <1>1, <2>2
      <3> QED
        BY <1>3, <2>2, <3>1, <3>2
    <2> QED
      BY <2>1, <2>2
  <1> HIDE DEF p
  <1>6. f \in [DOMAIN p -> DOMAIN q]
    BY <1>1, <1>4
  <1>7. \A j, k \in DOMAIN p : f[j] = f[k] => j = k
    BY <1>1, <1>4
  <1>8. \A j \in DOMAIN p : f[j] # i
    BY <1>1, <1>4
  <1>9. \A k \in DOMAIN q : k = i \/ \E j \in DOMAIN p : f[j] = k
    <2> TAKE k \in DOMAIN q
    <2>1. CASE k < i
      <3>1. k \in DOMAIN p /\ f[k] = k
        BY <1>1, <1>4, <2>1
      <3> QED
        BY <3>1
    <2>2. CASE k > i
      <3>1. k - 1 \in DOMAIN p /\ f[k - 1] = k
        BY <1>1, <1>4, <2>2
      <3> QED
        BY <3>1
    <2> QED
      BY <1>1, <2>1, <2>2
  <1>10. \A j \in DOMAIN p : p[j] = IF j < i THEN q[j] ELSE q[j + 1]
    BY <1>4, <1>5
  <1>11. \A j \in DOMAIN p : p[j] = q[f[j]]
    BY <1>4, <1>5
  <1> HIDE DEF f
  <1>12. Within(p, q)
    BY <1>6, <1>7, <1>11 DEF Within
  <1>13. Elements(q) = Elements(p) \cup {q[i]}
    BY <1>6, <1>9, <1>11 DEF Elements
  <1>14. Once(q) => q[i] \notin Elements(p)
    BY <1>6, <1>8, <1>11 DEF Elements, Once
  <1>15. q[i] \in S
    BY <1>1
  <1> QED
    BY <1>1, <1>4, <1>10, <1>12, <1>13, <1>14, <1>15 DEF p

\* The first n entries, and the others.
LEMMA SplitFacts ==
    ASSUME NEW S, NEW q \in Seq(S), NEW n \in 0..Len(q)
    PROVE  /\ SubSeq(q, 1, n) \in Seq(S) /\ Len(SubSeq(q, 1, n)) = n
           /\ SubSeq(q, n + 1, Len(q)) \in Seq(S) /\ Len(SubSeq(q, n + 1, Len(q))) = Len(q) - n
           /\ Within(SubSeq(q, 1, n), q) /\ Within(SubSeq(q, n + 1, Len(q)), q)
           /\ Elements(q) = Elements(SubSeq(q, 1, n)) \cup Elements(SubSeq(q, n + 1, Len(q)))
           /\ Once(q) => Elements(SubSeq(q, 1, n)) \cap Elements(SubSeq(q, n + 1, Len(q))) = {}
  <1> DEFINE p == SubSeq(q, 1, n)
             r == SubSeq(q, n + 1, Len(q))
             f == [j \in 1..n |-> j]
             g == [j \in 1..(Len(q) - n) |-> n + j]
  <1>1. n \in Nat /\ n <= Len(q) /\ Len(q) \in Nat /\ DOMAIN q = 1..Len(q)
    OBVIOUS
  <1>2. p \in Seq(S) /\ Len(p) = n /\ DOMAIN p = 1..n /\ \A j \in 1..n : p[j] = q[j]
    BY <1>1
  <1>3. /\ r \in Seq(S) /\ Len(r) = Len(q) - n /\ DOMAIN r = 1..(Len(q) - n)
        /\ \A j \in 1..(Len(q) - n) : r[j] = q[n + j]
    BY <1>1
  <1> HIDE DEF p, r
  <1>4. f \in [DOMAIN p -> DOMAIN q] /\ g \in [DOMAIN r -> DOMAIN q]
    BY <1>1, <1>2, <1>3
  <1>5. (\A j \in DOMAIN p : p[j] = q[f[j]]) /\ (\A j \in DOMAIN r : r[j] = q[g[j]])
    BY <1>2, <1>3
  <1>6. /\ \A j, k \in DOMAIN p : f[j] = f[k] => j = k
        /\ \A j, k \in DOMAIN r : g[j] = g[k] => j = k
    BY <1>1, <1>2, <1>3
  <1>7. \A j \in DOMAIN p, k \in DOMAIN r : f[j] # g[k]
    BY <1>1, <1>2, <1>3
  <1>8. \A k \in DOMAIN q : (\E j \in DOMAIN p : f[j] = k) \/ (\E j \in DOMAIN r : g[j] = k)
    <2> TAKE k \in DOMAIN q
    <2>1. CASE k <= n
      <3>1. k \in DOMAIN p /\ f[k] = k
        BY <1>1, <1>2, <2>1
      <3> QED
        BY <3>1
    <2>2. CASE k > n
      <3>1. k - n \in DOMAIN r /\ g[k - n] = k
        BY <1>1, <1>3, <2>2
      <3> QED
        BY <3>1
    <2>3. k <= n \/ k > n
      BY <1>1
    <2> QED
      BY <2>1, <2>2, <2>3
  <1> HIDE DEF f, g
  <1>9. Within(p, q) /\ Within(r, q)
    BY <1>4, <1>5, <1>6 DEF Within
  <1>10. Elements(q) = Elements(p) \cup Elements(r)
    BY <1>4, <1>5, <1>8 DEF Elements
  <1>11. Once(q) => Elements(p) \cap Elements(r) = {}
    BY <1>4, <1>5, <1>7 DEF Elements, Once
  <1> QED
    BY <1>2, <1>3, <1>9, <1>10, <1>11 DEF p, r

LEMMA DomainFacts ==
    ASSUME NEW S, NEW q \in Seq(S)
    PROVE  /\ DOMAIN q = 1..Len(q) /\ Len(q) \in Nat
           /\ IsFiniteSet(DOMAIN q) /\ Cardinality(DOMAIN q) = Len(q)
  <1>1. DOMAIN q = 1..Len(q) /\ Len(q) \in Nat
    OBVIOUS
  <1>2. Cardinality(1..Len(q)) = IF 1 > Len(q) THEN 0 ELSE Len(q) - 1 + 1
    BY <1>1, FS_Interval
  <1>3. IsFiniteSet(1..Len(q))
    BY <1>1, FS_Interval
  <1>4. Cardinality(1..Len(q)) = Len(q)
    BY <1>1, <1>2
  <1> QED
    BY <1>1, <1>3, <1>4

\* A queue is what is chosen of it and what is not.
LEMMA ChosenFacts ==
    ASSUME NEW S, NEW q \in Seq(S), NEW n \in 0..Len(q), NEW T
    PROVE  /\ Chosen(q, n, T) \in Seq(S) /\ NotChosen(q, n, T) \in Seq(S)
           /\ Len(Chosen(q, n, T)) + Len(NotChosen(q, n, T)) = Len(q)
           /\ Within(Chosen(q, n, T), q) /\ Within(NotChosen(q, n, T), q)
           /\ Elements(q) = Elements(Chosen(q, n, T)) \cup Elements(NotChosen(q, n, T))
           /\ Elements(Chosen(q, n, T)) \subseteq T
           /\ Once(q) => Elements(Chosen(q, n, T)) \cap Elements(NotChosen(q, n, T)) = {}
  <1> DEFINE I == Places(q, n, T)
             J == DOMAIN q \ I
  <1>1. I \in SUBSET DOMAIN q /\ J \in SUBSET DOMAIN q /\ I \cap J = {} /\ I \cup J = DOMAIN q
    <2>1. DOMAIN q = 1..Len(q) /\ Len(q) \in Nat
      BY DomainFacts
    <2>2. I \in SUBSET DOMAIN q
      BY <2>1 DEF Places
    <2> HIDE DEF I
    <2> QED
      BY <2>2
  <1>2. \A i \in I : q[i] \in T
    BY DEF Places
  <1>3. Chosen(q, n, T) = Kept(q, I) /\ NotChosen(q, n, T) = Kept(q, J)
    BY DEF Chosen, NotChosen
  <1> HIDE DEF I, J
  <1>4. Cardinality(I) + Cardinality(J) = Len(q)
    <2>1. IsFiniteSet(I) /\ IsFiniteSet(J) /\ Cardinality(I) \in Nat /\ Cardinality(J) \in Nat
      <3>1. DOMAIN q = 1..Len(q) /\ Len(q) \in Nat
        OBVIOUS
      <3> QED
        BY <1>1, <3>1, PlacesFinite
    <2>2. Cardinality(I \cup J) = Cardinality(I) + Cardinality(J) - Cardinality(I \cap J)
      BY <2>1, FS_Union
    <2>3. Cardinality(I \cap J) = 0
      BY <1>1, FS_EmptySet
    <2>4. Cardinality(DOMAIN q) = Len(q)
      BY DomainFacts
    <2> QED
      BY <1>1, <2>1, <2>2, <2>3, <2>4
  <1>5. /\ Kept(q, I) \in Seq(S) /\ Len(Kept(q, I)) = Cardinality(I)
        /\ Kept(q, J) \in Seq(S) /\ Len(Kept(q, J)) = Cardinality(J)
    BY <1>1, KeptFacts
  <1>6. /\ Within(Kept(q, I), q) /\ Elements(Kept(q, I)) = {q[i] : i \in I}
        /\ Within(Kept(q, J), q) /\ Elements(Kept(q, J)) = {q[i] : i \in J}
    BY <1>1, KeptFacts
  <1>7. Elements(q) = Elements(Kept(q, I)) \cup Elements(Kept(q, J))
    BY <1>1, <1>6 DEF Elements
  <1>8. Elements(Kept(q, I)) \subseteq T
    BY <1>2, <1>6
  <1>9. Once(q) => Elements(Kept(q, I)) \cap Elements(Kept(q, J)) = {}
    BY <1>1, <1>6 DEF Once
  <1> QED
    BY <1>3, <1>4, <1>5, <1>6, <1>7, <1>8, <1>9

\* One call is withdrawn from a queue in which it is once.
LEMMA WithoutFacts ==
    ASSUME NEW S, NEW q \in Seq(S), Once(q), NEW c
    PROVE  /\ Without(q, c) \in Seq(S) /\ Within(Without(q, c), q)
           /\ Elements(Without(q, c)) = Elements(q) \ {c}
           /\ Len(Without(q, c)) = Len(q) - Count(c \in Elements(q))
  <1> DEFINE I == {i \in DOMAIN q : q[i] # c}
  <1>1. I \in SUBSET DOMAIN q
    OBVIOUS
  <1>2. Elements(q) \ {c} = {q[i] : i \in I}
    BY DEF Elements
  <1>4. IsFiniteSet(DOMAIN q) /\ Cardinality(DOMAIN q) = Len(q) /\ Len(q) \in Nat
    BY DomainFacts
  <1>5. Cardinality(I) = Len(q) - Count(c \in Elements(q))
    <2>1. CASE c \notin Elements(q)
      <3>1. I = DOMAIN q
        BY <2>1 DEF Elements
      <3>2. Count(c \in Elements(q)) = 0
        BY <2>1 DEF Count
      <3> QED
        BY <1>4, <3>1, <3>2
    <2>2. CASE c \in Elements(q)
      <3>1. PICK j \in DOMAIN q : q[j] = c
        BY <2>2 DEF Elements
      <3>2. I = DOMAIN q \ {j}
        BY <3>1 DEF Once
      <3>3. Cardinality(DOMAIN q \ {j}) = Cardinality(DOMAIN q) - 1
        BY <1>4, <3>1, FS_RemoveElement
      <3> QED
        BY <1>4, <2>2, <3>2, <3>3 DEF Count
    <2> QED
      BY <2>1, <2>2
  <1>6. Without(q, c) = Kept(q, I)
    BY DEF Without
  <1> HIDE DEF I
  <1>7. Kept(q, I) \in Seq(S) /\ Len(Kept(q, I)) = Cardinality(I)
    BY <1>1, KeptFacts
  <1>8. Within(Kept(q, I), q) /\ Elements(Kept(q, I)) = {q[i] : i \in I}
    BY <1>1, KeptFacts
  <1> QED
    BY <1>2, <1>5, <1>6, <1>7, <1>8

-----------------------------------------------------------------------------
(* Queues of messages                                                      *)

Messages == ResultMessages \cup [topic : Topics \cup {None}]

LEMMA MessageKinds ==
    /\ \A m \in ResultMessages : IsResult(m) /\ m.call \in Calls \cup {Rejoin} /\ m.code \in Codes
    /\ \A t : ~IsResult([topic |-> t])
    /\ \A m \in Messages : IsResult(m) <=> m \in ResultMessages
  <1>1. \A m \in ResultMessages : IsResult(m) /\ m.call \in Calls \cup {Rejoin} /\ m.code \in Codes
    BY DEF ResultMessages, IsResult
  <1>2. \A t : ~IsResult([topic |-> t])
    BY DEF IsResult
  <1>3. \A m \in [topic : Topics \cup {None}] : ~IsResult(m)
    BY DEF IsResult
  <1>4. \A m \in Messages : IsResult(m) <=> m \in ResultMessages
    BY <1>1, <1>3, Zenon DEF Messages
  <1> QED
    BY <1>1, <1>2, <1>4

LEMMA ResultFields ==
    ASSUME NEW c \in Calls \cup {Rejoin}, NEW code \in Codes
    PROVE  /\ Result(c, code) \in ResultMessages /\ IsResult(Result(c, code))
           /\ Result(c, code).call = c /\ Result(c, code).code = code
  BY DEF Result, ResultMessages, IsResult

ResultPlaces(q) == {i \in DOMAIN q : IsResult(q[i])}

LEMMA ResultPlacesFinite ==
    ASSUME NEW S, NEW q \in Seq(S)
    PROVE  IsFiniteSet(ResultPlaces(q)) /\ Cardinality(ResultPlaces(q)) \in Nat
  <1>1. DOMAIN q = 1..Len(q) /\ Len(q) \in Nat
    BY DomainFacts
  <1>2. ResultPlaces(q) \in SUBSET (1..Len(q))
    BY <1>1 DEF ResultPlaces
  <1> QED
    BY <1>1, <1>2, PlacesFinite

LEMMA SameCount ==
    ASSUME NEW A, NEW B, IsFiniteSet(A), NEW f \in [A -> B],
           \A a, b \in A : f[a] = f[b] => a = b,
           \A b \in B : \E a \in A : f[a] = b
    PROVE  Cardinality(B) = Cardinality(A)
  <1>1. f \in Bijection(A, B)
    BY DEF Bijection, Injection, Surjection, IsInjective
  <1>2. ExistsBijection(A, B)
    BY <1>1 DEF ExistsBijection
  <1> QED
    BY <1>2, FS_Bijection

LEMMA AppendMessage ==
    ASSUME NEW S, NEW q \in Seq(S), NEW m \in S
    PROVE  /\ ResultsIn(Append(q, m)) = ResultsIn(q) \cup (IF IsResult(m) THEN {m.call} ELSE {})
           /\ Cardinality(ResultPlaces(Append(q, m)))
                = Cardinality(ResultPlaces(q)) + Count(IsResult(m))
           /\ OnceResults(q) /\ (IsResult(m) => m.call \notin ResultsIn(q) \cap Calls)
                => OnceResults(Append(q, m))
  <1> DEFINE p == Append(q, m)
             n == Len(q) + 1
  <1>1. n \notin DOMAIN q /\ DOMAIN p = DOMAIN q \cup {n} /\ p[n] = m /\ \A i \in DOMAIN q : p[i] = q[i]
    OBVIOUS
  <1>2. Elements(p) = Elements(q) \cup {m}
    BY AppendFacts
  <1>3. IsFiniteSet(ResultPlaces(q)) /\ Cardinality(ResultPlaces(q)) \in Nat
    BY ResultPlacesFinite
  <1> HIDE DEF p, n
  <1>4. ResultsIn(p) = ResultsIn(q) \cup (IF IsResult(m) THEN {m.call} ELSE {})
    <2>1. {x \in Elements(p) : IsResult(x)}
            = {x \in Elements(q) : IsResult(x)} \cup (IF IsResult(m) THEN {m} ELSE {})
      BY <1>2
    <2> QED
      BY <2>1 DEF ResultsIn
  <1>5. Cardinality(ResultPlaces(p)) = Cardinality(ResultPlaces(q)) + Count(IsResult(m))
    <2>1. CASE IsResult(m)
      <3>1. ResultPlaces(p) = ResultPlaces(q) \cup {n} /\ n \notin ResultPlaces(q)
        BY <1>1, <2>1 DEF ResultPlaces
      <3>2. Cardinality(ResultPlaces(q) \cup {n}) = Cardinality(ResultPlaces(q)) + 1
        BY <1>3, <3>1, FS_AddElement
      <3> QED
        BY <2>1, <3>1, <3>2 DEF Count
    <2>2. CASE ~IsResult(m)
      <3>1. ResultPlaces(p) = ResultPlaces(q)
        BY <1>1, <2>2 DEF ResultPlaces
      <3>2. Count(IsResult(m)) = 0
        BY <2>2 DEF Count
      <3> QED
        BY <1>3, <3>1, <3>2
    <2> QED
      BY <2>1, <2>2
  <1>6. ASSUME OnceResults(q), IsResult(m) => m.call \notin ResultsIn(q) \cap Calls
        PROVE  OnceResults(p)
    <2> SUFFICES ASSUME NEW i \in DOMAIN p, NEW j \in DOMAIN p,
                        IsResult(p[i]), IsResult(p[j]), p[i].call = p[j].call, p[i].call \in Calls
                 PROVE  i = j
      BY DEF OnceResults
    <2>1. \A k \in DOMAIN q : IsResult(q[k]) => q[k].call \in ResultsIn(q)
      BY DEF ResultsIn, Elements
    <2>2. CASE i \in DOMAIN q /\ j \in DOMAIN q
      BY <1>1, <1>6, <2>2 DEF OnceResults
    <2>3. CASE i = n /\ j \in DOMAIN q
      BY <1>1, <1>6, <2>1, <2>3
    <2>4. CASE i \in DOMAIN q /\ j = n
      BY <1>1, <1>6, <2>1, <2>4
    <2> QED
      BY <1>1, <2>2, <2>3, <2>4
  <1> QED
    BY <1>4, <1>5, <1>6 DEF p

LEMMA RemovedMessage ==
    ASSUME NEW S, NEW q \in Seq(S), NEW i \in DOMAIN q
    PROVE  /\ ResultsIn(q) = ResultsIn(Removed(q, i)) \cup (IF IsResult(q[i]) THEN {q[i].call} ELSE {})
           /\ Cardinality(ResultPlaces(Removed(q, i)))
                = Cardinality(ResultPlaces(q)) - Count(IsResult(q[i]))
           /\ OnceResults(q) => OnceResults(Removed(q, i))
           /\ OnceResults(q) /\ IsResult(q[i]) => q[i].call \notin ResultsIn(Removed(q, i)) \cap Calls
  <1> DEFINE p == Removed(q, i)
             A == ResultPlaces(p)
             B == ResultPlaces(q) \ {i}
             f == [j \in A |-> IF j < i THEN j ELSE j + 1]
  <1>1. /\ p \in Seq(S) /\ Len(p) = Len(q) - 1 /\ Within(p, q)
        /\ Elements(q) = Elements(p) \cup {q[i]}
        /\ \A j \in DOMAIN p : p[j] = IF j < i THEN q[j] ELSE q[j + 1]
    BY RemovedFacts
  <1> HIDE DEF p
  <1>2. /\ DOMAIN q = 1..Len(q) /\ Len(q) \in Nat /\ DOMAIN p = 1..(Len(q) - 1) /\ i \in 1..Len(q)
    BY <1>1, DomainFacts
  <1>3. \A j \in A : f[j] \in B
    BY <1>1, <1>2 DEF ResultPlaces
  <1>4. \A j, k \in A : f[j] = f[k] => j = k
    BY <1>2 DEF ResultPlaces
  <1>5. ASSUME NEW k \in B PROVE \E j \in A : f[j] = k
    <2>1. k \in 1..Len(q) /\ IsResult(q[k]) /\ k # i
      BY <1>2 DEF ResultPlaces
    <2>2. CASE k < i
      <3>1. k \in DOMAIN p /\ p[k] = q[k]
        BY <1>1, <1>2, <2>1, <2>2
      <3>2. k \in A /\ f[k] = k
        BY <2>1, <2>2, <3>1 DEF ResultPlaces
      <3> QED
        BY <3>2
    <2>3. CASE k > i
      <3>1. k - 1 \in DOMAIN p /\ (k - 1) + 1 = k /\ ~(k - 1 < i)
        BY <1>2, <2>1, <2>3
      <3>2. p[k - 1] = q[(k - 1) + 1]
        BY <1>1, <3>1
      <3>3. k - 1 \in A
        BY <2>1, <3>1, <3>2 DEF ResultPlaces
      <3>4. f[k - 1] = k
        BY <3>1, <3>3
      <3> QED
        BY <3>3, <3>4
    <2>4. k < i \/ k > i
      BY <1>2, <2>1
    <2> QED
      BY <2>2, <2>3, <2>4
  <1>6. f \in [A -> B]
    BY <1>3
  <1>7. IsFiniteSet(A) /\ IsFiniteSet(ResultPlaces(q)) /\ Cardinality(ResultPlaces(q)) \in Nat
    BY <1>1, ResultPlacesFinite
  <1>8. Cardinality(B) = Cardinality(A)
    <2> HIDE DEF A, B, f
    <2> QED
      BY <1>4, <1>5, <1>6, <1>7, SameCount
  <1>9. Cardinality(B) = Cardinality(ResultPlaces(q)) - Count(IsResult(q[i]))
    <2>1. Cardinality(B) = IF i \in ResultPlaces(q) THEN Cardinality(ResultPlaces(q)) - 1
                                                   ELSE Cardinality(ResultPlaces(q))
      BY <1>7, FS_RemoveElement
    <2>2. i \in ResultPlaces(q) <=> IsResult(q[i])
      BY DEF ResultPlaces
    <2> QED
      BY <1>7, <2>1, <2>2 DEF Count
  <1>10. ResultsIn(q) = ResultsIn(p) \cup (IF IsResult(q[i]) THEN {q[i].call} ELSE {})
    <2>1. {x \in Elements(q) : IsResult(x)}
            = {x \in Elements(p) : IsResult(x)} \cup (IF IsResult(q[i]) THEN {q[i]} ELSE {})
      BY <1>1
    <2> QED
      BY <2>1 DEF ResultsIn
  <1>11. ASSUME OnceResults(q), IsResult(q[i]), q[i].call \in ResultsIn(p) \cap Calls PROVE FALSE
    <2>1. PICK j \in DOMAIN p : IsResult(p[j]) /\ p[j].call = q[i].call
      BY <1>11 DEF ResultsIn, Elements
    <2> DEFINE k == IF j < i THEN j ELSE j + 1
    <2>2. k \in DOMAIN q /\ p[j] = q[k] /\ k # i
      BY <1>1, <1>2
    <2> HIDE DEF k
    <2> QED
      BY <1>11, <2>1, <2>2 DEF OnceResults
  <1>12. OnceResults(q) => OnceResults(p)
    BY <1>1, WithinFacts
  <1> QED
    BY <1>8, <1>9, <1>10, <1>11, <1>12 DEF p

ResultElements(q) == {m \in Elements(q) : IsResult(m)}

LEMMA TailMessage ==
    ASSUME NEW S, NEW q \in Seq(S), q # <<>>
    PROVE  1 \in DOMAIN q /\ Head(q) = q[1] /\ Tail(q) = Removed(q, 1)
  <1>1. 1 \in DOMAIN q /\ Head(q) = q[1] /\ Len(q) \in Nat /\ Len(q) > 0
    OBVIOUS
  <1>2. /\ Removed(q, 1) \in Seq(S) /\ Len(Removed(q, 1)) = Len(q) - 1
        /\ \A j \in DOMAIN Removed(q, 1) : Removed(q, 1)[j] = IF j < 1 THEN q[j] ELSE q[j + 1]
    BY <1>1, RemovedFacts
  <1>3. /\ Tail(q) \in Seq(S) /\ Len(Tail(q)) = Len(q) - 1
        /\ \A j \in 1..(Len(q) - 1) : Tail(q)[j] = q[j + 1]
    OBVIOUS
  <1>4. DOMAIN Removed(q, 1) = 1..(Len(q) - 1)
    BY <1>2, DomainFacts
  <1>5. \A j \in 1..(Len(q) - 1) : Removed(q, 1)[j] = Tail(q)[j]
    BY <1>1, <1>2, <1>3, <1>4
  <1>6. Tail(q) = Removed(q, 1)
    BY <1>1, <1>2, <1>3, <1>5, SeqEqual
  <1> QED
    BY <1>1, <1>6

\* What DropOldestNotificationLocked takes is a notification.
LEMMA OldestNote ==
    ASSUME NEW S, NEW q \in Seq(S), HasNote(q)
    PROVE  \E i \in DOMAIN q : ~IsResult(q[i]) /\ WithoutOldestNote(q) = Removed(q, i)
  <1> DEFINE N == {i \in DOMAIN q : ~IsResult(q[i])}
  <1>1. DOMAIN q = 1..Len(q) /\ Len(q) \in Nat
    BY DomainFacts
  <1>2. N \in SUBSET Nat /\ N # {}
    BY <1>1 DEF HasNote, Elements
  <1>3. PICK i \in N : \A j \in N : i <= j
    <2> HIDE DEF N
    <2> QED
      BY <1>2, LeastElement
  <1>4. \A j \in 1..(i - 1) : IsResult(q[j])
    BY <1>1, <1>3
  <1>5. \E k \in DOMAIN q : ~IsResult(q[k]) /\ \A j \in 1..(k - 1) : IsResult(q[j])
    BY <1>4
  <1> DEFINE k == CHOOSE k \in DOMAIN q : ~IsResult(q[k]) /\ \A j \in 1..(k - 1) : IsResult(q[j])
  <1>6. k \in DOMAIN q /\ ~IsResult(q[k])
    BY <1>5
  <1>7. WithoutOldestNote(q) = Removed(q, k)
    BY DEF WithoutOldestNote
  <1> QED
    BY <1>6, <1>7

\* No result goes when room is made for one.
LEMMA MadeRoom ==
    ASSUME inbound \in Seq(Messages), reserved \in Nat,
           InboundFull => HasNote(inbound), Len(inbound) + reserved <= MaxInbound
    PROVE  /\ InboundMadeRoom \in Seq(Messages)
           /\ Len(InboundMadeRoom) + reserved < MaxInbound
           /\ ResultElements(InboundMadeRoom) = ResultElements(inbound)
           /\ ResultsIn(InboundMadeRoom) = ResultsIn(inbound)
           /\ Cardinality(ResultPlaces(InboundMadeRoom)) = Cardinality(ResultPlaces(inbound))
           /\ OnceResults(inbound) => OnceResults(InboundMadeRoom)
  <1>1. CASE ~InboundFull
    <2>1. InboundMadeRoom = inbound
      BY <1>1 DEF InboundMadeRoom
    <2>2. Len(inbound) + reserved < MaxInbound
      BY <1>1, SizesAssumption DEF InboundFull
    <2> QED
      BY <2>1, <2>2
  <1>2. CASE InboundFull
    <2>1. PICK i \in DOMAIN inbound : ~IsResult(inbound[i]) /\ WithoutOldestNote(inbound) = Removed(inbound, i)
      BY <1>2, OldestNote
    <2>2. InboundMadeRoom = Removed(inbound, i)
      BY <1>2, <2>1 DEF InboundMadeRoom
    <2>3. /\ Removed(inbound, i) \in Seq(Messages) /\ Len(Removed(inbound, i)) = Len(inbound) - 1
          /\ Elements(inbound) = Elements(Removed(inbound, i)) \cup {inbound[i]}
      BY RemovedFacts
    <2>4. /\ ResultsIn(inbound) = ResultsIn(Removed(inbound, i)) \cup (IF IsResult(inbound[i]) THEN {inbound[i].call} ELSE {})
          /\ Cardinality(ResultPlaces(Removed(inbound, i)))
                = Cardinality(ResultPlaces(inbound)) - Count(IsResult(inbound[i]))
          /\ OnceResults(inbound) => OnceResults(Removed(inbound, i))
      BY RemovedMessage
    <2>5. Count(IsResult(inbound[i])) = 0
      BY <2>1 DEF Count
    <2>6. Cardinality(ResultPlaces(inbound)) \in Nat /\ Len(inbound) \in Nat
      BY ResultPlacesFinite
    <2>7. ResultElements(Removed(inbound, i)) = ResultElements(inbound)
      BY <2>1, <2>3 DEF ResultElements
    <2>8. ResultsIn(Removed(inbound, i)) = ResultsIn(inbound)
      BY <2>1, <2>4
    <2>9. Cardinality(ResultPlaces(Removed(inbound, i))) = Cardinality(ResultPlaces(inbound))
      BY <2>4, <2>5, <2>6
    <2>10. Len(Removed(inbound, i)) + reserved < MaxInbound
      BY <2>3, <2>6, SizesAssumption
    <2> QED
      BY <2>2, <2>3, <2>4, <2>7, <2>8, <2>9, <2>10
  <1> QED
    BY <1>1, <1>2

\* Results of calls taken out of a queue together.
LEMMA ResultsFacts ==
    ASSUME NEW q \in Seq(Calls \cup {Rejoin}), NEW code \in Codes
    PROVE  /\ Results(q, code) \in Seq(ResultMessages) /\ Len(Results(q, code)) = Len(q)
           /\ ResultsIn(Results(q, code)) = Elements(q)
           /\ Elements(Results(q, code)) = {Result(c, code) : c \in Elements(q)}
           /\ Once(q) => OnceResults(Results(q, code))
  <1> DEFINE p == Results(q, code)
  <1>1. DOMAIN q = 1..Len(q) /\ Len(q) \in Nat /\ \A i \in DOMAIN q : q[i] \in Calls \cup {Rejoin}
    OBVIOUS
  <1>2. p = [i \in 1..Len(q) |-> Result(q[i], code)]
    BY <1>1 DEF Results
  <1>3. \A i \in 1..Len(q) : Result(q[i], code) \in ResultMessages
    BY <1>1, ResultFields
  <1>4. p \in [1..Len(q) -> ResultMessages]
    BY <1>2, <1>3
  <1>5. p \in Seq(ResultMessages) /\ Len(p) = Len(q) /\ DOMAIN p = DOMAIN q
    BY <1>1, <1>4
  <1>6. \A i \in DOMAIN q : p[i] = Result(q[i], code) /\ IsResult(p[i]) /\ p[i].call = q[i]
    BY <1>1, <1>2, ResultFields
  <1> HIDE DEF p
  <1>7. Elements(p) = {Result(c, code) : c \in Elements(q)}
    BY <1>5, <1>6 DEF Elements
  <1>8. ResultsIn(p) = Elements(q)
    <2>1. \A m \in Elements(p) : IsResult(m) /\ m.call \in Elements(q)
      BY <1>5, <1>6 DEF Elements
    <2>2. \A c \in Elements(q) : \E m \in Elements(p) : IsResult(m) /\ m.call = c
      BY <1>5, <1>6 DEF Elements
    <2> QED
      BY <2>1, <2>2 DEF ResultsIn
  <1>9. Once(q) => OnceResults(p)
    BY <1>5, <1>6 DEF Once, OnceResults
  <1> QED
    BY <1>5, <1>7, <1>8, <1>9 DEF p

-----------------------------------------------------------------------------
(* The queue the window dispatches from                                    *)

LEMMA ReserveStep ==
    ASSUME TypeOK, RoomForResults, CanReserve, Reserve
    PROVE  /\ inbound' \in Seq(Messages) /\ reserved' \in Nat /\ queued' \in Nat
           /\ reserved' = reserved + 1 /\ RoomForResults'
           /\ ResultElements(inbound') = ResultElements(inbound)
           /\ ResultsIn(inbound') = ResultsIn(inbound)
           /\ OnceResults(inbound) => OnceResults(inbound')
  <1>1. inbound \in Seq(Messages) /\ reserved \in Nat /\ queued \in Nat
    BY DEF TypeOK, Messages
  <1>2. /\ inbound' = InboundMadeRoom /\ reserved' = reserved + 1 /\ queued' = queued
        /\ queued + reserved < MaxResults /\ (InboundFull => HasNote(inbound))
    BY DEF Reserve, CanReserve
  <1>3. /\ Len(inbound) + reserved <= MaxInbound
        /\ queued = Cardinality(ResultPlaces(inbound))
    BY DEF RoomForResults, ResultPlaces
  <1>4. /\ InboundMadeRoom \in Seq(Messages)
        /\ Len(InboundMadeRoom) + reserved < MaxInbound
        /\ ResultElements(InboundMadeRoom) = ResultElements(inbound)
        /\ ResultsIn(InboundMadeRoom) = ResultsIn(inbound)
        /\ Cardinality(ResultPlaces(InboundMadeRoom)) = Cardinality(ResultPlaces(inbound))
        /\ OnceResults(inbound) => OnceResults(InboundMadeRoom)
    BY <1>1, <1>2, <1>3, MadeRoom
  <1>5. Len(inbound') \in Nat
    BY <1>2, <1>4
  <1>6. /\ Len(inbound') + reserved' <= MaxInbound /\ queued' + reserved' <= MaxResults
    BY <1>1, <1>2, <1>4, <1>5, SizesAssumption
  <1>7. queued' = Cardinality({i \in DOMAIN inbound' : IsResult(inbound'[i])})
    BY <1>2, <1>3, <1>4 DEF ResultPlaces
  <1>8. RoomForResults'
    BY <1>6, <1>7 DEF RoomForResults
  <1> QED
    BY <1>1, <1>2, <1>4, <1>8

LEMMA PutResultStep ==
    ASSUME TypeOK, RoomForResults, NEW m \in ResultMessages, reserved > 0, PutResult(m)
    PROVE  /\ inbound' \in Seq(Messages) /\ reserved' \in Nat /\ queued' \in Nat
           /\ reserved' = reserved - 1 /\ RoomForResults'
           /\ ResultElements(inbound') = ResultElements(inbound) \cup {m}
           /\ ResultsIn(inbound') = ResultsIn(inbound) \cup {m.call}
           /\ OnceResults(inbound) /\ m.call \notin ResultsIn(inbound) \cap Calls
                => OnceResults(inbound')
  <1>1. inbound \in Seq(Messages) /\ reserved \in Nat /\ queued \in Nat
    BY DEF TypeOK, Messages
  <1>2. m \in Messages /\ IsResult(m) /\ Count(IsResult(m)) = 1
    BY MessageKinds DEF Messages, Count
  <1>3. inbound' = Append(inbound, m) /\ reserved' = reserved - 1 /\ queued' = queued + 1
    BY <1>1 DEF PutResult
  <1>4. /\ Len(inbound) + reserved <= MaxInbound /\ queued + reserved <= MaxResults
        /\ queued = Cardinality(ResultPlaces(inbound))
    BY DEF RoomForResults, ResultPlaces
  <1>5. /\ inbound' \in Seq(Messages) /\ Len(inbound') = Len(inbound) + 1
        /\ Elements(inbound') = Elements(inbound) \cup {m}
    BY <1>1, <1>2, <1>3, AppendFacts
  <1>6. /\ ResultsIn(inbound') = ResultsIn(inbound) \cup (IF IsResult(m) THEN {m.call} ELSE {})
        /\ Cardinality(ResultPlaces(inbound')) = Cardinality(ResultPlaces(inbound)) + Count(IsResult(m))
        /\ OnceResults(inbound) /\ (IsResult(m) => m.call \notin ResultsIn(inbound) \cap Calls)
             => OnceResults(inbound')
    BY <1>1, <1>2, <1>3, AppendMessage
  <1>7. ResultElements(inbound') = ResultElements(inbound) \cup {m}
    BY <1>2, <1>5 DEF ResultElements
  <1>8. queued' = Cardinality({i \in DOMAIN inbound' : IsResult(inbound'[i])})
    BY <1>2, <1>3, <1>4, <1>6 DEF ResultPlaces
  <1>9. Len(inbound) \in Nat
    BY <1>1
  <1>10. Len(inbound') + reserved' <= MaxInbound /\ queued' + reserved' <= MaxResults
    <2>1. Len(inbound') + reserved' = Len(inbound) + reserved /\ queued' + reserved' = queued + reserved
      BY <1>1, <1>3, <1>5, <1>9
    <2> QED
      BY <1>4, <2>1
  <1>11. RoomForResults'
    BY <1>8, <1>10 DEF RoomForResults
  <1> QED
    BY <1>1, <1>2, <1>3, <1>5, <1>6, <1>7, <1>11

LEMMA PutNoteStep ==
    ASSUME TypeOK, RoomForResults, NEW t \in Topics \cup {None}, PutNote(t)
    PROVE  /\ inbound' \in Seq(Messages) /\ reserved' = reserved /\ queued' = queued
           /\ RoomForResults'
           /\ ResultElements(inbound') = ResultElements(inbound)
           /\ ResultsIn(inbound') = ResultsIn(inbound)
           /\ OnceResults(inbound) => OnceResults(inbound')
  <1> DEFINE m == [topic |-> t]
             q == InboundMadeRoom
  <1>1. inbound \in Seq(Messages) /\ reserved \in Nat /\ queued \in Nat
    BY DEF TypeOK, Messages
  <1>2. m \in Messages /\ ~IsResult(m) /\ Count(IsResult(m)) = 0
    BY MessageKinds DEF Messages, Count
  <1>3. /\ reserved' = reserved /\ queued' = queued
        /\ inbound' = inbound \/ ((InboundFull => HasNote(inbound)) /\ inbound' = Append(q, m))
    BY DEF PutNote
  <1>4. /\ Len(inbound) + reserved <= MaxInbound /\ queued + reserved <= MaxResults
        /\ queued = Cardinality(ResultPlaces(inbound))
    BY DEF RoomForResults, ResultPlaces
  <1>5. CASE inbound' = inbound
    BY <1>1, <1>3, <1>5 DEF RoomForResults
  <1>6. CASE (InboundFull => HasNote(inbound)) /\ inbound' = Append(q, m)
    <2>1. /\ q \in Seq(Messages) /\ Len(q) + reserved < MaxInbound
          /\ ResultElements(q) = ResultElements(inbound) /\ ResultsIn(q) = ResultsIn(inbound)
          /\ Cardinality(ResultPlaces(q)) = Cardinality(ResultPlaces(inbound))
          /\ OnceResults(inbound) => OnceResults(q)
      BY <1>1, <1>4, <1>6, MadeRoom
    <2> HIDE DEF q, m
    <2>2. /\ inbound' \in Seq(Messages) /\ Len(inbound') = Len(q) + 1
          /\ Elements(inbound') = Elements(q) \cup {m}
      BY <1>2, <1>6, <2>1, AppendFacts
    <2>3. /\ ResultsIn(inbound') = ResultsIn(q) \cup (IF IsResult(m) THEN {m.call} ELSE {})
          /\ Cardinality(ResultPlaces(inbound')) = Cardinality(ResultPlaces(q)) + Count(IsResult(m))
          /\ OnceResults(q) /\ (IsResult(m) => m.call \notin ResultsIn(q) \cap Calls)
               => OnceResults(inbound')
      BY <1>2, <1>6, <2>1, AppendMessage
    <2>4. ResultElements(inbound') = ResultElements(inbound)
      BY <1>2, <2>1, <2>2 DEF ResultElements
    <2>5. Len(q) \in Nat /\ Cardinality(ResultPlaces(q)) \in Nat
      BY <2>1, ResultPlacesFinite
    <2>6. queued' = Cardinality({i \in DOMAIN inbound' : IsResult(inbound'[i])})
      BY <1>2, <1>3, <1>4, <2>1, <2>3, <2>5 DEF ResultPlaces
    <2>7. Len(inbound') + reserved' <= MaxInbound
      BY <1>1, <1>3, <2>1, <2>2, <2>5, SizesAssumption
    <2>8. RoomForResults'
      BY <1>3, <1>4, <2>6, <2>7 DEF RoomForResults
    <2> QED
      BY <1>2, <1>3, <2>1, <2>2, <2>3, <2>4, <2>8
  <1> QED
    BY <1>3, <1>5, <1>6

-----------------------------------------------------------------------------
(* What a step does to the places of the calls                             *)

\* Open calls move from place to place; while Stop waits, or for a configuration
\* that is gone, they may be dropped.
MovesInside ==
    /\ UNCHANGED <<cgen, accepted, delivered, withdrawn>>
    /\ \A c \in Calls : Open(c)' <= Open(c)
    /\ \/ gen' = gen /\ \A c \in Calls : gen = cgen => Open(c)' = Open(c)
       \/ gen # cgen /\ \A c \in Calls : Open(c)' = 0
\* One call comes in, leaves with its result or is withdrawn; the others stay.
OthersStay(c) == UNCHANGED <<gen, cgen>> /\ gen = cgen /\ \A d \in Calls \ {c} : Open(d)' = Open(d)
Accepts(c) ==
    /\ c \in Calls /\ New(c) /\ OthersStay(c) /\ Open(c)' = Open(c) + 1
    /\ accepted' = accepted \cup {c} /\ UNCHANGED <<delivered, withdrawn>>
Delivers(m) ==
    /\ m \in ResultMessages /\ OthersStay(m.call)
    /\ m.call \in Calls => Open(m.call) = 1 /\ Open(m.call)' = 0
    /\ delivered' = delivered \cup {m} /\ UNCHANGED <<accepted, withdrawn>>
Withdraws(c) ==
    /\ c \in Queries /\ OthersStay(c) /\ Open(c) = 1 /\ Open(c)' = 0
    /\ withdrawn' = withdrawn \cup {c} /\ UNCHANGED <<accepted, delivered>>
Voids ==
    /\ cgen' = cgen + 1 /\ UNCHANGED <<accepted, delivered, withdrawn>>
    /\ \A c \in Calls : Open(c)' <= Open(c) /\ (gen' # cgen' \/ Open(c)' = 0)
\* What a step does to the calls: what the promise of CloudRequests allows.
KeepsCalls ==
    \/ MovesInside \/ Voids
    \/ \E c \in Calls : Accepts(c) \/ Withdraws(c)
    \/ \E m \in ResultMessages : Delivers(m)

\* The calls that wait for their results.
Owed ==
    Len(commands) + Count(latest # None) + Len(acks) + Count(turnedAway # None)
    + (IF wgen = gen THEN Count(hand # None) + Len(settling) ELSE 0)

LEMMA OwedLengths ==
    ASSUME TypeOK
    PROVE  /\ Len(commands) \in Nat /\ Len(acks) \in Nat /\ Len(settling) \in Nat
           /\ reserved \in Nat /\ Owed \in Nat
           /\ Count(latest # None) \in Nat /\ Count(turnedAway # None) \in Nat
  <1>1. Len(commands) \in Nat /\ Len(acks) \in Nat /\ Len(settling) \in Nat /\ reserved \in Nat
    BY DEF TypeOK
  <1>2. /\ Count(latest # None) \in Nat /\ Count(turnedAway # None) \in Nat
        /\ Count(hand # None) \in Nat
    BY DEF Count
  <1>3. (IF wgen = gen THEN Count(hand # None) + Len(settling) ELSE 0) \in Nat
    BY <1>1, <1>2
  <1> QED
    BY <1>1, <1>2, <1>3 DEF Owed

LEMMA OpenCount == \A c : Open(c) \in Nat /\ Open(c)' \in Nat
  BY DEF Open, Count

LEMMA KeptApart ==
    ASSUME TypeOK, CallsApart, KeepsCalls
    PROVE  CallsApart'
  <1> SUFFICES ASSUME NEW c \in Calls
               PROVE  Count(New(c)') + Open(c)' + Count((c \in DeliveredCalls)') + Count((c \in withdrawn)') <= 1
    BY DEF CallsApart
  <1>1. Open(c) \in Nat /\ Open(c)' \in Nat
    BY OpenCount
  <1>2. Count(New(c)) + Open(c) + Count(c \in DeliveredCalls) + Count(c \in withdrawn) <= 1
    BY DEF CallsApart
  <1>3. CASE MovesInside \/ Voids
    <2>1. (New(c) <=> New(c)') /\ DeliveredCalls' = DeliveredCalls /\ withdrawn' = withdrawn
      BY <1>3 DEF MovesInside, Voids, New, DeliveredCalls
    <2>2. Open(c)' <= Open(c)
      BY <1>3 DEF MovesInside, Voids
    <2> HIDE DEF New, DeliveredCalls
    <2> QED
      BY <1>1, <1>2, <2>1, <2>2 DEF Count
  <1>4. ASSUME NEW d \in Calls, Accepts(d) 
        PROVE  Count(New(c)') + Open(c)' + Count((c \in DeliveredCalls)') + Count((c \in withdrawn)') <= 1
    <2>1. /\ c # d => (New(c)' <=> New(c))
          /\ DeliveredCalls' = DeliveredCalls /\ withdrawn' = withdrawn /\ New(d) /\ (c = d => ~New(c)')
      BY <1>4 DEF Accepts, New, DeliveredCalls
    <2>2. IF c = d THEN Open(c)' = Open(c) + 1 ELSE Open(c)' = Open(c)
      BY <1>4 DEF Accepts, OthersStay
    <2> HIDE DEF New, DeliveredCalls
    <2> QED
      BY <1>1, <1>2, <2>1, <2>2 DEF Count
  <1>5. ASSUME NEW d \in Calls, Withdraws(d)
        PROVE  Count(New(c)') + Open(c)' + Count((c \in DeliveredCalls)') + Count((c \in withdrawn)') <= 1
    <2>1. /\ (New(c)' <=> New(c)) /\ DeliveredCalls' = DeliveredCalls
          /\ ((c \in withdrawn)' <=> (c \in withdrawn \/ c = d))
      BY <1>5 DEF Withdraws, New, DeliveredCalls
    <2>2. IF c = d THEN Open(c) = 1 /\ Open(c)' = 0 ELSE Open(c)' = Open(c)
      BY <1>5 DEF Withdraws, OthersStay
    <2> HIDE DEF New, DeliveredCalls
    <2> QED
      BY <1>1, <1>2, <2>1, <2>2 DEF Count
  <1>6. ASSUME NEW m \in ResultMessages, Delivers(m)
        PROVE  Count(New(c)') + Open(c)' + Count((c \in DeliveredCalls)') + Count((c \in withdrawn)') <= 1
    <2>1. /\ (New(c)' <=> New(c)) /\ withdrawn' = withdrawn
          /\ ((c \in DeliveredCalls)' <=> (c \in DeliveredCalls \/ c = m.call))
      BY <1>6 DEF Delivers, New, DeliveredCalls
    <2>2. IF c = m.call THEN Open(c) = 1 /\ Open(c)' = 0 ELSE Open(c)' = Open(c)
      BY <1>6 DEF Delivers, OthersStay
    <2> HIDE DEF New, DeliveredCalls
    <2> QED
      BY <1>1, <1>2, <2>1, <2>2 DEF Count
  <1> QED
    BY <1>3, <1>4, <1>5, <1>6 DEF KeepsCalls

LEMMA OpenOnce ==
    ASSUME CallsApart, NEW c \in Calls
    PROVE  Open(c) <= 1 /\ (Open(c) = 1 => ~New(c) /\ c \notin DeliveredCalls /\ c \notin withdrawn)
  <1>1. Count(New(c)) + Open(c) + Count(c \in DeliveredCalls) + Count(c \in withdrawn) <= 1
    BY DEF CallsApart
  <1>2. Open(c) \in Nat
    BY OpenCount
  <1> HIDE DEF New, DeliveredCalls
  <1> QED
    BY <1>1, <1>2 DEF Count

\* Snapshots stay in order when none comes, and only calls sent before are sent.
LEMMA SnapshotsStay ==
    ASSUME SnapshotsOK, accepted' \cap Uploads = accepted \cap Uploads, latest' \in {latest, None},
           hand' \in Uploads /\ wgen' = gen' => hand' = hand /\ wgen = gen,
           turnedAway' \in {turnedAway, None}, Sent' \cap Uploads \subseteq Sent,
           \A u \in Uploads : Result(u, "canceled") \in Settled' => Result(u, "canceled") \in Settled
    PROVE  SnapshotsOK'
  <1>1. /\ \A u, v \in Uploads : u < v /\ ~New(v)' => ~New(u)'
        /\ hand' \in Uploads /\ wgen' = gen' /\ latest' # None => hand' < latest'
        /\ turnedAway' # None => turnedAway'.code # "ended"
        /\ turnedAway' # None /\ turnedAway'.code = "canceled" =>
             \E v \in Uploads : v > turnedAway'.call /\ ~New(v)'
    BY DEF SnapshotsOK, New
  <1>2. UploadsInOrder'
    BY CallsAssumption DEF SnapshotsOK, UploadsInOrder, Calls
  <1>3. NewestSnapshotKept'
    BY DEF SnapshotsOK, NewestSnapshotKept, New
  <1> QED
    BY <1>1, <1>2, <1>3 DEF SnapshotsOK, New

\* Steps that leave every queue alone: the worker takes up another generation only
\* with empty hands, and the acks go only with a configuration that is gone.
ControlFrame ==
    /\ UNCHANGED <<gen, commands, latest, inboundVars, turnedAway, hand, settling, historyVars>>
    /\ wgen' = wgen \/ (wgen' = gen /\ hand = None /\ settling = <<>>)
    /\ acks' = acks \/ (acks' = <<>> /\ (gen # cgen \/ acks = <<>>))
    /\ cgen' = cgen \/ (cgen' = cgen + 1 /\ gen = cgen /\ acks' = acks /\ gen' # cgen')

LEMMA EmptyQueue ==
    /\ Elements(<<>>) = {} /\ ResultsIn(<<>>) = {} /\ Len(<<>>) = 0 /\ Once(<<>>) /\ OnceResults(<<>>)
  BY DEF Elements, ResultsIn, Once, OnceResults

LEMMA ControlFrameStep ==
    ASSUME Inv, ControlFrame, TypeOK', ControlOK'
    PROVE  Inv' /\ KeepsCalls
  <1>1. /\ commands' = commands /\ latest' = latest /\ turnedAway' = turnedAway
        /\ inbound' = inbound /\ reserved' = reserved /\ queued' = queued /\ gen' = gen
        /\ hand' = hand /\ settling' = settling
        /\ accepted' = accepted /\ delivered' = delivered /\ withdrawn' = withdrawn
    BY DEF ControlFrame, inboundVars, historyVars
  <1>2. acks' = acks \/ (Elements(acks') = {} /\ Len(acks') = 0 /\ acks' = <<>>)
    BY EmptyQueue DEF ControlFrame
  <1>3. \A c \in Calls : c \in HandCalls' <=> c \in HandCalls
    BY <1>1, CallsAssumption DEF ControlFrame, HandCalls
  <1>4. SettlingCalls' = SettlingCalls
    BY <1>1, EmptyQueue DEF ControlFrame, SettlingCalls
  <1>5. TurnedCalls' = TurnedCalls
    BY <1>1 DEF TurnedCalls
  <1>6. gen = cgen => Elements(acks') = Elements(acks) /\ Len(acks') = Len(acks)
    BY DEF ControlFrame
  <1>7. ASSUME NEW c \in Calls PROVE Open(c)' <= Open(c) /\ (gen = cgen => Open(c)' = Open(c))
    BY <1>1, <1>2, <1>3, <1>4, <1>5, <1>6 DEF Open, Count
  <1>8. KeepsCalls
    <2>1. CASE cgen' = cgen
      BY <1>1, <1>7, <2>1 DEF KeepsCalls, MovesInside
    <2>2. CASE cgen' = cgen + 1 /\ gen' # cgen'
      BY <1>1, <1>7, <2>2 DEF KeepsCalls, Voids
    <2> QED
      BY <2>1, <2>2 DEF ControlFrame
  <1>9. CallsApart'
    BY <1>8, KeptApart DEF Inv
  <1>10. QueuesOnce'
    BY <1>1, <1>2, EmptyQueue DEF Inv, QueuesOnce, ControlFrame
  <1>11. ReservationsExact'
    <2> SUFFICES ASSUME gen' = cgen'
                 PROVE  reserved' = Len(commands') + Count(latest' # None) + Len(acks') + Count(turnedAway' # None)
                          + (IF wgen' = gen' THEN Count(hand' # None) + Len(settling') ELSE 0)
      BY DEF ReservationsExact
    <2>1. cgen' = cgen /\ gen = cgen
      BY <1>1 DEF ControlFrame
    <2>2. Len(acks') = Len(acks)
      BY <1>6, <2>1
    <2>3. reserved = Len(commands) + Count(latest # None) + Len(acks) + Count(turnedAway # None)
                     + (IF wgen = gen THEN Count(hand # None) + Len(settling) ELSE 0)
      BY <2>1 DEF Inv, ReservationsExact
    <2>4. CASE wgen' = wgen
      BY <1>1, <2>2, <2>3, <2>4 DEF Count
    <2>5. CASE wgen' = gen /\ hand = None /\ settling = <<>>
      <3>1. (IF wgen = gen THEN Count(hand # None) + Len(settling) ELSE 0) = 0
        BY <2>5, EmptyQueue DEF Count
      <3>2. (IF wgen' = gen' THEN Count(hand' # None) + Len(settling') ELSE 0) = 0
        BY <1>1, <2>5, EmptyQueue DEF Count
      <3> QED
        BY <1>1, <2>2, <2>3, <3>1, <3>2
    <2> QED
      BY <2>4, <2>5 DEF ControlFrame
  <1>12. RoomForResults'
    BY <1>1 DEF Inv, RoomForResults
  <1>13. SnapshotsOK'
    <2>1. Settled' = Settled
      BY <1>1, EmptyQueue DEF ControlFrame, Settled, Elements
    <2>2. Sent' \subseteq Sent
      BY <1>2, <2>1 DEF Sent
    <2>3. hand' \in Uploads /\ wgen' = gen' => hand' = hand /\ wgen = gen
      BY <1>1, CallsAssumption DEF ControlFrame, Calls
    <2> QED
      BY <1>1, <2>1, <2>2, <2>3, SnapshotsStay DEF Inv
  <1>14. RejoinApart'
    <2>1. /\ \A i, j \in DOMAIN acks' : acks'[i] = Rejoin /\ acks'[j] = Rejoin => i = j
      BY <1>2 DEF Inv, RejoinApart
    <2>2. hand' = Rejoin /\ wgen' = gen' => Rejoin \notin Elements(acks')
      BY <1>1, <1>2, CallsAssumption DEF Inv, RejoinApart, ControlFrame
    <2> QED
      BY <2>1, <2>2 DEF RejoinApart
  <1> QED
    BY <1>8, <1>9, <1>10, <1>11, <1>12, <1>13, <1>14 DEF Inv

-----------------------------------------------------------------------------
(* Steps that leave every queue alone                                      *)

LEMMA StartStep == ASSUME Inv, Start PROVE Inv' /\ KeepsCalls
  <1>1. ControlFrame /\ TypeOK'
    BY DEF Start, ControlFrame, Inv, TypeOK, uiVars, queueVars, inboundVars, roomVars, historyVars
  <1>2. ControlOK'
    BY DEF Start, UiFree, Inv, ControlOK, historyVars
  <1> QED
    BY <1>1, <1>2, ControlFrameStep

LEMMA BeginStopStep == ASSUME Inv, BeginStop PROVE Inv' /\ KeepsCalls
  <1>1. gen = cgen /\ turnedAway = None /\ cgen \in Nat /\ MaxGeneration \in Nat /\ cgen < MaxGeneration
    BY SizesAssumption DEF BeginStop, UiFree, Inv, ControlOK, TypeOK
  <1>2. TypeOK'
    BY <1>1 DEF BeginStop, Inv, TypeOK, queueVars, inboundVars, roomVars, workerVars, historyVars
  <1>3. ControlOK'
    BY <1>1 DEF BeginStop, Inv, TypeOK, ControlOK, workerVars, historyVars
  <1>4. ControlFrame
    BY <1>1 DEF BeginStop, ControlFrame, queueVars, workerVars
  <1> QED
    BY <1>2, <1>3, <1>4, ControlFrameStep

LEMMA ExitStep == ASSUME Inv, Exit PROVE Inv' /\ KeepsCalls
  <1>1. ControlFrame
    BY DEF Exit, ControlFrame, Inv, ControlOK, uiVars, queueVars
  <1>2. TypeOK' /\ ControlOK'
    BY EmptyQueue DEF Exit, WorkerAt, Inv, TypeOK, ControlOK, uiVars, queueVars, inboundVars, roomVars, historyVars
  <1> QED
    BY <1>1, <1>2, ControlFrameStep

LEMMA BeginConnectionStep == ASSUME Inv, BeginConnection PROVE Inv' /\ KeepsCalls
  <1>1. ControlFrame
    BY DEF BeginConnection, WorkerAt, ControlFrame, Inv, ControlOK, uiVars, queueVars
  <1>2. TypeOK'
    BY DEF BeginConnection, Inv, TypeOK, uiVars, queueVars, inboundVars, roomVars, historyVars
  <1>3. ControlOK'
    BY DEF BeginConnection, WorkerAt, Inv, TypeOK, ControlOK, uiVars, historyVars
  <1> QED
    BY <1>1, <1>2, <1>3, ControlFrameStep

LEMMA ConnectStep == ASSUME Inv, Connect PROVE Inv' /\ KeepsCalls
  <1>1. ControlFrame
    BY DEF Connect, ControlFrame, uiVars, queueVars
  <1>2. TypeOK'
    BY DEF Connect, Inv, TypeOK, uiVars, queueVars, inboundVars, historyVars
  <1>3. ControlOK'
    BY DEF Connect, Running, WorkerAt, Inv, ControlOK, uiVars, historyVars
  <1> QED
    BY <1>1, <1>2, <1>3, ControlFrameStep

LEMMA DropLicenseStep == ASSUME Inv, DropLicense PROVE Inv' /\ KeepsCalls
  <1>1. ControlFrame
    BY DEF DropLicense, ControlFrame, uiVars, queueVars
  <1>2. TypeOK'
    BY DEF DropLicense, Inv, TypeOK, uiVars, queueVars, inboundVars, roomVars, historyVars
  <1>3. ControlOK'
    BY DEF DropLicense, Running, WorkerAt, Inv, ControlOK, uiVars, historyVars
  <1> QED
    BY <1>1, <1>2, <1>3, ControlFrameStep

LEMMA LoseStep == ASSUME Inv, Lose PROVE Inv' /\ KeepsCalls
  <1>1. ControlFrame
    BY DEF Lose, ControlFrame, uiVars, queueVars
  <1>2. TypeOK'
    BY DEF Lose, Inv, TypeOK, uiVars, queueVars, inboundVars, roomVars, historyVars
  <1>3. ControlOK'
    BY DEF Lose, Inv, ControlOK, uiVars, historyVars
  <1> QED
    BY <1>1, <1>2, <1>3, ControlFrameStep

LEMMA ReceiveNothingStep == ASSUME Inv, ReceiveNothing PROVE Inv' /\ KeepsCalls
  <1>1. ControlFrame
    BY DEF ReceiveNothing, ControlFrame, uiVars, queueVars
  <1>2. TypeOK'
    BY DEF ReceiveNothing, Inv, TypeOK, uiVars, queueVars, inboundVars, roomVars, historyVars
  <1>3. ControlOK'
    BY DEF ReceiveNothing, Running, WorkerAt, Inv, ControlOK, uiVars, historyVars
  <1> QED
    BY <1>1, <1>2, <1>3, ControlFrameStep

LEMMA AbandonConnectionStep == ASSUME Inv, AbandonConnection PROVE Inv' /\ KeepsCalls
  <1>1. ControlFrame
    BY DEF AbandonConnection, Aborting, ControlFrame, Inv, ControlOK, uiVars, queueVars
  <1>2. TypeOK'
    BY EmptyQueue DEF AbandonConnection, Inv, TypeOK, uiVars, queueVars, inboundVars, roomVars, historyVars
  <1>3. ControlOK'
    BY DEF AbandonConnection, WorkerAt, Inv, ControlOK, uiVars, historyVars
  <1> QED
    BY <1>1, <1>2, <1>3, ControlFrameStep

LEMMA GoOfflineStep == ASSUME Inv, GoOffline PROVE Inv' /\ KeepsCalls
  <1>1. ControlFrame
    BY DEF GoOffline, ControlFrame, uiVars, queueVars
  <1>2. TypeOK'
    BY DEF GoOffline, Inv, TypeOK, uiVars, queueVars, inboundVars, roomVars, historyVars
  <1>3. ControlOK'
    BY DEF GoOffline, WorkerAt, Inv, ControlOK, uiVars, historyVars
  <1> QED
    BY <1>1, <1>2, <1>3, ControlFrameStep

-----------------------------------------------------------------------------
(* The worker                                                              *)

LEMMA AtWork ==
    ASSUME Inv, NEW place, WorkerAt(place)
    PROVE  /\ pc = place /\ settling = <<>> /\ (hand # None <=> place \in {"register", "reregister", "send", "rename"})
           /\ (~Aborting => gen = cgen /\ wgen = gen /\ ~stopping)
           /\ (Aborting => gen # cgen \/ wgen # gen)
  BY DEF WorkerAt, Aborting, Inv, ControlOK, TypeOK

LEMMA TakeCommandStep == ASSUME Inv, TakeCommand PROVE Inv' /\ KeepsCalls
  <1>1. /\ commands' \in Seq(Calls \ Uploads) /\ Len(commands') = Len(commands) - 1
        /\ hand' \in Calls \ Uploads /\ Within(commands', commands)
        /\ Elements(commands) = Elements(commands') \cup {hand'}
        /\ hand' \notin Elements(commands')
        /\ Len(commands) \in Nat
    BY TailFacts DEF Inv, TypeOK, QueuesOnce, TakeCommand, HasCommand
  <1>2. hand = None /\ settling = <<>> /\ gen = cgen /\ wgen = gen /\ pc = "outgoing" /\ ~stopping
    BY AtWork DEF TakeCommand, Running
  <1>3. /\ pc' = "send"
        /\ UNCHANGED <<uiVars, online, latest, inboundVars, roomVars, turnedAway, wgen, license, acks,
                       settling, historyVars>>
    BY DEF TakeCommand
  <1>4. TypeOK'
    BY <1>1, <1>3 DEF Inv, TypeOK, uiVars, inboundVars, roomVars, historyVars, Messages
  <1>5. ControlOK'
    BY <1>1, <1>2, <1>3, CallsAssumption DEF Inv, ControlOK, uiVars, historyVars
  <1>6. KeepsCalls
    <2>1. ASSUME NEW c \in Calls PROVE Open(c)' = Open(c)
      BY <1>1, <1>2, <1>3, CallsAssumption
         DEF Open, Count, HandCalls, SettlingCalls, TurnedCalls, uiVars, inboundVars
    <2> QED
      BY <1>3, <2>1, OpenCount DEF KeepsCalls, MovesInside, uiVars, historyVars
  <1>7. QueuesOnce'
    BY <1>1, <1>3, WithinFacts DEF Inv, QueuesOnce, uiVars, inboundVars, historyVars
  <1>8. ReservationsExact'
    <2>1. hand' # None
      BY <1>1, CallsAssumption
    <2>2. Owed' = Owed
      BY <1>1, <1>2, <1>3, <2>1, OwedLengths DEF Inv, Owed, Count, uiVars
    <2> QED
      BY <1>2, <1>3, <2>2 DEF Inv, ReservationsExact, Owed, uiVars, inboundVars
  <1>9. RoomForResults'
    BY <1>3 DEF Inv, RoomForResults, inboundVars
  <1>10. SnapshotsOK'
    BY <1>1, <1>2, <1>3 DEF Inv, SnapshotsOK, UploadsInOrder, NewestSnapshotKept, Sent, Settled, New,
       uiVars, inboundVars, historyVars
  <1>11. RejoinApart'
    BY <1>1, <1>3, CallsAssumption DEF Inv, RejoinApart
  <1> QED
    BY <1>4, <1>5, <1>6, <1>7, <1>8, <1>9, <1>10, <1>11, KeptApart DEF Inv

LEMMA TakeSnapshotStep == ASSUME Inv, TakeSnapshot PROVE Inv' /\ KeepsCalls
  <1>1. hand = None /\ settling = <<>> /\ gen = cgen /\ wgen = gen /\ pc = "outgoing" /\ ~stopping
    BY AtWork DEF TakeSnapshot, Running
  <1>2. /\ pc' = "send" /\ hand' = latest /\ latest' = None /\ latest # None /\ latest \in Uploads
        /\ UNCHANGED <<uiVars, online, commands, inboundVars, roomVars, turnedAway, wgen, license, acks,
                       settling, historyVars>>
    BY DEF TakeSnapshot, Inv, TypeOK
  <1>3. TypeOK'
    BY <1>2 DEF Inv, TypeOK, uiVars, inboundVars, roomVars, historyVars, Calls
  <1>4. ControlOK'
    BY <1>1, <1>2, CallsAssumption DEF Inv, ControlOK, uiVars, historyVars
  <1>5. KeepsCalls
    <2>1. ASSUME NEW c \in Calls PROVE Open(c)' = Open(c)
      BY <1>1, <1>2, CallsAssumption
         DEF Open, Count, HandCalls, SettlingCalls, TurnedCalls, uiVars, inboundVars
    <2> QED
      BY <1>2, <2>1, OpenCount DEF KeepsCalls, MovesInside, uiVars, historyVars
  <1>6. QueuesOnce'
    BY <1>2 DEF Inv, QueuesOnce, uiVars, inboundVars, historyVars
  <1>7. ReservationsExact'
    <2>1. Owed' = Owed
      BY <1>1, <1>2, OwedLengths DEF Inv, Owed, Count, uiVars
    <2> QED
      BY <1>1, <1>2, <2>1 DEF Inv, ReservationsExact, Owed, uiVars, inboundVars
  <1>8. RoomForResults'
    BY <1>2 DEF Inv, RoomForResults, inboundVars
  <1>9. SnapshotsOK'
    <2>1. Sent' = Sent /\ Settled' = Settled
      BY <1>2 DEF Sent, Settled, uiVars, inboundVars, historyVars
    <2>2. UploadsInOrder'
      BY <1>2, <2>1, CallsAssumption DEF Inv, SnapshotsOK, UploadsInOrder, Calls
    <2> QED
      BY <1>2, <2>1, <2>2 DEF Inv, SnapshotsOK, NewestSnapshotKept, New, historyVars
  <1>10. RejoinApart'
    BY <1>2, CallsAssumption DEF Inv, RejoinApart, Calls
  <1> QED
    BY <1>3, <1>4, <1>5, <1>6, <1>7, <1>8, <1>9, <1>10, KeptApart DEF Inv

LEMMA SendRejoinStep == ASSUME Inv, SendRejoin PROVE Inv' /\ KeepsCalls
  <1>1. hand = None /\ settling = <<>> /\ gen = cgen /\ wgen = gen /\ pc = "rejoin" /\ ~stopping
    BY AtWork DEF SendRejoin, Running
  <1>2. /\ pc' = "send" /\ hand' = Rejoin /\ RejoinReady
        /\ UNCHANGED <<uiVars, online, queueVars, roomVars, turnedAway, wgen, license, acks, settling,
                       historyVars>>
    BY DEF SendRejoin
  <1>3. /\ inbound' \in Seq(Messages) /\ reserved' \in Nat /\ queued' \in Nat
        /\ reserved' = reserved + 1 /\ RoomForResults'
        /\ ResultElements(inbound') = ResultElements(inbound)
        /\ ResultsIn(inbound') = ResultsIn(inbound)
        /\ OnceResults(inbound) => OnceResults(inbound')
    BY ReserveStep DEF SendRejoin, RejoinReady, Inv
  <1>4. TypeOK'
    BY <1>2, <1>3 DEF Inv, TypeOK, uiVars, queueVars, roomVars, historyVars, Messages
  <1>5. ControlOK'
    BY <1>1, <1>2, CallsAssumption DEF Inv, ControlOK, uiVars, historyVars
  <1>6. KeepsCalls
    <2>1. ASSUME NEW c \in Calls PROVE Open(c)' = Open(c)
      BY <1>1, <1>2, <1>3, CallsAssumption
         DEF Open, Count, HandCalls, SettlingCalls, TurnedCalls, uiVars, queueVars
    <2> QED
      BY <1>2, <2>1, OpenCount DEF KeepsCalls, MovesInside, uiVars, historyVars
  <1>7. QueuesOnce'
    BY <1>2, <1>3 DEF Inv, QueuesOnce, uiVars, queueVars, historyVars
  <1>8. ReservationsExact'
    <2>1. Owed' = Owed + 1
      BY <1>1, <1>2, OwedLengths, CallsAssumption DEF Inv, Owed, Count, uiVars, queueVars
    <2> QED
      BY <1>1, <1>2, <1>3, <2>1 DEF Inv, ReservationsExact, Owed, uiVars
  <1>9. SnapshotsOK'
    <2>1. Settled' = Settled
      BY <1>2, <1>3 DEF Settled, ResultElements, uiVars, historyVars
    <2>2. Sent' = Sent
      BY <1>2, <2>1 DEF Sent
    <2> QED
      BY <1>2, <2>1, <2>2, SnapshotsStay, CallsAssumption DEF Inv, Calls, queueVars, historyVars
  <1>10. RejoinApart'
    BY <1>2 DEF Inv, RejoinApart, RejoinReady, IsJoin
  <1> QED
    BY <1>3, <1>4, <1>5, <1>6, <1>7, <1>8, <1>9, <1>10, KeptApart DEF Inv

\* Queries leave the queue of commands with their results.
LEMMA QueriesEnd ==
    ASSUME Inv, NEW n \in 0..Len(commands), hand = None, settling = <<>>, gen = cgen, wgen = gen,
           settling' = Results(Chosen(commands, n, Transient), "ended"),
           commands' = NotChosen(commands, n, Transient),
           pc \in {"rejoin", "calls", "lost"}, pc' \in {"outgoing", "failing"},
           UNCHANGED <<uiVars, online, latest, inboundVars, roomVars, turnedAway, wgen, license, hand,
                       acks, historyVars>>
    PROVE  Inv' /\ KeepsCalls
  <1> DEFINE p == Chosen(commands, n, Transient)
  <1>1. commands \in Seq(Calls \ Uploads) /\ Once(commands)
    BY DEF Inv, TypeOK, QueuesOnce
  <1>2. /\ p \in Seq(Calls \ Uploads) /\ commands' \in Seq(Calls \ Uploads)
        /\ Len(p) + Len(commands') = Len(commands)
        /\ Within(p, commands) /\ Within(commands', commands)
        /\ Elements(commands) = Elements(p) \cup Elements(commands')
        /\ Elements(p) \cap Elements(commands') = {}
    <2> DEFINE r == NotChosen(commands, n, Transient)
    <2>1. /\ p \in Seq(Calls \ Uploads) /\ r \in Seq(Calls \ Uploads)
          /\ Len(p) + Len(r) = Len(commands) /\ Within(p, commands) /\ Within(r, commands)
          /\ Elements(commands) = Elements(p) \cup Elements(r)
          /\ Elements(p) \cap Elements(r) = {}
      <3> DEFINE T == Transient
      <3> HIDE DEF T
      <3>1. /\ Chosen(commands, n, T) \in Seq(Calls \ Uploads)
            /\ NotChosen(commands, n, T) \in Seq(Calls \ Uploads)
        BY <1>1, ChosenFacts
      <3>2. Len(Chosen(commands, n, T)) + Len(NotChosen(commands, n, T)) = Len(commands)
        BY <1>1, ChosenFacts
      <3>3. Within(Chosen(commands, n, T), commands) /\ Within(NotChosen(commands, n, T), commands)
        BY <1>1, ChosenFacts
      <3>4. /\ Elements(commands) = Elements(Chosen(commands, n, T)) \cup Elements(NotChosen(commands, n, T))
            /\ Elements(Chosen(commands, n, T)) \cap Elements(NotChosen(commands, n, T)) = {}
        BY <1>1, ChosenFacts
      <3> QED
        BY <3>1, <3>2, <3>3, <3>4 DEF T
    <2>2. commands' = r
      OBVIOUS
    <2> HIDE DEF p, r
    <2> QED
      BY <2>1, <2>2
  <1>3. p \in Seq(Calls \cup {Rejoin}) /\ Once(p) /\ Once(commands')
        /\ \A c \in Elements(p) : c \in Calls /\ c \notin Uploads
    BY <1>1, <1>2, WithinFacts DEF Elements
  <1>4. settling' = Results(p, "ended") /\ "ended" \in Codes
    BY DEF Codes
  <1> HIDE DEF p
  <1>5. /\ settling' \in Seq(ResultMessages) /\ Len(settling') = Len(p)
        /\ ResultsIn(settling') = Elements(p)
        /\ Elements(settling') = {Result(c, "ended") : c \in Elements(p)}
        /\ OnceResults(settling')
    BY <1>3, <1>4, ResultsFacts
  <1>6. TypeOK'
    BY <1>2, <1>5 DEF Inv, TypeOK, uiVars, inboundVars, roomVars, historyVars
  <1>7. ControlOK'
    BY DEF Inv, ControlOK, uiVars, historyVars
  <1>8. KeepsCalls
    <2>1. ASSUME NEW c \in Calls PROVE Open(c)' = Open(c)
      BY <1>2, <1>5, EmptyQueue
         DEF Open, Count, HandCalls, SettlingCalls, TurnedCalls, uiVars, inboundVars
    <2> QED
      BY <2>1, OpenCount DEF KeepsCalls, MovesInside, uiVars, historyVars
  <1>9. QueuesOnce'
    BY <1>3, <1>5 DEF Inv, QueuesOnce, uiVars, inboundVars, historyVars
  <1>10. ReservationsExact'
    <2>1. Len(p) \in Nat /\ Len(commands') \in Nat
      BY <1>2
    <2>2. Owed' = Owed
      <3> DEFINE a == Count(latest # None)
                 b == Count(turnedAway # None)
      <3>1. Len(settling) = 0 /\ Len(settling') = Len(p) /\ Count(hand # None) = 0 /\ Count(hand' # None) = 0
        BY <1>5, EmptyQueue DEF Count
      <3>2. Owed = Len(commands) + a + Len(acks) + b + (0 + 0)
        BY <3>1 DEF Owed
      <3>3. Owed' = Len(commands') + a + Len(acks) + b + (0 + Len(p))
        <4>1. Count(latest' # None) = a /\ Count(turnedAway' # None) = b /\ wgen' = gen'
          BY DEF Count, uiVars
        <4>2. Owed' = Len(commands') + Count(latest' # None) + Len(acks') + Count(turnedAway' # None)
                      + (Count(hand' # None) + Len(settling'))
          BY <4>1 DEF Owed
        <4> QED
          BY <3>1, <4>1, <4>2
      <3>4. /\ a \in Nat /\ b \in Nat /\ Len(acks) \in Nat /\ Len(commands) \in Nat
            /\ Len(p) + Len(commands') = Len(commands)
        BY <1>2, OwedLengths DEF Inv
      <3> HIDE DEF a, b
      <3> QED
        BY <2>1, <3>2, <3>3, <3>4
    <2> QED
      BY <2>2 DEF Inv, ReservationsExact, Owed, uiVars, inboundVars
  <1>11. RoomForResults'
    BY DEF Inv, RoomForResults, inboundVars
  <1>12. SnapshotsOK'
    <2>1. Settled' = Settled \cup Elements(settling')
      BY EmptyQueue DEF Settled, uiVars, inboundVars, historyVars
    <2>2. \A m \in Elements(settling') : m.code = "ended" /\ m.call \in Calls /\ m.call \notin Uploads
      BY <1>3, <1>5 DEF Result
    <2>3. Sent' \cap Uploads \subseteq Sent
      BY <2>1, <2>2 DEF Sent
    <2>4. \A u \in Uploads : Result(u, "canceled") \in Settled' => Result(u, "canceled") \in Settled
      BY <2>1, <2>2 DEF Result
    <2> QED
      BY <2>3, <2>4, SnapshotsStay DEF Inv, uiVars, historyVars
  <1>13. RejoinApart'
    BY DEF Inv, RejoinApart, uiVars
  <1> QED
    BY <1>6, <1>7, <1>8, <1>9, <1>10, <1>11, <1>12, <1>13, KeptApart DEF Inv

LEMMA ExpireQueuedStep ==
    ASSUME Inv, NEW n \in 0..Len(commands), ExpireQueued(n) PROVE Inv' /\ KeepsCalls
  <1>1. hand = None /\ settling = <<>> /\ gen = cgen /\ wgen = gen /\ pc \in {"rejoin", "calls"}
    BY AtWork DEF ExpireQueued, Running
  <1>2. /\ settling' = Results(Chosen(commands, n, Transient), "ended")
        /\ commands' = NotChosen(commands, n, Transient) /\ pc' = "outgoing"
        /\ UNCHANGED <<uiVars, online, latest, inboundVars, roomVars, turnedAway, wgen, license, hand,
                       acks, historyVars>>
    BY DEF ExpireQueued
  <1> QED
    BY <1>1, <1>2, QueriesEnd

LEMMA FailQueriesStep == ASSUME Inv, FailQueries PROVE Inv' /\ KeepsCalls
  <1>1. hand = None /\ settling = <<>> /\ gen = cgen /\ wgen = gen /\ pc = "lost"
    BY AtWork DEF FailQueries, Running
  <1>2. Len(commands) \in 0..Len(commands)
    BY OwedLengths DEF Inv
  <1> QED
    BY <1>1, <1>2, QueriesEnd DEF FailQueries

\* Calls that were sent leave the acks with their results.
LEMMA AcksEnd ==
    ASSUME Inv, hand = None, settling = <<>>, wgen = gen,
           NEW q \in Seq(Calls \cup {Rejoin}), settling' = Results(q, "ended"),
           Once(q), Within(acks', acks), Len(acks') + Len(q) = Len(acks),
           Elements(acks) = Elements(acks') \cup Elements(q), Elements(acks') \cap Elements(q) = {},
           UNCHANGED <<uiVars, commands, latest, inboundVars, turnedAway, wgen, hand, historyVars>>,
           TypeOK', ControlOK'
    PROVE  Inv' /\ KeepsCalls
  <1>1. "ended" \in Codes
    BY DEF Codes
  <1>2. /\ Len(settling') = Len(q) /\ ResultsIn(settling') = Elements(q)
        /\ Elements(settling') = {Result(c, "ended") : c \in Elements(q)}
        /\ OnceResults(settling')
    BY <1>1, ResultsFacts
  <1>3. KeepsCalls
    <2>1. ASSUME NEW c \in Calls PROVE Open(c)' = Open(c)
      BY <1>2, EmptyQueue
         DEF Open, Count, HandCalls, SettlingCalls, TurnedCalls, uiVars, inboundVars
    <2> QED
      BY <2>1, OpenCount DEF KeepsCalls, MovesInside, uiVars, historyVars
  <1>4. QueuesOnce'
    BY <1>2, WithinFacts DEF Inv, QueuesOnce, uiVars, inboundVars, historyVars
  <1>5. ReservationsExact'
    <2>1. Len(q) \in Nat
      OBVIOUS
    <2>2. Len(acks') \in Nat
      BY DEF TypeOK
    <2>3. Owed' = Owed
      <3> DEFINE a == Count(latest # None)
                 b == Count(turnedAway # None)
      <3>1. Len(settling) = 0 /\ Len(settling') = Len(q) /\ Count(hand # None) = 0 /\ Count(hand' # None) = 0
        BY <1>2, EmptyQueue DEF Count
      <3>2. Owed = Len(commands) + a + Len(acks) + b + (0 + 0)
        BY <3>1 DEF Owed
      <3>3. Owed' = Len(commands) + a + Len(acks') + b + (0 + Len(q))
        <4>1. Count(latest' # None) = a /\ Count(turnedAway' # None) = b /\ wgen' = gen'
          BY DEF Count, uiVars
        <4>2. Owed' = Len(commands') + Count(latest' # None) + Len(acks') + Count(turnedAway' # None)
                      + (Count(hand' # None) + Len(settling'))
          BY <4>1 DEF Owed
        <4> QED
          BY <3>1, <4>1, <4>2
      <3>4. /\ a \in Nat /\ b \in Nat /\ Len(acks) \in Nat /\ Len(commands) \in Nat
            /\ Len(acks') + Len(q) = Len(acks)
        BY OwedLengths DEF Inv
      <3> HIDE DEF a, b
      <3> QED
        BY <2>1, <2>2, <3>2, <3>3, <3>4
    <2> QED
      BY <2>3 DEF Inv, ReservationsExact, Owed, uiVars, inboundVars
  <1>6. RoomForResults'
    BY DEF Inv, RoomForResults, inboundVars
  <1>7. SnapshotsOK'
    <2>1. Settled' = Settled \cup Elements(settling')
      BY EmptyQueue DEF Settled, uiVars, inboundVars, historyVars
    <2>2. \A m \in Elements(settling') : m.code = "ended" /\ m.call \in Elements(acks)
      BY <1>2 DEF Result
    <2>3. Sent' \subseteq Sent
      BY <2>1, <2>2 DEF Sent
    <2>4. \A u \in Uploads : Result(u, "canceled") \in Settled' => Result(u, "canceled") \in Settled
      BY <2>1, <2>2 DEF Result
    <2> QED
      BY <2>3, <2>4, SnapshotsStay DEF Inv, uiVars, historyVars
  <1>8. RejoinApart'
    <2>1. Once(acks')
      BY <1>4 DEF QueuesOnce
    <2> QED
      BY <2>1, CallsAssumption DEF RejoinApart, Once
  <1> QED
    BY <1>3, <1>4, <1>5, <1>6, <1>7, <1>8, KeptApart DEF Inv

LEMMA ExpireAcksStep ==
    ASSUME Inv, NEW n \in 0..Len(acks), ExpireAcks(n) PROVE Inv' /\ KeepsCalls
  <1> DEFINE q == SubSeq(acks, 1, n)
  <1>1. hand = None /\ settling = <<>> /\ gen = cgen /\ wgen = gen /\ pc = "outgoing" /\ ~stopping
    BY AtWork DEF ExpireAcks, Running
  <1>2. acks \in Seq(Calls \cup {Rejoin}) /\ Once(acks)
    BY DEF Inv, TypeOK, QueuesOnce
  <1>3. /\ q \in Seq(Calls \cup {Rejoin}) /\ Len(q) = n
        /\ SubSeq(acks, n + 1, Len(acks)) \in Seq(Calls \cup {Rejoin})
        /\ Len(SubSeq(acks, n + 1, Len(acks))) = Len(acks) - n
        /\ Within(q, acks) /\ Within(SubSeq(acks, n + 1, Len(acks)), acks)
        /\ Elements(acks) = Elements(q) \cup Elements(SubSeq(acks, n + 1, Len(acks)))
        /\ Elements(q) \cap Elements(SubSeq(acks, n + 1, Len(acks))) = {}
    BY <1>2, SplitFacts
  <1>4. settling' = Results(q, "ended") /\ acks' = SubSeq(acks, n + 1, Len(acks)) /\ pc' = "receive"
    BY DEF ExpireAcks
  <1>5. /\ UNCHANGED <<uiVars, online, queueVars, inboundVars, desired, tried, turnedAway, wgen, license, hand,
                       historyVars>>
        /\ {joinDue', joinSent'} \subseteq {FALSE, joinDue, joinSent}
    BY DEF ExpireAcks, SettleJoin
  <1> HIDE DEF q
  <1>6. Once(q) /\ Len(acks') + Len(q) = Len(acks)
    BY <1>2, <1>3, <1>4, WithinFacts, OwedLengths DEF Inv
  <1>7. settling' \in Seq(ResultMessages)
    BY <1>3, <1>4, ResultsFacts DEF Codes
  <1>8. TypeOK'
    BY <1>3, <1>4, <1>5, <1>7 DEF Inv, TypeOK, uiVars, queueVars, inboundVars, historyVars
  <1>9. ControlOK'
    BY <1>1, <1>4, <1>5 DEF Inv, ControlOK, uiVars, historyVars
  <1> QED
    BY <1>1, <1>3, <1>4, <1>5, <1>6, <1>8, <1>9, AcksEnd DEF queueVars

LEMMA OneResult ==
    ASSUME NEW c \in Calls \cup {Rejoin}, NEW code \in Codes
    PROVE  /\ <<c>> \in Seq(Calls \cup {Rejoin}) /\ Len(<<c>>) = 1 /\ Once(<<c>>)
           /\ Elements(<<c>>) = {c} /\ <<Result(c, code)>> = Results(<<c>>, code)
           /\ <<Result(c, code)>> \in Seq(ResultMessages) /\ Len(<<Result(c, code)>>) = 1
           /\ ResultsIn(<<Result(c, code)>>) = {c} /\ Elements(<<Result(c, code)>>) = {Result(c, code)}
           /\ OnceResults(<<Result(c, code)>>)
  <1>1. <<c>> \in Seq(Calls \cup {Rejoin}) /\ Len(<<c>>) = 1 /\ Once(<<c>>) /\ Elements(<<c>>) = {c}
    BY DEF Once, Elements
  <1>2. Results(<<c>>, code) = <<Result(c, code)>>
    BY DEF Results
  <1>3. /\ Results(<<c>>, code) \in Seq(ResultMessages) /\ Len(Results(<<c>>, code)) = Len(<<c>>)
        /\ ResultsIn(Results(<<c>>, code)) = Elements(<<c>>)
        /\ Elements(Results(<<c>>, code)) = {Result(d, code) : d \in Elements(<<c>>)}
        /\ OnceResults(Results(<<c>>, code))
    BY <1>1, ResultsFacts
  <1> QED
    BY <1>1, <1>2, <1>3

LEMMA AckOfOpen ==
    ASSUME Inv, NEW i \in DOMAIN acks, acks[i] \in Calls
    PROVE  Open(acks[i]) = 1 /\ ~New(acks[i])
  <1>1. acks[i] \in Elements(acks)
    BY DEF Elements
  <1>2. Open(acks[i]) >= 1
    BY <1>1 DEF Open, Count
  <1>3. Open(acks[i]) <= 1 /\ (Open(acks[i]) = 1 => ~New(acks[i]))
    BY OpenOnce DEF Inv
  <1> QED
    BY <1>2, <1>3, OpenCount

\* The place of a renaming in the order of the calls.
LEMMA SequenceType ==
    ASSUME Inv, NEW c \in Joins \cup Renames, ~New(c)
    PROVE  Sequence(c) \in Nat
  <1>1. \E i \in DOMAIN order : order[i] = c
    BY DEF Inv, ControlOK, Elements, New
  <1>2. DOMAIN order \subseteq Nat
    BY DEF Inv, TypeOK
  <1>3. (CHOOSE i \in DOMAIN order : order[i] = c) \in DOMAIN order
    BY <1>1
  <1> QED
    BY <1>2, <1>3 DEF Sequence

\* An acknowledged renaming stays at hand until its name is remembered.
LEMMA RenameAtHand ==
    ASSUME Inv, NEW i \in DOMAIN acks, acks[i] \in Renames, hand = None, settling = <<>>,
           wgen = gen, acks' = Removed(acks, i), hand' = acks[i],
           UNCHANGED <<uiVars, commands, latest, inboundVars, turnedAway, wgen, settling, historyVars>>,
           TypeOK', ControlOK'
    PROVE  Inv' /\ KeepsCalls
  <1>1. /\ Len(acks') = Len(acks) - 1 /\ Within(acks', acks)
        /\ Elements(acks) = Elements(acks') \cup {hand'}
        /\ hand' \notin Elements(acks')
    BY RemovedFacts DEF Inv, TypeOK, QueuesOnce
  <1>2. hand' \in Calls /\ hand' \notin Uploads /\ hand' # Rejoin /\ hand' # None
    BY KindsAssumption, CallsAssumption DEF Calls
  <1>3. KeepsCalls
    <2>1. ASSUME NEW c \in Calls PROVE Open(c)' = Open(c)
      BY <1>1, <1>2, CallsAssumption
         DEF Open, Count, HandCalls, SettlingCalls, TurnedCalls, uiVars, inboundVars
    <2> QED
      BY <2>1, OpenCount DEF KeepsCalls, MovesInside, uiVars, historyVars
  <1>4. QueuesOnce'
    BY <1>1, WithinFacts DEF Inv, QueuesOnce, uiVars, inboundVars, historyVars
  <1>5. ReservationsExact'
    <2>1. Owed' = Owed
      <3>1. /\ Count(hand # None) = 0 /\ Count(hand' # None) = 1 /\ wgen' = gen' /\ commands' = commands
            /\ Count(latest' # None) = Count(latest # None)
            /\ Count(turnedAway' # None) = Count(turnedAway # None)
            /\ Len(settling) = 0 /\ Len(settling') = 0
        BY <1>2, EmptyQueue DEF Count, uiVars
      <3>2. Owed = Len(commands) + Count(latest # None) + Len(acks) + Count(turnedAway # None) + (0 + 0)
        BY <3>1 DEF Owed
      <3>3. Owed' = Len(commands) + Count(latest # None) + (Len(acks) - 1) + Count(turnedAway # None) + (1 + 0)
        BY <1>1, <3>1 DEF Owed
      <3> QED
        BY <3>2, <3>3, OwedLengths DEF Inv
    <2> QED
      BY <2>1 DEF Inv, ReservationsExact, Owed, uiVars, inboundVars
  <1>6. RoomForResults'
    BY DEF Inv, RoomForResults, inboundVars
  <1>7. SnapshotsOK'
    <2>1. Settled' = Settled
      BY DEF Settled, uiVars, inboundVars, historyVars
    <2>2. Sent' \subseteq Sent
      BY <1>1, <2>1 DEF Sent
    <2> QED
      BY <1>2, <2>1, <2>2, SnapshotsStay DEF Inv, historyVars
  <1>8. RejoinApart'
    BY <1>1, <1>2, <1>4, CallsAssumption DEF QueuesOnce, RejoinApart, Once
  <1> QED
    BY <1>3, <1>4, <1>5, <1>6, <1>7, <1>8, KeptApart DEF Inv

LEMMA ReceiveAckStep ==
    ASSUME Inv, NEW i \in DOMAIN acks, NEW ok \in BOOLEAN, ReceiveAck(i, ok) PROVE Inv' /\ KeepsCalls
  <1> DEFINE q == <<acks[i]>>
  <1>1. hand = None /\ settling = <<>> /\ gen = cgen /\ wgen = gen /\ pc = "receive" /\ ~stopping
    BY AtWork DEF ReceiveAck, Running
  <1>2. acks \in Seq(Calls \cup {Rejoin}) /\ Once(acks) /\ acks[i] \in Calls \cup {Rejoin}
    BY DEF Inv, TypeOK, QueuesOnce
  <1>3. /\ Removed(acks, i) \in Seq(Calls \cup {Rejoin}) /\ Len(Removed(acks, i)) = Len(acks) - 1
        /\ Within(Removed(acks, i), acks)
        /\ Elements(acks) = Elements(Removed(acks, i)) \cup {acks[i]}
        /\ acks[i] \notin Elements(Removed(acks, i))
    BY <1>2, RemovedFacts
  <1>4. /\ q \in Seq(Calls \cup {Rejoin}) /\ Len(q) = 1 /\ Once(q) /\ Elements(q) = {acks[i]}
        /\ <<Result(acks[i], "ended")>> = Results(q, "ended")
        /\ <<Result(acks[i], "ended")>> \in Seq(ResultMessages)
    BY <1>2, OneResult DEF Codes
  <1>5. acks' = Removed(acks, i)
    BY DEF ReceiveAck
  <1>6. /\ UNCHANGED <<uiVars, online, queueVars, inboundVars, desired, tried, turnedAway, wgen, license,
                       historyVars>>
        /\ {joinDue', joinSent'} \subseteq {FALSE, joinDue, joinSent}
    BY DEF ReceiveAck, SettleJoin
  <1> HIDE DEF q
  <1>7. CASE ok /\ acks[i] \in Renames
    <2>1. hand' = acks[i] /\ pc' = "rename" /\ settling' = settling
      BY <1>7 DEF ReceiveAck
    <2>2. TypeOK'
      BY <1>2, <1>3, <1>5, <1>6, <2>1 DEF Inv, TypeOK, uiVars, queueVars, inboundVars, historyVars
    <2>3. hand' # None
      BY <1>7, <2>1, CallsAssumption DEF Calls
    <2>4. ControlOK'
      BY <1>1, <1>6, <1>7, <2>1, <2>3 DEF Inv, ControlOK, uiVars, historyVars
    <2> QED
      BY <1>1, <1>5, <1>6, <1>7, <2>1, <2>2, <2>4, RenameAtHand DEF queueVars
  <1>8. CASE ~(ok /\ acks[i] \in Renames)
    <2>1. settling' = <<Result(acks[i], "ended")>> /\ pc' = "rejoin" /\ hand' = hand
      BY <1>8 DEF ReceiveAck
    <2>2. TypeOK'
      BY <1>3, <1>4, <1>5, <1>6, <2>1 DEF Inv, TypeOK, uiVars, queueVars, inboundVars, historyVars
    <2>3. ControlOK'
      BY <1>1, <1>6, <2>1 DEF Inv, ControlOK, uiVars, historyVars
    <2>4. Len(acks') + Len(q) = Len(acks)
      BY <1>3, <1>4, <1>5, OwedLengths DEF Inv
    <2> QED
      BY <1>1, <1>3, <1>4, <1>5, <1>6, <2>1, <2>2, <2>3, <2>4, AcksEnd DEF queueVars
  <1> QED
    BY <1>7, <1>8

LEMMA FailAcksStep == ASSUME Inv, FailAcks PROVE Inv' /\ KeepsCalls
  <1>1. hand = None /\ settling = <<>> /\ pc = "failing"
    BY AtWork DEF FailAcks
  <1>2. /\ UNCHANGED <<uiVars, online, queueVars, inboundVars, desired, tried, turnedAway, wgen, license, hand,
                       historyVars>>
        /\ pc' = "offline"
    BY DEF FailAcks
  <1>3. CASE gen # wgen
    <2>1. UNCHANGED <<settling, acks, joinDue, joinSent>>
      BY <1>3 DEF FailAcks
    <2>2. TypeOK' /\ ControlOK'
      BY <1>1, <1>2, <2>1 DEF Inv, TypeOK, ControlOK, uiVars, queueVars, inboundVars, historyVars
    <2>3. ControlFrame
      BY <1>2, <2>1 DEF ControlFrame, uiVars, queueVars
    <2> QED
      BY <2>2, <2>3, ControlFrameStep
  <1>4. CASE gen = wgen
    <2>1. settling' = Results(acks, "ended") /\ acks' = <<>> /\ joinSent' = FALSE
      BY <1>4 DEF FailAcks
    <2>2. joinDue' \in BOOLEAN
      BY <1>4 DEF FailAcks
    <2>3. acks \in Seq(Calls \cup {Rejoin}) /\ Once(acks) /\ Len(acks) \in Nat
      BY DEF Inv, TypeOK, QueuesOnce
    <2>4. settling' \in Seq(ResultMessages)
      BY <2>1, <2>3, ResultsFacts DEF Codes
    <2>5. /\ acks' \in Seq(Calls \cup {Rejoin}) /\ Elements(acks') = {} /\ Len(acks') + Len(acks) = Len(acks)
      BY <2>1, <2>3, EmptyQueue
    <2>6. Within(acks', acks)
      <3>1. DOMAIN acks' = {}
        BY <2>1
      <3>2. <<>> \in [DOMAIN acks' -> DOMAIN acks]
        BY <3>1
      <3> QED
        BY <3>1, <3>2 DEF Within
    <2>7. TypeOK'
      BY <1>2, <2>1, <2>2, <2>4, <2>5 DEF Inv, TypeOK, uiVars, queueVars, inboundVars, historyVars
    <2>8. ControlOK'
      BY <1>1, <1>2, <1>4 DEF Inv, ControlOK, uiVars, historyVars
    <2> QED
      BY <1>1, <1>2, <1>4, <2>1, <2>3, <2>5, <2>6, <2>7, <2>8, AcksEnd DEF queueVars
  <1> QED
    BY <1>3, <1>4

\* A call at hand of the present generation is in no other place.
LEMMA HandOpen ==
    ASSUME Inv, wgen = gen, hand \in Calls
    PROVE  /\ hand \notin Elements(commands) /\ hand # latest /\ hand \notin Elements(acks)
           /\ hand \notin ResultsIn(settling) /\ hand \notin TurnedCalls
           /\ hand \notin ResultsIn(inbound) /\ ~New(hand)
  <1>1. Open(hand) <= 1 /\ (Open(hand) = 1 => ~New(hand))
    BY OpenOnce DEF Inv
  <1>2. Open(hand) >= 1 /\ hand \in HandCalls
    BY DEF Open, Count, HandCalls
  <1>3. ~New(hand)
    BY <1>1, <1>2, OpenCount
  <1> HIDE DEF New
  <1> QED
    BY <1>1, <1>2, <1>3 DEF Open, Count, SettlingCalls

LEMMA SendStep == ASSUME Inv, Send PROVE Inv' /\ KeepsCalls
  <1>1. hand # None /\ settling = <<>> /\ gen = cgen /\ wgen = gen /\ pc = "send" /\ ~stopping
    BY AtWork DEF Send, Running
  <1>2. /\ acks' = Append(acks, hand) /\ hand' = None /\ pc' \in {"calls", "outgoing"}
        /\ UNCHANGED <<uiVars, online, queueVars, inboundVars, desired, joinDue, turnedAway, wgen,
                       license, settling, historyVars>>
    BY DEF Send, AfterSend
  <1>3. joinSent' \in BOOLEAN /\ tried' \in BOOLEAN
    BY DEF Send, Inv, TypeOK
  <1>4. hand \in Calls \cup {Rejoin} /\ acks \in Seq(Calls \cup {Rejoin}) /\ Once(acks)
    BY <1>1 DEF Inv, TypeOK, QueuesOnce
  <1>5. hand \notin Elements(acks)
    BY <1>1, <1>4, HandOpen DEF Inv, RejoinApart
  <1>6. /\ acks' \in Seq(Calls \cup {Rejoin}) /\ Len(acks') = Len(acks) + 1
        /\ Elements(acks') = Elements(acks) \cup {hand} /\ Once(acks')
    BY <1>2, <1>4, <1>5, AppendFacts
  <1>7. TypeOK'
    BY <1>2, <1>3, <1>6 DEF Inv, TypeOK, uiVars, queueVars, inboundVars, historyVars
  <1>8. ControlOK'
    BY <1>1, <1>2 DEF Inv, ControlOK, uiVars, historyVars
  <1>9. KeepsCalls
    <2>1. ASSUME NEW c \in Calls PROVE Open(c)' = Open(c)
      BY <1>1, <1>2, <1>5, <1>6, CallsAssumption
         DEF Open, Count, HandCalls, SettlingCalls, TurnedCalls, uiVars, queueVars, inboundVars
    <2> QED
      BY <1>2, <2>1, OpenCount DEF KeepsCalls, MovesInside, uiVars, historyVars
  <1>10. QueuesOnce'
    BY <1>2, <1>6 DEF Inv, QueuesOnce, uiVars, queueVars, inboundVars, historyVars
  <1>11. ReservationsExact'
    <2>1. Owed' = Owed
      <3>1. /\ Count(hand # None) = 1 /\ Count(hand' # None) = 0 /\ wgen' = gen' /\ commands' = commands
            /\ Count(latest' # None) = Count(latest # None)
            /\ Count(turnedAway' # None) = Count(turnedAway # None) /\ settling' = settling
        BY <1>1, <1>2 DEF Count, uiVars, queueVars
      <3>2. Owed = Len(commands) + Count(latest # None) + Len(acks) + Count(turnedAway # None) + (1 + 0)
        BY <1>1, <3>1, EmptyQueue DEF Owed
      <3>3. Owed' = Len(commands) + Count(latest # None) + (Len(acks) + 1) + Count(turnedAway # None) + (0 + 0)
        BY <1>1, <1>6, <3>1, EmptyQueue DEF Owed
      <3> QED
        BY <3>2, <3>3, OwedLengths DEF Inv
    <2> QED
      BY <1>1, <1>2, <2>1 DEF Inv, ReservationsExact, Owed, uiVars, inboundVars
  <1>12. RoomForResults'
    BY <1>2 DEF Inv, RoomForResults, inboundVars
  <1>13. SnapshotsOK'
    <2>1. Settled' = Settled
      BY <1>2 DEF Settled, uiVars, inboundVars, historyVars
    <2>2. Sent' = Sent \cup {hand}
      BY <1>6, <2>1 DEF Sent
    <2>3. ASSUME NEW u \in Uploads, NEW v \in Uploads, u < v, v \in Sent'
          PROVE  u # latest' /\ u # hand'
      <3>1. u # hand' /\ latest' = latest /\ u # None
        BY <1>2, CallsAssumption DEF Calls, queueVars
      <3>2. CASE v \in Sent
        BY <2>3, <3>1, <3>2 DEF Inv, SnapshotsOK, UploadsInOrder
      <3>3. CASE v = hand
        BY <1>1, <2>3, <3>1, <3>3, CallsAssumption DEF Inv, SnapshotsOK
      <3> QED
        BY <2>2, <2>3, <3>2, <3>3
    <2>4. UploadsInOrder'
      BY <2>3 DEF UploadsInOrder
    <2> QED
      BY <1>2, <2>1, <2>4, CallsAssumption
         DEF Inv, SnapshotsOK, NewestSnapshotKept, New, Calls, historyVars
  <1>14. RejoinApart'
    BY <1>2, <1>6, CallsAssumption DEF RejoinApart, Once
  <1> QED
    BY <1>7, <1>8, <1>9, <1>10, <1>11, <1>12, <1>13, <1>14, KeptApart DEF Inv

\* The call at hand ends: its result is the only one to notify.
LEMMA HandEnds ==
    ASSUME Inv, hand # None, settling = <<>>, NEW code \in {"ended", "refused"},
           code = "ended" => hand \notin Uploads,
           hand' = None, settling' = <<Result(hand, code)>>,
           UNCHANGED <<uiVars, online, queueVars, inboundVars, turnedAway, wgen, license, acks,
                       historyVars>>,
           TypeOK', ControlOK'
    PROVE  Inv' /\ KeepsCalls
  <1>1. hand \in Calls \cup {Rejoin} /\ code \in Codes
    BY DEF Inv, TypeOK, Codes
  <1>2. /\ Len(settling') = 1 /\ ResultsIn(settling') = {hand} /\ Elements(settling') = {Result(hand, code)}
        /\ OnceResults(settling')
    BY <1>1, OneResult
  <1>3. KeepsCalls
    <2>1. ASSUME NEW c \in Calls PROVE Open(c)' = Open(c)
      BY <1>2, EmptyQueue, CallsAssumption
         DEF Open, Count, HandCalls, SettlingCalls, TurnedCalls, uiVars, queueVars, inboundVars
    <2> QED
      BY <2>1, OpenCount DEF KeepsCalls, MovesInside, uiVars, historyVars
  <1>4. QueuesOnce'
    BY <1>2 DEF Inv, QueuesOnce, uiVars, queueVars, inboundVars, historyVars
  <1>5. ReservationsExact'
    <2>1. Owed' = Owed
      BY <1>2, OwedLengths, EmptyQueue DEF Inv, Owed, Count, uiVars, queueVars
    <2> QED
      BY <2>1 DEF Inv, ReservationsExact, Owed, uiVars, inboundVars
  <1>6. RoomForResults'
    BY DEF Inv, RoomForResults, inboundVars
  <1>7. SnapshotsOK'
    <2>1. Settled' \subseteq Settled \cup {Result(hand, code)}
      BY <1>2, EmptyQueue DEF Settled, uiVars, inboundVars, historyVars
    <2>2. Sent' \cap Uploads \subseteq Sent
      BY <2>1 DEF Sent, Result
    <2>3. \A u \in Uploads : Result(u, "canceled") \in Settled' => Result(u, "canceled") \in Settled
      BY <2>1 DEF Result
    <2> QED
      BY <2>2, <2>3, SnapshotsStay, CallsAssumption DEF Inv, Calls, queueVars, historyVars
  <1>8. RejoinApart'
    BY CallsAssumption DEF Inv, RejoinApart
  <1> QED
    BY <1>3, <1>4, <1>5, <1>6, <1>7, <1>8, KeptApart DEF Inv

LEMMA SendRefusedStep == ASSUME Inv, SendRefused PROVE Inv' /\ KeepsCalls
  <1>1. hand # None /\ settling = <<>> /\ gen = cgen /\ wgen = gen /\ pc = "send" /\ ~stopping
    BY AtWork DEF SendRefused, Running
  <1>2. /\ settling' = <<Result(hand, "refused")>> /\ hand' = None /\ pc' \in {"calls", "outgoing"}
        /\ UNCHANGED <<uiVars, online, queueVars, inboundVars, roomVars, turnedAway, wgen, license, acks,
                       historyVars>>
    BY DEF SendRefused, AfterSend
  <1>3. settling' \in Seq(ResultMessages)
    BY <1>1, <1>2, OneResult DEF Inv, TypeOK, Codes
  <1>4. TypeOK'
    BY <1>2, <1>3 DEF Inv, TypeOK, uiVars, queueVars, inboundVars, roomVars, historyVars
  <1>5. ControlOK'
    BY <1>1, <1>2 DEF Inv, ControlOK, uiVars, historyVars
  <1> QED
    BY <1>1, <1>2, <1>4, <1>5, HandEnds

LEMMA CommitRenameStep == ASSUME Inv, CommitRename PROVE Inv' /\ KeepsCalls
  <1>1. hand # None /\ settling = <<>> /\ pc = "rename" /\ hand \in Renames
    BY AtWork DEF CommitRename, Inv, ControlOK
  <1>2. /\ settling' = <<Result(hand, "ended")>> /\ hand' = None /\ pc' = "rejoin"
        /\ UNCHANGED <<uiVars, online, queueVars, inboundVars, joinDue, joinSent, tried, turnedAway, wgen,
                       license, acks, historyVars>>
    BY DEF CommitRename
  <1>3. hand \in Calls /\ hand \notin Uploads
    BY <1>1, KindsAssumption DEF Calls
  <1>4. settling' \in Seq(ResultMessages)
    BY <1>2, <1>3, OneResult DEF Codes
  <1>5. desired' \in {None} \cup [join : Joins, name : Joins \cup Renames, seq : Nat]
    <2>1. desired \in {None} \cup [join : Joins, name : Joins \cup Renames, seq : Nat]
      BY DEF Inv, TypeOK
    <2>2. CASE desired' = desired
      BY <2>1, <2>2
    <2>3. CASE /\ gen = wgen /\ desired # None
               /\ desired' = [desired EXCEPT !.name = hand, !.seq = Sequence(hand)]
      <3>1. Sequence(hand) \in Nat
        BY <1>1, <1>3, <2>3, HandOpen, SequenceType
      <3> QED
        BY <1>1, <2>1, <2>3, <3>1
    <2> QED
      BY <2>2, <2>3 DEF CommitRename, RememberName
  <1>6. TypeOK'
    BY <1>2, <1>4, <1>5 DEF Inv, TypeOK, uiVars, queueVars, inboundVars, historyVars
  <1>7. ControlOK'
    BY <1>1, <1>2 DEF Inv, ControlOK, uiVars, historyVars
  <1> QED
    BY <1>1, <1>2, <1>3, <1>6, <1>7, HandEnds

\* The call at hand is dropped with the configuration it belongs to.
LEMMA HandDropped ==
    ASSUME Inv, gen # cgen \/ wgen # gen, hand' = None,
           UNCHANGED <<uiVars, online, queueVars, inboundVars, roomVars, turnedAway, wgen, license, acks,
                       settling, historyVars>>,
           TypeOK', ControlOK'
    PROVE  Inv' /\ KeepsCalls
  <1>1. KeepsCalls
    <2>1. ASSUME NEW c \in Calls PROVE Open(c)' <= Open(c) /\ (gen = cgen => Open(c)' = Open(c))
      BY CallsAssumption DEF Open, Count, HandCalls, SettlingCalls, TurnedCalls, uiVars, queueVars, inboundVars
    <2> QED
      BY <2>1, OpenCount DEF KeepsCalls, MovesInside, uiVars, historyVars
  <1>2. QueuesOnce'
    BY DEF Inv, QueuesOnce, uiVars, queueVars, inboundVars, historyVars
  <1>3. ReservationsExact'
    BY DEF Inv, ReservationsExact, Count, uiVars, queueVars, inboundVars
  <1>4. RoomForResults'
    BY DEF Inv, RoomForResults, inboundVars
  <1>5. SnapshotsOK'
    <2>1. Settled' = Settled
      BY DEF Settled, uiVars, inboundVars, historyVars
    <2>2. Sent' = Sent
      BY <2>1 DEF Sent
    <2> QED
      BY <2>1, <2>2, SnapshotsStay, CallsAssumption DEF Inv, Calls, queueVars, historyVars
  <1>6. RejoinApart'
    BY CallsAssumption DEF Inv, RejoinApart
  <1> QED
    BY <1>1, <1>2, <1>3, <1>4, <1>5, <1>6, KeptApart DEF Inv

LEMMA EndRegistrationStep == ASSUME Inv, EndRegistration PROVE Inv' /\ KeepsCalls
  <1>1. hand # None /\ settling = <<>> /\ pc \in {"register", "reregister"} /\ hand \in Registrations
    BY DEF EndRegistration, Inv, ControlOK
  <1>2. /\ settling' = (IF Aborting THEN <<>> ELSE <<Result(hand, "ended")>>) /\ hand' = None
        /\ pc' \in {"top", "calls"}
        /\ UNCHANGED <<uiVars, online, queueVars, inboundVars, roomVars, turnedAway, wgen, license, acks,
                       historyVars>>
    BY DEF EndRegistration
  <1>3. hand \notin Uploads
    BY <1>1, KindsAssumption
  <1>4. settling' \in Seq(ResultMessages)
    BY <1>1, <1>2, OneResult DEF Inv, TypeOK, Codes
  <1>5. TypeOK'
    BY <1>2, <1>4 DEF Inv, TypeOK, uiVars, queueVars, inboundVars, roomVars, historyVars
  <1>6. ControlOK'
    BY <1>1, <1>2 DEF Inv, ControlOK, uiVars, historyVars
  <1>7. CASE Aborting
    <2>1. gen # cgen \/ wgen # gen
      BY <1>7 DEF Aborting, Inv, ControlOK
    <2> QED
      BY <1>1, <1>2, <1>5, <1>6, <1>7, <2>1, HandDropped
  <1>8. CASE ~Aborting
    BY <1>1, <1>2, <1>3, <1>5, <1>6, <1>8, HandEnds
  <1> QED
    BY <1>7, <1>8

\* A call whose transmission failed goes back in front of the queue.
LEMMA CommandBack ==
    ASSUME Inv, settling = <<>>, wgen = gen, hand \in Calls \ Uploads, hand' = None,
           commands' = <<hand>> \o commands, TypeOK', ControlOK',
           UNCHANGED <<uiVars, online, latest, inboundVars, roomVars, turnedAway, wgen, license, acks,
                       settling, historyVars>>
    PROVE  Inv' /\ KeepsCalls
  <1>1. commands \in Seq(Calls \ Uploads) /\ Once(commands) /\ hand # None
    BY CallsAssumption DEF Inv, TypeOK, QueuesOnce
  <1>2. hand \notin Elements(commands)
    BY HandOpen
  <1>3. /\ Len(commands') = Len(commands) + 1 /\ Elements(commands') = Elements(commands) \cup {hand}
        /\ Once(commands')
    BY <1>1, <1>2, ConsFacts
  <1>4. KeepsCalls
    <2>1. ASSUME NEW c \in Calls PROVE Open(c)' = Open(c)
      BY <1>2, <1>3, CallsAssumption
         DEF Open, Count, HandCalls, SettlingCalls, TurnedCalls, uiVars, inboundVars
    <2> QED
      BY <2>1, OpenCount DEF KeepsCalls, MovesInside, uiVars, historyVars
  <1>5. QueuesOnce'
    BY <1>3 DEF Inv, QueuesOnce, uiVars, inboundVars, historyVars
  <1>6. ReservationsExact'
    <2>1. Owed' = Owed
      <3>1. /\ Count(hand # None) = 1 /\ Count(hand' # None) = 0 /\ wgen' = gen' /\ acks' = acks
            /\ Count(latest' # None) = Count(latest # None)
            /\ Count(turnedAway' # None) = Count(turnedAway # None) /\ settling' = settling
        BY <1>1 DEF Count, uiVars
      <3>2. Owed = Len(commands) + Count(latest # None) + Len(acks) + Count(turnedAway # None) + (1 + 0)
        BY <3>1, EmptyQueue DEF Owed
      <3>3. Owed' = (Len(commands) + 1) + Count(latest # None) + Len(acks) + Count(turnedAway # None) + (0 + 0)
        BY <1>3, <3>1, EmptyQueue DEF Owed
      <3> QED
        BY <3>2, <3>3, OwedLengths DEF Inv
    <2> QED
      BY <2>1 DEF Inv, ReservationsExact, Owed, uiVars, inboundVars
  <1>7. RoomForResults'
    BY DEF Inv, RoomForResults, inboundVars
  <1>8. SnapshotsOK'
    <2>1. Settled' = Settled
      BY DEF Settled, uiVars, inboundVars, historyVars
    <2>2. Sent' = Sent
      BY <2>1 DEF Sent
    <2> QED
      BY <2>1, <2>2, SnapshotsStay, CallsAssumption DEF Inv, Calls, historyVars
  <1>9. RejoinApart'
    BY CallsAssumption DEF Inv, RejoinApart
  <1> QED
    BY <1>4, <1>5, <1>6, <1>7, <1>8, <1>9, KeptApart DEF Inv

\* A snapshot whose transmission failed waits again.
LEMMA SnapshotBack ==
    ASSUME Inv, settling = <<>>, wgen = gen, hand \in Uploads, hand' = None,
           latest = None, latest' = hand, TypeOK', ControlOK',
           UNCHANGED <<uiVars, online, commands, inboundVars, roomVars, turnedAway, wgen, license, acks,
                       settling, historyVars>>
    PROVE  Inv' /\ KeepsCalls
  <1>1. hand # None /\ hand \in Calls
    BY CallsAssumption DEF Calls
  <1>2. KeepsCalls
    <2>1. ASSUME NEW c \in Calls PROVE Open(c)' = Open(c)
      BY CallsAssumption
         DEF Open, Count, HandCalls, SettlingCalls, TurnedCalls, uiVars, inboundVars
    <2> QED
      BY <2>1, OpenCount DEF KeepsCalls, MovesInside, uiVars, historyVars
  <1>3. QueuesOnce'
    BY DEF Inv, QueuesOnce, uiVars, inboundVars, historyVars
  <1>4. ReservationsExact'
    <2>1. Owed' = Owed
      BY <1>1, OwedLengths, EmptyQueue DEF Inv, Owed, Count, uiVars
    <2> QED
      BY <2>1 DEF Inv, ReservationsExact, Owed, uiVars, inboundVars
  <1>5. RoomForResults'
    BY DEF Inv, RoomForResults, inboundVars
  <1>6. SnapshotsOK'
    <2>1. Settled' = Settled
      BY DEF Settled, uiVars, inboundVars, historyVars
    <2>2. Sent' = Sent
      BY <2>1 DEF Sent
    <2>3. UploadsInOrder'
      BY <2>2, CallsAssumption DEF Inv, SnapshotsOK, UploadsInOrder, Calls
    <2> QED
      BY <2>1, <2>3, CallsAssumption
         DEF Inv, SnapshotsOK, NewestSnapshotKept, New, Calls, historyVars
  <1>7. RejoinApart'
    BY CallsAssumption DEF Inv, RejoinApart
  <1> QED
    BY <1>2, <1>3, <1>4, <1>5, <1>6, <1>7, KeptApart DEF Inv

\* A snapshot whose transmission failed gives way to the one that waits.
LEMMA SnapshotSuperseded ==
    ASSUME Inv, settling = <<>>, wgen = gen, hand \in Uploads, hand' = None,
           latest # None, settling' = <<Result(hand, "canceled")>>, TypeOK', ControlOK',
           UNCHANGED <<uiVars, online, queueVars, inboundVars, roomVars, turnedAway, wgen, license, acks,
                       historyVars>>
    PROVE  Inv' /\ KeepsCalls
  <1>1. hand # None /\ hand \in Calls /\ "canceled" \in Codes
    BY CallsAssumption DEF Calls, Codes
  <1>2. /\ Len(settling') = 1 /\ ResultsIn(settling') = {hand}
        /\ Elements(settling') = {Result(hand, "canceled")} /\ OnceResults(settling')
    BY <1>1, OneResult
  <1>3. KeepsCalls
    <2>1. ASSUME NEW c \in Calls PROVE Open(c)' = Open(c)
      BY <1>2, EmptyQueue, CallsAssumption
         DEF Open, Count, HandCalls, SettlingCalls, TurnedCalls, uiVars, queueVars, inboundVars
    <2> QED
      BY <2>1, OpenCount DEF KeepsCalls, MovesInside, uiVars, historyVars
  <1>4. QueuesOnce'
    BY <1>2 DEF Inv, QueuesOnce, uiVars, queueVars, inboundVars, historyVars
  <1>5. ReservationsExact'
    <2>1. Owed' = Owed
      BY <1>1, <1>2, OwedLengths, EmptyQueue DEF Inv, Owed, Count, uiVars, queueVars
    <2> QED
      BY <2>1 DEF Inv, ReservationsExact, Owed, uiVars, inboundVars
  <1>6. RoomForResults'
    BY DEF Inv, RoomForResults, inboundVars
  <1>7. SnapshotsOK'
    <2>1. Settled' = Settled \cup {Result(hand, "canceled")}
      BY <1>2, EmptyQueue DEF Settled, uiVars, inboundVars, historyVars
    <2>2. Sent' = Sent
      BY <2>1 DEF Sent, Result
    <2>3. UploadsInOrder'
      BY <2>2, CallsAssumption DEF Inv, SnapshotsOK, UploadsInOrder, Calls, queueVars
    <2>4. latest \in Uploads /\ hand < latest
      BY DEF Inv, TypeOK, SnapshotsOK
    <2>5. ~New(latest)
      <3>1. Open(latest) >= 1 /\ latest \in Calls
        BY <2>4 DEF Open, Count, Calls
      <3> QED
        BY <3>1, OpenOnce, OpenCount DEF Inv
    <2>6. NewestSnapshotKept'
      <3> SUFFICES ASSUME NEW u \in Uploads, Result(u, "canceled") \in Settled'
                   PROVE  \E v \in Uploads : v > u /\ ~New(v)
        BY DEF NewestSnapshotKept, New, historyVars
      <3>1. CASE Result(u, "canceled") \in Settled
        BY <3>1 DEF Inv, SnapshotsOK, NewestSnapshotKept
      <3>2. CASE Result(u, "canceled") = Result(hand, "canceled")
        <4>1. u = hand
          BY <3>2 DEF Result
        <4> QED
          BY <4>1, <2>4, <2>5, CallsAssumption
      <3> QED
        BY <2>1, <3>1, <3>2
    <2> QED
      BY <2>3, <2>6, CallsAssumption DEF Inv, SnapshotsOK, New, Calls, queueVars, historyVars
  <1>8. RejoinApart'
    BY CallsAssumption DEF Inv, RejoinApart
  <1> QED
    BY <1>3, <1>4, <1>5, <1>6, <1>7, <1>8, KeptApart DEF Inv

\* A rejoin whose transmission failed gives its reservation back.
LEMMA RejoinBack ==
    ASSUME Inv, settling = <<>>, wgen = gen, hand = Rejoin, hand' = None,
           reserved' = Released(1), TypeOK', ControlOK',
           UNCHANGED <<uiVars, online, queueVars, inbound, queued, roomVars, turnedAway, wgen, license,
                       acks, settling, historyVars>>
    PROVE  Inv' /\ KeepsCalls
  <1>1. KeepsCalls
    <2>1. ASSUME NEW c \in Calls PROVE Open(c)' = Open(c)
      BY CallsAssumption
         DEF Open, Count, HandCalls, SettlingCalls, TurnedCalls, uiVars, queueVars
    <2> QED
      BY <2>1, OpenCount DEF KeepsCalls, MovesInside, uiVars, historyVars
  <1>2. QueuesOnce'
    BY DEF Inv, QueuesOnce, uiVars, queueVars, historyVars
  <1>3. reserved \in Nat /\ reserved' <= reserved /\ (reserved > 0 => reserved' = reserved - 1)
    BY OwedLengths DEF Inv, Released
  <1>4. ReservationsExact'
    <2>1. Owed = Owed' + 1 /\ Owed' \in Nat
      <3>1. /\ Count(hand # None) = 1 /\ Count(hand' # None) = 0 /\ wgen' = gen' /\ acks' = acks
            /\ Count(latest' # None) = Count(latest # None) /\ commands' = commands
            /\ Count(turnedAway' # None) = Count(turnedAway # None) /\ settling' = settling
        BY CallsAssumption DEF Count, uiVars, queueVars
      <3>2. Owed = Len(commands) + Count(latest # None) + Len(acks) + Count(turnedAway # None) + (1 + 0)
        BY <3>1, EmptyQueue DEF Owed
      <3>3. Owed' = Len(commands) + Count(latest # None) + Len(acks) + Count(turnedAway # None) + (0 + 0)
        BY <3>1, EmptyQueue DEF Owed
      <3> QED
        BY <3>2, <3>3, OwedLengths DEF Inv
    <2>2. gen = cgen => reserved = Owed
      BY DEF Inv, ReservationsExact, Owed
    <2>3. gen = cgen => reserved' = Owed'
      <3>1. \E k \in Nat : Owed' = k /\ Owed = k + 1
        BY <2>1
      <3>2. PICK k \in Nat : Owed' = k /\ Owed = k + 1
        BY <3>1
      <3>3. gen = cgen => reserved = k + 1
        BY <2>2, <3>2
      <3>4. gen = cgen => reserved' = k
        BY <1>3, <3>3
      <3> QED
        BY <3>2, <3>4
    <2> QED
      BY <2>3 DEF ReservationsExact, Owed, uiVars
  <1>5. RoomForResults'
    <2>1. Len(inbound) \in Nat /\ queued \in Nat /\ reserved' \in Nat
      BY DEF Inv, TypeOK
    <2> QED
      BY <1>3, <2>1, SizesAssumption DEF Inv, RoomForResults
  <1>6. SnapshotsOK'
    <2>1. Settled' = Settled
      BY DEF Settled, uiVars, historyVars
    <2>2. Sent' = Sent
      BY <2>1 DEF Sent
    <2> QED
      BY <2>1, <2>2, SnapshotsStay, CallsAssumption DEF Inv, Calls, queueVars, historyVars
  <1>7. RejoinApart'
    BY CallsAssumption DEF Inv, RejoinApart
  <1> QED
    BY <1>1, <1>2, <1>4, <1>5, <1>6, <1>7, KeptApart DEF Inv

LEMMA SendFailsStep == ASSUME Inv, SendFails PROVE Inv' /\ KeepsCalls
  <1>1. hand # None /\ settling = <<>> /\ pc = "send"
    BY AtWork DEF SendFails
  <1>2. /\ hand' = None /\ pc' = "lost"
        /\ UNCHANGED <<uiVars, online, inbound, queued, roomVars, turnedAway, wgen, license, acks,
                       historyVars>>
    BY DEF SendFails
  <1>3. ControlOK'
    <2>1. settling' = <<>> \/ pc' # "off"
      BY <1>2
    <2> QED
      BY <1>1, <1>2, <2>1 DEF Inv, ControlOK, uiVars, historyVars
  <1>4. hand \in Calls \cup {Rejoin} /\ reserved \in Nat
    BY <1>1 DEF Inv, TypeOK
  <1>5. CASE gen # wgen
    <2>1. UNCHANGED <<queueVars, reserved, settling>>
      BY <1>5 DEF SendFails
    <2>2. TypeOK'
      BY <1>2, <2>1 DEF Inv, TypeOK, uiVars, queueVars, roomVars, historyVars
    <2> QED
      BY <1>2, <1>3, <1>5, <2>1, <2>2, HandDropped DEF inboundVars
  <1>6. CASE gen = wgen /\ hand \in Calls \ Uploads
    <2>1. /\ commands' = <<hand>> \o commands /\ latest' = latest /\ settling' = <<>>
          /\ reserved' = reserved
      BY <1>6, CallsAssumption DEF SendFails, CommandsGivenBack
    <2>2. commands' \in Seq(Calls \ Uploads)
      <3>1. commands \in Seq(Calls \ Uploads)
        BY DEF Inv, TypeOK
      <3> QED
        BY <1>6, <2>1, <3>1, ConsFacts
    <2>3. TypeOK'
      BY <1>1, <1>2, <2>1, <2>2 DEF Inv, TypeOK, uiVars, roomVars, historyVars
    <2> QED
      BY <1>1, <1>2, <1>3, <1>6, <2>1, <2>3, CommandBack DEF inboundVars
  <1>7. CASE gen = wgen /\ hand \in Uploads
    <2>1. /\ commands' = commands /\ reserved' = reserved
          /\ latest' = (IF latest = None THEN hand ELSE latest)
          /\ settling' = IF latest # None THEN <<Result(hand, "canceled")>> ELSE <<>>
      BY <1>7, CallsAssumption DEF SendFails, CommandsGivenBack, Calls
    <2>2. settling' \in Seq(ResultMessages)
      <3>1. <<Result(hand, "canceled")>> \in Seq(ResultMessages)
        BY <1>4, OneResult DEF Codes
      <3>2. <<>> \in Seq(ResultMessages)
        OBVIOUS
      <3> QED
        BY <2>1, <3>1, <3>2
    <2>3. TypeOK'
      BY <1>2, <1>7, <2>1, <2>2 DEF Inv, TypeOK, uiVars, roomVars, historyVars
    <2>4. CASE latest = None
      BY <1>1, <1>2, <1>3, <1>7, <2>1, <2>3, <2>4, SnapshotBack DEF inboundVars
    <2>5. CASE latest # None
      BY <1>1, <1>2, <1>3, <1>7, <2>1, <2>3, <2>5, SnapshotSuperseded DEF inboundVars, queueVars
    <2> QED
      BY <2>4, <2>5
  <1>8. CASE gen = wgen /\ hand = Rejoin
    <2>1. UNCHANGED queueVars /\ settling' = <<>> /\ reserved' = Released(1)
      BY <1>8, CallsAssumption DEF SendFails, CommandsGivenBack, Calls, queueVars
    <2>2. reserved' \in Nat
      BY <1>4, <2>1 DEF Released
    <2>3. TypeOK'
      BY <1>1, <1>2, <2>1, <2>2 DEF Inv, TypeOK, uiVars, queueVars, roomVars, historyVars
    <2> QED
      BY <1>1, <1>2, <1>3, <1>8, <2>1, <2>3, RejoinBack
  <1> QED
    BY <1>4, <1>5, <1>6, <1>7, <1>8

LEMMA RegistrationTaken ==
    ASSUME Inv, NEW i, TakeRegistration(i), hand = None, settling = <<>>, gen = cgen, ~stopping,
           pc # "off", pc' \in {"register", "reregister"}, wgen' = gen, license' \in BOOLEAN
    PROVE  Inv' /\ KeepsCalls
  <1>1. /\ commands' \in Seq(Calls \ Uploads) /\ Len(commands') = Len(commands) - 1
        /\ hand' \in Calls \ Uploads /\ Within(commands', commands)
        /\ Elements(commands) = Elements(commands') \cup {hand'}
        /\ hand' \notin Elements(commands')
        /\ Len(commands) \in Nat
    BY RemovedFacts DEF Inv, TypeOK, QueuesOnce, TakeRegistration
  <1>2. hand = None /\ settling = <<>> /\ gen = cgen /\ pc # "off" /\ ~stopping
    OBVIOUS
  <1>3. /\ pc' \in {"register", "reregister"} /\ wgen' = gen /\ license' \in BOOLEAN /\ hand' \in Registrations
        /\ UNCHANGED <<uiVars, online, latest, inboundVars, roomVars, turnedAway, acks, settling, historyVars>>
    BY DEF TakeRegistration, IsFirstRegistration
  <1>4. TypeOK'
    BY <1>1, <1>3 DEF Inv, TypeOK, uiVars, inboundVars, roomVars, historyVars
  <1>5. ControlOK'
    BY <1>1, <1>2, <1>3, CallsAssumption DEF Inv, TypeOK, ControlOK, uiVars, historyVars
  <1>6. KeepsCalls
    <2>1. ASSUME NEW c \in Calls PROVE Open(c)' = Open(c)
      BY <1>1, <1>2, <1>3, CallsAssumption, EmptyQueue
         DEF Open, Count, HandCalls, SettlingCalls, TurnedCalls, uiVars, inboundVars
    <2> QED
      BY <1>3, <2>1, OpenCount DEF KeepsCalls, MovesInside, uiVars, historyVars
  <1>7. QueuesOnce'
    BY <1>1, <1>2, <1>3, WithinFacts, EmptyQueue DEF Inv, QueuesOnce, uiVars, inboundVars, historyVars
  <1>8. ReservationsExact'
    <2>1. Owed' = Owed
      <3>1. /\ Count(hand # None) = 0 /\ Count(hand' # None) = 1 /\ wgen' = gen' /\ acks' = acks
            /\ Count(latest' # None) = Count(latest # None)
            /\ Count(turnedAway' # None) = Count(turnedAway # None)
        BY <1>1, <1>2, <1>3, CallsAssumption DEF Count, uiVars
      <3>2. Len(settling) = 0 /\ Len(settling') = 0
        BY <1>2, <1>3, EmptyQueue
      <3>3. Owed = Len(commands) + Count(latest # None) + Len(acks) + Count(turnedAway # None)
        <4>1. Owed = Len(commands) + Count(latest # None) + Len(acks) + Count(turnedAway # None) + 0
          BY <3>1, <3>2 DEF Owed
        <4> QED
          BY <4>1, OwedLengths DEF Inv
      <3>4. Owed' = (Len(commands) - 1) + Count(latest # None) + Len(acks) + Count(turnedAway # None) + (1 + 0)
        BY <1>1, <3>1, <3>2 DEF Owed
      <3> QED
        BY <3>3, <3>4, OwedLengths DEF Inv
    <2> QED
      BY <1>2, <1>3, <2>1 DEF Inv, ReservationsExact, Owed, uiVars, inboundVars
  <1>9. RoomForResults'
    BY <1>3 DEF Inv, RoomForResults, inboundVars
  <1>10. SnapshotsOK'
    <2>1. Settled' = Settled
      BY <1>2, <1>3, EmptyQueue DEF Settled, uiVars, inboundVars, historyVars
    <2>2. Sent' = Sent
      BY <1>3, <2>1 DEF Sent
    <2> QED
      BY <1>1, <1>3, <2>1, <2>2, SnapshotsStay DEF Inv, historyVars
  <1>11. RejoinApart'
    BY <1>1, <1>3, CallsAssumption DEF Inv, RejoinApart
  <1> QED
    BY <1>4, <1>5, <1>6, <1>7, <1>8, <1>9, <1>10, <1>11, KeptApart DEF Inv

LEMMA BeginRegistrationStep ==
    ASSUME Inv, NEW i \in DOMAIN commands, BeginRegistration(i) PROVE Inv' /\ KeepsCalls
  <1>1. hand = None /\ settling = <<>> /\ gen = cgen /\ pc = "top" /\ ~stopping
    BY AtWork DEF BeginRegistration, Inv, ControlOK
  <1>2. license' \in BOOLEAN
    BY DEF BeginRegistration
  <1> QED
    BY <1>1, <1>2, RegistrationTaken DEF BeginRegistration

LEMMA RegisterConnectedStep ==
    ASSUME Inv, NEW i \in DOMAIN commands, RegisterConnected(i) PROVE Inv' /\ KeepsCalls
  <1>1. /\ hand = None /\ settling = <<>> /\ gen = cgen /\ wgen = gen /\ pc \in {"rejoin", "calls"}
        /\ ~stopping
    BY AtWork DEF RegisterConnected, Running
  <1>2. license' \in BOOLEAN /\ wgen' = gen
    BY <1>1 DEF RegisterConnected, Inv, TypeOK
  <1> QED
    BY <1>1, <1>2, RegistrationTaken DEF RegisterConnected

\* The worker puts a notification into the queue of the window.
LEMMA NoteTaken ==
    ASSUME Inv, NEW t \in Topics \cup {None}, PutNote(t), hand = None,
           pc \notin {"off", "register", "reregister", "send", "rename"}, pc' \in {"lost", "rejoin"},
           UNCHANGED <<uiVars, online, queueVars, roomVars, turnedAway, wgen, license, hand, acks,
                       settling, historyVars>>
    PROVE  Inv' /\ KeepsCalls
  <1>1. /\ inbound' \in Seq(Messages) /\ reserved' = reserved /\ queued' = queued /\ RoomForResults'
        /\ ResultElements(inbound') = ResultElements(inbound)
        /\ ResultsIn(inbound') = ResultsIn(inbound)
        /\ OnceResults(inbound) => OnceResults(inbound')
    BY PutNoteStep DEF Inv
  <1>2. TypeOK'
    BY <1>1 DEF Inv, TypeOK, uiVars, queueVars, roomVars, historyVars, Messages
  <1>3. ControlOK'
    BY DEF Inv, ControlOK, uiVars, historyVars
  <1>4. KeepsCalls
    <2>1. ASSUME NEW c \in Calls PROVE Open(c)' = Open(c)
      BY <1>1 DEF Open, Count, HandCalls, SettlingCalls, TurnedCalls, uiVars, queueVars
    <2> QED
      BY <2>1, OpenCount DEF KeepsCalls, MovesInside, uiVars, historyVars
  <1>5. QueuesOnce'
    BY <1>1 DEF Inv, QueuesOnce, uiVars, queueVars, historyVars
  <1>6. ReservationsExact'
    BY <1>1 DEF Inv, ReservationsExact, Count, uiVars, queueVars
  <1>7. SnapshotsOK'
    <2>1. Settled' = Settled
      BY <1>1 DEF Settled, ResultElements, uiVars, historyVars
    <2>2. Sent' = Sent
      BY <2>1 DEF Sent
    <2> QED
      BY <2>1, <2>2, SnapshotsStay DEF Inv, uiVars, queueVars, historyVars
  <1>8. RejoinApart'
    BY DEF Inv, RejoinApart, uiVars
  <1> QED
    BY <1>1, <1>2, <1>3, <1>4, <1>5, <1>6, <1>7, <1>8, KeptApart DEF Inv

LEMMA LoseWithErrorStep == ASSUME Inv, LoseWithError PROVE Inv' /\ KeepsCalls
  <1>1. hand = None /\ pc \in {"connecting", "receive"}
    BY AtWork DEF LoseWithError, Running
  <1> QED
    BY <1>1, NoteTaken DEF LoseWithError

LEMMA ReceiveNoteStep ==
    ASSUME Inv, NEW t \in Topics \cup {None}, ReceiveNote(t) PROVE Inv' /\ KeepsCalls
  <1>1. hand = None /\ pc = "receive"
    BY AtWork DEF ReceiveNote, Running
  <1> QED
    BY <1>1, NoteTaken DEF ReceiveNote

\* A result taken out of a queue goes to the queue of the window.
LEMMA NotifyStep == ASSUME Inv, Notify PROVE Inv' /\ KeepsCalls
  <1> DEFINE m == Head(settling)
  <1>1. settling \in Seq(ResultMessages) /\ settling # <<>>
    BY DEF Notify, Inv, TypeOK
  <1>2. /\ settling' \in Seq(ResultMessages) /\ Len(settling') = Len(settling) - 1 /\ Len(settling) > 0
        /\ Len(settling) \in Nat /\ m \in ResultMessages /\ Elements(settling) = Elements(settling') \cup {m}
    BY <1>1, TailFacts DEF Notify
  <1>3. IsResult(m) /\ m.call \in Calls \cup {Rejoin}
    BY <1>2, MessageKinds
  <1>4. /\ ResultsIn(settling) = ResultsIn(settling') \cup {m.call}
        /\ OnceResults(settling) => OnceResults(settling')
        /\ OnceResults(settling) => m.call \notin ResultsIn(settling') \cap Calls
    <2>1. 1 \in DOMAIN settling /\ m = settling[1] /\ settling' = Removed(settling, 1)
      BY <1>1, TailMessage DEF Notify
    <2>2. /\ ResultsIn(settling)
               = ResultsIn(Removed(settling, 1)) \cup (IF IsResult(settling[1]) THEN {settling[1].call} ELSE {})
          /\ OnceResults(settling) => OnceResults(Removed(settling, 1))
          /\ OnceResults(settling) /\ IsResult(settling[1])
               => settling[1].call \notin ResultsIn(Removed(settling, 1)) \cap Calls
      BY <1>1, <2>1, RemovedMessage
    <2> HIDE DEF m
    <2> QED
      BY <1>3, <2>1, <2>2
  <1>5. UNCHANGED <<uiVars, online, queueVars, roomVars, turnedAway, pc, wgen, license, hand, acks,
                    historyVars>>
    BY DEF Notify
  <1> HIDE DEF m
  <1>6. ControlOK'
    <2>1. pc # "off"
      BY <1>1 DEF Inv, ControlOK
    <2> QED
      BY <1>5, <2>1 DEF Inv, ControlOK, uiVars, historyVars
  <1>7. RejoinApart'
    BY <1>5 DEF Inv, RejoinApart, uiVars
  <1>8. CASE gen = wgen /\ reserved > 0
    <2>1. PutResult(m)
      BY <1>8 DEF Notify, m
    <2>2. /\ inbound' \in Seq(Messages) /\ reserved' \in Nat /\ queued' \in Nat
          /\ reserved' = reserved - 1 /\ RoomForResults'
          /\ ResultElements(inbound') = ResultElements(inbound) \cup {m}
          /\ ResultsIn(inbound') = ResultsIn(inbound) \cup {m.call}
          /\ OnceResults(inbound) /\ m.call \notin ResultsIn(inbound) \cap Calls
               => OnceResults(inbound')
      BY <1>2, <1>8, <2>1, PutResultStep DEF Inv
    <2>3. TypeOK'
      BY <1>2, <1>5, <2>2 DEF Inv, TypeOK, uiVars, queueVars, roomVars, historyVars, Messages
    <2>4. OnceResults(settling) /\ OnceResults(inbound)
      BY <1>8 DEF Inv, QueuesOnce
    <2>5. m.call \notin ResultsIn(inbound) \cap Calls
      <3> SUFFICES ASSUME m.call \in Calls, m.call \in ResultsIn(inbound) PROVE FALSE
        OBVIOUS
      <3>1. m.call \in SettlingCalls
        BY <1>4, <1>8 DEF SettlingCalls
      <3>2. Open(m.call) >= 2
        BY <3>1 DEF Open, Count
      <3> QED
        BY <3>2, OpenOnce, OpenCount DEF Inv
    <2>6. KeepsCalls
      <3>1. ASSUME NEW c \in Calls PROVE Open(c)' = Open(c)
        BY <1>4, <1>5, <1>8, <2>2, <2>4, <2>5
           DEF Open, Count, HandCalls, SettlingCalls, TurnedCalls, uiVars, queueVars
      <3> QED
        BY <1>5, <3>1, OpenCount DEF KeepsCalls, MovesInside, uiVars, historyVars
    <2>7. QueuesOnce'
      BY <1>4, <1>5, <2>2, <2>4, <2>5 DEF Inv, QueuesOnce, uiVars, queueVars, historyVars
    <2>8. ReservationsExact'
      <3>1. /\ Count(hand' # None) = Count(hand # None) /\ wgen' = gen' /\ acks' = acks
            /\ Count(latest' # None) = Count(latest # None) /\ commands' = commands
            /\ Count(turnedAway' # None) = Count(turnedAway # None) /\ Count(hand # None) \in Nat
        BY <1>5, <1>8 DEF Count, uiVars, queueVars
      <3>2. Owed = Len(commands) + Count(latest # None) + Len(acks) + Count(turnedAway # None)
                     + (Count(hand # None) + Len(settling))
        BY <1>8 DEF Owed
      <3>3. Owed' = Len(commands) + Count(latest # None) + Len(acks) + Count(turnedAway # None)
                      + (Count(hand # None) + (Len(settling) - 1))
        BY <1>2, <3>1 DEF Owed
      <3>4. Owed' = Owed - 1
        <4> DEFINE a == Count(latest # None)
                   b == Count(turnedAway # None)
                   h == Count(hand # None)
        <4>1. /\ Len(commands) \in Nat /\ a \in Nat /\ Len(acks) \in Nat /\ b \in Nat /\ h \in Nat
          BY <3>1, OwedLengths DEF Inv
        <4>2. /\ Owed = Len(commands) + a + Len(acks) + b + (h + Len(settling))
              /\ Owed' = Len(commands) + a + Len(acks) + b + (h + (Len(settling) - 1))
          BY <3>2, <3>3
        <4> HIDE DEF a, b, h
        <4> QED
          BY <1>2, <4>1, <4>2
      <3> QED
        BY <1>5, <2>2, <3>4 DEF Inv, ReservationsExact, Owed, uiVars
    <2>9. SnapshotsOK'
      <3>1. Settled' = Settled
        BY <1>2, <1>5, <1>8, <2>2 DEF Settled, ResultElements, uiVars, historyVars
      <3>2. Sent' = Sent
        BY <1>5, <3>1 DEF Sent
      <3> QED
        BY <1>5, <3>1, <3>2, SnapshotsStay DEF Inv, uiVars, queueVars, historyVars
    <2> QED
      BY <1>6, <1>7, <2>2, <2>3, <2>6, <2>7, <2>8, <2>9, KeptApart DEF Inv
  <1>9. CASE gen # wgen \/ reserved = 0
    <2>1. UNCHANGED inboundVars
      BY <1>9 DEF Notify, PutResult
    <2>2. gen = cgen => gen # wgen
      <3> SUFFICES ASSUME gen = cgen, gen = wgen PROVE FALSE
        OBVIOUS
      <3>1. reserved = Len(commands) + Count(latest # None) + Len(acks) + Count(turnedAway # None)
                       + (Count(hand # None) + Len(settling))
        BY DEF Inv, ReservationsExact
      <3>2. Count(hand # None) \in Nat
        BY DEF Count
      <3>3. reserved > 0
        BY <1>2, <3>1, <3>2, OwedLengths DEF Inv
      <3> QED
        BY <1>9, <3>3
    <2>3. TypeOK'
      BY <1>2, <1>5, <2>1 DEF Inv, TypeOK, uiVars, queueVars, inboundVars, roomVars, historyVars
    <2>4. KeepsCalls
      <3>1. ASSUME NEW c \in Calls PROVE Open(c)' <= Open(c) /\ (gen = cgen => Open(c)' = Open(c))
        BY <1>4, <1>5, <2>1, <2>2
           DEF Open, Count, HandCalls, SettlingCalls, TurnedCalls, uiVars, queueVars, inboundVars
      <3> QED
        BY <1>5, <3>1, OpenCount DEF KeepsCalls, MovesInside, uiVars, historyVars
    <2>5. QueuesOnce'
      BY <1>4, <1>5, <2>1 DEF Inv, QueuesOnce, uiVars, queueVars, inboundVars, historyVars
    <2>6. ReservationsExact'
      BY <1>5, <2>1, <2>2 DEF Inv, ReservationsExact, Count, uiVars, queueVars, inboundVars
    <2>7. RoomForResults'
      BY <2>1 DEF Inv, RoomForResults, inboundVars
    <2>8. SnapshotsOK'
      <3>1. Settled' \subseteq Settled
        BY <1>2, <1>5, <2>1 DEF Settled, uiVars, inboundVars, historyVars
      <3>2. Sent' \subseteq Sent
        BY <1>5, <3>1 DEF Sent
      <3> QED
        BY <1>5, <3>1, <3>2, SnapshotsStay DEF Inv, uiVars, queueVars, historyVars
    <2> QED
      BY <1>6, <1>7, <2>3, <2>4, <2>5, <2>6, <2>7, <2>8, KeptApart DEF Inv
  <1>10. reserved \in Nat
    BY OwedLengths DEF Inv
  <1> QED
    BY <1>8, <1>9, <1>10

-----------------------------------------------------------------------------
(* The window                                                              *)

\* What was queued, sent or settled for the old configuration is gone.
LEMMA ForgetStep ==
    ASSUME Inv, Forget, acks' = <<>>, gen' = cgen', wgen # gen', turnedAway = None,
           cgen' = cgen + 1 \/ (cgen' = cgen /\ gen # cgen),
           UNCHANGED <<turnedAway, pc, wgen, license, hand, settling, historyVars>>,
           TypeOK', ControlOK'
    PROVE  Inv' /\ KeepsCalls
  <1>1. /\ commands' = <<>> /\ latest' = None /\ inbound' = <<>> /\ reserved' = 0 /\ queued' = 0
        /\ wgen' # gen' /\ turnedAway' = None
    BY DEF Forget
  <1>2. ASSUME NEW c \in Calls PROVE Open(c)' = 0
    BY <1>1, EmptyQueue, CallsAssumption DEF Open, Count, HandCalls, SettlingCalls, TurnedCalls
  <1>3. KeepsCalls
    <2>1. UNCHANGED <<accepted, delivered, withdrawn>>
      BY DEF historyVars
    <2>2. CASE cgen' = cgen + 1
      BY <1>2, <2>1, <2>2, OpenCount DEF KeepsCalls, Voids
    <2>3. CASE cgen' = cgen /\ gen # cgen
      BY <1>2, <2>1, <2>3, OpenCount DEF KeepsCalls, MovesInside
    <2> QED
      BY <2>2, <2>3
  <1>4. QueuesOnce'
    BY <1>1, EmptyQueue DEF Inv, QueuesOnce, historyVars
  <1>5. ReservationsExact'
    <2>1. Len(commands') = 0 /\ Len(acks') = 0
      BY <1>1, EmptyQueue
    <2> QED
      BY <1>1, <2>1 DEF ReservationsExact, Count
  <1>6. RoomForResults'
    <2>1. {i \in DOMAIN inbound' : IsResult(inbound'[i])} = {}
      BY <1>1
    <2>2. Cardinality({i \in DOMAIN inbound' : IsResult(inbound'[i])}) = 0 /\ Len(inbound') = 0
      BY <1>1, <2>1, FS_EmptySet, EmptyQueue
    <2> QED
      BY <1>1, <2>2, SizesAssumption DEF RoomForResults
  <1>7. SnapshotsOK'
    <2>1. Settled' \subseteq Settled
      BY <1>1, EmptyQueue DEF Settled, historyVars
    <2>2. Sent' \subseteq Sent
      BY <2>1, EmptyQueue DEF Sent
    <2> QED
      BY <1>1, <2>1, <2>2, SnapshotsStay DEF Inv, historyVars
  <1>8. RejoinApart'
    BY <1>1, EmptyQueue DEF RejoinApart
  <1> QED
    BY <1>3, <1>4, <1>5, <1>6, <1>7, <1>8, KeptApart DEF Inv

LEMMA ConfigureStep ==
    ASSUME Inv, NEW s \in {"none", "device", "member"}, Configure(s) PROVE Inv' /\ KeepsCalls
  <1>1. /\ Forget /\ acks' = <<>> /\ gen' = cgen + 1 /\ cgen' = cgen + 1 /\ turnedAway = None /\ ~stopping
        /\ setup' = s
        /\ UNCHANGED <<started, stopping, turnedAway, pc, wgen, license, hand, settling, historyVars>>
    BY DEF Configure, UiFree
  <1>2. wgen <= gen /\ gen = cgen /\ wgen \in Nat /\ cgen \in Nat /\ cgen + 1 \in 0..MaxGeneration
    <2>1. wgen <= gen /\ gen = cgen
      BY <1>1 DEF Inv, ControlOK
    <2>2. wgen \in 0..MaxGeneration /\ cgen \in 0..MaxGeneration
      BY DEF Inv, TypeOK
    <2>3. cgen < MaxGeneration
      BY DEF Configure
    <2> QED
      BY <2>1, <2>2, <2>3, SizesAssumption
  <1>3. TypeOK'
    <2>1. /\ commands' \in Seq(Calls \ Uploads) /\ inbound' \in Seq(ResultMessages \cup [topic : Topics \cup {None}])
          /\ acks' \in Seq(Calls \cup {Rejoin}) /\ latest' = None /\ desired' = None
          /\ reserved' = 0 /\ queued' = 0 /\ joinDue' = FALSE /\ joinSent' = FALSE /\ online' = FALSE
          /\ tried' = tried
      BY <1>1 DEF Forget
    <2>2. /\ gen' \in 0..MaxGeneration /\ cgen' \in 0..MaxGeneration /\ wgen' \in 0..MaxGeneration
          /\ setup' \in {"none", "device", "member"}
      BY <1>1, <1>2 DEF Inv, TypeOK
    <2>3. {started', stopping', online', joinDue', joinSent', license', tried'} \subseteq BOOLEAN
      BY <1>1, <2>1 DEF Inv, TypeOK
    <2> QED
      BY <1>1, <2>1, <2>2, <2>3 DEF Inv, TypeOK, historyVars
  <1>4. ControlOK'
    BY <1>1, <1>2 DEF Inv, ControlOK, historyVars
  <1> QED
    BY <1>1, <1>2, <1>3, <1>4, ForgetStep

LEMMA FinishStopStep == ASSUME Inv, FinishStop PROVE Inv' /\ KeepsCalls
  <1>1. /\ Forget /\ acks' = <<>> /\ gen' = cgen /\ cgen' = cgen /\ stopping /\ stopping' = FALSE
        /\ pc = "off" /\ setup' = "none" /\ started' = FALSE
        /\ UNCHANGED <<turnedAway, pc, wgen, license, hand, settling, historyVars>>
    BY DEF FinishStop
  <1>2. /\ wgen <= gen /\ gen <= cgen /\ gen # cgen /\ turnedAway = None
        /\ wgen \in Nat /\ cgen \in Nat /\ gen \in Nat
    BY <1>1 DEF Inv, TypeOK, ControlOK
  <1>3. TypeOK'
    <2>1. /\ commands' \in Seq(Calls \ Uploads) /\ inbound' \in Seq(ResultMessages \cup [topic : Topics \cup {None}])
          /\ acks' \in Seq(Calls \cup {Rejoin}) /\ latest' = None /\ desired' = None
          /\ reserved' = 0 /\ queued' = 0 /\ joinDue' = FALSE /\ joinSent' = FALSE /\ online' = FALSE
          /\ tried' = tried
      BY <1>1 DEF Forget
    <2>2. /\ gen' \in 0..MaxGeneration /\ cgen' \in 0..MaxGeneration /\ wgen' \in 0..MaxGeneration
          /\ setup' \in {"none", "device", "member"}
      BY <1>1, <1>2 DEF Inv, TypeOK
    <2>3. {started', stopping', online', joinDue', joinSent', license', tried'} \subseteq BOOLEAN
      BY <1>1, <2>1 DEF Inv, TypeOK
    <2> QED
      BY <1>1, <2>1, <2>2, <2>3 DEF Inv, TypeOK, historyVars
  <1>4. ControlOK'
    BY <1>1, <1>2 DEF Inv, ControlOK, historyVars
  <1> QED
    BY <1>1, <1>2, <1>3, <1>4, ForgetStep

\* A call the window has not made yet is nowhere.
LEMMA NewNowhere ==
    ASSUME Inv, NEW c \in Calls, New(c)
    PROVE  /\ Open(c) = 0 /\ c \notin Elements(commands) /\ c # latest /\ c \notin HandCalls
           /\ c \notin Elements(acks) /\ c \notin SettlingCalls /\ c \notin TurnedCalls
           /\ c \notin ResultsIn(inbound) /\ c \notin DeliveredCalls
  <1>1. Count(New(c)) + Open(c) + Count(c \in DeliveredCalls) + Count(c \in withdrawn) <= 1
    BY DEF Inv, CallsApart
  <1>2. Open(c) = 0 /\ c \notin DeliveredCalls
    BY <1>1, OpenCount DEF Count
  <1> QED
    BY <1>2 DEF Open, Count

LEMMA EnqueueStep ==
    ASSUME Inv, NEW c \in Calls \ Uploads, Enqueue(c),
           desired' \in {None} \cup [join : Joins, name : Joins \cup Renames, seq : Nat],
           joinDue' \in BOOLEAN, joinSent' \in BOOLEAN, tried' = tried
    PROVE  Inv' /\ KeepsCalls
  <1>1. /\ gen = cgen /\ New(c) /\ turnedAway = None /\ CanReserve /\ Reserve
        /\ commands' = Append(commands, c) /\ accepted' = accepted \cup {c}
        /\ order' = (IF c \in Joins \cup Renames THEN Append(order, c) ELSE order)
        /\ UNCHANGED <<uiVars, online, latest, turnedAway, workerVars, withdrawn, delivered>>
    BY DEF Enqueue, UiFree
  <1>2. /\ Open(c) = 0 /\ c \notin Elements(commands) /\ c # latest /\ c \notin HandCalls
        /\ c \notin Elements(acks) /\ c \notin SettlingCalls /\ c \notin TurnedCalls
        /\ c \notin ResultsIn(inbound)
    BY <1>1, NewNowhere
  <1>3. /\ inbound' \in Seq(Messages) /\ reserved' \in Nat /\ queued' \in Nat
        /\ reserved' = reserved + 1 /\ RoomForResults'
        /\ ResultElements(inbound') = ResultElements(inbound)
        /\ ResultsIn(inbound') = ResultsIn(inbound)
        /\ OnceResults(inbound) => OnceResults(inbound')
    BY <1>1, ReserveStep DEF Inv
  <1>4. /\ commands' \in Seq(Calls \ Uploads) /\ Len(commands') = Len(commands) + 1
        /\ Elements(commands') = Elements(commands) \cup {c} /\ Once(commands')
    BY <1>1, <1>2, AppendFacts DEF Inv, TypeOK, QueuesOnce
  <1>5. /\ order' \in Seq(Joins \cup Renames)
        /\ \A d \in accepted' \cap (Joins \cup Renames) : d \in Elements(order')
    <2>1. order \in Seq(Joins \cup Renames) /\ \A d \in accepted \cap (Joins \cup Renames) : d \in Elements(order)
      BY DEF Inv, TypeOK, ControlOK
    <2>2. CASE c \in Joins \cup Renames
      <3>1. order' \in Seq(Joins \cup Renames) /\ Elements(order') = Elements(order) \cup {c}
        BY <1>1, <2>1, <2>2, AppendFacts
      <3> QED
        BY <1>1, <2>1, <3>1
    <2>3. CASE c \notin Joins \cup Renames
      BY <1>1, <2>1, <2>3
    <2> QED
      BY <2>2, <2>3
  <1>6. TypeOK'
    BY <1>1, <1>3, <1>4, <1>5 DEF Inv, TypeOK, uiVars, workerVars, Messages
  <1>7. ControlOK'
    BY <1>1, <1>5 DEF Inv, ControlOK, uiVars, workerVars
  <1>8. KeepsCalls
    <2>1. ASSUME NEW d \in Calls PROVE Open(d)' = IF d = c THEN 1 ELSE Open(d)
      BY <1>1, <1>2, <1>3, <1>4
         DEF Open, Count, HandCalls, SettlingCalls, TurnedCalls, uiVars, workerVars
    <2>2. Accepts(c)
      BY <1>1, <1>2, <2>1 DEF Accepts, OthersStay, uiVars
    <2> QED
      BY <2>2 DEF KeepsCalls
  <1>9. QueuesOnce'
    BY <1>1, <1>3, <1>4 DEF Inv, QueuesOnce, uiVars, workerVars
  <1>10. ReservationsExact'
    <2>1. /\ Count(hand' # None) = Count(hand # None) /\ wgen' = wgen /\ gen' = gen /\ acks' = acks
          /\ Count(latest' # None) = Count(latest # None) /\ settling' = settling
          /\ Count(turnedAway' # None) = Count(turnedAway # None)
      BY <1>1 DEF Count, uiVars, workerVars
    <2> DEFINE r == IF wgen = gen THEN Count(hand # None) + Len(settling) ELSE 0
    <2>2. r \in Nat
      <3>1. Count(hand # None) \in Nat /\ Len(settling) \in Nat
        BY OwedLengths DEF Inv, Count
      <3> QED
        BY <3>1
    <2>3. Owed = Len(commands) + Count(latest # None) + Len(acks) + Count(turnedAway # None) + r
      BY DEF Owed
    <2>4. Owed' = Len(commands) + 1 + Count(latest # None) + Len(acks) + Count(turnedAway # None) + r
      BY <1>4, <2>1 DEF Owed
    <2> HIDE DEF r
    <2>5. Owed' = Owed + 1
      <3> DEFINE a == Count(latest # None)
                 b == Count(turnedAway # None)
      <3>1. Len(commands) \in Nat /\ a \in Nat /\ Len(acks) \in Nat /\ b \in Nat
        BY OwedLengths DEF Inv
      <3>2. Owed = Len(commands) + a + Len(acks) + b + r /\ Owed' = Len(commands) + 1 + a + Len(acks) + b + r
        BY <2>3, <2>4
      <3> HIDE DEF a, b
      <3> QED
        BY <2>2, <3>1, <3>2
    <2> QED
      BY <1>1, <1>3, <2>5 DEF Inv, ReservationsExact, Owed, uiVars
  <1>11. SnapshotsOK'
    <2>1. Settled' = Settled
      BY <1>1, <1>3 DEF Settled, ResultElements, uiVars, workerVars
    <2>2. Sent' = Sent
      BY <1>1, <2>1 DEF Sent, workerVars
    <2>3. accepted' \cap Uploads = accepted \cap Uploads
      BY <1>1
    <2> QED
      BY <1>1, <2>1, <2>2, <2>3, SnapshotsStay DEF Inv, uiVars, workerVars
  <1>12. RejoinApart'
    BY <1>1 DEF Inv, RejoinApart, uiVars, workerVars
  <1> QED
    BY <1>3, <1>6, <1>7, <1>8, <1>9, <1>10, <1>11, <1>12, KeptApart DEF Inv

LEMMA CallStep == ASSUME Inv, NEW c \in Calls, Call(c) PROVE Inv' /\ KeepsCalls
  <1>1. c \in Calls \ Uploads /\ Enqueue(c) /\ UNCHANGED roomVars
    BY KindsAssumption DEF Call
  <1> QED
    BY <1>1, EnqueueStep DEF Inv, TypeOK, roomVars

LEMMA QueryStep == ASSUME Inv, NEW c \in Calls, Query(c) PROVE Inv' /\ KeepsCalls
  <1>1. c \in Calls \ Uploads /\ Enqueue(c) /\ UNCHANGED roomVars
    BY KindsAssumption DEF Query
  <1> QED
    BY <1>1, EnqueueStep DEF Inv, TypeOK, roomVars

LEMMA JoinRoomStep == ASSUME Inv, NEW c \in Calls, JoinRoom(c) PROVE Inv' /\ KeepsCalls
  <1>1. /\ c \in Calls \ Uploads /\ Enqueue(c) /\ c \in Joins
        /\ desired' = [join |-> c, name |-> c, seq |-> 0] /\ joinDue' = TRUE /\ joinSent' = FALSE /\ tried' = tried
    BY KindsAssumption DEF JoinRoom
  <1> QED
    BY <1>1, EnqueueStep

LEMMA LeaveRoomStep == ASSUME Inv, NEW c \in Calls, LeaveRoom(c) PROVE Inv' /\ KeepsCalls
  <1>1. /\ c \in Calls \ Uploads /\ Enqueue(c)
        /\ desired' = None /\ joinDue' = FALSE /\ joinSent' = FALSE /\ tried' = tried
    BY KindsAssumption DEF LeaveRoom
  <1> QED
    BY <1>1, EnqueueStep

\* A new snapshot is newer than all before it, and what was sent is one of those.
LEMMA NewestUpload ==
    ASSUME Inv, NEW u, NextUpload(u), NEW v \in Uploads, ~New(v)
    PROVE  v < u
  BY CallsAssumption DEF NextUpload, Inv, SnapshotsOK

LEMMA SentAccepted ==
    ASSUME Inv, NEW u \in Uploads, u \in Sent
    PROVE  ~New(u)
  <1> SUFFICES ASSUME New(u) PROVE FALSE
    OBVIOUS
  <1>1. /\ u \notin Elements(acks) /\ u \notin SettlingCalls /\ u \notin ResultsIn(inbound)
        /\ u \notin DeliveredCalls
    BY NewNowhere DEF Calls
  <1>2. PICK m \in Settled : m.code = "ended" /\ m.call = u
    BY <1>1 DEF Sent
  <1>3. m \notin delivered
    BY <1>1, <1>2 DEF DeliveredCalls
  <1>4. ~(m \in Elements(inbound) /\ IsResult(m))
    BY <1>1, <1>2 DEF ResultsIn
  <1>5. ~(wgen = gen /\ m \in Elements(settling))
    <2> SUFFICES ASSUME wgen = gen, m \in Elements(settling) PROVE FALSE
      OBVIOUS
    <2>1. Elements(settling) \subseteq ResultMessages
      BY DEF Inv, TypeOK, Elements
    <2>2. IsResult(m)
      BY <2>1, MessageKinds
    <2> QED
      BY <1>1, <1>2, <2>2 DEF SettlingCalls, ResultsIn
  <1> QED
    BY <1>2, <1>3, <1>4, <1>5 DEF Settled

\* A snapshot comes: what it leaves in the place of the latest, and what it turns away.
LEMMA UploadStep ==
    ASSUME Inv, NEW u, NextUpload(u), ~stopping, turnedAway = None, CanReserve, Reserve,
           accepted' = accepted \cup {u},
           UNCHANGED <<uiVars, online, commands, roomVars, workerVars, order, withdrawn, delivered>>,
           \/ latest' = u /\ turnedAway' = (IF latest = None THEN None ELSE Result(latest, "canceled"))
           \/ latest' = latest /\ turnedAway' = Result(u, "refused")
    PROVE  Inv' /\ KeepsCalls
  <1>1. u \in Uploads /\ u \in Calls /\ New(u) /\ gen = cgen /\ u # None
    BY CallsAssumption DEF NextUpload, Calls, Inv, ControlOK
  <1>2. /\ Open(u) = 0 /\ u \notin Elements(commands) /\ u # latest /\ u \notin HandCalls
        /\ u \notin Elements(acks) /\ u \notin SettlingCalls /\ u \notin TurnedCalls
        /\ u \notin ResultsIn(inbound)
    BY <1>1, NewNowhere
  <1>3. /\ inbound' \in Seq(Messages) /\ reserved' \in Nat /\ queued' \in Nat
        /\ reserved' = reserved + 1 /\ RoomForResults'
        /\ ResultElements(inbound') = ResultElements(inbound)
        /\ ResultsIn(inbound') = ResultsIn(inbound)
        /\ OnceResults(inbound) => OnceResults(inbound')
    BY ReserveStep DEF Inv
  <1>4. latest # None => /\ latest \in Uploads /\ latest \in Calls /\ latest < u
    <2> SUFFICES ASSUME latest # None PROVE latest \in Uploads /\ latest \in Calls /\ latest < u
      OBVIOUS
    <2>1. latest \in Uploads /\ latest \in Calls
      BY DEF Inv, TypeOK, Calls
    <2>2. Open(latest) >= 1
      BY DEF Open, Count
    <2>3. ~New(latest)
      BY <2>1, <2>2, OpenOnce, OpenCount DEF Inv
    <2> QED
      BY <2>1, <2>3, NewestUpload
  <1>5. /\ turnedAway' \in {None} \cup ResultMessages
        /\ turnedAway' # None =>
             /\ turnedAway'.call = (IF latest' = u THEN latest ELSE u) /\ turnedAway'.code # "ended"
             /\ turnedAway'.code = "canceled" => latest # None /\ turnedAway'.call = latest
        /\ latest' \in {u, latest} /\ (turnedAway' = None <=> latest' = u /\ latest = None)
    <2>1. Result(u, "refused") \in ResultMessages /\ Result(u, "refused").call = u
            /\ Result(u, "refused").code = "refused" /\ Result(u, "refused") # None
      <3>1. /\ Result(u, "refused") \in ResultMessages /\ Result(u, "refused").call = u
            /\ Result(u, "refused").code = "refused"
        BY <1>1, ResultFields DEF Codes
      <3> QED
        BY <3>1, NoneAssumption
    <2>2. latest # None => /\ Result(latest, "canceled") \in ResultMessages
                           /\ Result(latest, "canceled").call = latest
                           /\ Result(latest, "canceled").code = "canceled"
      BY <1>4, ResultFields DEF Codes
    <2>3. CASE latest' = u /\ turnedAway' = (IF latest = None THEN None ELSE Result(latest, "canceled"))
      BY <1>1, <2>2, <2>3, NoneAssumption
    <2>4. CASE latest' = latest /\ turnedAway' = Result(u, "refused")
      BY <1>1, <1>2, <2>1, <2>4
    <2> QED
      BY <2>3, <2>4
  <1>6. TypeOK'
    BY <1>1, <1>3, <1>5 DEF Inv, TypeOK, uiVars, workerVars, roomVars, Messages
  <1>7. ControlOK'
    BY <1>1, KindsAssumption DEF Inv, ControlOK, uiVars, workerVars
  <1>8. KeepsCalls
    <2>1. TurnedCalls = {} /\ TurnedCalls' = (IF turnedAway' = None THEN {} ELSE IF latest' = u THEN {latest} ELSE {u})
      BY <1>5 DEF TurnedCalls
    <2>2. ASSUME NEW c \in Calls PROVE Open(c)' = IF c = u THEN 1 ELSE Open(c)
      <3>1. /\ Elements(commands)' = Elements(commands) /\ HandCalls' = HandCalls
            /\ Elements(acks)' = Elements(acks) /\ SettlingCalls' = SettlingCalls
            /\ ResultsIn(inbound)' = ResultsIn(inbound)
        BY <1>3 DEF HandCalls, SettlingCalls, uiVars, workerVars
      <3>2. Count((c = latest)') + Count((c \in TurnedCalls)')
              = (IF c = u THEN 1 ELSE Count(c = latest) + Count(c \in TurnedCalls))
        BY <1>1, <1>2, <1>5, <2>1, CallsAssumption DEF Count
      <3>3. CASE c = u
        BY <1>2, <3>1, <3>2, <3>3 DEF Open, Count
      <3>4. CASE c # u
        BY <3>1, <3>2, <3>4 DEF Open, Count
      <3> QED
        BY <3>3, <3>4
    <2>3. Accepts(u)
      BY <1>1, <1>2, <2>2 DEF Accepts, OthersStay, uiVars
    <2> QED
      BY <1>1, <2>3 DEF KeepsCalls
  <1>9. QueuesOnce'
    BY <1>3 DEF Inv, QueuesOnce, uiVars, workerVars
  <1>10. ReservationsExact'
    <2>1. /\ Count(hand' # None) = Count(hand # None) /\ wgen' = wgen /\ gen' = gen /\ acks' = acks
          /\ settling' = settling
      BY DEF Count, uiVars, workerVars
    <2>2. Count(latest' # None) + Count(turnedAway' # None) = Count(latest # None) + Count(turnedAway # None) + 1
      BY <1>1, <1>5 DEF Count
    <2> DEFINE r == IF wgen = gen THEN Count(hand # None) + Len(settling) ELSE 0
               a == Count(latest # None)
               b == Count(turnedAway # None)
               x == Count(latest' # None)
               y == Count(turnedAway' # None)
    <2>3. r \in Nat /\ a \in Nat /\ b \in Nat /\ x \in Nat /\ y \in Nat
      <3>1. Count(hand # None) \in Nat /\ Len(settling) \in Nat
        BY OwedLengths DEF Inv, Count
      <3>2. r \in Nat
        BY <3>1
      <3> QED
        BY <3>2 DEF Count
    <2>4. Owed = Len(commands) + a + Len(acks) + b + r
      BY DEF Owed
    <2>5. Owed' = Len(commands) + x + Len(acks) + y + r
      BY <2>1 DEF Owed
    <2>6. x + y = a + b + 1
      BY <2>2
    <2> HIDE DEF r, a, b, x, y
    <2>7. Owed' = Owed + 1
      BY <2>3, <2>4, <2>5, <2>6, OwedLengths DEF Inv
    <2> QED
      BY <1>1, <1>3, <2>7 DEF Inv, ReservationsExact, Owed, uiVars
  <1>11. SnapshotsOK'
    <2>1. Settled' = Settled
      BY <1>3 DEF Settled, ResultElements, uiVars, workerVars
    <2>2. Sent' = Sent
      BY <2>1 DEF Sent, workerVars
    <2>3. ASSUME NEW v \in Uploads PROVE New(v)' <=> New(v) /\ v # u
      BY DEF New
    <2>4. ASSUME NEW v \in Uploads, ~New(v) PROVE v < u /\ ~New(v)'
      BY <2>3, <2>4, NewestUpload
    <2>5. \A v, w \in Uploads : v < w /\ ~New(w)' => ~New(v)'
      <3> SUFFICES ASSUME NEW v \in Uploads, NEW w \in Uploads, v < w, ~New(w)' PROVE ~New(v)'
        OBVIOUS
      <3>1. CASE w = u
        BY <2>3, <3>1 DEF NextUpload
      <3>2. CASE ~New(w)
        BY <2>3, <3>2 DEF Inv, SnapshotsOK
      <3> QED
        BY <2>3, <3>1, <3>2
    <2>6. hand' \in Uploads /\ wgen' = gen' /\ latest' # None => hand' < latest'
      <3> SUFFICES ASSUME hand \in Uploads, wgen = gen, latest' # None PROVE hand < latest'
        BY DEF uiVars, workerVars
      <3>1. ~New(hand)
        BY HandOpen DEF Calls
      <3>2. hand < u
        BY <2>4, <3>1
      <3> QED
        BY <1>5, <3>2 DEF Inv, SnapshotsOK
    <2>7. turnedAway' # None => turnedAway'.code # "ended"
      BY <1>5
    <2>8. turnedAway' # None /\ turnedAway'.code = "canceled" =>
            \E v \in Uploads : v > turnedAway'.call /\ ~New(v)'
      <3> SUFFICES ASSUME turnedAway' # None, turnedAway'.code = "canceled"
                   PROVE  \E v \in Uploads : v > turnedAway'.call /\ ~New(v)'
        OBVIOUS
      <3>1. u > turnedAway'.call
        BY <1>1, <1>4, <1>5, CallsAssumption
      <3> QED
        BY <1>1, <2>3, <3>1
    <2>9. UploadsInOrder'
      <3> SUFFICES ASSUME NEW v \in Uploads, NEW w \in Uploads, v < w, w \in Sent
                   PROVE  v # latest' /\ (v = hand => wgen # gen)
        BY <2>2 DEF UploadsInOrder, uiVars, workerVars
      <3>1. w < u
        BY <2>4, SentAccepted
      <3>2. v # latest /\ (v = hand => wgen # gen)
        BY DEF Inv, SnapshotsOK, UploadsInOrder
      <3>3. v # u
        BY <1>1, <3>1, CallsAssumption
      <3> QED
        BY <1>5, <3>2, <3>3
    <2>10. NewestSnapshotKept'
      <3> SUFFICES ASSUME NEW v \in Uploads, Result(v, "canceled") \in Settled
                   PROVE  \E w \in Uploads : w > v /\ ~New(w)'
        BY <2>1 DEF NewestSnapshotKept
      <3>1. PICK w \in Uploads : w > v /\ ~New(w)
        BY DEF Inv, SnapshotsOK, NewestSnapshotKept
      <3> QED
        BY <2>4, <3>1
    <2> QED
      BY <2>5, <2>6, <2>7, <2>8, <2>9, <2>10 DEF SnapshotsOK
  <1>12. RejoinApart'
    BY DEF Inv, RejoinApart, uiVars, workerVars
  <1> QED
    BY <1>3, <1>6, <1>7, <1>8, <1>9, <1>10, <1>11, <1>12, KeptApart DEF Inv

LEMMA UploadSnapshotStep == ASSUME Inv, NEW u \in Uploads, UploadSnapshot(u) PROVE Inv' /\ KeepsCalls
  <1>1. /\ NextUpload(u) /\ ~stopping /\ turnedAway = None /\ CanReserve /\ Reserve
        /\ accepted' = accepted \cup {u} /\ latest' = u
        /\ turnedAway' = (IF latest = None THEN None ELSE Result(latest, "canceled"))
        /\ UNCHANGED <<uiVars, online, commands, roomVars, workerVars, order, withdrawn, delivered>>
    BY DEF UploadSnapshot, UiFree, GivesWay
  <1> QED
    BY <1>1, UploadStep

LEMMA UploadTooLargeStep == ASSUME Inv, NEW u \in Uploads, UploadTooLarge(u) PROVE Inv' /\ KeepsCalls
  <1>1. /\ NextUpload(u) /\ ~stopping /\ turnedAway = None /\ CanReserve /\ Reserve
        /\ accepted' = accepted \cup {u} /\ latest' = latest /\ turnedAway' = Result(u, "refused")
        /\ UNCHANGED <<uiVars, online, commands, roomVars, workerVars, order, withdrawn, delivered>>
    BY DEF UploadTooLarge, UiFree, queueVars
  <1> QED
    BY <1>1, UploadStep

LEMMA NotifyTurnedAwayStep == ASSUME Inv, NotifyTurnedAway PROVE Inv' /\ KeepsCalls
  <1>1. /\ turnedAway \in ResultMessages /\ turnedAway # None /\ turnedAway' = None /\ PutResult(turnedAway)
        /\ UNCHANGED <<uiVars, online, queueVars, roomVars, workerVars, historyVars>>
    BY DEF NotifyTurnedAway, Inv, TypeOK
  <1>2. gen = cgen /\ ~stopping
    BY <1>1 DEF Inv, ControlOK
  <1>3. Owed' = Owed - 1 /\ Owed > 0 /\ reserved = Owed
    <2>1. /\ Count(hand' # None) = Count(hand # None) /\ wgen' = wgen /\ gen' = gen /\ acks' = acks
          /\ settling' = settling /\ commands' = commands /\ Count(latest' # None) = Count(latest # None)
          /\ Count(turnedAway # None) = 1 /\ Count(turnedAway' # None) = 0
      BY <1>1 DEF Count, uiVars, queueVars, workerVars
    <2> DEFINE r == IF wgen = gen THEN Count(hand # None) + Len(settling) ELSE 0
               a == Count(latest # None)
    <2>2. r \in Nat /\ a \in Nat
      <3>1. Count(hand # None) \in Nat /\ Len(settling) \in Nat
        BY OwedLengths DEF Inv, Count
      <3> QED
        BY <3>1 DEF Count
    <2>3. Owed = Len(commands) + a + Len(acks) + 1 + r
      BY <2>1 DEF Owed
    <2>4. Owed' = Len(commands) + a + Len(acks) + 0 + r
      BY <2>1 DEF Owed
    <2> HIDE DEF r, a
    <2>5. reserved = Owed
      BY <1>2 DEF Inv, ReservationsExact, Owed
    <2> QED
      BY <2>2, <2>3, <2>4, <2>5, OwedLengths DEF Inv
  <1>4. reserved > 0
    BY <1>3
  <1>5. /\ inbound' \in Seq(Messages) /\ reserved' \in Nat /\ queued' \in Nat
        /\ reserved' = reserved - 1 /\ RoomForResults'
        /\ ResultElements(inbound') = ResultElements(inbound) \cup {turnedAway}
        /\ ResultsIn(inbound') = ResultsIn(inbound) \cup {turnedAway.call}
        /\ OnceResults(inbound) /\ turnedAway.call \notin ResultsIn(inbound) \cap Calls
             => OnceResults(inbound')
    BY <1>1, <1>4, PutResultStep DEF Inv
  <1>6. TurnedCalls = {turnedAway.call} /\ TurnedCalls' = {}
    BY <1>1 DEF TurnedCalls
  <1>7. turnedAway.call \notin ResultsIn(inbound) \cap Calls
    <2> SUFFICES ASSUME turnedAway.call \in Calls, turnedAway.call \in ResultsIn(inbound) PROVE FALSE
      OBVIOUS
    <2>1. Open(turnedAway.call) >= 2
      BY <1>6 DEF Open, Count
    <2> QED
      BY <2>1, OpenOnce, OpenCount DEF Inv
  <1>8. TypeOK'
    BY <1>1, <1>5 DEF Inv, TypeOK, uiVars, queueVars, workerVars, roomVars, historyVars, Messages
  <1>9. ControlOK'
    BY <1>1, <1>2 DEF Inv, ControlOK, uiVars, workerVars, historyVars
  <1>10. KeepsCalls
    <2>1. ASSUME NEW c \in Calls PROVE Open(c)' = Open(c)
      BY <1>1, <1>5, <1>6, <1>7 DEF Open, Count, HandCalls, SettlingCalls, uiVars, queueVars, workerVars
    <2> QED
      BY <1>1, <2>1, OpenCount DEF KeepsCalls, MovesInside, uiVars, historyVars
  <1>11. QueuesOnce'
    BY <1>1, <1>5, <1>7 DEF Inv, QueuesOnce, uiVars, queueVars, workerVars, historyVars
  <1>12. ReservationsExact'
    <2>1. reserved' = Owed'
      BY <1>3, <1>5
    <2> QED
      BY <2>1 DEF ReservationsExact, Owed
  <1>13. SnapshotsOK'
    <2>1. Settled' = Settled \cup {turnedAway}
      BY <1>1, <1>5 DEF Settled, ResultElements, uiVars, workerVars, historyVars
    <2>2. turnedAway.code # "ended"
      BY <1>1 DEF Inv, SnapshotsOK
    <2>3. Sent' = Sent
      BY <1>1, <2>1, <2>2 DEF Sent, workerVars
    <2>4. UploadsInOrder'
      BY <1>1, <2>3 DEF Inv, SnapshotsOK, UploadsInOrder, uiVars, queueVars, workerVars
    <2>5. NewestSnapshotKept'
      <3> SUFFICES ASSUME NEW u \in Uploads, Result(u, "canceled") \in Settled'
                   PROVE  \E v \in Uploads : v > u /\ ~New(v)
        BY <1>1 DEF NewestSnapshotKept, New, historyVars
      <3>1. CASE Result(u, "canceled") \in Settled
        BY <3>1 DEF Inv, SnapshotsOK, NewestSnapshotKept
      <3>2. CASE Result(u, "canceled") = turnedAway
        <4>1. turnedAway.call = u /\ turnedAway.code = "canceled"
          BY <3>2 DEF Result
        <4> QED
          BY <1>1, <4>1 DEF Inv, SnapshotsOK
      <3> QED
        BY <2>1, <3>1, <3>2
    <2> QED
      BY <1>1, <2>4, <2>5 DEF Inv, SnapshotsOK, New, uiVars, queueVars, workerVars, historyVars
  <1>14. RejoinApart'
    BY <1>1 DEF Inv, RejoinApart, uiVars, workerVars
  <1> QED
    BY <1>5, <1>8, <1>9, <1>10, <1>11, <1>12, <1>13, <1>14, KeptApart DEF Inv

LEMMA CancelRequestStep == ASSUME Inv, NEW c \in Calls, CancelRequest(c) PROVE Inv' /\ KeepsCalls
  <1>1. /\ ~stopping /\ c \in Queries /\ c \in Elements(commands) \cup Elements(acks)
        /\ commands' = Without(commands, c) /\ acks' = Without(acks, c)
        /\ reserved' = Released(1) /\ withdrawn' = withdrawn \cup {c}
        /\ UNCHANGED <<uiVars, online, latest, inbound, queued, roomVars, turnedAway,
                       pc, wgen, license, hand, settling, order, accepted, delivered>>
    BY DEF CancelRequest, UiFree
  <1>2. gen = cgen
    BY <1>1 DEF Inv, ControlOK
  <1>3. /\ commands' \in Seq(Calls \ Uploads) /\ Within(commands', commands)
        /\ Elements(commands') = Elements(commands) \ {c}
        /\ Len(commands') = Len(commands) - Count(c \in Elements(commands))
    BY <1>1, WithoutFacts DEF Inv, TypeOK, QueuesOnce
  <1>4. /\ acks' \in Seq(Calls \cup {Rejoin}) /\ Within(acks', acks)
        /\ Elements(acks') = Elements(acks) \ {c}
        /\ Len(acks') = Len(acks) - Count(c \in Elements(acks))
    BY <1>1, WithoutFacts DEF Inv, TypeOK, QueuesOnce
  <1>5. /\ Open(c) = 1 /\ c # latest /\ c \notin HandCalls /\ c \notin SettlingCalls /\ c \notin TurnedCalls
        /\ c \notin ResultsIn(inbound)
        /\ Count(c \in Elements(commands)) + Count(c \in Elements(acks)) = 1
    <2>1. Open(c) <= 1
      BY OpenOnce DEF Inv
    <2>2. Count(c \in Elements(commands)) + Count(c \in Elements(acks)) >= 1
      BY <1>1 DEF Count
    <2> QED
      BY <2>1, <2>2 DEF Open, Count
  <1>6. Owed' = Owed - 1 /\ Owed > 0 /\ reserved = Owed
    <2>1. /\ Count(hand' # None) = Count(hand # None) /\ wgen' = wgen /\ gen' = gen
          /\ settling' = settling /\ Count(latest' # None) = Count(latest # None)
          /\ Count(turnedAway' # None) = Count(turnedAway # None)
      BY <1>1 DEF Count, uiVars
    <2> DEFINE r == IF wgen = gen THEN Count(hand # None) + Len(settling) ELSE 0
               a == Count(latest # None)
               b == Count(turnedAway # None)
               x == Count(c \in Elements(commands))
               y == Count(c \in Elements(acks))
    <2>2. r \in Nat /\ a \in Nat /\ b \in Nat /\ x \in Nat /\ y \in Nat
      <3>1. Count(hand # None) \in Nat /\ Len(settling) \in Nat
        BY OwedLengths DEF Inv, Count
      <3>2. r \in Nat
        BY <3>1
      <3> QED
        BY <3>2 DEF Count
    <2>3. Owed = Len(commands) + a + Len(acks) + b + r
      BY DEF Owed
    <2>4. Owed' = Len(commands') + a + Len(acks') + b + r
      BY <2>1 DEF Owed
    <2>5. Len(commands') = Len(commands) - x /\ Len(acks') = Len(acks) - y /\ x + y = 1
      BY <1>3, <1>4, <1>5
    <2>6. Len(commands') \in Nat /\ Len(acks') \in Nat
      BY <1>3, <1>4
    <2> HIDE DEF r, a, b, x, y
    <2>7. reserved = Owed
      BY <1>2 DEF Inv, ReservationsExact, Owed
    <2> QED
      BY <2>2, <2>3, <2>4, <2>5, <2>6, <2>7, OwedLengths DEF Inv
  <1>7. reserved > 0 /\ reserved \in Nat /\ reserved' = reserved - 1 /\ reserved' \in Nat
    BY <1>1, <1>6, OwedLengths DEF Inv, Released
  <1>8. TypeOK'
    BY <1>1, <1>3, <1>4, <1>7 DEF Inv, TypeOK, uiVars, roomVars
  <1>9. ControlOK'
    <2>1. wgen' # gen' => acks' = <<>>
      <3> SUFFICES ASSUME wgen # gen PROVE acks' = <<>>
        BY <1>1 DEF uiVars
      <3>1. acks = <<>>
        BY DEF Inv, ControlOK
      <3>2. Len(acks') = 0
        BY <1>4, <3>1, EmptyQueue DEF Count
      <3> QED
        BY <1>4, <3>2
    <2> QED
      BY <1>1, <2>1 DEF Inv, ControlOK, uiVars
  <1>10. KeepsCalls
    <2>1. ASSUME NEW d \in Calls PROVE Open(d)' = IF d = c THEN 0 ELSE Open(d)
      BY <1>1, <1>3, <1>4, <1>5 DEF Open, Count, HandCalls, SettlingCalls, TurnedCalls, uiVars
    <2>2. Withdraws(c)
      BY <1>1, <1>2, <1>5, <2>1 DEF Withdraws, OthersStay, uiVars
    <2> QED
      BY <2>2 DEF KeepsCalls
  <1>11. QueuesOnce'
    BY <1>1, <1>3, <1>4, WithinFacts DEF Inv, QueuesOnce, uiVars
  <1>12. ReservationsExact'
    <2>1. reserved' = Owed'
      BY <1>6, <1>7
    <2> QED
      BY <2>1 DEF ReservationsExact, Owed
  <1>13. RoomForResults'
    <2>1. Len(inbound) \in Nat /\ queued \in Nat
      BY DEF Inv, TypeOK
    <2> QED
      BY <1>1, <1>7, <2>1, SizesAssumption DEF Inv, RoomForResults
  <1>14. SnapshotsOK'
    <2>1. Settled' = Settled
      BY <1>1 DEF Settled, uiVars
    <2>2. Sent' \subseteq Sent
      BY <1>4, <2>1 DEF Sent
    <2> QED
      BY <1>1, <2>1, <2>2, SnapshotsStay DEF Inv, uiVars
  <1>15. RejoinApart'
    <2>1. Once(acks')
      BY <1>11 DEF QueuesOnce
    <2> QED
      BY <1>1, <1>4, <2>1 DEF Inv, RejoinApart, Once, uiVars
  <1> QED
    BY <1>8, <1>9, <1>10, <1>11, <1>12, <1>13, <1>14, <1>15, KeptApart DEF Inv

LEMMA DispatchMessageStep == ASSUME Inv, DispatchMessage PROVE Inv' /\ KeepsCalls
  <1> PICK m : m = Head(inbound)
    OBVIOUS
  <1>1. /\ ~stopping /\ inbound # <<>> /\ inbound' = Tail(inbound)
        /\ queued' = (IF IsResult(m) THEN queued - 1 ELSE queued)
        /\ delivered' = (IF IsResult(m) THEN delivered \cup {m} ELSE delivered)
        /\ UNCHANGED <<uiVars, online, queueVars, reserved, roomVars, turnedAway, workerVars,
                       order, accepted, withdrawn>>
    BY DEF DispatchMessage, UiFree
  <1>2. inbound \in Seq(Messages) /\ queued \in Nat /\ reserved \in Nat
    BY DEF Inv, TypeOK, Messages
  <1>3. /\ inbound' \in Seq(Messages) /\ Len(inbound') = Len(inbound) - 1 /\ m \in Messages
        /\ Elements(inbound) = Elements(inbound') \cup {m}
    BY <1>1, <1>2, TailFacts
  <1>4. 1 \in DOMAIN inbound /\ m = inbound[1] /\ inbound' = Removed(inbound, 1)
    BY <1>1, <1>2, TailMessage
  <1>5. /\ ResultsIn(inbound) = ResultsIn(inbound') \cup (IF IsResult(m) THEN {m.call} ELSE {})
        /\ Cardinality(ResultPlaces(inbound')) = Cardinality(ResultPlaces(inbound)) - Count(IsResult(m))
        /\ OnceResults(inbound) => OnceResults(inbound')
        /\ OnceResults(inbound) /\ IsResult(m) => m.call \notin ResultsIn(inbound') \cap Calls
    <2>1. /\ ResultsIn(inbound)
               = ResultsIn(Removed(inbound, 1)) \cup (IF IsResult(inbound[1]) THEN {inbound[1].call} ELSE {})
          /\ Cardinality(ResultPlaces(Removed(inbound, 1)))
               = Cardinality(ResultPlaces(inbound)) - Count(IsResult(inbound[1]))
          /\ OnceResults(inbound) => OnceResults(Removed(inbound, 1))
          /\ OnceResults(inbound) /\ IsResult(inbound[1])
               => inbound[1].call \notin ResultsIn(Removed(inbound, 1)) \cap Calls
      BY <1>2, <1>4, RemovedMessage
    <2> QED
      BY <1>4, <2>1
  <1>6. OnceResults(inbound) /\ OnceResults(inbound') /\ gen = cgen
    BY <1>1, <1>5 DEF Inv, QueuesOnce, ControlOK
  <1>7. RoomForResults' /\ queued' \in Nat
    <2>1. queued = Cardinality(ResultPlaces(inbound))
      BY DEF Inv, RoomForResults, ResultPlaces
    <2>2. queued' = Cardinality(ResultPlaces(inbound'))
      BY <1>1, <1>2, <1>5, <2>1 DEF Count
    <2>3. queued' \in Nat
      BY <1>3, <2>2, ResultPlacesFinite
    <2>4. Len(inbound) \in Nat /\ queued' <= queued
      BY <1>1, <1>2
    <2>5. reserved' = reserved
      BY <1>1
    <2>6. Len(inbound') + reserved' <= MaxInbound
      BY <1>2, <1>3, <2>4, <2>5, SizesAssumption DEF Inv, RoomForResults
    <2>7. queued' + reserved' <= MaxResults
      <3>1. queued + reserved <= MaxResults /\ MaxResults \in Int
        BY SizesAssumption DEF Inv, RoomForResults
      <3>2. CASE IsResult(m)
        <4> PICK k : k = queued
          OBVIOUS
        <4>1. queued' = k - 1
          BY <1>1, <3>2
        <4>2. k \in Nat /\ k + reserved <= MaxResults
          BY <1>2, <3>1
        <4>3. (k - 1) + reserved <= MaxResults
          BY <1>2, <3>1, <4>2
        <4> QED
          BY <2>5, <4>1, <4>3
      <3>3. CASE ~IsResult(m)
        BY <1>1, <2>5, <3>1, <3>3
      <3> QED
        BY <3>2, <3>3
    <2> QED
      BY <2>2, <2>3, <2>6, <2>7 DEF RoomForResults, ResultPlaces
  <1>8. IsResult(m) => m \in ResultMessages /\ m.call \in ResultsIn(inbound)
    BY <1>3, <1>5, MessageKinds
  <1>9. delivered' \subseteq ResultMessages
    BY <1>1, <1>8 DEF Inv, TypeOK
  <1>10. TypeOK'
    BY <1>1, <1>3, <1>7, <1>9
       DEF Inv, TypeOK, uiVars, queueVars, workerVars, roomVars, Messages
  <1>11. ControlOK'
    BY <1>1 DEF Inv, ControlOK, uiVars, workerVars
  <1>12. IsResult(m) /\ m.call \in Calls => Open(m.call) = 1 /\ m.call \notin DeliveredCalls
    <2> SUFFICES ASSUME IsResult(m), m.call \in Calls PROVE Open(m.call) = 1 /\ m.call \notin DeliveredCalls
      OBVIOUS
    <2>1. Open(m.call) >= 1
      BY <1>8 DEF Open, Count
    <2> QED
      BY <2>1, OpenOnce, OpenCount DEF Inv
  <1>13. ASSUME NEW d \in Calls
         PROVE  Open(d)' = IF IsResult(m) /\ d = m.call THEN 0 ELSE Open(d)
    <2>1. /\ Elements(commands)' = Elements(commands) /\ HandCalls' = HandCalls /\ latest' = latest
          /\ Elements(acks)' = Elements(acks) /\ SettlingCalls' = SettlingCalls
          /\ TurnedCalls' = TurnedCalls
      BY <1>1 DEF HandCalls, SettlingCalls, TurnedCalls, uiVars, queueVars, workerVars
    <2>2. CASE IsResult(m) /\ d = m.call
      <3>1. Open(d) = 1 /\ d \in ResultsIn(inbound) /\ d \notin ResultsIn(inbound')
        BY <1>5, <1>6, <1>8, <1>12, <2>2
      <3> QED
        BY <2>1, <2>2, <3>1 DEF Open, Count
    <2>3. CASE ~(IsResult(m) /\ d = m.call)
      <3>1. d \in ResultsIn(inbound) <=> d \in ResultsIn(inbound')
        BY <1>5, <2>3
      <3> QED
        BY <2>1, <2>3, <3>1 DEF Open, Count
    <2> QED
      BY <2>2, <2>3
  <1>14. KeepsCalls
    <2>1. CASE IsResult(m)
      <3>1. OthersStay(m.call)
        BY <1>1, <1>6, <1>13 DEF OthersStay, uiVars
      <3>2. m.call \in Calls => Open(m.call) = 1 /\ Open(m.call)' = 0
        BY <1>12, <1>13, <2>1
      <3>3. Delivers(m)
        BY <1>1, <1>8, <2>1, <3>1, <3>2 DEF Delivers
      <3> QED
        BY <1>8, <2>1, <3>3 DEF KeepsCalls
    <2>2. CASE ~IsResult(m)
      BY <1>1, <1>13, <2>2, OpenCount DEF KeepsCalls, MovesInside, uiVars
    <2> QED
      BY <2>1, <2>2
  <1>15. QueuesOnce'
    <2>1. \A x, y \in delivered' : x.call = y.call /\ x.call \in Calls => x = y
      BY <1>1, <1>12 DEF Inv, QueuesOnce, DeliveredCalls
    <2> QED
      BY <1>1, <1>6, <2>1 DEF Inv, QueuesOnce, uiVars, queueVars, workerVars
  <1>16. ReservationsExact'
    BY <1>1 DEF Inv, ReservationsExact, Count, uiVars, queueVars, workerVars
  <1>17. SnapshotsOK'
    <2>1. Settled' = Settled
      <3>1. ResultElements(inbound) = ResultElements(inbound') \cup (IF IsResult(m) THEN {m} ELSE {})
        BY <1>3 DEF ResultElements
      <3> QED
        BY <1>1, <3>1 DEF Settled, ResultElements, uiVars, workerVars
    <2>2. Sent' = Sent
      BY <1>1, <2>1 DEF Sent, workerVars
    <2> QED
      BY <1>1, <2>1, <2>2, SnapshotsStay DEF Inv, uiVars, queueVars, workerVars
  <1>18. RejoinApart'
    BY <1>1 DEF Inv, RejoinApart, uiVars, workerVars
  <1> QED
    BY <1>7, <1>10, <1>11, <1>14, <1>15, <1>16, <1>17, <1>18, KeptApart DEF Inv

-----------------------------------------------------------------------------
(* The theorems                                                            *)

LEMMA InvInit == Init => Inv
  <1> SUFFICES ASSUME Init PROVE Inv
    OBVIOUS
  <1>1. TypeOK
    <2>1. <<>> \in Seq(Calls \ Uploads) /\ <<>> \in Seq(ResultMessages \cup [topic : Topics \cup {None}])
      OBVIOUS
    <2>2. /\ <<>> \in Seq(Calls \cup {Rejoin}) /\ <<>> \in Seq(ResultMessages)
          /\ <<>> \in Seq(Joins \cup Renames)
      OBVIOUS
    <2>3. 0 \in 0..MaxGeneration
      BY SizesAssumption
    <2> QED
      BY <2>1, <2>2, <2>3 DEF Init, TypeOK
  <1>2. ControlOK
    BY DEF Init, ControlOK
  <1>3. CallsApart
    BY EmptyQueue, CallsAssumption
       DEF Init, CallsApart, Open, Count, New, HandCalls, SettlingCalls, TurnedCalls, DeliveredCalls
  <1>4. QueuesOnce
    BY EmptyQueue DEF Init, QueuesOnce
  <1>5. ReservationsExact
    BY EmptyQueue DEF Init, ReservationsExact, Count
  <1>6. RoomForResults
    <2>1. {i \in DOMAIN inbound : IsResult(inbound[i])} = {}
      BY DEF Init
    <2>2. Cardinality({i \in DOMAIN inbound : IsResult(inbound[i])}) = 0 /\ Len(inbound) = 0
      BY <2>1, FS_EmptySet, EmptyQueue DEF Init
    <2> QED
      BY <2>2, SizesAssumption DEF Init, RoomForResults
  <1>7. SnapshotsOK
    <2>1. Settled = {} /\ Sent = {}
      BY EmptyQueue DEF Init, Settled, Sent
    <2> QED
      BY <2>1 DEF Init, SnapshotsOK, New, UploadsInOrder, NewestSnapshotKept
  <1>8. RejoinApart
    BY CallsAssumption DEF Init, RejoinApart
  <1> QED
    BY <1>1, <1>2, <1>3, <1>4, <1>5, <1>6, <1>7, <1>8 DEF Inv

LEMMA WindowStep == ASSUME Inv, Window PROVE Inv' /\ KeepsCalls
  <1>1. ASSUME NEW s \in {"none", "device", "member"}, Configure(s) PROVE Inv' /\ KeepsCalls
    BY <1>1, ConfigureStep
  <1>2. ASSUME NEW c \in Calls, Call(c) \/ Query(c) \/ JoinRoom(c) \/ LeaveRoom(c) \/ CancelRequest(c)
        PROVE  Inv' /\ KeepsCalls
    BY <1>2, CallStep, QueryStep, JoinRoomStep, LeaveRoomStep, CancelRequestStep
  <1>3. ASSUME NEW u \in Uploads, UploadSnapshot(u) \/ UploadTooLarge(u) PROVE Inv' /\ KeepsCalls
    BY <1>3, UploadSnapshotStep, UploadTooLargeStep
  <1>4. CASE Start \/ BeginStop \/ FinishStop
    BY <1>4, StartStep, BeginStopStep, FinishStopStep
  <1>5. CASE NotifyTurnedAway \/ DispatchMessage
    BY <1>5, NotifyTurnedAwayStep, DispatchMessageStep
  <1> QED
    BY <1>1, <1>2, <1>3, <1>4, <1>5 DEF Window

LEMMA WorkerStep == ASSUME Inv, Worker PROVE Inv' /\ KeepsCalls
  <1>1. ASSUME NEW n \in 0..Len(commands), ExpireQueued(n) PROVE Inv' /\ KeepsCalls
    BY <1>1, ExpireQueuedStep
  <1>2. ASSUME NEW n \in 0..Len(acks), ExpireAcks(n) PROVE Inv' /\ KeepsCalls
    BY <1>2, ExpireAcksStep
  <1>3. ASSUME NEW i \in DOMAIN acks, NEW ok \in BOOLEAN, ReceiveAck(i, ok) PROVE Inv' /\ KeepsCalls
    BY <1>3, ReceiveAckStep
  <1>4. ASSUME NEW t \in Topics \cup {None}, ReceiveNote(t) PROVE Inv' /\ KeepsCalls
    BY <1>4, ReceiveNoteStep
  <1>5. CASE Notify \/ Exit \/ EndRegistration \/ CommitRename
    BY <1>5, NotifyStep, ExitStep, EndRegistrationStep, CommitRenameStep
  <1>6. CASE BeginConnection \/ Connect \/ DropLicense \/ Lose \/ LoseWithError
    BY <1>6, BeginConnectionStep, ConnectStep, DropLicenseStep, LoseStep, LoseWithErrorStep
  <1>7. CASE SendRejoin \/ TakeCommand \/ TakeSnapshot \/ Send \/ SendRefused \/ SendFails
    BY <1>7, SendRejoinStep, TakeCommandStep, TakeSnapshotStep, SendStep, SendRefusedStep, SendFailsStep
  <1>8. CASE ReceiveNothing \/ FailQueries \/ AbandonConnection \/ FailAcks \/ GoOffline
    BY <1>8, ReceiveNothingStep, FailQueriesStep, AbandonConnectionStep, FailAcksStep, GoOfflineStep
  <1>9. ASSUME NEW i \in DOMAIN commands, BeginRegistration(i) \/ RegisterConnected(i) PROVE Inv' /\ KeepsCalls
    BY <1>9, BeginRegistrationStep, RegisterConnectedStep
  <1> QED
    BY <1>1, <1>2, <1>3, <1>4, <1>5, <1>6, <1>7, <1>8, <1>9 DEF Worker

LEMMA StutterStep == ASSUME Inv, UNCHANGED vars PROVE Inv' /\ KeepsCalls
  <1>1. ControlFrame
    BY DEF vars, ControlFrame, uiVars, queueVars, workerVars
  <1>2. TypeOK' /\ ControlOK'
    BY DEF Inv, TypeOK, ControlOK, vars, uiVars, queueVars, inboundVars, roomVars, workerVars, historyVars
  <1> QED
    BY <1>1, <1>2, ControlFrameStep

LEMMA InvStep == Inv /\ [Next]_vars => Inv' /\ KeepsCalls
  BY WindowStep, WorkerStep, StutterStep DEF Next

\* The invariant the theorems rest on: every call that waits is in one place.
THEOREM InvHolds == Spec => []Inv
  <1>1. Inv /\ [Next]_vars => Inv'
    BY InvStep
  <1> QED
    BY InvInit, <1>1, PTL DEF Spec

\* The variables hold what their declarations in Impl hold.
THEOREM TypeCorrect == Spec => []TypeOK
  <1>1. Inv => TypeOK
    BY DEF Inv
  <1> QED
    BY InvHolds, <1>1, PTL

\* protectedResultReservations counts the calls that wait for a result: none of
\* the ways a call can end, or its transmission fail, leaks a reservation or
\* returns one twice.
THEOREM ReservationsAreExact == Spec => []ReservationsExact
  <1>1. Inv => ReservationsExact
    BY DEF Inv
  <1> QED
    BY InvHolds, <1>1, PTL

\* The inbound queue keeps a place for every result to come, whatever
\* notifications arrive.
THEOREM ResultsHaveRoom == Spec => []RoomForResults
  <1>1. Inv => RoomForResults
    BY DEF Inv
  <1> QED
    BY InvHolds, <1>1, PTL

\* No snapshot is sent after a newer one, retries included.
THEOREM UploadsGoInOrder == Spec => []UploadsInOrder
  <1>1. Inv => UploadsInOrder
    BY DEF Inv, SnapshotsOK
  <1> QED
    BY InvHolds, <1>1, PTL

\* A snapshot is cancelled only when a newer one was accepted.
THEOREM NewestSnapshotIsKept == Spec => []NewestSnapshotKept
  <1>1. Inv => NewestSnapshotKept
    BY DEF Inv, SnapshotsOK
  <1> QED
    BY InvHolds, <1>1, PTL

-----------------------------------------------------------------------------
(* The remembered join                                                     *)

Connected == {"rejoin", "reregister", "calls", "outgoing", "send", "receive", "rename"}
JoinWaits == \E c \in Elements(commands) \cup Elements(acks) \cup {hand} : IsJoin(c)
JoinOwed == desired # None /\ joinDue /\ ~joinSent

\* On a connection where a join was sent, one that is still due has been called
\* anew, and that call is under way.
TriedOK == pc \in Connected /\ tried /\ JoinOwed => JoinWaits

\* The condition of RejoinOnce on a step.
OnceStep ==
    hand' = Rejoin /\ hand # Rejoin =>
        ~tried /\ \A c \in Elements(commands) \cup Elements(acks) : ~IsJoin(c)

\* Steps that leave the joins alone.
LEMMA JoinsAlone ==
    ASSUME TriedOK, UNCHANGED <<commands, acks, hand, desired, joinDue, joinSent, tried>>,
           pc' \in Connected => pc \in Connected
    PROVE  TriedOK' /\ OnceStep
  BY DEF TriedOK, JoinWaits, JoinOwed, OnceStep

\* Steps after which no connection stands, or no join is due.
LEMMA NoneOwed ==
    ASSUME hand' # Rejoin, pc' \notin Connected \/ desired' = None
    PROVE  TriedOK' /\ OnceStep
  BY DEF TriedOK, JoinOwed, OnceStep

\* Steps that bring no join and drop none that is due.
LEMMA JoinsMove ==
    ASSUME TriedOK, hand' # Rejoin \/ hand = Rejoin, tried' = tried,
           pc' \in Connected => pc \in Connected,
           desired' # None /\ joinDue' /\ ~joinSent' => JoinOwed,
           desired' # None /\ joinDue' => (JoinWaits => JoinWaits')
    PROVE  TriedOK' /\ OnceStep
  BY DEF TriedOK, JoinOwed, OnceStep

LEMMA WindowTried == ASSUME Inv, TriedOK, Window PROVE TriedOK' /\ OnceStep
  <1>1. CASE \E s \in {"none", "device", "member"} : Configure(s)
    <2>1. hand' = hand /\ desired' = None
      BY <1>1 DEF Configure, Forget
    <2> QED
      BY <2>1 DEF TriedOK, JoinOwed, OnceStep
  <1>2. CASE Start \/ BeginStop
    <2>1. UNCHANGED <<commands, acks, hand, desired, joinDue, joinSent, tried>>
      BY <1>2 DEF Start, BeginStop, queueVars, roomVars, workerVars
    <2>2. pc' \in Connected => pc \in Connected
      BY <1>2 DEF Start, BeginStop, Connected, workerVars
    <2> QED
      BY <2>1, <2>2, JoinsAlone
  <1>3. CASE FinishStop
    <2>1. hand' = hand /\ desired' = None
      BY <1>3 DEF FinishStop, Forget
    <2> QED
      BY <2>1 DEF TriedOK, JoinOwed, OnceStep
  <1>4. ASSUME NEW c \in Calls, Enqueue(c), UNCHANGED roomVars \/ JoinRoom(c) \/ LeaveRoom(c)
        PROVE  TriedOK' /\ OnceStep
    <2>1. /\ commands' = Append(commands, c) /\ pc' = pc /\ hand' = hand /\ acks' = acks
      BY <1>4 DEF Enqueue, workerVars
    <2>2. Elements(commands') = Elements(commands) \cup {c}
      <3>1. commands \in Seq(Calls)
        BY DEF Inv, TypeOK
      <3> QED
        BY <2>1, <3>1, AppendFacts
    <2>3. CASE UNCHANGED roomVars
      <3>1. desired' = desired /\ joinDue' = joinDue /\ joinSent' = joinSent /\ tried' = tried
        BY <2>3 DEF roomVars
      <3> QED
        BY <2>1, <2>2, <3>1 DEF TriedOK, JoinWaits, JoinOwed, OnceStep
    <2>4. CASE JoinRoom(c)
      <3>1. IsJoin(c)
        BY <2>4 DEF JoinRoom, IsJoin
      <3>2. JoinWaits'
        BY <2>2, <3>1 DEF JoinWaits
      <3> QED
        BY <2>1, <3>2 DEF TriedOK, OnceStep
    <2>5. CASE LeaveRoom(c)
      <3>1. desired' = None
        BY <2>5 DEF LeaveRoom
      <3> QED
        BY <2>1, <3>1 DEF TriedOK, JoinOwed, OnceStep
    <2> QED
      BY <1>4, <2>3, <2>4, <2>5
  <1>5. ASSUME NEW c \in Calls, CancelRequest(c)
        PROVE  TriedOK' /\ OnceStep
    <2>1. /\ commands' = Without(commands, c) /\ acks' = Without(acks, c) /\ pc' = pc /\ hand' = hand
          /\ UNCHANGED roomVars /\ c \in Queries
      BY <1>5 DEF CancelRequest
    <2>2. Elements(commands') = Elements(commands) \ {c} /\ Elements(acks') = Elements(acks) \ {c}
      BY <2>1, WithoutFacts DEF Inv, TypeOK, QueuesOnce
    <2>3. ~IsJoin(c)
      BY <2>1, KindsAssumption, CallsAssumption DEF IsJoin, Calls
    <2>4. JoinWaits => JoinWaits'
      BY <2>1, <2>2, <2>3 DEF JoinWaits
    <2> QED
      BY <2>1, <2>4 DEF roomVars, TriedOK, JoinOwed, OnceStep
  <1>6. CASE \/ \E u \in Uploads : UploadSnapshot(u) \/ UploadTooLarge(u)
             \/ NotifyTurnedAway \/ DispatchMessage
    <2>1. UNCHANGED <<pc, commands, acks, hand, desired, joinDue, joinSent, tried>>
      BY <1>6 DEF UploadSnapshot, UploadTooLarge, NotifyTurnedAway, DispatchMessage, queueVars, roomVars,
                  workerVars
    <2> QED
      BY <2>1, JoinsAlone
  <1> QED
    BY <1>1, <1>2, <1>3, <1>4, <1>5, <1>6 DEF Window, Call, Query, JoinRoom, LeaveRoom

LEMMA WorkerTried == ASSUME Inv, TriedOK, Worker PROVE TriedOK' /\ OnceStep
  <1>1. CASE \/ Notify \/ DropLicense \/ Lose \/ LoseWithError \/ BeginConnection
             \/ (\E t \in Topics \cup {None} : ReceiveNote(t)) \/ ReceiveNothing \/ GoOffline
    <2>1. UNCHANGED <<commands, acks, hand, desired, joinDue, joinSent, tried>>
      BY <1>1 DEF Notify, DropLicense, Lose, LoseWithError, BeginConnection, ReceiveNote, ReceiveNothing,
                  GoOffline, queueVars, roomVars
    <2>2. pc' \in Connected => pc \in Connected
      BY <1>1 DEF Notify, DropLicense, Lose, LoseWithError, BeginConnection, ReceiveNote, ReceiveNothing,
                  GoOffline, Running, WorkerAt, Connected
    <2> QED
      BY <2>1, <2>2, JoinsAlone
  <1>2. CASE Exit \/ FailQueries \/ AbandonConnection \/ FailAcks \/ SendFails
    <2>1. (hand' = hand \/ hand' = None) /\ pc' \notin Connected
      BY <1>2 DEF Exit, FailQueries, AbandonConnection, FailAcks, SendFails, Connected
    <2> QED
      BY <2>1, CallsAssumption DEF TriedOK, OnceStep
  <1>3. ASSUME NEW i \in DOMAIN commands, BeginRegistration(i) \/ RegisterConnected(i)
        PROVE  TriedOK' /\ OnceStep
    <2>1. /\ hand' = commands[i] /\ commands' = Removed(commands, i) /\ acks' = acks /\ UNCHANGED roomVars
          /\ hand' \in Registrations
      BY <1>3 DEF BeginRegistration, RegisterConnected, TakeRegistration, IsFirstRegistration
    <2>2. hand' # Rejoin /\ ~IsJoin(hand')
      BY <2>1, KindsAssumption, CallsAssumption DEF IsJoin, Calls
    <2>3. CASE BeginRegistration(i)
      <3>1. pc' \notin Connected
        BY <2>3 DEF BeginRegistration, Connected
      <3> QED
        BY <2>2, <3>1, NoneOwed
    <2>4. CASE RegisterConnected(i)
      <3>1. pc \in Connected /\ hand = None
        BY <2>4 DEF RegisterConnected, Running, WorkerAt, Connected, Inv, ControlOK
      <3>2. Elements(commands) = Elements(commands') \cup {hand'}
        BY <2>1, RemovedFacts DEF Inv, TypeOK
      <3>3. ~IsJoin(hand)
        BY <3>1, CallsAssumption DEF IsJoin, Calls
      <3>4. JoinWaits => JoinWaits'
        BY <2>1, <2>2, <3>2, <3>3 DEF JoinWaits
      <3> QED
        BY <2>1, <2>2, <3>1, <3>4, JoinsMove DEF roomVars, JoinOwed
    <2> QED
      BY <1>3, <2>3, <2>4
  <1>4. CASE EndRegistration
    <2>1. /\ hand' = None /\ commands' = commands /\ acks' = acks /\ UNCHANGED roomVars
          /\ pc' = (IF pc = "register" THEN "top" ELSE "calls") /\ pc \in {"register", "reregister"}
      BY <1>4 DEF EndRegistration, queueVars
    <2>2. ~IsJoin(hand)
      BY <2>1, KindsAssumption, CallsAssumption DEF IsJoin, Calls, Inv, ControlOK
    <2>3. JoinWaits => JoinWaits'
      BY <2>1, <2>2 DEF JoinWaits
    <2>4. pc' \in Connected => pc \in Connected
      BY <2>1 DEF Connected
    <2> QED
      BY <2>1, <2>3, <2>4, JoinsMove, CallsAssumption DEF roomVars, JoinOwed
  <1>5. CASE Connect
    <2>1. tried' = FALSE /\ hand' = hand
      BY <1>5 DEF Connect
    <2> QED
      BY <2>1 DEF TriedOK, OnceStep
  <1>6. CASE SendRejoin
    <2>1. hand' = Rejoin /\ RejoinReady /\ pc = "rejoin"
      BY <1>6 DEF SendRejoin, Running, WorkerAt
    <2>2. JoinWaits'
      BY <2>1 DEF JoinWaits, IsJoin
    <2>3. ~IsJoin(hand)
      BY <2>1, CallsAssumption DEF IsJoin, Calls, Inv, ControlOK
    <2>4. JoinOwed /\ ~JoinWaits
      BY <2>1, <2>3 DEF RejoinReady, JoinOwed, JoinWaits
    <2>5. ~tried
      BY <2>1, <2>4 DEF TriedOK, Connected
    <2> QED
      BY <2>1, <2>2, <2>5 DEF TriedOK, OnceStep, RejoinReady
  <1>7. ASSUME NEW n \in 0..Len(commands), ExpireQueued(n)
        PROVE  TriedOK' /\ OnceStep
    <2>1. /\ commands' = NotChosen(commands, n, Transient) /\ hand' = hand /\ acks' = acks
          /\ UNCHANGED roomVars /\ pc \in Connected
      BY <1>7 DEF ExpireQueued, Running, WorkerAt, Connected
    <2>2. /\ Elements(commands) = Elements(Chosen(commands, n, Transient)) \cup Elements(commands')
          /\ Elements(Chosen(commands, n, Transient)) \subseteq Queries
      BY <2>1, ChosenFacts DEF Inv, TypeOK, Transient
    <2>3. \A c \in Queries : ~IsJoin(c)
      BY KindsAssumption, CallsAssumption DEF IsJoin, Calls
    <2>4. JoinWaits => JoinWaits'
      BY <2>1, <2>2, <2>3 DEF JoinWaits
    <2> QED
      BY <2>1, <2>4, JoinsMove DEF roomVars, JoinOwed
  <1>8. CASE TakeCommand
    <2>1. /\ hand' = Head(commands) /\ commands' = Tail(commands) /\ acks' = acks /\ commands # <<>>
          /\ UNCHANGED roomVars /\ pc = "outgoing"
      BY <1>8 DEF TakeCommand, HasCommand, Running, WorkerAt
    <2>2. Elements(commands) = Elements(commands') \cup {hand'} /\ hand' \in Calls
      BY <2>1, TailFacts DEF Inv, TypeOK
    <2>3. ~IsJoin(hand)
      BY <2>1, CallsAssumption DEF IsJoin, Calls, Inv, ControlOK
    <2>4. JoinWaits => JoinWaits'
      BY <2>1, <2>2, <2>3 DEF JoinWaits
    <2>5. pc \in Connected
      BY <2>1 DEF Connected
    <2> QED
      BY <2>1, <2>2, <2>4, <2>5, JoinsMove, CallsAssumption DEF roomVars, JoinOwed
  <1>9. CASE TakeSnapshot
    <2>1. /\ hand' = latest /\ commands' = commands /\ acks' = acks /\ latest # None
          /\ UNCHANGED roomVars /\ pc = "outgoing"
      BY <1>9 DEF TakeSnapshot, Running, WorkerAt
    <2>2. hand' \in Calls
      BY <2>1 DEF Inv, TypeOK, Calls
    <2>3. ~IsJoin(hand)
      BY <2>1, CallsAssumption DEF IsJoin, Calls, Inv, ControlOK
    <2>4. JoinWaits => JoinWaits'
      BY <2>1, <2>3 DEF JoinWaits
    <2>5. pc \in Connected
      BY <2>1 DEF Connected
    <2> QED
      BY <2>1, <2>2, <2>4, <2>5, JoinsMove, CallsAssumption DEF roomVars, JoinOwed
  <1>10. CASE Send
    <2>1. /\ acks' = Append(acks, hand) /\ hand' = None /\ commands' = commands /\ desired' = desired
          /\ joinDue' = joinDue /\ tried' = (tried \/ IsJoin(hand)) /\ pc = "send"
          /\ joinSent' = (joinSent \/ (IsJoin(hand) /\ desired # None /\ joinDue))
      BY <1>10 DEF Send, queueVars, Running, WorkerAt
    <2>2. hand \in Calls \cup {Rejoin}
      BY <2>1 DEF Inv, TypeOK, ControlOK
    <2>3. Elements(acks') = Elements(acks) \cup {hand}
      <3>1. acks \in Seq(Calls \cup {Rejoin})
        BY DEF Inv, TypeOK
      <3> QED
        BY <2>1, <2>2, <3>1, AppendFacts
    <2>4. JoinWaits <=> \E c \in Elements(commands) \cup Elements(acks') : IsJoin(c)
      BY <2>3 DEF JoinWaits
    <2>5. JoinWaits => JoinWaits'
      BY <2>1, <2>4 DEF JoinWaits
    <2>6. IsJoin(hand) => JoinWaits
      BY DEF JoinWaits
    <2>7. pc \in Connected
      BY <2>1 DEF Connected
    <2> QED
      BY <2>1, <2>5, <2>6, <2>7, CallsAssumption DEF TriedOK, JoinOwed, OnceStep
  <1>11. CASE SendRefused
    <2>1. hand' = None /\ commands' = commands /\ acks' = acks /\ UNCHANGED roomVars /\ hand \in Uploads
      BY <1>11 DEF SendRefused, queueVars
    <2>2. pc \in Connected
      BY <1>11 DEF SendRefused, Running, WorkerAt, Connected
    <2>3. ~IsJoin(hand)
      BY <2>1, KindsAssumption, CallsAssumption DEF IsJoin, Calls
    <2>4. JoinWaits => JoinWaits'
      BY <2>1, <2>3 DEF JoinWaits
    <2> QED
      BY <2>1, <2>2, <2>4, JoinsMove, CallsAssumption DEF roomVars, JoinOwed
  <1>12. ASSUME NEW n \in 0..Len(acks), ExpireAcks(n)
         PROVE  TriedOK' /\ OnceStep
    <2>1. /\ acks' = SubSeq(acks, n + 1, Len(acks)) /\ hand' = hand /\ commands' = commands
          /\ desired' = desired /\ tried' = tried /\ SettleJoin(SubSeq(acks, 1, n)) /\ pc = "outgoing"
      BY <1>12 DEF ExpireAcks, queueVars, Running, WorkerAt
    <2>2. Elements(acks) = Elements(SubSeq(acks, 1, n)) \cup Elements(acks')
      BY <2>1, SplitFacts DEF Inv, TypeOK
    <2>3. joinDue' => UNCHANGED <<joinDue, joinSent>> /\ \A c \in Elements(SubSeq(acks, 1, n)) : ~IsJoin(c)
      BY <2>1 DEF SettleJoin
    <2>4. joinDue' => (JoinWaits => JoinWaits')
      BY <2>1, <2>2, <2>3 DEF JoinWaits
    <2>5. pc \in Connected
      BY <2>1 DEF Connected
    <2> QED
      BY <2>1, <2>3, <2>4, <2>5, JoinsMove DEF JoinOwed
  <1>13. ASSUME NEW i \in DOMAIN acks, NEW ok \in BOOLEAN, ReceiveAck(i, ok)
         PROVE  TriedOK' /\ OnceStep
    <2>1. /\ acks' = Removed(acks, i) /\ commands' = commands /\ desired' = desired /\ tried' = tried
          /\ SettleJoin(<<acks[i]>>) /\ pc = "receive"
          /\ hand' = hand \/ (hand' = acks[i] /\ acks[i] \in Renames)
      BY <1>13 DEF ReceiveAck, queueVars, Running, WorkerAt
    <2>2. Elements(acks) = Elements(acks') \cup {acks[i]}
      BY <2>1, RemovedFacts DEF Inv, TypeOK
    <2>3. Elements(<<acks[i]>>) = {acks[i]}
      BY DEF Elements
    <2>4. joinDue' => UNCHANGED <<joinDue, joinSent>> /\ ~IsJoin(acks[i])
      BY <2>1, <2>3 DEF SettleJoin
    <2>5. ~IsJoin(hand)
      BY <2>1, CallsAssumption DEF IsJoin, Calls, Inv, ControlOK
    <2>6. joinDue' => (JoinWaits => JoinWaits')
      BY <2>1, <2>2, <2>4, <2>5 DEF JoinWaits
    <2>7. pc \in Connected /\ (hand' # Rejoin \/ hand = Rejoin)
      BY <2>1, CallsAssumption DEF Connected, Calls
    <2> QED
      BY <2>1, <2>4, <2>6, <2>7, JoinsMove DEF JoinOwed
  <1>14. CASE CommitRename
    <2>1. /\ hand' = None /\ commands' = commands /\ acks' = acks /\ joinDue' = joinDue
          /\ joinSent' = joinSent /\ tried' = tried /\ pc = "rename"
          /\ desired' # None => desired # None
      BY <1>14 DEF CommitRename, RememberName, queueVars, WorkerAt
    <2>2. ~IsJoin(hand)
      BY <2>1, KindsAssumption, CallsAssumption DEF IsJoin, Calls, Inv, ControlOK
    <2>3. JoinWaits => JoinWaits'
      BY <2>1, <2>2 DEF JoinWaits
    <2>4. pc \in Connected
      BY <2>1 DEF Connected
    <2> QED
      BY <2>1, <2>3, <2>4, JoinsMove, CallsAssumption DEF JoinOwed
  <1> QED
    BY <1>1, <1>2, <1>3, <1>4, <1>5, <1>6, <1>7, <1>8, <1>9, <1>10, <1>11, <1>12, <1>13, <1>14 DEF Worker

\* On one connection the worker repeats the remembered join at most once, and
\* not when a join of the window was sent there or waits: neither before nor
\* after its acknowledgement or time-out.
THEOREM RejoinsOnce == Spec => RejoinOnce
  <1>1. Init => TriedOK
    BY DEF Init, TriedOK
  <1>2. Inv /\ TriedOK /\ [Next]_vars => TriedOK' /\ OnceStep
    <2> SUFFICES ASSUME Inv, TriedOK, [Next]_vars PROVE TriedOK' /\ OnceStep
      OBVIOUS
    <2>1. CASE UNCHANGED vars
      <3>1. UNCHANGED <<pc, commands, acks, hand, desired, joinDue, joinSent, tried>>
        BY <2>1 DEF vars, queueVars, roomVars, workerVars
      <3> QED
        BY <3>1, JoinsAlone
    <2> QED
      BY <2>1, WindowTried, WorkerTried DEF Next
  <1>3. Inv /\ TriedOK /\ [Next]_vars =>
          [hand' = Rejoin /\ hand # Rejoin =>
             ~tried /\ \A c \in Elements(commands) \cup Elements(acks) : ~IsJoin(c)]_vars
    BY <1>2 DEF OnceStep
  <1> QED
    BY <1>1, <1>2, <1>3, InvHolds, PTL DEF Spec, RejoinOnce

-----------------------------------------------------------------------------
(* The refinement of CloudRequests                                         *)

FateOf(c) ==
    IF New(c) THEN "fresh"
    ELSE IF c \in DeliveredCalls THEN "answered"
    ELSE IF c \in withdrawn THEN "withdrawn"
    ELSE IF gen = cgen /\ Open(c) # 0 THEN "open" ELSE "void"

\* Under the invariant the fate of a call is one of five, never "confused".
LEMMA FatesSettled == Inv => Fates = [c \in Calls |-> FateOf(c)]
  <1> SUFFICES ASSUME Inv, NEW c \in Calls PROVE Fate(InQueues, c) = FateOf(c)
    BY DEF Fates
  <1>1. c \in InQueues <=> Open(c) # 0
    BY CallsAssumption DEF InQueues, Open, Count, HandCalls, SettlingCalls, TurnedCalls
  <1>2. Open(c) \in Nat /\ Count(New(c)) + Open(c) + Count(c \in DeliveredCalls) + Count(c \in withdrawn) <= 1
    BY OpenCount DEF Inv, CallsApart
  <1>3. CASE c \in DeliveredCalls
    <2>1. PICK m \in delivered : m.call = c
      BY <1>3 DEF DeliveredCalls
    <2>2. {n \in delivered : n.call = c} = {m}
      BY <2>1 DEF Inv, QueuesOnce
    <2>3. Answers(c) = 1
      BY <2>2, FS_Singleton DEF Answers
    <2>4. ~New(c) /\ Open(c) = 0 /\ c \notin withdrawn
      <3> HIDE DEF New, DeliveredCalls
      <3> QED
        BY <1>2, <1>3 DEF Count
    <2> QED
      BY <1>1, <1>3, <2>3, <2>4 DEF Fate, FateOf
  <1>4. CASE c \notin DeliveredCalls
    <2>1. {n \in delivered : n.call = c} = {}
      BY <1>4 DEF DeliveredCalls
    <2>2. Answers(c) = 0
      BY <2>1, FS_EmptySet DEF Answers
    <2>3. (New(c) => Open(c) = 0 /\ c \notin withdrawn) /\ (c \in withdrawn => Open(c) = 0)
      <3> HIDE DEF New, DeliveredCalls
      <3> QED
        BY <1>2 DEF Count
    <2> QED
      BY <1>1, <1>4, <2>2, <2>3 DEF Fate, FateOf
  <1> QED
    BY <1>3, <1>4

\* Calls that move leave every fate as it is; a change of configuration voids those
\* that are open, and nothing else.
LEMMA MovesStutter ==
    ASSUME MovesInside, NEW c \in Calls
    PROVE  FateOf(c)' = FateOf(c)
  <1>1. Open(c) \in Nat /\ Open(c)' \in Nat
    BY OpenCount
  <1>2. (New(c)' <=> New(c)) /\ DeliveredCalls' = DeliveredCalls /\ withdrawn' = withdrawn /\ cgen' = cgen
    BY DEF MovesInside, New, DeliveredCalls
  <1>3. (gen' = cgen' /\ Open(c)' # 0) <=> (gen = cgen /\ Open(c) # 0)
    BY <1>1 DEF MovesInside
  <1> QED
    BY <1>2, <1>3 DEF FateOf

LEMMA VoidsReset ==
    ASSUME Voids, NEW c \in Calls
    PROVE  FateOf(c)' = IF FateOf(c) = "open" THEN "void" ELSE FateOf(c)
  <1>1. (New(c)' <=> New(c)) /\ DeliveredCalls' = DeliveredCalls /\ withdrawn' = withdrawn
    BY DEF Voids, New, DeliveredCalls
  <1>2. ~ (gen' = cgen' /\ Open(c)' # 0)
    BY DEF Voids
  <1> QED
    BY <1>1, <1>2 DEF FateOf

\* The fates of the calls no step is about stay.
LEMMA OthersKeepFate ==
    ASSUME NEW x, OthersStay(x), NEW c \in Calls \ {x},
           New(c)' <=> New(c), (c \in DeliveredCalls)' <=> c \in DeliveredCalls,
           (c \in withdrawn)' <=> c \in withdrawn
    PROVE  FateOf(c)' = FateOf(c)
  BY DEF OthersStay, FateOf

LEMMA PromiseStep ==
    ASSUME Inv, KeepsCalls, Fates = [c \in Calls |-> FateOf(c)],
           Fates' = [c \in Calls |-> FateOf(c)']
    PROVE  [Promise!Next]_<<Fates, cgen>>
  <1>1. CASE MovesInside
    <2>1. Fates' = Fates
      BY <1>1, MovesStutter
    <2> QED
      BY <1>1, <2>1 DEF MovesInside
  <1>2. CASE Voids
    <2>1. \A c \in Calls : FateOf(c)' = IF FateOf(c) = "open" THEN "void" ELSE FateOf(c)
      BY <1>2, VoidsReset
    <2>2. Fates' = [c \in Calls |-> IF Fates[c] = "open" THEN "void" ELSE Fates[c]]
      BY <2>1
    <2> QED
      BY <1>2, <2>2 DEF Voids, Promise!Next, Promise!Reset
  <1>3. ASSUME NEW d \in Calls, NEW v, cgen' = cgen, FateOf(d)' = v, v # FateOf(d),
               \A c \in Calls \ {d} : FateOf(c)' = FateOf(c)
        PROVE  Fates' = [Fates EXCEPT ![d] = v] /\ Fates' # Fates /\ Fates[d] = FateOf(d)
    <2>1. Fates[d] = FateOf(d) /\ Fates'[d] = v
      BY <1>3
    <2>2. Fates' = [Fates EXCEPT ![d] = v]
      BY <1>3
    <2> QED
      BY <1>3, <2>1, <2>2
  <1>4. ASSUME NEW d \in Calls, Accepts(d) PROVE Promise!Next
    <2>1. OthersStay(d) /\ New(d) /\ ~New(d)' /\ Open(d)' = Open(d) + 1 /\ Open(d) \in Nat
      BY <1>4, OpenCount DEF Accepts, New
    <2>2. d \notin DeliveredCalls' /\ d \notin withdrawn'
      <3>1. DeliveredCalls' = DeliveredCalls /\ withdrawn' = withdrawn
        BY <1>4 DEF Accepts, DeliveredCalls
      <3>2. Count(New(d)) + Open(d) + Count(d \in DeliveredCalls) + Count(d \in withdrawn) <= 1
        BY DEF Inv, CallsApart
      <3> HIDE DEF New, DeliveredCalls
      <3> QED
        BY <2>1, <3>1, <3>2 DEF Count
    <2>3. FateOf(d) = "fresh" /\ FateOf(d)' = "open"
      BY <2>1, <2>2 DEF FateOf, OthersStay
    <2>4. \A c \in Calls \ {d} : FateOf(c)' = FateOf(c)
      <3> TAKE c \in Calls \ {d}
      <3>1. /\ New(c)' <=> New(c)
            /\ (c \in DeliveredCalls)' <=> c \in DeliveredCalls
            /\ (c \in withdrawn)' <=> c \in withdrawn
        BY <1>4 DEF Accepts, New, DeliveredCalls
      <3> QED
        BY <2>1, <3>1, OthersKeepFate
    <2>5. Promise!Accept(d) /\ Fates' # Fates
      BY <1>3, <2>1, <2>3, <2>4 DEF Promise!Accept, OthersStay
    <2> QED
      BY <2>1, <2>5 DEF Promise!Next, OthersStay
  <1>5. ASSUME NEW d \in Calls, Withdraws(d) PROVE Promise!Next
    <2>1. OthersStay(d) /\ Open(d) = 1 /\ Open(d)' = 0 /\ d \in withdrawn' /\ d \in Queries
      BY <1>5 DEF Withdraws
    <2>2. ~New(d) /\ d \notin DeliveredCalls /\ d \notin withdrawn
      BY <2>1, OpenOnce DEF Inv
    <2>3. (New(d)' <=> New(d)) /\ ((d \in DeliveredCalls)' <=> d \in DeliveredCalls)
      BY <1>5 DEF Withdraws, New, DeliveredCalls
    <2>4. FateOf(d) = "open" /\ FateOf(d)' = "withdrawn"
      BY <2>1, <2>2, <2>3 DEF FateOf, OthersStay
    <2>5. \A c \in Calls \ {d} : FateOf(c)' = FateOf(c)
      <3> TAKE c \in Calls \ {d}
      <3>1. /\ New(c)' <=> New(c)
            /\ (c \in DeliveredCalls)' <=> c \in DeliveredCalls
            /\ (c \in withdrawn)' <=> c \in withdrawn
        BY <1>5 DEF Withdraws, New, DeliveredCalls
      <3> QED
        BY <2>1, <3>1, OthersKeepFate
    <2>6. Promise!Withdraw(d) /\ Fates' # Fates
      BY <1>3, <2>1, <2>4, <2>5 DEF Promise!Withdraw, OthersStay
    <2> QED
      BY <2>1, <2>6 DEF Promise!Next, OthersStay
  <1>6. ASSUME NEW m \in ResultMessages, Delivers(m) PROVE [Promise!Next]_<<Fates, cgen>>
    <2>1. OthersStay(m.call)
      BY <1>6 DEF Delivers
    <2>2. \A c \in Calls \ {m.call} : FateOf(c)' = FateOf(c)
      <3> TAKE c \in Calls \ {m.call}
      <3>1. /\ New(c)' <=> New(c)
            /\ (c \in DeliveredCalls)' <=> c \in DeliveredCalls
            /\ (c \in withdrawn)' <=> c \in withdrawn
        BY <1>6 DEF Delivers, New, DeliveredCalls
      <3> QED
        BY <2>1, <3>1, OthersKeepFate
    <2>3. CASE m.call \notin Calls
      <3>1. Fates' = Fates
        BY <2>2, <2>3
      <3> QED
        BY <2>1, <3>1 DEF OthersStay
    <2>4. CASE m.call \in Calls
      <3> PICK d : d = m.call
        OBVIOUS
      <3>1. d \in Calls /\ Open(d) = 1 /\ OthersStay(d) /\ \A c \in Calls \ {d} : FateOf(c)' = FateOf(c)
        BY <1>6, <2>1, <2>2, <2>4 DEF Delivers
      <3>2. ~New(d) /\ d \notin DeliveredCalls /\ d \notin withdrawn
        BY <3>1, OpenOnce DEF Inv
      <3>3. (New(d)' <=> New(d)) /\ d \in DeliveredCalls'
        BY <1>6 DEF Delivers, New, DeliveredCalls
      <3>4. FateOf(d) = "open" /\ FateOf(d)' = "answered"
        BY <3>1, <3>2, <3>3 DEF FateOf, OthersStay
      <3>5. Promise!Answer(d) /\ Fates' # Fates
        BY <1>3, <3>1, <3>4 DEF Promise!Answer, OthersStay
      <3> QED
        BY <3>1, <3>5 DEF Promise!Next, OthersStay
    <2> QED
      BY <2>3, <2>4
  <1> QED
    BY <1>1, <1>2, <1>4, <1>5, <1>6 DEF KeepsCalls

\* The client implements CloudRequests: of the calls it accepts none is forgotten,
\* answered twice, or answered after its withdrawal, until a change of configuration
\* voids what is open.
THEOREM PromiseKept == Spec => KeepsPromise
  <1>1. Init => Promise!Init
    <2> SUFFICES ASSUME Init PROVE Promise!Init
      OBVIOUS
    <2>1. Fates = [c \in Calls |-> FateOf(c)]
      BY InvInit, FatesSettled
    <2>2. \A c \in Calls : FateOf(c) = "fresh"
      BY DEF Init, FateOf, New
    <2> QED
      BY <2>1, <2>2 DEF Promise!Init, Init
  <1>2. (Inv => Fates = [c \in Calls |-> FateOf(c)])'
    BY FatesSettled, PTL
  <1>3. Inv /\ [Next]_vars => [Promise!Next]_<<Fates, cgen>>
    <2> SUFFICES ASSUME Inv, [Next]_vars PROVE [Promise!Next]_<<Fates, cgen>>
      OBVIOUS
    <2>1. Inv' /\ KeepsCalls
      BY InvStep
    <2>2. Fates = [c \in Calls |-> FateOf(c)]
      BY FatesSettled
    <2>3. Fates' = [c \in Calls |-> FateOf(c)']
      BY <1>2, <2>1
    <2> QED
      BY <2>1, <2>2, <2>3, PromiseStep
  <1> QED
    BY InvHolds, <1>1, <1>3, PTL DEF Spec, KeepsPromise, Promise!Spec

=============================================================================
