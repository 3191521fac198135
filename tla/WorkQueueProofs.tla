----------------------------- MODULE WorkQueueProofs -----------------------------
(***************************************************************************)
(* Theorems of WorkQueue for any tickets and Consultations: the places     *)
(* stay packed, nothing waits twice, and the table implements the line.    *)
(*                                                                         *)
(* That one automatic continuation stands is not a property of the table:  *)
(* an entry looks for its own ticket only.  It holds because what the walk *)
(* read before its await stays true of the rows only the walk adds         *)
(* (ReadingHolds).                                                         *)
(*                                                                         *)
(* A repack sends the row of rank i to place i.  That the ranks of the     *)
(* rows that stay are 0 to m - 1 is a count: they are m distinct numbers   *)
(* below m (RankOrders).                                                   *)
(***************************************************************************)
EXTENDS WorkQueue, FiniteSetTheorems, TLAPS

(* A table of n rows of R, on the places 0 to n - 1. *)
Tables(R, n) == [0..(n - 1) -> R]

Distinct(q) == \A p, o \in Positions(q) : q[p].id = q[o].id => p = o

--------------------------------------------------------------------------------
(* What the helpers make of a table. *)

LEMMA PlacesOf ==
    ASSUME NEW R, NEW n \in Nat, NEW q \in Tables(R, n)
    PROVE  /\ Positions(q) = 0..(n - 1) /\ Positions(q) \subseteq Nat
           /\ IsFiniteSet(Positions(q)) /\ Cardinality(Positions(q)) = n
           /\ End(q) = n
           /\ \A p \in Positions(q) : q[p] \in R
  <1>1. Positions(q) = 0..(n - 1) /\ \A p \in Positions(q) : q[p] \in R
    BY DEF Tables, Positions
  <1>2. IsFiniteSet(Positions(q)) /\ Cardinality(Positions(q)) = n
    BY <1>1, FS_Interval
  <1>3. CASE n = 0
    BY <1>1, <1>2, <1>3 DEF End
  <1>4. CASE n # 0
    <2>1. n - 1 \in Positions(q) /\ \A o \in Positions(q) : o <= n - 1
      BY <1>1, <1>4
    <2>2. Greatest(Positions(q)) \in Positions(q)
          /\ \A o \in Positions(q) : o <= Greatest(Positions(q))
      BY <2>1 DEF Greatest
    <2>3. Greatest(Positions(q)) = n - 1
      <3> DEFINE g == Greatest(Positions(q))
      <3>1. g \in 0..(n - 1) /\ n - 1 <= g
        BY <1>1, <2>1, <2>2
      <3> HIDE DEF g
      <3>2. g = n - 1
        BY <3>1
      <3>3. QED
        BY <3>2 DEF g
    <2>4. QED
      BY <1>1, <1>2, <2>1, <2>3 DEF End
  <1>5. QED
    BY <1>1, <1>3, <1>4

(* A set of places has a least one. *)
LEMMA LeastIs ==
    ASSUME NEW S \in SUBSET Nat, S # {}
    PROVE  Least(S) \in S /\ \A o \in S : Least(S) <= o
  <1> DEFINE R == OpToRel(<, Nat)
  <1>1. \E p \in S : \A o \in S : <<o, p>> \notin R
    <2> HIDE DEF R
    <2>1. IsWellFoundedOn(R, Nat)
      BY NatLessThanWellFounded DEF R
    <2>2. QED
      BY <2>1, WFMin
  <1>2. ASSUME NEW o \in Nat, NEW p \in Nat, o < p
        PROVE  <<o, p>> \in R
    BY <1>2 DEF OpToRel
  <1> HIDE DEF R
  <1>3. PICK p \in S : \A o \in S : <<o, p>> \notin R
    BY <1>1
  <1>4. \A o \in S : ~(o < p)
    BY <1>2, <1>3
  <1>5. \A o \in S : p <= o
    BY <1>4
  <1>6. QED
    BY <1>5 DEF Least

(* An entry finds a place between the rows, and those ahead of it may stay ahead. *)
LEMMA EntryPlaceIs ==
    ASSUME NEW R, NEW n \in Nat, NEW q \in Tables(R, n), NEW r
    PROVE  /\ EntryPlace(q, r) \in 0..n
           /\ \A p \in 0..(n - 1) : p < EntryPlace(q, r) =>
                /\ r.automatic /\ r.origin = "workflow" => Route(q[p])
                /\ r.automatic /\ r.origin = "restart" => Owed(q[p])
           /\ ~(r.automatic /\ r.origin \in {"workflow", "restart"}) => EntryPlace(q, r) = n
  <1> DEFINE behind == {p \in Positions(q) :
                          \/ r.automatic /\ r.origin = "workflow" /\ ~Route(q[p])
                          \/ r.automatic /\ r.origin = "restart" /\ ~Owed(q[p])}
  <1>1. EntryPlace(q, r) = IF behind = {} THEN End(q) ELSE Least(behind)
    BY DEF EntryPlace
  <1>2. Positions(q) = 0..(n - 1) /\ End(q) = n
    BY PlacesOf
  <1>3. \A p \in 0..(n - 1) : p \notin behind =>
           /\ r.automatic /\ r.origin = "workflow" => Route(q[p])
           /\ r.automatic /\ r.origin = "restart" => Owed(q[p])
    BY <1>2
  <1>4. ~(r.automatic /\ r.origin \in {"workflow", "restart"}) => behind = {}
    OBVIOUS
  <1>5. behind \subseteq 0..(n - 1) /\ behind \in SUBSET Nat
    BY <1>2
  <1> HIDE DEF behind
  <1>6. CASE behind = {}
    BY <1>1, <1>2, <1>3, <1>6
  <1>7. CASE behind # {}
    <2>2. Least(behind) \in behind /\ \A o \in behind : Least(behind) <= o
      BY <1>5, <1>7, LeastIs
    <2>3. \A p \in 0..(n - 1) : p < Least(behind) => p \notin behind
      <3> DEFINE least == Least(behind)
      <3>1. least \in 0..(n - 1) /\ \A o \in behind : least <= o
        BY <1>5, <2>2
      <3> HIDE DEF least
      <3>2. \A p \in 0..(n - 1) : p < least => p \notin behind
        BY <3>1
      <3>3. QED
        BY <3>2 DEF least
    <2>4. EntryPlace(q, r) = Least(behind) /\ ~(behind = {})
      BY <1>1, <1>7
    <2>5. \A p \in behind : p \in 0..n
      BY <1>5
    <2>6. Least(behind) \in 0..n
      BY <2>2, <2>5
    <2>7. QED
      BY <1>3, <1>4, <2>3, <2>4, <2>6
  <1>8. QED
    BY <1>6, <1>7

LEMMA EnterIs ==
    ASSUME NEW R, NEW n \in Nat, NEW q \in Tables(R, n), NEW r \in R, NEW place \in 0..n
    PROVE  /\ Enter(q, place, r) \in Tables(R, n + 1)
           /\ \A p \in 0..n : Enter(q, place, r)[p] =
                IF p < place THEN q[p] ELSE IF p = place THEN r ELSE q[p - 1]
  <1> DEFINE before == {p \in Positions(q) : p < place}
             later == {p + 1 : p \in Positions(q) \ before}
             at(p) == IF p < place THEN q[p] ELSE IF p = place THEN r ELSE q[p - 1]
  <1>1. Positions(q) = 0..(n - 1) /\ \A p \in 0..(n - 1) : q[p] \in R
    BY PlacesOf
  <1>2. before = 0..(place - 1)
    BY <1>1
  <1>3. Positions(q) \ before = place..(n - 1)
    BY <1>1, <1>2
  <1>4. later = (place + 1)..n
    <2>1. \A p \in (place + 1)..n : p - 1 \in place..(n - 1) /\ p = (p - 1) + 1
      OBVIOUS
    <2>2. \A p \in place..(n - 1) : p + 1 \in (place + 1)..n
      OBVIOUS
    <2> HIDE DEF before
    <2>3. QED
      BY <1>3, <2>1, <2>2
  <1>5. before \cup {place} \cup later = 0..n
    BY <1>2, <1>4
  <1>6. \A p \in 0..n : at(p) \in R
    BY <1>1
  <1>7. Enter(q, place, r) = [p \in 0..n |-> at(p)]
    BY <1>5 DEF Enter
  <1>8. (n + 1) - 1 = n
    OBVIOUS
  <1> HIDE DEF at
  <1>9. Enter(q, place, r) \in Tables(R, n + 1) /\ \A p \in 0..n : Enter(q, place, r)[p] = at(p)
    BY <1>6, <1>7, <1>8 DEF Tables
  <1>10. QED
    BY <1>9 DEF at

(* Rows that leave: the places are those of the rows that stay, in their order. *)
Orders(e, m, K) ==
    /\ e \in [0..(m - 1) -> K]
    /\ \A i, j \in 0..(m - 1) : i < j => e[i] < e[j]
    /\ \A p \in K : \E i \in 0..(m - 1) : e[i] = p

LEMMA RankOrders ==
    ASSUME NEW K \in SUBSET Nat, IsFiniteSet(K)
    PROVE  /\ Cardinality(K) \in Nat
           /\ Orders([i \in 0..(Cardinality(K) - 1) |->
                        CHOOSE p \in K : Cardinality({o \in K : o < p}) = i],
                     Cardinality(K), K)
  <1> DEFINE m == Cardinality(K)
             below(p) == {o \in K : o < p}
             rank == [p \in K |-> Cardinality(below(p))]
             e == [i \in 0..(m - 1) |-> CHOOSE p \in K : Cardinality(below(p)) = i]
  <1>0. \A p \in K : p \in Nat
    OBVIOUS
  <1>1. m \in Nat
    BY FS_CardinalityType
  <1>2. ASSUME NEW p \in K
        PROVE  IsFiniteSet(below(p)) /\ rank[p] \in 0..(m - 1)
    <2>1. below(p) \in SUBSET K /\ p \notin below(p)
      OBVIOUS
    <2>2. IsFiniteSet(below(p)) /\ Cardinality(below(p)) <= m /\ Cardinality(below(p)) # m
      BY <2>1, FS_Subset
    <2>3. Cardinality(below(p)) \in Nat
      BY <2>2, FS_CardinalityType
    <2>4. QED
      BY <1>1, <2>2, <2>3
  <1>3. ASSUME NEW p \in K, NEW o \in K, o < p
        PROVE  rank[o] < rank[p]
    <2>0. o \in Nat /\ p \in Nat
      BY <1>0
    <2>1. below(o) \in SUBSET below(p) /\ o \in below(p) /\ o \notin below(o)
      <3>1. \A x \in below(o) : x \in below(p)
        <4> SUFFICES ASSUME NEW x \in K, x < o PROVE x < p
          OBVIOUS
        <4>1. QED
          BY <2>0, <1>0, <1>3
      <3>2. o \in below(p) /\ o \notin below(o)
        BY <2>0, <1>3
      <3>3. QED
        BY <3>1, <3>2
    <2>2. Cardinality(below(o)) <= Cardinality(below(p))
          /\ Cardinality(below(o)) # Cardinality(below(p))
      BY <1>2, <2>1, FS_Subset
    <2>3. Cardinality(below(o)) \in Nat /\ Cardinality(below(p)) \in Nat
      BY <1>2, FS_CardinalityType
    <2>4. QED
      BY <2>2, <2>3
  <1> HIDE DEF below
  <1>4. rank \in [K -> 0..(m - 1)]
    BY <1>2
  <1>5. \A p, o \in K : rank[p] = rank[o] => p = o
    <2> SUFFICES ASSUME NEW p \in K, NEW o \in K, p # o PROVE rank[p] # rank[o]
      OBVIOUS
    <2>1. p < o \/ o < p
      BY <1>0
    <2>2. rank[p] \in Int /\ rank[o] \in Int
      BY <1>1, <1>4
    <2> HIDE DEF rank
    <2>3. QED
      BY <1>3, <2>1, <2>2
  <1>6. IsFiniteSet(0..(m - 1)) /\ Cardinality(0..(m - 1)) = m
    <2> HIDE DEF m
    <2>1. 0 \in Int /\ m - 1 \in Int /\ (IF 0 > m - 1 THEN 0 ELSE (m - 1) - 0 + 1) = m
      BY <1>1
    <2>2. QED
      BY <2>1, FS_Interval
  <1>7. \A i \in 0..(m - 1) : \E p \in K : rank[p] = i
    <2> HIDE DEF rank, m
    <2>1. rank \in Injection(K, 0..(m - 1))
      BY <1>4, <1>5 DEF Injection, IsInjective
    <2>2. rank \in Surjection(K, 0..(m - 1))
      BY <1>6, <2>1, FS_Injection DEF m
    <2>3. QED
      BY <2>2 DEF Surjection
  <1>8. \A i \in 0..(m - 1) : e[i] \in K /\ rank[e[i]] = i
    <2> SUFFICES ASSUME NEW i \in 0..(m - 1) PROVE e[i] \in K /\ rank[e[i]] = i
      OBVIOUS
    <2>1. \E p \in K : Cardinality(below(p)) = i
      BY <1>7
    <2>2. e[i] = CHOOSE p \in K : Cardinality(below(p)) = i
      OBVIOUS
    <2>3. QED
      BY <2>1, <2>2
  <1>9. \A i, j \in 0..(m - 1) : i < j => e[i] < e[j]
    <2> SUFFICES ASSUME NEW i \in 0..(m - 1), NEW j \in 0..(m - 1), i < j PROVE e[i] < e[j]
      OBVIOUS
    <2>1. e[i] \in K /\ e[j] \in K /\ rank[e[i]] = i /\ rank[e[j]] = j
      BY <1>8
    <2> HIDE DEF e, rank, m
    <2>2. e[i] = e[j] \/ e[j] < e[i] \/ e[i] < e[j]
      <3>1. \A a, b \in K : a = b \/ b < a \/ a < b
        BY <1>0
      <3>2. QED
        BY <2>1, <3>1
    <2>3. ~(e[j] < e[i]) /\ e[i] # e[j]
      <3>1. e[j] < e[i] => j < i
        BY <1>3, <2>1
      <3>2. i \in Int /\ j \in Int
        OBVIOUS
      <3>3. QED
        BY <2>1, <3>1, <3>2
    <2>4. QED
      BY <2>2, <2>3
  <1>10. \A p \in K : \E i \in 0..(m - 1) : e[i] = p
    <2> SUFFICES ASSUME NEW p \in K PROVE e[rank[p]] = p
      BY <1>4
    <2>1. rank[p] \in 0..(m - 1)
      BY <1>4
    <2>2. e[rank[p]] \in K /\ rank[e[rank[p]]] = rank[p]
      BY <1>8, <2>1
    <2> HIDE DEF e, rank
    <2>3. QED
      BY <1>5, <2>2
  <1>11. e \in [0..(m - 1) -> K]
    BY <1>8
  <1>12. e = [i \in 0..(Cardinality(K) - 1) |->
                CHOOSE p \in K : Cardinality({o \in K : o < p}) = i]
    BY DEF below
  <1> HIDE DEF e
  <1>13. QED
    BY <1>1, <1>9, <1>10, <1>11, <1>12 DEF Orders

(* The rows that stay are packed, in their order. *)
Packs(R, q, S) == \E m \in Nat : \E e \in [0..(m - 1) -> Positions(q) \ S] :
    /\ Orders(e, m, Positions(q) \ S)
    /\ TakeOut(q, S) \in Tables(R, m)
    /\ \A i \in 0..(m - 1) : TakeOut(q, S)[i] = q[e[i]]

LEMMA TakeOutIs ==
    ASSUME NEW R, NEW n \in Nat, NEW q \in Tables(R, n), NEW S \in SUBSET Positions(q)
    PROVE  Packs(R, q, S)
  <1> DEFINE K == Positions(q) \ S
             m == Cardinality(K)
             e == [i \in 0..(m - 1) |-> CHOOSE p \in K : Cardinality({o \in K : o < p}) = i]
             k == Kept(q, S)
  <1>1. K \in SUBSET Nat /\ IsFiniteSet(K)
    BY PlacesOf, FS_Subset
  <1>2. m \in Nat /\ Orders(e, m, K)
    BY <1>1, RankOrders
  <1>3. Positions(k) = K /\ \A p \in K : k[p] = q[p]
    BY DEF Kept, Positions
  <1>4. TakeOut(q, S) = [i \in 0..(m - 1) |-> k[e[i]]]
    BY <1>3 DEF TakeOut, Repack
  <1>5. e \in [0..(m - 1) -> K]
    BY <1>2 DEF Orders
  <1>6. \A p \in K : q[p] \in R
    BY PlacesOf
  <1> HIDE DEF e, k, m, K
  <1>7. TakeOut(q, S) \in Tables(R, m) /\ \A i \in 0..(m - 1) : TakeOut(q, S)[i] = q[e[i]]
    BY <1>3, <1>4, <1>5, <1>6 DEF Tables
  <1>8. QED
    BY <1>2, <1>5, <1>7 DEF m, K, Packs

--------------------------------------------------------------------------------
(* The invariant. *)

(* One continuation the factory owes, one automatic open start. *)
OneOwed(q) == \A p, o \in Positions(q) :
    /\ q[p].automatic /\ q[o].automatic
    /\ q[p].origin = q[o].origin /\ q[p].origin # "restart"
    => p = o

(* What a walk read and waits to act on is still so, for what only the walk adds. *)
ReadingHolds(q, reading) == \A p \in Positions(q) :
    /\ reading = "no-route" => ~(q[p].automatic /\ q[p].origin = "workflow")
    /\ reading = "empty" => ~(q[p].automatic /\ q[p].origin = "open")

IInv ==
    /\ \E n \in Nat : queue \in Tables(Row, n)
    /\ topUp \in Readings
    /\ Distinct(queue)
    /\ OneOwed(queue)
    /\ ReadingHolds(queue, topUp)

(* The line the table implements: who stands, and who stands ahead of whom. *)
Waits(q) == {q[p] : p \in Positions(q)}
Before(q) == {<<q[pp[1]].id, q[pp[2]].id>> :
                pp \in {po \in Positions(q) \X Positions(q) : po[1] < po[2]}}

LEMMA LineIs ==
    ASSUME NEW q
    PROVE  /\ \A a, b : <<a, b>> \in Before(q) <=>
                \E p, o \in Positions(q) : p < o /\ a = q[p].id /\ b = q[o].id
           /\ \A x \in Before(q) : x = <<x[1], x[2]>>
           /\ \A a : a \in Line!Ids(Waits(q)) <=> \E p \in Positions(q) : q[p].id = a
           /\ Before(q) \subseteq Line!Ids(Waits(q)) \X Line!Ids(Waits(q))
  <1> DEFINE P == Positions(q)
             Q == {po \in P \X P : po[1] < po[2]}
  <1>1. ASSUME NEW a, NEW b, <<a, b>> \in Before(q)
        PROVE  \E p, o \in P : p < o /\ a = q[p].id /\ b = q[o].id
    <2>1. PICK pp \in Q : <<a, b>> = <<q[pp[1]].id, q[pp[2]].id>>
      BY <1>1 DEF Before
    <2>2. pp[1] \in P /\ pp[2] \in P /\ pp[1] < pp[2]
      OBVIOUS
    <2>3. a = q[pp[1]].id /\ b = q[pp[2]].id
      BY <2>1
    <2>4. QED
      BY <2>2, <2>3
  <1>2. ASSUME NEW p \in P, NEW o \in P, p < o
        PROVE  <<q[p].id, q[o].id>> \in Before(q)
    <2>1. <<p, o>> \in Q
      BY <1>2
    <2>2. <<q[<<p, o>>[1]].id, q[<<p, o>>[2]].id>> \in Before(q)
      BY <2>1 DEF Before
    <2>3. QED
      BY <2>2
  <1>3. \A a : a \in Line!Ids(Waits(q)) <=> \E p \in P : q[p].id = a
    BY DEF Line!Ids, Waits
  <1>4. \A x \in Before(q) : \E p, o \in P : x = <<q[p].id, q[o].id>>
    <2> SUFFICES ASSUME NEW x \in Before(q) PROVE \E p, o \in P : x = <<q[p].id, q[o].id>>
      OBVIOUS
    <2>1. PICK pp \in Q : x = <<q[pp[1]].id, q[pp[2]].id>>
      BY DEF Before
    <2>2. pp[1] \in P /\ pp[2] \in P
      OBVIOUS
    <2>3. QED
      BY <2>1, <2>2
  <1> HIDE DEF P
  <1>5. \A x \in Before(q) : x = <<x[1], x[2]>>
    BY <1>4
  <1>6. Before(q) \subseteq Line!Ids(Waits(q)) \X Line!Ids(Waits(q))
    BY <1>3, <1>4
  <1>7. \A a, b : <<a, b>> \in Before(q) <=> \E p, o \in P : p < o /\ a = q[p].id /\ b = q[o].id
    <2> SUFFICES ASSUME NEW a, NEW b
        PROVE  <<a, b>> \in Before(q) <=> \E p, o \in P : p < o /\ a = q[p].id /\ b = q[o].id
      OBVIOUS
    <2>1. <<a, b>> \in Before(q) => \E p, o \in P : p < o /\ a = q[p].id /\ b = q[o].id
      BY <1>1
    <2>2. ASSUME NEW p \in P, NEW o \in P, p < o, a = q[p].id, b = q[o].id
          PROVE  <<a, b>> \in Before(q)
      BY <1>2, <2>2
    <2>3. QED
      BY <2>1, <2>2
  <1>8. QED
    BY <1>3, <1>5, <1>6, <1>7 DEF P

(* With one row each, the order of the places is the order of the ids. *)
LEMMA BeforeIs ==
    ASSUME NEW n \in Nat, NEW q \in Tables(Row, n), Distinct(q)
    PROVE  /\ \A p, o \in Positions(q) : <<q[p].id, q[o].id>> \in Before(q) <=> p < o
           /\ Line!IsLine(Line!Ids(Waits(q)), Before(q))
  <1> DEFINE P == Positions(q)
             I == Line!Ids(Waits(q))
  <1>1. \A p \in P : p \in Nat
    BY PlacesOf
  <1>2. \A p, o \in P : <<q[p].id, q[o].id>> \in Before(q) <=> p < o
    BY LineIs DEF Distinct
  <1>3. \A a \in I : \E p \in P : q[p].id = a
    BY LineIs
  <1>4. Before(q) \subseteq I \X I
    BY LineIs
  <1> HIDE DEF P, I
  <1>5. \A a, b \in I : a # b => (<<a, b>> \in Before(q) <=> <<b, a>> \notin Before(q))
    <2> SUFFICES ASSUME NEW a \in I, NEW b \in I, a # b
        PROVE  <<a, b>> \in Before(q) <=> <<b, a>> \notin Before(q)
      OBVIOUS
    <2>1. PICK p \in P : q[p].id = a
      BY <1>3
    <2>2. PICK o \in P : q[o].id = b
      BY <1>3
    <2>3. p # o /\ (p < o <=> ~(o < p))
      BY <1>1, <2>1, <2>2
    <2>4. QED
      BY <1>2, <2>1, <2>2, <2>3
  <1>6. \A a \in I : <<a, a>> \notin Before(q)
    <2> SUFFICES ASSUME NEW a \in I PROVE <<a, a>> \notin Before(q)
      OBVIOUS
    <2>1. PICK p \in P : q[p].id = a
      BY <1>3
    <2>2. ~(p < p)
      BY <1>1
    <2>3. QED
      BY <1>2, <2>1, <2>2
  <1>7. \A a, b, c \in I :
          <<a, b>> \in Before(q) /\ <<b, c>> \in Before(q) => <<a, c>> \in Before(q)
    <2> SUFFICES ASSUME NEW a \in I, NEW b \in I, NEW c \in I,
                        <<a, b>> \in Before(q), <<b, c>> \in Before(q)
        PROVE  <<a, c>> \in Before(q)
      OBVIOUS
    <2>1. PICK p \in P : q[p].id = a
      BY <1>3
    <2>2. PICK o \in P : q[o].id = b
      BY <1>3
    <2>3. PICK k \in P : q[k].id = c
      BY <1>3
    <2>4. p < o /\ o < k
      BY <1>2, <2>1, <2>2, <2>3
    <2>5. p < k
      BY <1>1, <2>4
    <2>6. QED
      BY <1>2, <2>1, <2>3, <2>5
  <1>8. Line!IsLine(I, Before(q))
    BY <1>4, <1>5, <1>6, <1>7 DEF Line!IsLine
  <1>9. QED
    BY <1>2, <1>8 DEF P, I

--------------------------------------------------------------------------------
(* A row joins. *)

LEMMA JoinKeeps ==
    ASSUME IInv, NEW r \in Row, Enqueue(r), topUp' \in {topUp, "none"},
           r.automatic => topUp' = "none",
           r.automatic /\ r.origin = "workflow" => topUp = "no-route",
           r.automatic /\ r.origin = "open" => topUp = "empty",
           r.automatic => r.origin \in Origins
    PROVE  IInv' /\ Line!Join(r)
  <1> DEFINE place == EntryPlace(queue, r)
             new == Enter(queue, place, r)
             from(p) == IF p < place THEN p ELSE p - 1
  <1>1. PICK n \in Nat : queue \in Tables(Row, n)
    BY DEF IInv
  <1>2. queue' = new /\ ~Holds(queue, r.id)
    BY DEF Enqueue
  <1>3. /\ place \in 0..n
        /\ \A p \in 0..(n - 1) : p < place =>
              /\ r.automatic /\ r.origin = "workflow" => Route(queue[p])
              /\ r.automatic /\ r.origin = "restart" => Owed(queue[p])
        /\ ~(r.automatic /\ r.origin \in {"workflow", "restart"}) => place = n
    BY <1>1, EntryPlaceIs
  <1>4. Positions(queue) = 0..(n - 1) /\ \A p \in 0..(n - 1) : queue[p] \in Row
    BY <1>1, PlacesOf
  <1> HIDE DEF place
  <1>5. /\ new \in Tables(Row, n + 1)
        /\ \A p \in 0..n : new[p] =
             IF p < place THEN queue[p] ELSE IF p = place THEN r ELSE queue[p - 1]
    BY <1>1, <1>3, EnterIs
  <1>6. n + 1 \in Nat /\ Positions(new) = 0..n
    BY <1>5, PlacesOf
  <1> HIDE DEF new
  <1>7. \A p \in 0..n : p # place =>
          from(p) \in 0..(n - 1) /\ new[p] = queue[from(p)]
    BY <1>3, <1>5
  <1>8. \A p, o \in 0..n : p # place /\ o # place =>
          (from(p) = from(o) <=> p = o) /\ (from(p) < from(o) <=> p < o)
    BY <1>3
  <1>9. new[place] = r
    BY <1>3, <1>5
  <1>10. \A p \in 0..(n - 1) : \E o \in 0..n : o # place /\ from(o) = p
    <2> SUFFICES ASSUME NEW p \in 0..(n - 1)
        PROVE  \E o \in 0..n : o # place /\ from(o) = p
      OBVIOUS
    <2>1. CASE p < place
      BY <1>3, <2>1
    <2>2. CASE ~(p < place)
      <3>1. p + 1 \in 0..n /\ p + 1 # place /\ from(p + 1) = p
        BY <1>3, <2>2
      <3>2. QED
        BY <3>1
    <2>3. QED
      BY <2>1, <2>2
  <1> HIDE DEF from
  <1>11. \A p \in 0..(n - 1) : queue[p].id # r.id
    BY <1>2, <1>4 DEF Holds
  <1>12. Distinct(new)
    <2> SUFFICES ASSUME NEW p \in 0..n, NEW o \in 0..n, new[p].id = new[o].id
        PROVE  p = o
      BY <1>6 DEF Distinct
    <2>1. CASE p # place /\ o # place
      BY <2>1, <1>4, <1>7, <1>8 DEF IInv, Distinct
    <2>2. QED
      BY <2>1, <1>7, <1>9, <1>11
  <1>13. ASSUME NEW p \in 0..(n - 1), r.automatic, queue[p].automatic,
                queue[p].origin = r.origin, r.origin # "restart"
         PROVE  FALSE
    BY <1>4, <1>13 DEF IInv, ReadingHolds, Origins
  <1>14. OneOwed(new)
    <2> SUFFICES ASSUME NEW p \in 0..n, NEW o \in 0..n, new[p].automatic, new[o].automatic,
                        new[p].origin = new[o].origin, new[p].origin # "restart"
        PROVE  p = o
      BY <1>6 DEF OneOwed
    <2>1. CASE p # place /\ o # place
      BY <2>1, <1>4, <1>7, <1>8 DEF IInv, OneOwed
    <2>2. CASE p = place /\ o # place
      BY <2>2, <1>7, <1>9, <1>13
    <2>3. CASE p # place /\ o = place
      BY <2>3, <1>7, <1>9, <1>13
    <2>4. QED
      BY <2>1, <2>2, <2>3
  <1>15. ReadingHolds(new, topUp')
    <2> SUFFICES ASSUME NEW p \in 0..n
        PROVE  /\ topUp' = "no-route" => ~(new[p].automatic /\ new[p].origin = "workflow")
               /\ topUp' = "empty" => ~(new[p].automatic /\ new[p].origin = "open")
      BY <1>6 DEF ReadingHolds
    <2>1. CASE p = place
      BY <2>1, <1>9
    <2>2. CASE p # place
      BY <2>2, <1>4, <1>7 DEF IInv, ReadingHolds
    <2>3. QED
      BY <2>1, <2>2
  <1>16. IInv'
    BY <1>2, <1>5, <1>6, <1>12, <1>14, <1>15 DEF IInv, Readings
  <1>17. Waits(new) = Waits(queue) \cup {r}
    <2>1. \A p \in 0..n : new[p] \in Waits(queue) \cup {r}
      BY <1>4, <1>7, <1>9 DEF Waits
    <2>2. \A p \in 0..(n - 1) : \E o \in 0..n : new[o] = queue[p]
      BY <1>7, <1>10
    <2>3. QED
      BY <1>3, <1>4, <1>6, <1>9, <2>1, <2>2, SMTT(20) DEF Waits
  <1>18. Line!IsLine(Line!Ids(Waits(new)), Before(new))
         /\ \A p, o \in 0..n : <<new[p].id, new[o].id>> \in Before(new) <=> p < o
    BY <1>5, <1>6, <1>12, BeforeIs
  <1>19. r.id \notin Line!Ids(Waits(queue))
    BY <1>4, <1>11, LineIs
  <1>20. Distinct(queue)
         /\ \A p, o \in 0..(n - 1) : <<queue[p].id, queue[o].id>> \in Before(queue) <=> p < o
    BY <1>1, <1>4, BeforeIs DEF IInv
  <1>21. ASSUME NEW p \in 0..(n - 1), NEW o \in 0..(n - 1)
         PROVE  <<queue[p].id, queue[o].id>> \in Before(new)
                  <=> <<queue[p].id, queue[o].id>> \in Before(queue)
    <2>1. PICK i \in 0..n : i # place /\ from(i) = p
      BY <1>10
    <2>2. PICK j \in 0..n : j # place /\ from(j) = o
      BY <1>10
    <2>3. queue[p] = new[i] /\ queue[o] = new[j] /\ (p < o <=> i < j)
      BY <1>7, <1>8, <2>1, <2>2
    <2>4. QED
      BY <1>18, <1>20, <2>3
  <1> DEFINE I == Line!Ids(Waits(queue))
  <1>22. \A a, b \in I : <<a, b>> \in Before(new) <=> <<a, b>> \in Before(queue)
    <2> SUFFICES ASSUME NEW a \in I, NEW b \in I
        PROVE  <<a, b>> \in Before(new) <=> <<a, b>> \in Before(queue)
      OBVIOUS
    <2>1. PICK p \in 0..(n - 1) : queue[p].id = a
      BY <1>4, LineIs
    <2>2. PICK o \in 0..(n - 1) : queue[o].id = b
      BY <1>4, LineIs
    <2>3. QED
      BY <1>21, <2>1, <2>2
  <1>23. Before(new) \cap (I \X I) = Before(queue)
    <2>1. Before(queue) \subseteq I \X I
      BY LineIs
    <2> HIDE DEF I
    <2>2. \A x \in I \X I : x \in Before(new) <=> x \in Before(queue)
      BY <1>22
    <2>3. QED
      BY <2>1, <2>2
  <1>24. ASSUME NEW s \in Waits(queue), <<s.id, r.id>> \in Before(new)
         PROVE  Line!MayStandBehind(r, s)
    <2>1. PICK p \in 0..(n - 1) : queue[p] = s
      BY <1>4 DEF Waits
    <2>2. PICK i \in 0..n : i # place /\ from(i) = p
      BY <1>10
    <2>3. new[i] = s /\ i < place
      BY <1>3, <1>7, <1>9, <1>18, <1>24, <2>1, <2>2
    <2>4. p = i
      BY <2>2, <2>3 DEF from
    <2>5. QED
      BY <1>3, <2>1, <2>3, <2>4
         DEF Line!MayStandBehind, Line!Route, Line!Owed, Route, Owed
  <1>25. ASSUME ~(r.automatic /\ r.origin \in {"workflow", "restart"}), NEW s \in Waits(queue)
         PROVE  <<s.id, r.id>> \in Before(new)
    <2>1. PICK p \in 0..(n - 1) : queue[p] = s
      BY <1>4 DEF Waits
    <2>2. place = n /\ p \in 0..n /\ p # place /\ p < place
      BY <1>3, <1>25
    <2>3. new[p] = s
      BY <1>5, <2>1, <2>2
    <2>4. QED
      BY <1>3, <1>9, <1>18, <2>2, <2>3
  <1>26. Line!Join(r)
    BY <1>2, <1>17, <1>18, <1>19, <1>23, <1>24, <1>25
       DEF Line!Join, Waits, Before
  <1>27. QED
    BY <1>16, <1>26

--------------------------------------------------------------------------------
(* Rows leave. *)

LEMMA LeaveKeeps ==
    ASSUME IInv, NEW S \in SUBSET Positions(queue), queue' = TakeOut(queue, S),
           UNCHANGED topUp
    PROVE  IInv' /\ \E T \in SUBSET Waits(queue) : Line!Leave(T)
  <1> DEFINE K == Positions(queue) \ S
             new == TakeOut(queue, S)
             T == {queue[p] : p \in S}
  <1>1. PICK n \in Nat : queue \in Tables(Row, n)
    BY DEF IInv
  <1>0. PICK m \in Nat : \E e \in [0..(m - 1) -> K] :
           /\ Orders(e, m, K)
           /\ new \in Tables(Row, m)
           /\ \A i \in 0..(m - 1) : new[i] = queue[e[i]]
    <2>1. Packs(Row, queue, S)
      BY <1>1, TakeOutIs
    <2>2. QED
      BY <2>1 DEF Packs
  <1>2. PICK e \in [0..(m - 1) -> K] :
           /\ Orders(e, m, K)
           /\ new \in Tables(Row, m)
           /\ \A i \in 0..(m - 1) : new[i] = queue[e[i]]
    BY <1>0
  <1>3. \A p \in Positions(queue) : p \in Nat
    BY <1>1, PlacesOf
  <1>4. K \subseteq Positions(queue) /\ K \cap S = {}
    OBVIOUS
  <1> HIDE DEF K, new
  <1>5. Positions(new) = 0..(m - 1)
    BY <1>2, PlacesOf
  <1>6. /\ \A i \in 0..(m - 1) : e[i] \in K
        /\ \A i, j \in 0..(m - 1) : i < j => e[i] < e[j]
        /\ \A p \in K : \E i \in 0..(m - 1) : e[i] = p
    BY <1>2 DEF Orders
  <1>7. ASSUME NEW i \in 0..(m - 1), NEW j \in 0..(m - 1)
        PROVE  (e[i] = e[j] <=> i = j) /\ (e[i] < e[j] <=> i < j)
    <2>1. e[i] \in Nat /\ e[j] \in Nat
      BY <1>3, <1>4, <1>6
    <2>2. i < j \/ i = j \/ j < i
      OBVIOUS
    <2>3. QED
      BY <1>6, <2>1, <2>2
  <1>8. Distinct(new)
    <2> SUFFICES ASSUME NEW i \in 0..(m - 1), NEW j \in 0..(m - 1), new[i].id = new[j].id
        PROVE  i = j
      BY <1>5 DEF Distinct
    <2>1. e[i] = e[j]
      BY <1>2, <1>4, <1>6 DEF IInv, Distinct
    <2>2. QED
      BY <1>7, <2>1
  <1>9. OneOwed(new)
    <2> SUFFICES ASSUME NEW i \in 0..(m - 1), NEW j \in 0..(m - 1),
                        new[i].automatic, new[j].automatic,
                        new[i].origin = new[j].origin, new[i].origin # "restart"
        PROVE  i = j
      BY <1>5 DEF OneOwed
    <2>1. e[i] = e[j]
      BY <1>2, <1>4, <1>6 DEF IInv, OneOwed
    <2>2. QED
      BY <1>7, <2>1
  <1>10. ReadingHolds(new, topUp')
    BY <1>2, <1>4, <1>5, <1>6 DEF IInv, ReadingHolds
  <1>11. queue' = new
    BY DEF new
  <1>12. IInv'
    BY <1>2, <1>8, <1>9, <1>10, <1>11 DEF IInv
  <1>13. Waits(new) = Waits(queue) \ T
    <2>1. \A i \in 0..(m - 1) : new[i] \in Waits(queue) \ T
      <3> SUFFICES ASSUME NEW i \in 0..(m - 1), NEW p \in S, queue[p] = queue[e[i]] PROVE FALSE
        BY <1>2, <1>4, <1>6 DEF Waits
      <3>1. p = e[i]
        BY <1>4, <1>6 DEF IInv, Distinct
      <3>2. QED
        BY <1>4, <1>6, <3>1
    <2>2. \A p \in K : \E i \in 0..(m - 1) : new[i] = queue[p]
      BY <1>2, <1>6
    <2>3. \A p \in Positions(queue) : p \in K \/ p \in S
      BY DEF K
    <2>4. QED
      BY <1>5, <2>1, <2>2, <2>3 DEF Waits
  <1>19. T \in SUBSET Waits(queue)
    BY DEF Waits
  <1> HIDE DEF T
  <1> DEFINE I == Line!Ids(Waits(new))
  <1>21. \A a \in I : \E i \in 0..(m - 1) : new[i].id = a
    BY <1>5, LineIs
  <1>14. \A i, j \in 0..(m - 1) :
            <<new[i].id, new[j].id>> \in Before(new) <=> i < j
    BY <1>2, <1>5, <1>8, BeforeIs
  <1>15. \A p, o \in Positions(queue) :
            <<queue[p].id, queue[o].id>> \in Before(queue) <=> p < o
    BY <1>1, BeforeIs DEF IInv
  <1>16. \A a, b \in I : <<a, b>> \in Before(new) <=> <<a, b>> \in Before(queue)
    <2> SUFFICES ASSUME NEW a \in I, NEW b \in I
        PROVE  <<a, b>> \in Before(new) <=> <<a, b>> \in Before(queue)
      OBVIOUS
    <2>1. PICK i \in 0..(m - 1) : new[i].id = a
      BY <1>21
    <2>2. PICK j \in 0..(m - 1) : new[j].id = b
      BY <1>21
    <2>3. e[i] \in Positions(queue) /\ e[j] \in Positions(queue)
          /\ queue[e[i]].id = a /\ queue[e[j]].id = b /\ (e[i] < e[j] <=> i < j)
      BY <1>2, <1>4, <1>6, <1>7, <2>1, <2>2
    <2>4. QED
      BY <1>14, <1>15, <2>1, <2>2, <2>3
  <1>17. Before(new) = Before(queue) \cap (I \X I)
    <2>1. Before(new) \subseteq I \X I
      BY LineIs
    <2> HIDE DEF I
    <2>2. \A x \in I \X I : x \in Before(new) <=> x \in Before(queue)
      BY <1>16
    <2>3. QED
      BY <2>1, <2>2
  <1>18. /\ Waits(queue') = Waits(queue) \ T
         /\ Before(queue') = Before(queue) \cap
               (Line!Ids(Waits(queue')) \X Line!Ids(Waits(queue')))
    BY <1>11, <1>13, <1>17
  <1>20. QED
    BY <1>12, <1>18, <1>19 DEF Line!Leave, Line!Among, Waits, Before

(* Two neighbours change places. *)
LEMMA MoveKeeps ==
    ASSUME IInv, NEW id, NEW direction, MoveWorkItem(id, direction)
    PROVE  IInv' /\ \E a, b \in Line!Ids(Waits(queue)) : Line!Swap(a, b)
  <1>1. PICK n \in Nat : queue \in Tables(Row, n)
    BY DEF IInv
  <1> DEFINE P == Positions(queue)
  <1>2. P = 0..(n - 1) /\ \A p \in P : p \in Nat /\ queue[p] \in Row
    BY <1>1, PlacesOf
  <1>3. PICK x \in P, y \in P :
           /\ x # y
           /\ ~\E k \in P : (y < k /\ k < x) \/ (x < k /\ k < y)
           /\ queue' = [queue EXCEPT ![x] = queue[y], ![y] = queue[x]]
    <2>1. PICK p \in P, o \in P :
             /\ IF direction = "up" THEN o < p ELSE p < o
             /\ ~\E k \in P : (o < k /\ k < p) \/ (p < k /\ k < o)
             /\ queue' = [queue EXCEPT ![p] = queue[o], ![o] = queue[p]]
      BY DEF MoveWorkItem
    <2>2. p # o
      BY <1>2, <2>1
    <2>3. QED
      BY <2>1, <2>2
  <1> DEFINE low == IF x < y THEN x ELSE y
             high == IF x < y THEN y ELSE x
             other(p) == IF p = low THEN high ELSE IF p = high THEN low ELSE p
             new == [queue EXCEPT ![x] = queue[y], ![y] = queue[x]]
  <1>4. low \in P /\ high \in P /\ low < high /\ ~\E k \in P : low < k /\ k < high
    BY <1>2, <1>3
  <1>5. queue \in [P -> Row]
    BY <1>1, <1>2 DEF Tables
  <1>6. new \in [P -> Row] /\ \A p \in P : new[p] = queue[other(p)]
    BY <1>3, <1>5
  <1>7. queue' = new
    BY <1>3
  <1> HIDE DEF new, low, high
  <1>8. \A p \in P : other(p) \in P /\ other(other(p)) = p
    BY <1>2, <1>4
  <1>9. \A p, o \in P : other(p) = other(o) <=> p = o
    BY <1>4
  <1>10. \A p, o \in P : other(p) < other(o) <=>
            (p < o /\ ~(p = low /\ o = high)) \/ (p = high /\ o = low)
    <2> SUFFICES ASSUME NEW p \in P, NEW o \in P
        PROVE  other(p) < other(o) <=>
                 (p < o /\ ~(p = low /\ o = high)) \/ (p = high /\ o = low)
      OBVIOUS
    <2>1. p \in Int /\ o \in Int /\ low \in Int /\ high \in Int
      BY <1>2, <1>4
    <2>2. (p < low \/ p = low \/ p = high \/ high < p)
          /\ (o < low \/ o = low \/ o = high \/ high < o)
      BY <1>4, <2>1
    <2>3. QED
      BY <1>4, <2>1, <2>2
  <1> HIDE DEF other
  <1>11. new \in Tables(Row, n) /\ Positions(new) = P
    BY <1>2, <1>6 DEF Tables, Positions
  <1> HIDE DEF P
  <1>12. Distinct(new)
    BY <1>6, <1>8, <1>9, <1>11 DEF IInv, Distinct, P
  <1>13. OneOwed(new)
    BY <1>6, <1>8, <1>9, <1>11 DEF IInv, OneOwed, P
  <1>14. UNCHANGED topUp
    BY DEF MoveWorkItem
  <1>15. ReadingHolds(new, topUp')
    BY <1>6, <1>8, <1>11, <1>14 DEF IInv, ReadingHolds, P
  <1>16. IInv'
    BY <1>7, <1>11, <1>12, <1>13, <1>14, <1>15 DEF IInv
  <1>17. Waits(new) = Waits(queue)
    BY <1>6, <1>8, <1>11 DEF Waits, P
  <1> DEFINE a == queue[low].id
             b == queue[high].id
             I == Line!Ids(Waits(queue))
  <1>18. \A p, o \in P : <<queue[p].id, queue[o].id>> \in Before(queue) <=> p < o
    BY <1>1, BeforeIs DEF IInv, P
  <1>19. \A p, o \in P : <<new[p].id, new[o].id>> \in Before(new) <=> p < o
    BY <1>11, <1>12, BeforeIs
  <1>20. \A p, o \in P : queue[p].id = queue[o].id <=> p = o
    BY DEF IInv, Distinct, P
  <1>21. \A c \in I : \E p \in P : queue[p].id = c
    BY LineIs DEF P
  <1>22. a \in I /\ b \in I
    BY <1>4, LineIs DEF P
  <1>23. <<a, b>> \in Before(queue)
    BY <1>4, <1>18
  <1>24. ~\E c \in I : <<a, c>> \in Before(queue) /\ <<c, b>> \in Before(queue)
    <2> SUFFICES ASSUME NEW c \in I, <<a, c>> \in Before(queue), <<c, b>> \in Before(queue)
        PROVE  FALSE
      OBVIOUS
    <2>1. PICK p \in P : queue[p].id = c
      BY <1>21
    <2>2. low < p /\ p < high
      BY <1>4, <1>18, <2>1
    <2>3. QED
      BY <1>4, <2>2
  <1>25. \A c, d \in I : <<c, d>> \in Before(new) <=>
            (<<c, d>> \in Before(queue) /\ ~(c = a /\ d = b)) \/ (c = b /\ d = a)
    <2> SUFFICES ASSUME NEW c \in I, NEW d \in I
        PROVE  <<c, d>> \in Before(new) <=>
                 (<<c, d>> \in Before(queue) /\ ~(c = a /\ d = b)) \/ (c = b /\ d = a)
      OBVIOUS
    <2>1. PICK p \in P : queue[p].id = c
      BY <1>21
    <2>2. PICK o \in P : queue[o].id = d
      BY <1>21
    <2>3. new[other(p)].id = c /\ new[other(o)].id = d /\ other(p) \in P /\ other(o) \in P
      BY <1>6, <1>8, <2>1, <2>2
    <2>4. <<c, d>> \in Before(new) <=> other(p) < other(o)
      BY <1>19, <2>3
    <2>5. <<c, d>> \in Before(queue) <=> p < o
      BY <1>18, <2>1, <2>2
    <2>6. /\ c = a <=> p = low
          /\ c = b <=> p = high
          /\ d = a <=> o = low
          /\ d = b <=> o = high
      BY <1>4, <1>20, <2>1, <2>2
    <2>7. QED
      BY <1>10, <2>4, <2>5, <2>6
  <1>26. Before(new) = (Before(queue) \ {<<a, b>>}) \cup {<<b, a>>}
    <2>1. Before(new) \subseteq I \X I /\ Before(queue) \subseteq I \X I
      BY <1>17, LineIs
    <2> HIDE DEF I, a, b
    <2>2. \A z \in I \X I : z \in Before(new) <=>
             (z \in Before(queue) /\ z # <<a, b>>) \/ z = <<b, a>>
      BY <1>25
    <2>3. QED
      BY <1>22, <2>1, <2>2
  <1>27. /\ Waits(queue') = Waits(queue)
         /\ Before(queue') = (Before(queue) \ {<<a, b>>}) \cup {<<b, a>>}
    BY <1>7, <1>17, <1>26
  <1> HIDE DEF a, b
  <1>28. QED
    BY <1>16, <1>22, <1>23, <1>24, <1>27 DEF Line!Swap, Waits, Before

--------------------------------------------------------------------------------
(* Every step. *)

(* A step of the table is a step of the line, or leaves it alone. *)
Lined ==
    \/ \E r \in Row : Line!Join(r)
    \/ \E T \in SUBSET Waits(queue) : Line!Leave(T)
    \/ \E a, b \in Line!Ids(Waits(queue)) : Line!Swap(a, b)
    \/ UNCHANGED queue

LEMMA InitKeeps == Init => IInv
  <1> SUFFICES ASSUME Init PROVE IInv
    OBVIOUS
  <1>1. 0..(0 - 1) = {}
    OBVIOUS
  <1>2. queue \in Tables(Row, 0) /\ Positions(queue) = {}
    BY <1>1 DEF Init, Tables, Positions
  <1>3. QED
    BY <1>2 DEF Init, IInv, Distinct, OneOwed, ReadingHolds, Readings

LEMMA WorkRowIs ==
    ASSUME NEW r \in WorkRow
    PROVE  r \in Row /\ r.origin \in Origins
  BY DEF Row, WorkRow

LEMMA JoinsKeep ==
    ASSUME IInv, Joins
    PROVE  IInv' /\ Lined
  <1>1. ASSUME NEW r \in WorkRow,
               OperatorEnqueue(r) \/ TopUpContinuation(r) \/ TopUpOpen(r) \/ TopUpRestart(r)
        PROVE  IInv' /\ Lined
    <2>1. CASE OperatorEnqueue(r)
      BY <2>1, WorkRowIs, JoinKeeps DEF OperatorEnqueue, Lined
    <2>2. CASE TopUpContinuation(r)
      BY <2>2, WorkRowIs, JoinKeeps DEF TopUpContinuation, Owed, Route, Lined
    <2>3. CASE TopUpOpen(r)
      BY <2>3, WorkRowIs, JoinKeeps DEF TopUpOpen, Lined
    <2>4. CASE TopUpRestart(r)
      BY <2>4, WorkRowIs, JoinKeeps DEF TopUpRestart, Lined
    <2>5. QED
      BY <1>1, <2>1, <2>2, <2>3, <2>4
  <1>2. ASSUME NEW c \in Consultations, Schedule(c)
        PROVE  IInv' /\ Lined
    <2> DEFINE r == [id |-> c, source |-> c, origin |-> "none",
                     automatic |-> FALSE, action |-> FALSE]
    <2>1. r \in Row /\ r.id = c /\ r.automatic = FALSE /\ r.origin = "none"
      BY DEF Row, ConsultationRow
    <2>2. PICK n \in Nat : queue \in Tables(Row, n)
      BY DEF IInv
    <2> HIDE DEF r
    <2>3. EntryPlace(queue, r) = End(queue)
      BY <2>1, <2>2, EntryPlaceIs, PlacesOf
    <2>4. Enqueue(r) /\ UNCHANGED topUp
      BY <1>2, <2>1, <2>3 DEF Schedule, Enqueue, r
    <2>5. QED
      BY <2>1, <2>4, JoinKeeps DEF Lined
  <1>3. QED
    BY <1>1, <1>2 DEF Joins

LEMMA LeavesKeep ==
    ASSUME IInv, Leaves
    PROVE  IInv' /\ Lined
  <1>1. \E S \in SUBSET Positions(queue) : queue' = TakeOut(queue, S) /\ UNCHANGED topUp
    <2>1. ASSUME NEW t \in Tickets, RemoveWorkItem(t)
          PROVE  \E S \in SUBSET Positions(queue) : queue' = TakeOut(queue, S) /\ UNCHANGED topUp
      BY <2>1 DEF RemoveWorkItem, RowsOf
    <2>2. ASSUME NEW t \in Tickets, RemoveWorkflowRouteItem(t)
          PROVE  \E S \in SUBSET Positions(queue) : queue' = TakeOut(queue, S) /\ UNCHANGED topUp
      BY <2>2 DEF RemoveWorkflowRouteItem, RowsOf
    <2>3. ASSUME NEW T \in SUBSET Tickets, RemoveHandoffItemsForTickets(T)
          PROVE  \E S \in SUBSET Positions(queue) : queue' = TakeOut(queue, S) /\ UNCHANGED topUp
      BY <2>3 DEF RemoveHandoffItemsForTickets, RowsOf
    <2>4. ASSUME NEW c \in Consultations, DropConsultation(c)
          PROVE  \E S \in SUBSET Positions(queue) : queue' = TakeOut(queue, S) /\ UNCHANGED topUp
      BY <2>4 DEF DropConsultation, RowsOf
    <2>5. QED
      BY <2>1, <2>2, <2>3, <2>4 DEF Leaves
  <1>2. QED
    BY <1>1, LeaveKeeps DEF Lined

LEMMA NextKeeps ==
    ASSUME IInv, [Next]_vars
    PROVE  IInv' /\ Lined
  <1>1. ASSUME UNCHANGED queue, topUp' \in {topUp, "none"}
        PROVE  IInv' /\ Lined
    BY <1>1 DEF IInv, Readings, ReadingHolds, Lined
  <1>2. ASSUME NEW reading \in Readings \ {"none"}, TopUpReads(reading)
        PROVE  IInv' /\ Lined
    BY <1>2 DEF TopUpReads, IInv, ReadingHolds, Route, Lined
  <1>3. ASSUME NEW id, NEW d, MoveWorkItem(id, d)
        PROVE  IInv' /\ Lined
    BY <1>3, MoveKeeps DEF Lined
  <1>4. QED
    BY <1>1, <1>2, <1>3, JoinsKeep, LeavesKeep
       DEF Next, TopUpAddsNothing, Restart, vars

--------------------------------------------------------------------------------
(* The properties. *)

(* The table is packed, holds one row of each, and a walk's reading stays true of *)
(* what only the walk adds.                                                       *)
THEOREM Invariant == Spec => []IInv
  BY InitKeeps, NextKeeps, PTL DEF Spec

(* The positions in use are 0 to n - 1, whatever enters and leaves between. *)
THEOREM TypeCorrect == Spec => []TypeOK
  <1>1. IInv => TypeOK
    BY PlacesOf DEF IInv, TypeOK, Tables
  <1>2. QED
    BY <1>1, Invariant, PTL

(* A ticket has one row, and the factory owes one continuation, though its walk's *)
(* reading may be stale when its row enters.                                      *)
THEOREM NothingTwice == Spec => []NothingWaitsTwice
  <1>1. IInv => NothingWaitsTwice
    BY DEF IInv, Distinct, OneOwed, NothingWaitsTwice
  <1>2. QED
    BY <1>1, Invariant, PTL

(* The table with its shifts, repacks and swaps is a line nobody is overtaken in *)
(* but by the operator's key.                                                    *)
THEOREM TableImplementsLine == Spec => ImplementsWaitingLine
  <1>1. Init => Line!Init
    BY DEF Init, Line!Init, Positions
  <1>2. IInv /\ [Next]_vars => [Line!Next]_(Line!lineVars)
    <2> SUFFICES ASSUME IInv, [Next]_vars PROVE [Line!Next]_(Line!lineVars)
      OBVIOUS
    <2>1. CASE UNCHANGED queue
      BY <2>1 DEF Line!lineVars, Positions
    <2>2. CASE \/ \E r \in Row : Line!Join(r)
               \/ \E T \in SUBSET Waits(queue) : Line!Leave(T)
               \/ \E a, b \in Line!Ids(Waits(queue)) : Line!Swap(a, b)
      BY <2>2 DEF Line!Next, Waits
    <2>3. QED
      BY <2>1, <2>2, NextKeeps DEF Lined
  <1>3. QED
    BY <1>1, <1>2, Invariant, PTL DEF Spec, ImplementsWaitingLine, Line!Spec
================================================================================
