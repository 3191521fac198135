-------------------------- MODULE HandoffDispatchProofs --------------------------
(*
What HandoffDispatch keeps, for every set of tickets, consultations and
checkouts, every limit, every number of concurrent passes and every list of
first states.

  DispatchTypes        Spec => []TypeOK
  DispatchOneHand      Spec => []OneHand
  DispatchAlone        Spec => []CheckoutAlone
  DispatchWithinLimit  Spec => PickupWithinLimit

The properties are not inductive: between two steps the dispatch keeps, in its
list of calls still to run and in the walks of its passes, promises that the
tables do not show yet - a settle whose free of the seat is calls away, a
release of a checkout that comes next, a pass that is to start.  IInv speaks of
the tables and of what is left of the calls together:

  Types   each variable has its type; a pass waits on a merge that is asked for
  Asked   a Consultation whose row stands in the queue is one that asked
  Held    the hold of a checkout and the work on it agree, but for what lapsed
  Seat    one start has the seat, and no cleanup runs beside it
  Owned   a claim has one owner: a parked start, the start at work, or a settle ahead
  Laps    a pass a handler is to start finds a free one
  Served  who works on a checkout has a command to come, or its release next

The file goes in this order: the queue (from WorkQueueProofs), the calls as a
sequence and what a call at the front adds to the counts, the parts of IInv
under each action, the theorems.
*)
EXTENDS HandoffDispatch, FiniteSetTheorems, SequenceTheorems, TLAPS

WQP == INSTANCE WorkQueueProofs WITH topUp <- "none"

(* A queue of n rows, on the places 0 to n - 1. *)
Queues(n) == [0..(n - 1) -> WaitingRow]

LEMMA SameTable ==
    ASSUME NEW q, NEW S, NEW r, NEW n
    PROVE  /\ WQ!TakeOut(q, S) = WQP!TakeOut(q, S)
           /\ WQ!Enter(q, n, r) = WQP!Enter(q, n, r)
           /\ WQ!EntryPlace(q, r) = WQP!EntryPlace(q, r)
           /\ WQ!End(q) = WQP!End(q)
           /\ WQ!Positions(q) = WQP!Positions(q)
           /\ Queues(n) = WQP!Tables(WaitingRow, n)
  BY DEF WQ!TakeOut, WQP!TakeOut, WQ!Repack, WQP!Repack, WQ!Kept, WQP!Kept,
         WQ!Positions, WQP!Positions, WQ!Cardinality, WQP!Cardinality,
         WQ!IsFiniteSet, WQP!IsFiniteSet, WQ!Enter, WQP!Enter,
         WQ!EntryPlace, WQP!EntryPlace, WQ!End, WQP!End, WQ!Least, WQP!Least,
         WQ!Greatest, WQP!Greatest, WQ!Route, WQP!Route, WQ!Owed, WQP!Owed,
         Queues, WQP!Tables

LEMMA PlacesIs ==
    ASSUME NEW n \in Nat, NEW q \in Queues(n)
    PROVE  /\ WQ!Positions(q) = 0..(n - 1) /\ WQ!End(q) = n
           /\ IsFiniteSet(WQ!Positions(q)) /\ Cardinality(WQ!Positions(q)) = n
  <1>1. WQ!Positions(q) = 0..(n - 1)
    BY DEF Queues, WQ!Positions
  <1>2. WQ!End(q) = n
    BY SameTable, WQP!PlacesOf, DispatchAssumption
  <1>3. QED
    BY <1>1, <1>2, FS_Interval

(* The rows a queue holds after some leave are rows it held, none of those that left. *)
LEMMA TakeOutIs ==
    ASSUME NEW n \in Nat, NEW q \in Queues(n), NEW S \in SUBSET WQ!Positions(q)
    PROVE  \E m \in Nat : /\ WQ!TakeOut(q, S) \in Queues(m)
                          /\ \A i \in 0..(m - 1) : \E p \in WQ!Positions(q) \ S :
                               WQ!TakeOut(q, S)[i] = q[p]
  <1>1. q \in WQP!Tables(WaitingRow, n) /\ S \in SUBSET WQP!Positions(q)
    BY SameTable
  <1>2. WQP!Packs(WaitingRow, q, S)
    BY <1>1, WQP!TakeOutIs, DispatchAssumption
  <1>3. PICK m \in Nat : \E e \in [0..(m - 1) -> WQP!Positions(q) \ S] :
           /\ WQP!TakeOut(q, S) \in WQP!Tables(WaitingRow, m)
           /\ \A i \in 0..(m - 1) : WQP!TakeOut(q, S)[i] = q[e[i]]
    BY <1>2 DEF WQP!Packs
  <1>4. WQ!TakeOut(q, S) \in Queues(m)
    BY <1>3, SameTable
  <1>5. QED
    BY <1>3, <1>4, SameTable

LEMMA EnterIs ==
    ASSUME NEW n \in Nat, NEW q \in Queues(n), NEW r \in WaitingRow, NEW place \in 0..n
    PROVE  /\ WQ!Enter(q, place, r) \in Queues(n + 1)
           /\ \A p \in 0..n : WQ!Enter(q, place, r)[p] = r
                              \/ \E o \in 0..(n - 1) : WQ!Enter(q, place, r)[p] = q[o]
  <1>1. q \in WQP!Tables(WaitingRow, n)
    BY SameTable
  <1>2. /\ WQP!Enter(q, place, r) \in WQP!Tables(WaitingRow, n + 1)
        /\ \A p \in 0..n : WQP!Enter(q, place, r)[p] =
                IF p < place THEN q[p] ELSE IF p = place THEN r ELSE q[p - 1]
    BY <1>1, WQP!EnterIs, DispatchAssumption
  <1>3. \A p \in 0..n : (p < place => p \in 0..(n - 1)) /\ (p > place => p - 1 \in 0..(n - 1))
    OBVIOUS
  <1>4. QED
    BY <1>2, <1>3, SameTable

LEMMA PlaceIs ==
    ASSUME NEW n \in Nat, NEW q \in Queues(n), NEW r \in WaitingRow
    PROVE  WQ!EntryPlace(q, r) \in 0..n
  <1>1. q \in WQP!Tables(WaitingRow, n)
    BY SameTable
  <1>2. WQP!EntryPlace(q, r) \in 0..n
    BY <1>1, WQP!EntryPlaceIs, DispatchAssumption
  <1>3. QED
    BY <1>2, SameTable

(* A set of numbers that is not empty has a least one. *)
LEMMA LeastIs ==
    ASSUME NEW S \in SUBSET Nat, S # {}
    PROVE  \E p \in S : \A o \in S : p <= o
  BY WQP!LeastIs, DispatchAssumption

--------------------------------------------------------------------------------
(* What is left of a handler: the calls by their name. *)

Names == {"pass", "row", "remove", "answer", "cancelled", "release", "settle", "seatfree",
          "drain", "drainParked", "dropped"}
OfTicket == {"settle", "seatfree", "remove", "answer", "cancelled", "dropped"}
CallRec == {x \in [call : Names, id : Ids \cup {NoOne}, ok : BOOLEAN,
                   side : Sides \cup {"none"}, pass : Nat] :
              /\ x.call \in OfTicket => x.id \in Tickets
              /\ x.call = "release" => x.id \in Ids /\ x.side \in Sides}

Where(name, c) == {k \in 1..Len(c) : c[k].call = name}
IdsOf(name, c) == {c[i].id : i \in Where(name, c)}
Unique(name, c) == \A i, k \in Where(name, c) : c[i].id = c[k].id => i = k
Has(name, c) == Where(name, c) # {}
Twice(name, c) == \E i, k \in Where(name, c) : i # k

(* The calls that neither settle an attempt, free the seat nor walk. *)
Quiet(c) == \A i \in 1..Len(c) : c[i].call \notin {"settle", "seatfree", "pass", "row"}
Calm(c) == ~Twice("pass", c) /\ ~Has("row", c)

(* A settle that stands beside the release of its checkout, and one that does not. *)
Beside(c, i) == \/ i > 1 /\ c[i - 1] = Release("handoff", c[i].id)
                \/ i < Len(c) /\ c[i + 1] = Release("handoff", c[i].id)
Loose(c) == {c[i].id : i \in {k \in Where("settle", c) : ~Beside(c, k)}}

LEMMA Joined ==
    ASSUME NEW p \in Seq(CallRec), NEW r \in Seq(CallRec)
    PROVE  /\ p \o r \in Seq(CallRec) /\ Len(p \o r) = Len(p) + Len(r)
           /\ \A i \in 1..Len(p) : (p \o r)[i] = p[i]
           /\ \A i \in 1..Len(r) : (p \o r)[Len(p) + i] = r[i]
           /\ \A i \in 1..Len(p \o r) : i \in 1..Len(p) \/ i - Len(p) \in 1..Len(r)
           /\ \A i \in 1..Len(p \o r) : i \notin 1..Len(p) => (p \o r)[i] = r[i - Len(p)]
  OBVIOUS

LEMMA JoinedSets ==
    ASSUME NEW p \in Seq(CallRec), NEW r \in Seq(CallRec), NEW name \in Names
    PROVE  /\ IdsOf(name, p \o r) = IdsOf(name, p) \cup IdsOf(name, r)
           /\ Has(name, p \o r) <=> Has(name, p) \/ Has(name, r)
           /\ Unique(name, p \o r) <=>
                Unique(name, p) /\ Unique(name, r) /\ IdsOf(name, p) \cap IdsOf(name, r) = {}
           /\ Twice(name, p \o r) <=>
                Twice(name, p) \/ Twice(name, r) \/ (Has(name, p) /\ Has(name, r))
  <1> DEFINE c == p \o r
             m == Len(p)
             n == Len(r)
             P == Where(name, p)
             R == Where(name, r)
             C == Where(name, c)
  <1>1. /\ m \in Nat /\ n \in Nat /\ Len(c) = m + n
        /\ \A i \in 1..m : c[i] = p[i]
        /\ \A i \in 1..n : c[m + i] = r[i]
    BY Joined
  <1>2. P = {k \in 1..m : p[k].call = name} /\ R = {k \in 1..n : r[k].call = name}
        /\ C = {k \in 1..Len(c) : c[k].call = name}
    BY DEF Where
  <1> HIDE DEF c, m, n, P, R, C
  <1>3. /\ \A i \in P : i \in C /\ c[i] = p[i]
        /\ \A i \in R : m + i \in C /\ c[m + i] = r[i]
        /\ \A i \in P, k \in R : i # m + k
        /\ \A i, k \in R : m + i = m + k => i = k
    BY <1>1, <1>2
  <1>4. \A i \in C : i \in P \/ \E k \in R : i = m + k
    <2>1. ASSUME NEW i \in C, i \notin 1..m PROVE i - m \in R /\ i = m + (i - m)
      <3>1. i - m \in 1..n /\ i = m + (i - m)
        BY <1>1, <1>2, <2>1
      <3>2. c[i] = r[i - m]
        BY <1>1, <3>1
      <3>3. QED
        BY <1>2, <3>1, <3>2
    <2>2. ASSUME NEW i \in C, i \in 1..m PROVE i \in P
      BY <1>1, <1>2, <2>2
    <2>3. QED
      BY <2>1, <2>2
  <1>5. IdsOf(name, p) = {p[i].id : i \in P} /\ IdsOf(name, r) = {r[i].id : i \in R}
        /\ IdsOf(name, c) = {c[i].id : i \in C}
    BY DEF IdsOf, P, R, C
  <1>6. IdsOf(name, c) = IdsOf(name, p) \cup IdsOf(name, r)
    BY <1>3, <1>4, <1>5
  <1>7. Has(name, c) <=> Has(name, p) \/ Has(name, r)
    BY <1>3, <1>4 DEF Has, P, R, C
  <1>8. /\ Unique(name, p) <=> \A i, k \in P : p[i].id = p[k].id => i = k
        /\ Unique(name, r) <=> \A i, k \in R : r[i].id = r[k].id => i = k
        /\ Unique(name, c) <=> \A i, k \in C : c[i].id = c[k].id => i = k
    BY DEF Unique, P, R, C
  <1>9. Unique(name, c) <=>
          Unique(name, p) /\ Unique(name, r) /\ IdsOf(name, p) \cap IdsOf(name, r) = {}
    <2>1. Unique(name, c) => Unique(name, p)
      BY <1>3, <1>8
    <2>2. Unique(name, c) => Unique(name, r)
      BY <1>3, <1>8
    <2>3. Unique(name, c) => IdsOf(name, p) \cap IdsOf(name, r) = {}
      BY <1>3, <1>5, <1>8
    <2>4. ASSUME Unique(name, p), Unique(name, r), IdsOf(name, p) \cap IdsOf(name, r) = {}
          PROVE  Unique(name, c)
      <3>1. \A i \in P, k \in R : p[i].id # r[k].id
        BY <1>5, <2>4
      <3>2. \A i, k \in C : c[i].id = c[k].id => i = k
        BY <1>3, <1>4, <1>8, <2>4, <3>1
      <3>3. QED
        BY <1>8, <3>2
    <2>5. QED
      BY <2>1, <2>2, <2>3, <2>4
  <1>10. /\ Twice(name, p) <=> \E i, k \in P : i # k
         /\ Twice(name, r) <=> \E i, k \in R : i # k
         /\ Twice(name, c) <=> \E i, k \in C : i # k
         /\ Has(name, p) <=> \E i \in P : TRUE
         /\ Has(name, r) <=> \E i \in R : TRUE
    BY DEF Twice, Has, P, R, C
  <1>11. Twice(name, c) <=>
          Twice(name, p) \/ Twice(name, r) \/ (Has(name, p) /\ Has(name, r))
    BY <1>3, <1>4, <1>10
  <1>12. QED
    BY <1>6, <1>7, <1>9, <1>11 DEF c

LEMMA JoinedLoose ==
    ASSUME NEW p \in Seq(CallRec), NEW r \in Seq(CallRec)
    PROVE  Loose(p \o r) \subseteq Loose(p) \cup Loose(r)
  <1> DEFINE c == p \o r
             m == Len(p)
             n == Len(r)
  <1>1. /\ m \in Nat /\ n \in Nat /\ Len(c) = m + n
        /\ \A i \in 1..m : c[i] = p[i]
        /\ \A i \in 1..n : c[m + i] = r[i]
    BY Joined
  <1>2. Len(p) = m /\ Len(r) = n
    OBVIOUS
  <1> HIDE DEF c, m, n
  <1>3. ASSUME NEW k \in 1..m, ~Beside(c, k) PROVE ~Beside(p, k)
    <2>1. k > 1 => k - 1 \in 1..m
      BY <1>1
    <2>2. k < m => k + 1 \in 1..m /\ k < m + n
      BY <1>1
    <2>3. QED
      BY <1>1, <1>2, <1>3, <2>1, <2>2 DEF Beside
  <1>4. ASSUME NEW k \in 1..n, ~Beside(c, m + k) PROVE ~Beside(r, k)
    <2>1. k > 1 => k - 1 \in 1..n /\ m + k > 1 /\ (m + k) - 1 = m + (k - 1)
      BY <1>1
    <2>2. k < n => k + 1 \in 1..n /\ m + k < m + n /\ (m + k) + 1 = m + (k + 1)
      BY <1>1
    <2>3. QED
      BY <1>1, <1>2, <1>4, <2>1, <2>2 DEF Beside
  <1>5. ASSUME NEW k \in 1..(m + n) PROVE k \in 1..m \/ \E i \in 1..n : k = m + i
    <2>1. k \notin 1..m => k - m \in 1..n /\ k = m + (k - m)
      BY <1>1
    <2>2. QED
      BY <2>1
  <1>6. QED
    <2>1. ASSUME NEW k \in 1..(m + n), c[k].call = "settle", ~Beside(c, k)
          PROVE  c[k].id \in Loose(p) \cup Loose(r)
      <3>1. CASE k \in 1..m
        BY <1>1, <1>2, <1>3, <2>1, <3>1 DEF Loose, Where
      <3>2. CASE \E i \in 1..n : k = m + i
        BY <1>1, <1>2, <1>4, <2>1, <3>2 DEF Loose, Where
      <3>3. QED
        BY <1>5, <3>1, <3>2
    <2>2. Loose(c) \subseteq Loose(p) \cup Loose(r)
      BY <1>1, <2>1 DEF Loose, Where
    <2>3. QED
      BY <2>2 DEF c

LEMMA OneCall ==
    ASSUME NEW x \in CallRec, NEW name \in Names
    PROVE  /\ <<x>> \in Seq(CallRec) /\ <<x>>[1] = x /\ Len(<<x>>) = 1
           /\ IdsOf(name, <<x>>) = IF x.call = name THEN {x.id} ELSE {}
           /\ Has(name, <<x>>) <=> x.call = name
           /\ Unique(name, <<x>>) /\ ~Twice(name, <<x>>)
  <1>1. Where(name, <<x>>) = IF x.call = name THEN {1} ELSE {}
    BY DEF Where
  <1>2. QED
    BY <1>1 DEF IdsOf, Has, Unique, Twice

LEMMA OfTickets ==
    ASSUME NEW c \in Seq(CallRec)
    PROVE  IdsOf("seatfree", c) \subseteq Tickets /\ IdsOf("settle", c) \subseteq Tickets
  BY DEF IdsOf, Where, CallRec, OfTicket

(* A handler that makes its next call: r is what is left. *)
LEMMA Popped ==
    ASSUME NEW c \in Seq(CallRec), c # <<>>, NEW r, r = Tail(c), NEW name \in Names
    PROVE  /\ c[1] \in CallRec /\ r \in Seq(CallRec)
           /\ IdsOf(name, c) = (IF c[1].call = name THEN {c[1].id} ELSE {}) \cup IdsOf(name, r)
           /\ Has(name, c) <=> c[1].call = name \/ Has(name, r)
           /\ Unique(name, c) <=>
                Unique(name, r) /\ (c[1].call = name => c[1].id \notin IdsOf(name, r))
           /\ Twice(name, c) <=> Twice(name, r) \/ (c[1].call = name /\ Has(name, r))
  <1>1. c[1] \in CallRec /\ r \in Seq(CallRec) /\ c = <<c[1]>> \o r
    OBVIOUS
  <1>2. PICK x \in CallRec : x = c[1]
    BY <1>1
  <1>3. c = <<x>> \o r
    BY <1>1, <1>2
  <1>4. /\ <<x>> \in Seq(CallRec)
        /\ IdsOf(name, <<x>>) = IF x.call = name THEN {x.id} ELSE {}
        /\ Has(name, <<x>>) <=> x.call = name
        /\ Unique(name, <<x>>) /\ ~Twice(name, <<x>>)
    BY OneCall
  <1>5. \A o \in Seq(CallRec) :
          /\ IdsOf(name, o \o r) = IdsOf(name, o) \cup IdsOf(name, r)
          /\ Has(name, o \o r) <=> Has(name, o) \/ Has(name, r)
          /\ Unique(name, o \o r) <=>
               Unique(name, o) /\ Unique(name, r) /\ IdsOf(name, o) \cap IdsOf(name, r) = {}
          /\ Twice(name, o \o r) <=>
               Twice(name, o) \/ Twice(name, r) \/ (Has(name, o) /\ Has(name, r))
    BY <1>1, JoinedSets, ZenonT(60)
  <1>6. PICK o \in Seq(CallRec) : o = <<x>>
    BY <1>4
  <1>7. c = o \o r
    BY <1>3, <1>6
  <1>8. IdsOf(name, o) = (IF x.call = name THEN {x.id} ELSE {}) /\ (Has(name, o) <=> x.call = name)
        /\ Unique(name, o) /\ ~Twice(name, o)
    BY <1>4, <1>6
  <1>9. /\ IdsOf(name, c) = IdsOf(name, o) \cup IdsOf(name, r)
        /\ Has(name, c) <=> Has(name, o) \/ Has(name, r)
        /\ Unique(name, c) <=>
             Unique(name, o) /\ Unique(name, r) /\ IdsOf(name, o) \cap IdsOf(name, r) = {}
        /\ Twice(name, c) <=>
             Twice(name, o) \/ Twice(name, r) \/ (Has(name, o) /\ Has(name, r))
    <2>1. /\ IdsOf(name, o \o r) = IdsOf(name, o) \cup IdsOf(name, r)
          /\ Has(name, o \o r) <=> Has(name, o) \/ Has(name, r)
          /\ Unique(name, o \o r) <=>
               Unique(name, o) /\ Unique(name, r) /\ IdsOf(name, o) \cap IdsOf(name, r) = {}
          /\ Twice(name, o \o r) <=>
               Twice(name, o) \/ Twice(name, r) \/ (Has(name, o) /\ Has(name, r))
      BY <1>5
    <2>2. QED
      BY ONLY <1>7, <2>1
  <1>10. x.call = name => {x.id} \cap IdsOf(name, r) = {} <=> x.id \notin IdsOf(name, r)
    OBVIOUS
  <1>11. Unique(name, c) <=> Unique(name, r) /\ (x.call = name => x.id \notin IdsOf(name, r))
    BY <1>8, <1>9, <1>10
  <1>12. QED
    BY <1>1, <1>2, <1>8, <1>9, <1>11

LEMMA PoppedLoose ==
    ASSUME NEW c \in Seq(CallRec), c # <<>>, NEW r, r = Tail(c),
           NEW t \in Loose(r), t \notin Loose(c)
    PROVE  c[1] = Release("handoff", t)
  <1>1. r \in Seq(CallRec) /\ Len(c) = Len(r) + 1 /\ Len(r) \in Nat
        /\ \A i \in 1..Len(r) : i + 1 \in 1..Len(c) /\ c[i + 1] = r[i]
    OBVIOUS
  <1>2. PICK k \in 1..Len(r) : r[k].call = "settle" /\ ~Beside(r, k) /\ r[k].id = t
    BY DEF Loose, Where
  <1>3. k + 1 \in 1..Len(c) /\ c[k + 1] = r[k] /\ Beside(c, k + 1)
    BY <1>1, <1>2 DEF Loose, Where
  <1>4. ~(k + 1 < Len(c) /\ c[(k + 1) + 1] = Release("handoff", t))
    <2>1. k + 1 < Len(c) => k < Len(r) /\ k + 1 \in 1..Len(r)
      BY <1>1
    <2>2. QED
      BY <1>1, <1>2, <2>1 DEF Beside
  <1>5. c[k] = Release("handoff", t)
    <2>1. (k + 1) - 1 = k
      OBVIOUS
    <2>2. QED
      BY <1>2, <1>3, <1>4, <2>1 DEF Beside
  <1>6. k > 1 => k - 1 \in 1..Len(r) /\ c[k] = r[k - 1]
    BY <1>1
  <1>7. QED
    BY <1>2, <1>5, <1>6 DEF Beside

LEMMA NoCalls ==
    ASSUME NEW name \in Names
    PROVE  /\ <<>> \in Seq(CallRec) /\ IdsOf(name, <<>>) = {} /\ ~Has(name, <<>>)
           /\ Unique(name, <<>>) /\ ~Twice(name, <<>>) /\ Loose(<<>>) = {}
           /\ Calm(<<>>) /\ Quiet(<<>>)
  <1>1. \A n : Where(n, <<>>) = {}
    BY DEF Where
  <1>2. QED
    BY <1>1 DEF IdsOf, Has, Unique, Twice, Loose, Calm, Quiet

(* Quiet calls before those that are left say nothing new of settles and walks. *)
LEMMA QuietJoined ==
    ASSUME NEW p \in Seq(CallRec), Quiet(p), NEW r \in Seq(CallRec)
    PROVE  /\ p \o r \in Seq(CallRec)
           /\ IdsOf("settle", p \o r) = IdsOf("settle", r)
           /\ IdsOf("seatfree", p \o r) = IdsOf("seatfree", r)
           /\ Unique("settle", p \o r) <=> Unique("settle", r)
           /\ Unique("seatfree", p \o r) <=> Unique("seatfree", r)
           /\ Has("pass", p \o r) <=> Has("pass", r)
           /\ Calm(r) => Calm(p \o r)
           /\ Loose(p \o r) \subseteq Loose(r)
  <1>1. \A n \in {"settle", "seatfree", "pass", "row"} : Where(n, p) = {}
    BY DEF Quiet, Where
  <1>2. \A n \in {"settle", "seatfree", "pass", "row"} :
           IdsOf(n, p) = {} /\ ~Has(n, p) /\ Unique(n, p) /\ ~Twice(n, p)
    BY <1>1 DEF IdsOf, Has, Unique, Twice
  <1>3. Loose(p) = {}
    BY <1>1 DEF Loose
  <1>4. p \o r \in Seq(CallRec)
    OBVIOUS
  <1>5. \A n \in {"settle", "seatfree", "pass", "row"} :
           /\ IdsOf(n, p \o r) = IdsOf(n, r)
           /\ Unique(n, p \o r) <=> Unique(n, r)
           /\ Has(n, p \o r) <=> Has(n, r)
           /\ Twice(n, p \o r) <=> Twice(n, r)
    <2>1. {"settle", "seatfree", "pass", "row"} \subseteq Names
      BY DEF Names
    <2>2. TAKE n \in {"settle", "seatfree", "pass", "row"}
    <2>3. IdsOf(n, p) = {} /\ ~Has(n, p) /\ Unique(n, p) /\ ~Twice(n, p) /\ n \in Names
      BY <1>2, <2>1
    <2>4. /\ IdsOf(n, p \o r) = IdsOf(n, p) \cup IdsOf(n, r)
          /\ Has(n, p \o r) <=> Has(n, p) \/ Has(n, r)
          /\ Unique(n, p \o r) <=>
               Unique(n, p) /\ Unique(n, r) /\ IdsOf(n, p) \cap IdsOf(n, r) = {}
          /\ Twice(n, p \o r) <=> Twice(n, p) \/ Twice(n, r) \/ (Has(n, p) /\ Has(n, r))
      BY <2>3, JoinedSets
    <2>5. QED
      BY <2>3, <2>4
  <1>6. Loose(p \o r) \subseteq Loose(r)
    BY <1>3, JoinedLoose
  <1>7. QED
    BY <1>4, <1>5, <1>6 DEF Calm

--------------------------------------------------------------------------------
(* The inductive invariant.  "c" is what is left of the handler that runs.      *)

States == {"open", "awaiting", "in-flight"}
PassRec == [walks : BOOLEAN, on : Ids \cup {NoOne}, claimed : Nat, rows : Seq(WaitingRow),
            open : Nat, reserved : SUBSET Tickets]
ParkedRec == [id : Tickets, origin : {"open", "workflow", "restart"}, claimed : States]
HoldRec == [side : Sides \cup {"none"}, id : Ids \cup {NoOne}, over : BOOLEAN]
Takers == ({"handoff", "merge"} \X Tickets) \cup ({"consultation"} \X Consultations)

TypedQueue == \E n \in Nat : queue \in Queues(n)
TypedFacts ==
    /\ ticket \in [Tickets -> States]
    /\ listed \in SUBSET Tickets /\ raced \in SUBSET Tickets /\ missing \in SUBSET Tickets
TypedClaims ==
    /\ claims \in SUBSET Tickets /\ parked \in Seq(ParkedRec)
    /\ runs \in [Tickets -> {"none", "works", "failed", "live"}]
TypedSeat ==
    /\ inFlight \in BOOLEAN /\ cleanupQueued \in BOOLEAN /\ clearing \in BOOLEAN
    /\ cleanupQueue \in Seq(Tickets \cup {NoOne})
TypedWalk ==
    /\ passes \in [1..Passes -> PassRec] /\ reask \in BOOLEAN
    /\ merges \in [Tickets -> {"none", "runs", "refused"}]
    /\ \A p \in 1..Passes : passes[p].on \in Tickets => merges[passes[p].on] # "none"
TypedRest ==
    /\ paused \in BOOLEAN /\ held \in SUBSET Tickets
    /\ consultation \in [Consultations -> {"idle", "queued", "opening", "working"}]
TypedHolds ==
    /\ holds \in [Repositories -> HoldRec] /\ waits \in [Ids -> {"none", "waits", "over"}]
    /\ atWork \in SUBSET Takers /\ lapsed \in SUBSET atWork

Types == /\ TypedQueue /\ TypedFacts /\ TypedClaims /\ TypedSeat
         /\ TypedWalk /\ TypedRest /\ TypedHolds

(* One start has the seat, and no cleanup runs beside it. *)
Seat(c) ==
    /\ inFlight <=> \E t \in Tickets : runs[t] # "none"
    /\ \A t, u \in Tickets : runs[t] # "none" /\ runs[u] # "none" => t = u
    /\ clearing => cleanupQueued /\ ~inFlight
    /\ cleanupQueue # <<>> => cleanupQueued
    /\ \A t \in IdsOf("seatfree", c) : runs[t] # "none"
    /\ Unique("seatfree", c)

(* A claim belongs to a parked start, to the start at work or to a settle to come. *)
ParkedIds == {parked[i].id : i \in 1..Len(parked)}
Working(c) == {t \in Tickets : runs[t] = "works" /\ t \notin IdsOf("seatfree", c)}

Owned(c) ==
    /\ claims = ParkedIds \cup Working(c) \cup IdsOf("settle", c)
    /\ ParkedIds \cap Working(c) = {} /\ ParkedIds \cap IdsOf("settle", c) = {}
    /\ Working(c) \cap IdsOf("settle", c) = {}
    /\ \A i, k \in 1..Len(parked) : parked[i].id = parked[k].id => i = k
    /\ Unique("settle", c)

(* A pass that a handler is to start finds a free one. *)
Laps(c) ==
    /\ Has("pass", c) => FreePasses # {}
    /\ Twice("pass", c) => Walking = {}
    /\ c # <<>> => Calm(Tail(c))
    /\ c # <<>> /\ c[1].call = "row" =>
         c[1].pass \in 1..Passes /\ passes[c[1].pass].rows # <<>>

Serves(w) ==
    \/ w[1] = "handoff" /\ w[2] \in claims
    \/ w[1] = "merge" /\ merges[w[2]] # "none"
    \/ w[1] = "consultation" /\ consultation[w[2]] = "opening"

(* The hold of a checkout and the work on it agree, but for what the budget ended. *)
Held ==
    /\ \A r \in Repositories : holds[r].side # "none" => <<holds[r].side, holds[r].id>> \in atWork
    /\ \A w \in atWork \ lapsed : holds[Repo[w[2]]].side = w[1] /\ holds[Repo[w[2]]].id = w[2]

(* Who works on a checkout has a command to come, or a release next. *)
Releases(c, w) == c # <<>> /\ c[1] = Release(w[1], w[2])
Served(c) ==
    /\ \A w \in atWork : Serves(w) \/ Releases(c, w)
    /\ \A t \in Loose(c) : <<"handoff", t>> \notin atWork

Asked == \A x \in Consultations : Stands(x) => consultation[x] = "queued"

Sound(c) == Types /\ Asked /\ Held /\ Seat(c) /\ Owned(c) /\ Laps(c) /\ Served(c)
IInv == \E c \in Seq(CallRec) : calls = c /\ Sound(c)

(* Between two calls, before the next one is made, and when no handler runs. *)
Ready(r) ==
    /\ Types /\ Asked /\ Held /\ Seat(r) /\ Owned(r) /\ Calm(r)
    /\ Has("pass", r) => FreePasses # {}
    /\ \A w \in atWork : Serves(w)
    /\ \A t \in Loose(r) : <<"handoff", t>> \notin atWork

(* The calls d owe no settle and no freed seat beyond those of r. *)
Like(d, r) ==
    /\ IdsOf("settle", d) = IdsOf("settle", r) /\ IdsOf("seatfree", d) = IdsOf("seatfree", r)
    /\ Unique("settle", d) <=> Unique("settle", r)
    /\ Unique("seatfree", d) <=> Unique("seatfree", r)
    /\ Loose(d) \subseteq Loose(r)

LEMMA LikeQuiet ==
    ASSUME NEW p \in Seq(CallRec), Quiet(p), NEW r \in Seq(CallRec), Calm(r)
    PROVE  /\ p \o r \in Seq(CallRec) /\ Like(p \o r, r) /\ Calm(p \o r)
           /\ Has("pass", p \o r) <=> Has("pass", r)
  BY QuietJoined DEF Like

LEMMA CalmTail ==
    ASSUME NEW d \in Seq(CallRec), d # <<>>, Calm(d)
    PROVE  Calm(Tail(d)) /\ d[1].call # "row"
  <1>1. PICK r \in Seq(CallRec) : r = Tail(d)
    <2>1. Tail(d) \in Seq(CallRec)
      OBVIOUS
    <2>2. QED
      BY <2>1
  <1>2. \A name \in Names :
          /\ Has(name, d) <=> d[1].call = name \/ Has(name, r)
          /\ Twice(name, d) <=> Twice(name, r) \/ (d[1].call = name /\ Has(name, r))
    BY <1>1, Popped
  <1>3. "pass" \in Names /\ "row" \in Names
    BY DEF Names
  <1>4. /\ Has("row", d) <=> d[1].call = "row" \/ Has("row", r)
        /\ Twice("pass", d) <=> Twice("pass", r) \/ (d[1].call = "pass" /\ Has("pass", r))
    BY <1>2, <1>3
  <1>5. Calm(r) /\ d[1].call # "row"
    BY <1>4 DEF Calm
  <1>6. QED
    BY <1>1, <1>5

(* A call of the handler that runs leaves the others as they were. *)
LEMMA Rest ==
    ASSUME NEW c \in Seq(CallRec), Sound(c), c # <<>>, NEW r, r = Tail(c)
    PROVE  /\ c[1] \in CallRec /\ r \in Seq(CallRec) /\ Calm(r)
           /\ Has("pass", r) => FreePasses # {}
           /\ c[1].call # "seatfree" => Seat(r)
           /\ c[1].call \notin {"seatfree", "settle"} => Owned(r)
           /\ c[1].call # "release" => \A w \in atWork : Serves(w)
           /\ c[1].call # "release" => \A t \in Loose(r) : <<"handoff", t>> \notin atWork
           /\ c[1].call \notin {"seatfree", "settle", "release"} => Ready(r)
  <1>1. c[1] \in CallRec /\ r \in Seq(CallRec) /\ Calm(r)
    BY DEF Sound, Laps
  <1>2. \A name \in Names :
           /\ IdsOf(name, c) = (IF c[1].call = name THEN {c[1].id} ELSE {}) \cup IdsOf(name, r)
           /\ Has(name, c) <=> c[1].call = name \/ Has(name, r)
           /\ Unique(name, c) <=>
                Unique(name, r) /\ (c[1].call = name => c[1].id \notin IdsOf(name, r))
    BY Popped
  <1>3. {"pass", "settle", "seatfree"} \subseteq Names
    BY DEF Names
  <1>4. Has("pass", c) <=> c[1].call = "pass" \/ Has("pass", r)
    BY <1>2, <1>3
  <1>5. /\ IdsOf("settle", c) = (IF c[1].call = "settle" THEN {c[1].id} ELSE {})
                                   \cup IdsOf("settle", r)
        /\ Unique("settle", c) => Unique("settle", r)
    BY <1>2, <1>3
  <1>6. /\ IdsOf("seatfree", c) = (IF c[1].call = "seatfree" THEN {c[1].id} ELSE {})
                                     \cup IdsOf("seatfree", r)
        /\ Unique("seatfree", c) => Unique("seatfree", r)
    BY <1>2, <1>3
  <1>7. Has("pass", r) => FreePasses # {}
    BY <1>4 DEF Sound, Laps
  <1>8. c[1].call # "seatfree" => Seat(r)
    BY <1>6 DEF Sound, Seat
  <1>9. ASSUME c[1].call \notin {"seatfree", "settle"} PROVE Owned(r)
    <2>1. IdsOf("settle", c) = IdsOf("settle", r) /\ Working(c) = Working(r)
      BY <1>5, <1>6, <1>9 DEF Working
    <2>2. QED
      BY <1>5, <2>1 DEF Sound, Owned
  <1>10. ASSUME c[1].call # "release"
         PROVE  (\A w \in atWork : Serves(w)) /\ \A t \in Loose(r) : <<"handoff", t>> \notin atWork
    <2>1. \A w : c[1] # Release(w[1], w[2])
      BY <1>10 DEF Release, Call
    <2>2. \A t : c[1] # Release("handoff", t)
      BY <1>10 DEF Release, Call
    <2>3. \A t \in Loose(r) : t \in Loose(c)
      BY <2>2, PoppedLoose
    <2>4. QED
      BY <2>1, <2>3 DEF Sound, Served, Releases
  <1>11. QED
    BY <1>1, <1>7, <1>8, <1>9, <1>10 DEF Sound, Ready

LEMMA Idles ==
    ASSUME Sound(<<>>)
    PROVE  Ready(<<>>) /\ <<>> \in Seq(CallRec)
  <1>1. /\ <<>> \in Seq(CallRec) /\ Calm(<<>>) /\ Loose(<<>>) = {}
        /\ ~Has("pass", <<>>)
    BY NoCalls DEF Names
  <1>2. QED
    BY <1>1 DEF Sound, Ready, Served, Releases

(* The end of a step: what was shown for the calls left holds for the calls to come. *)
LEMMA Closes ==
    ASSUME NEW r \in Seq(CallRec), NEW d \in Seq(CallRec), calls' = d, Like(d, r),
           Types', Asked', Held', Seat(r)', Owned(r)', Laps(d)',
           \A w \in atWork' : Serves(w)' \/ Releases(d, w),
           \A t \in Loose(r) : <<"handoff", t>> \notin atWork'
    PROVE  IInv'
  <1>1. Seat(d)'
    BY DEF Seat, Like
  <1>2. Owned(d)'
    <2>1. Working(d)' = Working(r)'
      BY DEF Working, Like
    <2>2. QED
      BY <2>1 DEF Owned, Like
  <1>3. Served(d)'
    BY DEF Served, Like, Releases
  <1>4. Sound(d)'
    BY <1>1, <1>2, <1>3 DEF Sound
  <1>5. QED
    BY <1>4 DEF IInv

LEMMA CalmLaps ==
    ASSUME NEW d \in Seq(CallRec), Calm(d), Has("pass", d) => FreePasses' # {}
    PROVE  Laps(d)'
  BY CalmTail DEF Laps, Calm

--------------------------------------------------------------------------------
(* The calls the steps make. *)

LEMMA Made ==
    ASSUME NEW t \in Tickets, NEW ok \in BOOLEAN
    PROVE  /\ Call("remove", t) \in CallRec /\ Call("answer", t) \in CallRec
           /\ Call("cancelled", t) \in CallRec /\ Call("seatfree", t) \in CallRec
           /\ Call("dropped", t) \in CallRec /\ Settle(t, ok) \in CallRec
           /\ Settle(t, ok).call = "settle" /\ Settle(t, ok).id = t
           /\ Drop(t) \in Seq(CallRec) /\ Quiet(Drop(t))
  <1>1. 0 \in Nat /\ FALSE \in BOOLEAN /\ t \in Ids \cup {NoOne}
    BY DEF Ids
  <1>2. /\ Call("remove", t) \in CallRec /\ Call("answer", t) \in CallRec
        /\ Call("cancelled", t) \in CallRec /\ Call("seatfree", t) \in CallRec
        /\ Call("dropped", t) \in CallRec /\ Settle(t, ok) \in CallRec
    BY <1>1 DEF Call, Settle, CallRec, Names, OfTicket
  <1>4. Settle(t, ok).call = "settle" /\ Settle(t, ok).id = t
    BY DEF Call, Settle
  <1>5. Drop(t) \in Seq(CallRec)
    BY <1>2 DEF Drop
  <1>6. Quiet(Drop(t))
    BY DEF Drop, Quiet, Call
  <1>7. QED
    BY <1>2, <1>4, <1>5, <1>6

LEMMA MadeRow ==
    ASSUME NEW p \in 1..Passes, NEW x, x = [Call("row", NoOne) EXCEPT !.pass = p]
    PROVE  x \in CallRec /\ x.call = "row" /\ x.pass = p
  <1>1. p \in Nat
    BY DispatchAssumption
  <1>2. QED
    BY <1>1 DEF Call, CallRec, Names, OfTicket

LEMMA MadeFree ==
    /\ StartPass \in CallRec /\ Call("drain", NoOne) \in CallRec
    /\ Call("drainParked", NoOne) \in CallRec
    /\ StartPass.call = "pass" /\ Call("drain", NoOne).call = "drain"
    /\ Call("drainParked", NoOne).call = "drainParked"
  BY DEF StartPass, Call, CallRec, Names, OfTicket

LEMMA MadeRelease ==
    ASSUME NEW side \in Sides, NEW id \in Ids
    PROVE  /\ Release(side, id) \in CallRec /\ Release(side, id).call = "release"
           /\ Release(side, id).side = side /\ Release(side, id).id = id
  BY DEF Release, Call, CallRec, Names, OfTicket, Ids

LEMMA QuietOne ==
    ASSUME NEW x \in CallRec, x.call \notin {"settle", "seatfree", "pass", "row"}
    PROVE  <<x>> \in Seq(CallRec) /\ Quiet(<<x>>)
  BY DEF Quiet

(* One call more before those that are left. *)
LEMMA LikeOne ==
    ASSUME NEW x \in CallRec, x.call \notin {"settle", "seatfree", "pass", "row"},
           NEW r \in Seq(CallRec), Calm(r)
    PROVE  /\ <<x>> \o r \in Seq(CallRec) /\ Like(<<x>> \o r, r) /\ Calm(<<x>> \o r)
           /\ Has("pass", <<x>> \o r) <=> Has("pass", r)
           /\ <<x>> \o r # <<>> /\ (<<x>> \o r)[1] = x
  <1>1. <<x>> \in Seq(CallRec) /\ Quiet(<<x>>)
    BY QuietOne
  <1>2. PICK p \in Seq(CallRec) : p = <<x>> /\ Quiet(p)
    BY <1>1
  <1>3. /\ p \o r \in Seq(CallRec) /\ Like(p \o r, r) /\ Calm(p \o r)
        /\ Has("pass", p \o r) <=> Has("pass", r)
    BY <1>2, LikeQuiet
  <1>4. <<x>> \o r # <<>> /\ (<<x>> \o r)[1] = x
    OBVIOUS
  <1>5. QED
    BY <1>2, <1>3, <1>4

LEMMA LikeSelf ==
    ASSUME NEW r \in Seq(CallRec)
    PROVE  Like(r, r)
  BY DEF Like

(* A pass, or a row of its lap, before the calls that are left. *)
LEMMA LikeStep ==
    ASSUME NEW x \in CallRec, x.call \in {"pass", "row"}, NEW r \in Seq(CallRec), Calm(r)
    PROVE  /\ <<x>> \o r \in Seq(CallRec) /\ Like(<<x>> \o r, r)
           /\ <<x>> \o r # <<>> /\ (<<x>> \o r)[1] = x /\ Tail(<<x>> \o r) = r
           /\ Has("pass", <<x>> \o r) <=> x.call = "pass" \/ Has("pass", r)
           /\ Twice("pass", <<x>> \o r) <=> x.call = "pass" /\ Has("pass", r)
  <1>1. \A name \in Names :
          /\ <<x>> \in Seq(CallRec)
          /\ IdsOf(name, <<x>>) = IF x.call = name THEN {x.id} ELSE {}
          /\ Has(name, <<x>>) <=> x.call = name
          /\ Unique(name, <<x>>) /\ ~Twice(name, <<x>>)
    BY OneCall
  <1>2. PICK p \in Seq(CallRec) : p = <<x>>
    <2>1. <<x>> \in Seq(CallRec)
      OBVIOUS
    <2>2. QED
      BY <2>1
  <1>3. \A name \in Names :
          /\ IdsOf(name, p \o r) = IdsOf(name, p) \cup IdsOf(name, r)
          /\ Has(name, p \o r) <=> Has(name, p) \/ Has(name, r)
          /\ Unique(name, p \o r) <=>
               Unique(name, p) /\ Unique(name, r) /\ IdsOf(name, p) \cap IdsOf(name, r) = {}
          /\ Twice(name, p \o r) <=>
               Twice(name, p) \/ Twice(name, r) \/ (Has(name, p) /\ Has(name, r))
    BY JoinedSets
  <1>4. {"settle", "seatfree", "pass", "row"} \subseteq Names
    BY DEF Names
  <1>5. Loose(p) = {}
    <2>1. \A k \in 1..Len(p) : p[k].call # "settle"
      BY <1>2
    <2>2. QED
      BY <2>1 DEF Loose, Where
  <1>6. Loose(p \o r) \subseteq Loose(r)
    BY <1>5, JoinedLoose
  <1>7. \A name \in {"settle", "seatfree"} :
          IdsOf(name, p) = {} /\ Unique(name, p)
    BY <1>1, <1>2, <1>4
  <1>8. \A name \in {"settle", "seatfree"} :
          IdsOf(name, p \o r) = IdsOf(name, r) /\ (Unique(name, p \o r) <=> Unique(name, r))
    BY <1>3, <1>4, <1>7
  <1>9. Like(p \o r, r)
    BY <1>6, <1>8 DEF Like
  <1>10. (Has("pass", p) <=> x.call = "pass") /\ ~Twice("pass", p) /\ ~Twice("pass", r)
    BY <1>1, <1>2, <1>4 DEF Calm
  <1>11. Has("pass", p \o r) <=> Has("pass", p) \/ Has("pass", r)
    BY <1>3, <1>4
  <1>12. Twice("pass", p \o r) <=>
           Twice("pass", p) \/ Twice("pass", r) \/ (Has("pass", p) /\ Has("pass", r))
    BY <1>3, <1>4
  <1>13. p \o r \in Seq(CallRec) /\ p \o r # <<>> /\ (p \o r)[1] = x /\ Tail(p \o r) = r
    BY <1>2
  <1>14. QED
    BY <1>2, <1>9, <1>10, <1>11, <1>12, <1>13

--------------------------------------------------------------------------------
(* The rows. *)

LEMMA Kinds ==
    ASSUME NEW r \in WaitingRow
    PROVE  /\ r.id \in Ids /\ Kind(r) \in Sides /\ <<Kind(r), r.id>> \in Takers
           /\ Kind(r) = "consultation" => r.id \in Consultations /\ r = ConsultationRow(r.id)
           /\ Kind(r) # "consultation" => r \in TicketRow /\ r.id \in Tickets
           /\ Kind(r) # "handoff" => Works(r)
  <1>1. CASE r \in Starts
    <2>1. r \in TicketRow /\ r.id \in Tickets /\ r.id \notin Consultations
      BY <1>1, DispatchAssumption DEF TicketRow
    <2>2. QED
      BY <2>1 DEF Kind, Sides, Takers, Works, Ids
  <1>2. CASE \E c \in Consultations : r = ConsultationRow(c)
    <2>1. r.id \in Consultations /\ r = ConsultationRow(r.id)
      BY <1>2 DEF ConsultationRow
    <2>2. QED
      BY <2>1 DEF Kind, Sides, Takers, Works, Ids
  <1>3. QED
    BY <1>1, <1>2 DEF WaitingRow

LEMMA Rowed ==
    ASSUME TypedQueue
    PROVE  /\ \A p \in WQ!Positions(queue) : queue[p] \in WaitingRow
           /\ Rows \in Seq(WaitingRow)
           /\ \A x \in Ids : Stands(x) => RowOf(x) \in WaitingRow /\ RowOf(x).id = x
  <1>1. PICK n \in Nat : queue \in Queues(n)
    BY DEF TypedQueue
  <1>2. WQ!Positions(queue) = 0..(n - 1) /\ Cardinality(WQ!Positions(queue)) = n
    BY <1>1, PlacesIs
  <1>3. \A p \in WQ!Positions(queue) : queue[p] \in WaitingRow
    BY <1>1, <1>2 DEF Queues
  <1>4. Rows \in Seq(WaitingRow)
    <2>1. \A i \in 1..n : i - 1 \in 0..(n - 1)
      OBVIOUS
    <2>2. Rows = [i \in 1..n |-> queue[i - 1]]
      BY <1>2 DEF Rows
    <2>3. Rows \in [1..n -> WaitingRow]
      BY <1>2, <1>3, <2>1, <2>2
    <2>4. QED
      BY <2>3, IsASeq
  <1>5. ASSUME NEW x \in Ids, Stands(x)
        PROVE  RowOf(x) \in WaitingRow /\ RowOf(x).id = x
    <2>1. \E r \in {queue[p] : p \in WQ!Positions(queue)} : r.id = x
      BY <1>5 DEF Stands, WQ!Holds
    <2>2. RowOf(x) \in {queue[p] : p \in WQ!Positions(queue)} /\ RowOf(x).id = x
      BY <2>1 DEF RowOf
    <2>3. QED
      BY <1>3, <2>2
  <1>6. QED
    BY <1>3, <1>4, <1>5

LEMMA Leaves ==
    ASSUME TypedQueue, NEW S \in SUBSET WQ!Positions(queue), queue' = WQ!TakeOut(queue, S)
    PROVE  /\ TypedQueue'
           /\ \A x \in Ids : Stands(x)' => \E p \in WQ!Positions(queue) \ S : queue[p].id = x
  <1>1. PICK n \in Nat : queue \in Queues(n)
    BY DEF TypedQueue
  <1>2. PICK m \in Nat : /\ WQ!TakeOut(queue, S) \in Queues(m)
                         /\ \A i \in 0..(m - 1) : \E p \in WQ!Positions(queue) \ S :
                              WQ!TakeOut(queue, S)[i] = queue[p]
    BY <1>1, TakeOutIs
  <1>3. queue' \in Queues(m)
    BY <1>2
  <1>4. DOMAIN queue' = 0..(m - 1)
    BY <1>3 DEF Queues
  <1>5. \A x \in Ids : Stands(x)' => \E i \in 0..(m - 1) : queue'[i].id = x
    BY <1>4 DEF Stands, WQ!Holds, WQ!Positions
  <1>6. QED
    BY <1>2, <1>3, <1>5 DEF TypedQueue

LEMMA LeavesOne ==
    ASSUME TypedQueue, NEW id, queue' = Without(queue, id)
    PROVE  TypedQueue' /\ \A x \in Ids : Stands(x)' => Stands(x) /\ x # id
  <1>1. PICK S \in SUBSET WQ!Positions(queue) :
          S = {p \in WQ!Positions(queue) : queue[p].id = id}
    OBVIOUS
  <1>2. queue' = WQ!TakeOut(queue, S)
    BY <1>1 DEF Without
  <1>3. TypedQueue' /\ \A x \in Ids : Stands(x)' => \E p \in WQ!Positions(queue) \ S : queue[p].id = x
    BY <1>2, Leaves
  <1>4. QED
    BY <1>1, <1>3 DEF Stands, WQ!Holds

LEMMA Enters ==
    ASSUME TypedQueue, NEW r \in WaitingRow, NEW place,
           place \in {WQ!EntryPlace(queue, r), WQ!End(queue)},
           queue' = WQ!Enter(queue, place, r)
    PROVE  TypedQueue' /\ \A x \in Ids : Stands(x)' => Stands(x) \/ x = r.id
  <1>1. PICK n \in Nat : queue \in Queues(n)
    BY DEF TypedQueue
  <1>2. place \in 0..n
    <2>1. WQ!EntryPlace(queue, r) \in 0..n
      BY <1>1, PlaceIs
    <2>2. WQ!End(queue) = n
      BY <1>1, PlacesIs
    <2>3. QED
      BY <2>1, <2>2
  <1>3. /\ WQ!Enter(queue, place, r) \in Queues(n + 1)
        /\ \A p \in 0..n : WQ!Enter(queue, place, r)[p] = r
                           \/ \E o \in 0..(n - 1) : WQ!Enter(queue, place, r)[p] = queue[o]
    BY <1>1, <1>2, EnterIs
  <1>4. queue' \in Queues(n + 1)
    BY <1>3
  <1>5. DOMAIN queue' = 0..n /\ DOMAIN queue = 0..(n - 1)
    BY <1>1, <1>4 DEF Queues
  <1>6. \A p \in 0..n : queue'[p] = r \/ \E o \in 0..(n - 1) : queue'[p] = queue[o]
    BY <1>3
  <1>7. \A x \in Ids : Stands(x)' => \E p \in 0..n : queue'[p].id = x
    BY <1>5 DEF Stands, WQ!Holds, WQ!Positions
  <1>8. \A x \in Ids : (\E o \in 0..(n - 1) : queue[o].id = x) => Stands(x)
    BY <1>5 DEF Stands, WQ!Holds, WQ!Positions
  <1>9. \A x \in Ids : Stands(x)' => Stands(x) \/ x = r.id
    BY <1>6, <1>7, <1>8
  <1>10. QED
    BY <1>4, <1>9 DEF TypedQueue

--------------------------------------------------------------------------------
(* The holds. *)

LEMMA Stood ==
    ASSUME TypedHolds, NEW r \in Repositories
    PROVE  HolderStands(holds[r]) <=>
             holds[r].side # "none" /\ Serves(<<holds[r].side, holds[r].id>>)
  <1>1. holds[r].side \in {"handoff", "merge", "consultation", "none"}
    BY DEF TypedHolds, HoldRec, Sides
  <1>2. PICK s, i : s = holds[r].side /\ i = holds[r].id
    OBVIOUS
  <1>3. <<s, i>>[1] = s /\ <<s, i>>[2] = i
    OBVIOUS
  <1>4. QED
    BY <1>1, <1>2, <1>3 DEF HolderStands, Serves

(* A hold that the budget ended is counted before it is gone. *)
LEMMA Drops ==
    ASSUME TypedHolds, Held, NEW R \in SUBSET Repositories
    PROVE  /\ Dropped(R) \subseteq atWork
           /\ \A w \in atWork \ lapsed : Serves(w) /\ Repo[w[2]] \in R /\ ~Keeps(holds[Repo[w[2]]])
                => w \in Dropped(R)
  <1>1. ASSUME NEW d \in Dropped(R) PROVE d \in atWork
    <2>1. PICK r \in R : HolderStands(holds[r]) /\ d = <<holds[r].side, holds[r].id>>
      BY <1>1 DEF Dropped
    <2>2. r \in Repositories /\ holds[r].side # "none"
      BY <2>1, Stood
    <2>3. QED
      BY <2>1, <2>2 DEF Held
  <1>2. ASSUME NEW w \in atWork \ lapsed, Serves(w), Repo[w[2]] \in R,
               ~Keeps(holds[Repo[w[2]]])
        PROVE  w \in Dropped(R)
    <2>1. PICK r \in R : r = Repo[w[2]]
      BY <1>2
    <2>2. r \in Repositories /\ holds[r].side = w[1] /\ holds[r].id = w[2]
      BY <2>1 DEF Held
    <2>3. w = <<w[1], w[2]>> /\ w[1] # "none"
      BY DEF TypedHolds, Takers
    <2>4. HolderStands(holds[r])
      BY <1>2, <2>2, <2>3, Stood
    <2>5. holds[r].over
      BY <1>2, <2>1, <2>4 DEF Keeps
    <2>6. QED
      BY <2>2, <2>3, <2>4, <2>5 DEF Dropped
  <1>3. QED
    BY <1>1, <1>2

LEMMA ReadIs ==
    ASSUME TypedHolds, Held, \A w \in atWork : Serves(w),
           NEW R \in SUBSET Repositories, ReadHolds(R)
    PROVE  /\ holds' \in [Repositories -> HoldRec] /\ Held' /\ atWork' = atWork
           /\ lapsed' \in SUBSET atWork'
  <1>1. NoHold \in HoldRec
    BY DEF NoHold, HoldRec
  <1>2. holds' \in [Repositories -> HoldRec]
    BY <1>1 DEF ReadHolds, TypedHolds
  <1>3. /\ holds' = [r \in Repositories |->
                       IF r \in R /\ ~Keeps(holds[r]) THEN NoHold ELSE holds[r]]
        /\ lapsed' = lapsed \cup Dropped(R) /\ atWork' = atWork
    BY DEF ReadHolds
  <1>4. lapsed' \in SUBSET atWork'
    BY <1>3, Drops DEF TypedHolds
  <1>5. ASSUME NEW r \in Repositories, holds'[r].side # "none"
        PROVE  <<holds'[r].side, holds'[r].id>> \in atWork'
    <2>1. holds'[r] = holds[r]
      BY <1>3, <1>5 DEF NoHold
    <2>2. QED
      BY <1>3, <1>5, <2>1 DEF Held
  <1>6. ASSUME NEW w \in atWork' \ lapsed'
        PROVE  holds'[Repo[w[2]]].side = w[1] /\ holds'[Repo[w[2]]].id = w[2]
    <2>1. w \in atWork \ lapsed /\ w \notin Dropped(R) /\ Serves(w)
      BY <1>3
    <2>2. Repo[w[2]] \in Repositories
      BY <2>1, DispatchAssumption DEF TypedHolds, Takers, Ids
    <2>3. holds'[Repo[w[2]]] = holds[Repo[w[2]]]
      BY <1>3, <2>1, <2>2, Drops
    <2>4. QED
      BY <2>1, <2>3 DEF Held
  <1>7. QED
    BY <1>2, <1>3, <1>4, <1>5, <1>6 DEF Held

LEMMA Forgets ==
    ASSUME TypedHolds, NEW id, waits' = Forget(id)
    PROVE  waits' \in [Ids -> {"none", "waits", "over"}]
  BY DEF TypedHolds, Forget

(* A claim takes a checkout that nobody keeps. *)
LEMMA CrossIs ==
    ASSUME TypedHolds, Held, \A w \in atWork : Serves(w),
           NEW r \in WaitingRow, ~Busy(r), Cross(r)
    PROVE  /\ TypedHolds' /\ Held'
           /\ atWork' = atWork \/ atWork' = atWork \cup {<<Kind(r), r.id>>}
           /\ Kind(r) # "handoff" => atWork' = atWork \cup {<<Kind(r), r.id>>}
  <1>1. CASE ~Works(r)
    <2>1. UNCHANGED <<holds, waits, atWork, lapsed>>
      BY <1>1 DEF Cross, checkout
    <2>2. QED
      BY <1>1, <2>1, Kinds DEF TypedHolds, Held
  <1>2. CASE Works(r)
    <2> DEFINE here == Repo[r.id]
               mine == [side |-> Kind(r), id |-> r.id, over |-> FALSE]
    <2>1. /\ r.id \in Ids /\ Kind(r) \in Sides /\ <<Kind(r), r.id>> \in Takers
          /\ here \in Repositories /\ mine \in HoldRec
      BY Kinds, DispatchAssumption DEF HoldRec
    <2>2. /\ holds' = [holds EXCEPT ![here] = mine]
          /\ lapsed' = (lapsed \ {<<Kind(r), r.id>>}) \cup Dropped({here})
          /\ atWork' = atWork \cup {<<Kind(r), r.id>>}
          /\ waits' = Forget(r.id) /\ ~Keeps(holds[here])
      BY <1>2 DEF Cross, Busy
    <2>3. mine.side = Kind(r) /\ mine.id = r.id
      OBVIOUS
    <2>4. holds \in [Repositories -> HoldRec] /\ lapsed \subseteq atWork /\ atWork \subseteq Takers
      BY DEF TypedHolds
    <2>5. waits' \in [Ids -> {"none", "waits", "over"}]
      BY <2>2, Forgets
    <2>6. /\ Dropped({here}) \subseteq atWork
          /\ \A w \in atWork \ lapsed : Repo[w[2]] = here => w \in Dropped({here})
      <3>1. {here} \in SUBSET Repositories
        BY <2>1
      <3>2. PICK R \in SUBSET Repositories : R = {here}
        BY <3>1
      <3>3. /\ Dropped(R) \subseteq atWork
            /\ \A w \in atWork \ lapsed :
                 Serves(w) /\ Repo[w[2]] \in R /\ ~Keeps(holds[Repo[w[2]]]) => w \in Dropped(R)
        BY Drops
      <3>4. QED
        BY <2>2, <3>2, <3>3
    <2> HIDE DEF here, mine
    <2>7. TypedHolds'
      BY <2>1, <2>2, <2>4, <2>5, <2>6 DEF TypedHolds
    <2>8. ASSUME NEW x \in Repositories, holds'[x].side # "none"
          PROVE  <<holds'[x].side, holds'[x].id>> \in atWork'
      <3>1. CASE x = here
        BY <2>1, <2>2, <2>3, <2>4, <3>1
      <3>2. CASE x # here
        BY <2>2, <2>4, <2>8, <3>2 DEF Held
      <3>3. QED
        BY <3>1, <3>2
    <2>9. ASSUME NEW w \in atWork' \ lapsed'
          PROVE  holds'[Repo[w[2]]].side = w[1] /\ holds'[Repo[w[2]]].id = w[2]
      <3>1. CASE w = <<Kind(r), r.id>>
        <4>1. w[1] = Kind(r) /\ w[2] = r.id /\ Repo[w[2]] = here
          BY <3>1 DEF here
        <4>2. QED
          BY <2>1, <2>2, <2>3, <2>4, <4>1
      <3>2. CASE w # <<Kind(r), r.id>>
        <4>1. w \in atWork \ lapsed /\ Repo[w[2]] # here
          BY <2>2, <2>6, <3>2
        <4>2. Repo[w[2]] \in Repositories
          BY <2>4, <4>1, DispatchAssumption DEF Takers, Ids
        <4>3. holds'[Repo[w[2]]] = holds[Repo[w[2]]]
          BY <2>2, <2>4, <4>1, <4>2
        <4>4. QED
          BY <4>1, <4>3 DEF Held
      <3>3. QED
        BY <3>1, <3>2
    <2>10. Held'
      BY <2>8, <2>9 DEF Held
    <2>11. QED
      BY <2>2, <2>7, <2>10
  <1>3. QED
    BY <1>1, <1>2

LEMMA PassIs ==
    ASSUME TypedHolds, Held, \A w \in atWork : Serves(w), NEW r \in WaitingRow, Pass(r)
    PROVE  TypedHolds' /\ Held' /\ atWork' = atWork
  <1>1. CASE ~Works(r)
    BY <1>1 DEF Pass, checkout, TypedHolds, Held
  <1>2. CASE Works(r)
    <2>1. PICK R \in SUBSET Repositories : R = {Repo[r.id]}
      <3>1. {Repo[r.id]} \in SUBSET Repositories
        BY Kinds, DispatchAssumption
      <3>2. QED
        BY <3>1
    <2>2. ReadHolds(R) /\ waits' = Forget(r.id)
      BY <1>2, <2>1 DEF Pass
    <2>3. /\ holds' \in [Repositories -> HoldRec] /\ Held' /\ atWork' = atWork
          /\ lapsed' \in SUBSET atWork'
      BY <2>2, ReadIs
    <2>4. waits' \in [Ids -> {"none", "waits", "over"}]
      BY <2>2, Forgets
    <2>5. QED
      BY <2>3, <2>4 DEF TypedHolds
  <1>3. QED
    BY <1>1, <1>2

--------------------------------------------------------------------------------
(* A row's pickup.  The pass it belongs to is the walk's. *)

Half(c) ==
    /\ TypedQueue /\ TypedFacts /\ TypedClaims /\ TypedSeat /\ TypedRest /\ TypedHolds
    /\ Asked /\ Held /\ Seat(c) /\ Owned(c) /\ Served(c)

LEMMA HalfSound ==
    ASSUME NEW d \in Seq(CallRec), calls' = d, Half(d)', TypedWalk', Laps(d)'
    PROVE  IInv'
  <1>1. Sound(d)'
    BY DEF Half, Sound, Types
  <1>2. QED
    BY <1>1 DEF IInv

LEMMA HalfCloses ==
    ASSUME NEW r \in Seq(CallRec), NEW d \in Seq(CallRec), Like(d, r),
           TypedQueue', TypedFacts', TypedClaims', TypedSeat', TypedRest', TypedHolds',
           Asked', Held', Seat(r)', Owned(r)',
           \A w \in atWork' : Serves(w)' \/ Releases(d, w),
           \A t \in Loose(r) : <<"handoff", t>> \notin atWork'
    PROVE  Half(d)'
  <1>1. Seat(d)'
    BY DEF Seat, Like
  <1>2. Owned(d)'
    <2>1. Working(d)' = Working(r)'
      BY DEF Working, Like
    <2>2. QED
      BY <2>1 DEF Owned, Like
  <1>3. Served(d)'
    BY DEF Served, Like, Releases
  <1>4. QED
    BY <1>1, <1>2, <1>3 DEF Half

LEMMA Parks ==
    ASSUME TypedClaims, NEW p \in ParkedRec, parked' = Append(parked, p)
    PROVE  /\ parked' \in Seq(ParkedRec) /\ ParkedIds' = ParkedIds \cup {p.id}
           /\ p.id \notin ParkedIds
              /\ (\A i, k \in 1..Len(parked) : parked[i].id = parked[k].id => i = k)
              => \A i, k \in 1..Len(parked') : parked'[i].id = parked'[k].id => i = k
  <1> DEFINE n == Len(parked)
  <1>1. /\ parked \in Seq(ParkedRec) /\ n \in Nat
        /\ parked' \in Seq(ParkedRec) /\ Len(parked') = n + 1
        /\ \A i \in 1..n : parked'[i] = parked[i]
        /\ parked'[n + 1] = p
    BY DEF TypedClaims
  <1> HIDE DEF n
  <1>2. \A i \in 1..(n + 1) : i \in 1..n \/ i = n + 1
    BY <1>1
  <1>3. 1..n \subseteq 1..(n + 1) /\ n + 1 \in 1..(n + 1)
    BY <1>1
  <1>4. ParkedIds = {parked[i].id : i \in 1..n} /\ ParkedIds' = {parked'[i].id : i \in 1..(n + 1)}
    BY <1>1 DEF ParkedIds, n
  <1>5. ParkedIds' = ParkedIds \cup {p.id}
    BY <1>1, <1>2, <1>3, <1>4
  <1>6. \A i \in 1..n : parked[i].id \in ParkedIds
    BY <1>4
  <1>7. ASSUME p.id \notin ParkedIds,
               \A i, k \in 1..n : parked[i].id = parked[k].id => i = k,
               NEW i \in 1..(n + 1), NEW k \in 1..(n + 1), parked'[i].id = parked'[k].id
        PROVE  i = k
    BY <1>1, <1>2, <1>6, <1>7
  <1>8. QED
    BY <1>1, <1>5, <1>7 DEF n

LEMMA RunsOrParks ==
    ASSUME NEW c \in Seq(CallRec), TypedClaims, TypedSeat, Seat(c), Owned(c),
           NEW p \in ParkedRec, p.id \notin claims, claims' = claims \cup {p.id},
           RunOrPark(p), UNCHANGED cleanups
    PROVE  TypedClaims' /\ TypedSeat' /\ Seat(c)' /\ Owned(c)'
  <1>1. p.id \in Tickets
    BY DEF ParkedRec
  <1>2. p.id \notin ParkedIds /\ p.id \notin Working(c) /\ p.id \notin IdsOf("settle", c)
    BY DEF Owned
  <1>3. CASE SeatHeld
    <2>1. parked' = Append(parked, p) /\ UNCHANGED <<inFlight, runs>>
      BY <1>3 DEF RunOrPark
    <2>2. /\ parked' \in Seq(ParkedRec) /\ ParkedIds' = ParkedIds \cup {p.id}
          /\ \A i, k \in 1..Len(parked') : parked'[i].id = parked'[k].id => i = k
      BY <1>2, <2>1, Parks DEF Owned
    <2>3. TypedClaims' /\ TypedSeat' /\ Seat(c)'
      BY <1>1, <2>1, <2>2 DEF TypedClaims, TypedSeat, Seat, cleanups
    <2>4. Working(c)' = Working(c)
      BY <2>1 DEF Working
    <2>5. Owned(c)'
      BY <1>2, <2>2, <2>4 DEF Owned
    <2>6. QED
      BY <2>3, <2>5
  <1>4. CASE ~SeatHeld
    <2>1. /\ inFlight' = TRUE /\ runs' = [runs EXCEPT ![p.id] = "works"] /\ parked' = parked
          /\ ~inFlight /\ ~cleanupQueued
      BY <1>4 DEF RunOrPark, SeatHeld
    <2>2. \A t \in Tickets : runs[t] = "none"
      BY <2>1 DEF Seat
    <2>3. \A t \in Tickets : runs'[t] = IF t = p.id THEN "works" ELSE "none"
      BY <1>1, <2>1, <2>2 DEF TypedClaims
    <2>4. IdsOf("seatfree", c) \cap Tickets = {}
      BY <2>2 DEF Seat
    <2>5. TypedClaims' /\ TypedSeat'
      BY <1>1, <2>1 DEF TypedClaims, TypedSeat, cleanups
    <2>6. ~clearing
      BY <2>1 DEF Seat
    <2>7. IdsOf("seatfree", c) = {}
      BY <2>4, OfTickets
    <2>8. Seat(c)'
      BY <1>1, <2>1, <2>3, <2>6, <2>7 DEF Seat, cleanups
    <2>9. Working(c) = {} /\ Working(c)' = {p.id}
      BY <1>1, <2>2, <2>3, <2>7 DEF Working
    <2>10. ParkedIds' = ParkedIds
      BY <2>1 DEF ParkedIds
    <2>11. Owned(c)'
      BY <1>2, <2>1, <2>9, <2>10 DEF Owned
    <2>12. QED
      BY <2>5, <2>8, <2>11
  <1>5. QED
    BY <1>3, <1>4

(* A settle that is to come with the release of its checkout, before the calls e. *)
Owes(d, e, t) ==
    /\ IdsOf("settle", d) = {t} \cup IdsOf("settle", e)
    /\ IdsOf("seatfree", d) = IdsOf("seatfree", e)
    /\ Unique("settle", d) <=> Unique("settle", e) /\ t \notin IdsOf("settle", e)
    /\ Unique("seatfree", d) <=> Unique("seatfree", e)
    /\ Loose(d) \subseteq Loose(e)
    /\ Calm(e) => Calm(d)
    /\ Has("pass", d) <=> Has("pass", e)

LEMMA SettleFirst ==
    ASSUME NEW x \in CallRec, NEW y \in CallRec, NEW e \in Seq(CallRec),
           x.call = "settle", y = Release("handoff", x.id), NEW p \in {<<x, y>>, <<y, x>>},
           NEW d, d = p \o e
    PROVE  d \in Seq(CallRec) /\ Owes(d, e, x.id)
  <1>1. y.call = "release"
    BY DEF Release, Call
  <1>2. p \in Seq(CallRec) /\ Len(p) = 2 /\ \E k \in {1, 2} : p[k] = x /\ p[3 - k] = y
    <2>1. CASE p = <<x, y>>
      BY <2>1
    <2>2. CASE p = <<y, x>>
      BY <2>2
    <2>3. QED
      BY <2>1, <2>2
  <1>3. PICK k \in {1, 2} : p[k] = x /\ p[3 - k] = y
    BY <1>2
  <1>4. /\ Where("settle", p) = {k}
        /\ \A name \in {"seatfree", "pass", "row"} : Where(name, p) = {}
    BY <1>1, <1>2, <1>3 DEF Where
  <1>5. /\ IdsOf("settle", p) = {x.id} /\ Unique("settle", p)
        /\ \A name \in {"seatfree", "pass", "row"} :
             IdsOf(name, p) = {} /\ Unique(name, p) /\ ~Has(name, p) /\ ~Twice(name, p)
    BY <1>3, <1>4 DEF IdsOf, Unique, Has, Twice
  <1>6. Loose(p) = {}
    <2>1. Beside(p, k)
      <3>1. CASE k = 1
        BY <1>2, <1>3, <3>1 DEF Beside
      <3>2. CASE k = 2
        BY <1>2, <1>3, <3>2 DEF Beside
      <3>3. QED
        BY <3>1, <3>2
    <2>2. QED
      BY <1>4, <2>1 DEF Loose
  <1>7. PICK o \in Seq(CallRec) : o = p
    BY <1>2
  <1>8. \A name \in Names :
          /\ IdsOf(name, o \o e) = IdsOf(name, o) \cup IdsOf(name, e)
          /\ Has(name, o \o e) <=> Has(name, o) \/ Has(name, e)
          /\ Unique(name, o \o e) <=>
               Unique(name, o) /\ Unique(name, e) /\ IdsOf(name, o) \cap IdsOf(name, e) = {}
          /\ Twice(name, o \o e) <=>
               Twice(name, o) \/ Twice(name, e) \/ (Has(name, o) /\ Has(name, e))
    BY JoinedSets
  <1>9. {"settle", "seatfree", "pass", "row"} \subseteq Names
    BY DEF Names
  <1>10. /\ IdsOf("settle", o \o e) = {x.id} \cup IdsOf("settle", e)
         /\ Unique("settle", o \o e) <=>
              Unique("settle", e) /\ {x.id} \cap IdsOf("settle", e) = {}
    BY <1>5, <1>7, <1>8, <1>9
  <1>11. \A name \in {"seatfree", "pass", "row"} :
           /\ IdsOf(name, o \o e) = IdsOf(name, e)
           /\ Unique(name, o \o e) <=> Unique(name, e)
           /\ Has(name, o \o e) <=> Has(name, e)
           /\ Twice(name, o \o e) <=> Twice(name, e)
    <2>1. TAKE name \in {"seatfree", "pass", "row"}
    <2>2. IdsOf(name, o) = {} /\ Unique(name, o) /\ ~Has(name, o) /\ ~Twice(name, o)
          /\ name \in Names
      BY <1>5, <1>7, <1>9
    <2>3. /\ IdsOf(name, o \o e) = IdsOf(name, o) \cup IdsOf(name, e)
          /\ Has(name, o \o e) <=> Has(name, o) \/ Has(name, e)
          /\ Unique(name, o \o e) <=>
               Unique(name, o) /\ Unique(name, e) /\ IdsOf(name, o) \cap IdsOf(name, e) = {}
          /\ Twice(name, o \o e) <=>
               Twice(name, o) \/ Twice(name, e) \/ (Has(name, o) /\ Has(name, e))
      BY <1>8, <2>2
    <2>4. QED
      BY <2>2, <2>3
  <1>12. Loose(o \o e) \subseteq Loose(e)
    BY <1>6, <1>7, JoinedLoose
  <1>13. Owes(o \o e, e, x.id)
    BY <1>10, <1>11, <1>12 DEF Owes, Calm
  <1>14. QED
    BY <1>7, <1>13

(* What a handoff's claim does not touch. *)
LEMMA Untouched ==
    ASSUME NEW r, Ready(r), UNCHANGED <<queue, facts, paused, consultation, held, cleanups>>
    PROVE  TypedQueue' /\ TypedFacts' /\ TypedRest' /\ Asked'
  BY DEF Ready, Types, TypedQueue, TypedFacts, TypedRest, Asked, Stands, WQ!Holds,
         WQ!Positions, facts

LEMMA ClaimsHandoff ==
    ASSUME NEW rest \in Seq(CallRec), Ready(rest), NEW r \in WaitingRow, Kind(r) = "handoff",
           ClaimHandoff(r, rest),
           UNCHANGED <<queue, facts, paused, consultation, held, cleanups, merges>>
    PROVE  \E d \in Seq(CallRec) : /\ calls' = d /\ Half(d)' /\ Calm(d)
                                   /\ Has("pass", d) => Has("pass", rest)
  <1>1. r.id \in Tickets /\ r \in TicketRow /\ r.id \in Ids
    BY Kinds
  <1>2. TypedQueue' /\ TypedFacts' /\ TypedRest' /\ Asked'
    BY Untouched
  <1>3. /\ TypedFacts /\ TypedClaims /\ TypedSeat /\ TypedHolds /\ Held /\ Seat(rest)
        /\ Owned(rest) /\ Calm(rest)
        /\ \A w \in atWork : Serves(w)
        /\ \A t \in Loose(rest) : <<"handoff", t>> \notin atWork
    BY DEF Ready, Types
  <1>4. /\ Drop(r.id) \in Seq(CallRec) /\ Quiet(Drop(r.id))
        /\ Settle(r.id, FALSE) \in CallRec /\ Release("handoff", r.id) \in CallRec
    <2>1. FALSE \in BOOLEAN /\ "handoff" \in Sides
      BY DEF Sides
    <2>2. QED
      BY <1>1, <2>1, Made, MadeRelease
  <1>5. PICK o \in Seq(CallRec) : o = Drop(r.id) /\ Quiet(o)
    BY <1>4
  <1>6. PICK e \in Seq(CallRec) : e = o \o rest
    <2>1. o \o rest \in Seq(CallRec)
      OBVIOUS
    <2>2. QED
      BY <2>1
  <1>7. Like(e, rest) /\ Calm(e) /\ (Has("pass", e) <=> Has("pass", rest))
    BY <1>3, <1>5, <1>6, LikeQuiet
  <1>8. Like(rest, rest)
    BY LikeSelf
  <1>9. ASSUME UNCHANGED <<claims, parked, inFlight, runs>>, TypedHolds', Held', atWork' = atWork,
               NEW d \in {rest, e}, calls' = d
        PROVE  \E x \in Seq(CallRec) : /\ calls' = x /\ Half(x)' /\ Calm(x)
                                       /\ Has("pass", x) => Has("pass", rest)
    <2>1. TypedClaims' /\ TypedSeat'
      BY <1>3, <1>9 DEF TypedClaims, TypedSeat, cleanups
    <2>2. Seat(rest)'
      BY <1>3, <1>9 DEF Seat, cleanups
    <2>3. Owned(rest)'
      BY <1>3, <1>9 DEF Owned, ParkedIds, Working
    <2>4. \A w \in atWork' : Serves(w)' \/ Releases(d, w)
      BY <1>3, <1>9 DEF Serves
    <2>5. d \in Seq(CallRec) /\ Like(d, rest) /\ Calm(d) /\ (Has("pass", d) <=> Has("pass", rest))
      BY <1>3, <1>7, <1>8
    <2>6. \A t \in Loose(rest) : <<"handoff", t>> \notin atWork'
      BY <1>3, <1>9
    <2>7. Half(d)'
      BY <1>2, <1>9, <2>1, <2>2, <2>3, <2>4, <2>5, <2>6, HalfCloses
    <2>8. QED
      BY <1>9, <2>5, <2>7
  <1>10. CASE /\ Works(r) /\ Wait(r) /\ calls' = rest
              /\ UNCHANGED <<claims, parked, inFlight, runs>>
    <2>1. TypedHolds' /\ Held' /\ atWork' = atWork
      BY <1>1, <1>3, <1>10 DEF Wait, TypedHolds, Held
    <2>2. QED
      BY <1>9, <1>10, <2>1
  <1>11. CASE /\ Works(r) /\ WaitOver(r) /\ waits' = Forget(r.id) /\ calls' = Drop(r.id) \o rest
              /\ UNCHANGED <<claims, parked, inFlight, runs, holds, atWork, lapsed>>
    <2>1. TypedHolds' /\ Held'
      BY <1>3, <1>11, Forgets DEF TypedHolds, Held
    <2>2. calls' = e
      BY <1>5, <1>6, <1>11
    <2>3. QED
      BY <1>9, <1>11, <2>1, <2>2
  <1>12. CASE /\ Pass(r) /\ calls' = Drop(r.id) \o rest
              /\ UNCHANGED <<claims, parked, inFlight, runs>>
    <2>1. TypedHolds' /\ Held' /\ atWork' = atWork
      BY <1>3, <1>12, PassIs
    <2>2. calls' = e
      BY <1>5, <1>6, <1>12
    <2>3. QED
      BY <1>9, <1>12, <2>1, <2>2
  <1>13. CASE /\ ~Busy(r) /\ ClaimPasses(r) /\ claims' = claims \cup {r.id} /\ Cross(r)
              /\ RunOrPark([id |-> r.id, origin |-> r.origin, claimed |-> ticket[r.id]])
              /\ calls' = rest
    <2>1. PICK p \in ParkedRec :
            p = [id |-> r.id, origin |-> r.origin, claimed |-> ticket[r.id]] /\ p.id = r.id
      <3>1. ticket[r.id] \in States /\ r.origin \in {"open", "workflow", "restart"}
        BY <1>1, <1>3 DEF TypedFacts, TicketRow
      <3>2. [id |-> r.id, origin |-> r.origin, claimed |-> ticket[r.id]] \in ParkedRec
        BY <1>1, <3>1 DEF ParkedRec
      <3>3. QED
        BY <3>2
    <2>2. p.id \notin claims
      BY <1>13, <2>1 DEF ClaimPasses
    <2>3. TypedClaims' /\ TypedSeat' /\ Seat(rest)' /\ Owned(rest)'
      BY <1>3, <1>13, <2>1, <2>2, RunsOrParks
    <2>4. /\ TypedHolds' /\ Held'
          /\ atWork' = atWork \/ atWork' = atWork \cup {<<"handoff", r.id>>}
      BY <1>3, <1>13, CrossIs
    <2>5. \A w \in atWork' : Serves(w)'
      BY <1>3, <1>13, <2>4 DEF Serves
    <2>6. \A t \in Loose(rest) : <<"handoff", t>> \notin atWork'
      <3>1. \A t \in Loose(rest) : t \in claims
        BY <1>3 DEF Loose, Owned, IdsOf
      <3>2. \A t \in Loose(rest) : <<"handoff", t>> # <<"handoff", r.id>>
        BY <2>1, <2>2, <3>1
      <3>3. QED
        BY <1>3, <2>4, <3>2
    <2>7. Half(rest)'
      BY <1>2, <1>8, <2>3, <2>4, <2>5, <2>6, HalfCloses
    <2>8. QED
      BY <1>3, <1>13, <2>7
  <1>14. CASE /\ ~Busy(r) /\ ClaimPasses(r) /\ claims' = claims \cup {r.id} /\ Cross(r)
              /\ calls' = <<Settle(r.id, FALSE), Release("handoff", r.id)>> \o Drop(r.id) \o rest
              /\ UNCHANGED <<parked, inFlight, runs>>
    <2>1. PICK x \in CallRec, y \in CallRec :
            x = Settle(r.id, FALSE) /\ y = Release("handoff", r.id)
      BY <1>4
    <2>2. x.call = "settle" /\ x.id = r.id
      BY <2>1 DEF Settle, Call
    <2>3. PICK d \in Seq(CallRec) : d = <<x, y>> \o e /\ calls' = d
      <3>1. calls' = <<x, y>> \o o \o rest
        BY <1>5, <1>14, <2>1
      <3>2. <<x, y>> \o o \o rest = <<x, y>> \o (o \o rest)
        OBVIOUS
      <3>3. <<x, y>> \o e \in Seq(CallRec)
        OBVIOUS
      <3>4. QED
        BY <1>6, <3>1, <3>2, <3>3
    <2>4. Owes(d, e, r.id)
      BY <2>1, <2>2, <2>3, SettleFirst
    <2>5. r.id \notin claims
      BY <1>14 DEF ClaimPasses
    <2>6. /\ IdsOf("settle", d) = {r.id} \cup IdsOf("settle", rest)
          /\ IdsOf("seatfree", d) = IdsOf("seatfree", rest)
          /\ Unique("settle", rest) /\ r.id \notin IdsOf("settle", rest) => Unique("settle", d)
          /\ Unique("seatfree", d) <=> Unique("seatfree", rest)
          /\ Loose(d) \subseteq Loose(rest) /\ Calm(d)
          /\ Has("pass", d) => Has("pass", rest)
      BY <1>7, <2>4 DEF Owes, Like
    <2>7. TypedClaims' /\ TypedSeat' /\ Seat(d)'
      BY <1>1, <1>3, <1>14, <2>6 DEF TypedClaims, TypedSeat, Seat, cleanups
    <2>8. Owned(d)'
      <3>1. ParkedIds' = ParkedIds /\ Working(d)' = Working(rest)
        BY <1>14, <2>6 DEF ParkedIds, Working
      <3>2. r.id \notin ParkedIds /\ r.id \notin Working(rest) /\ r.id \notin IdsOf("settle", rest)
        BY <1>3, <2>5 DEF Owned
      <3>3. parked' = parked
        BY <1>14
      <3>4. QED
        BY <1>3, <1>14, <2>6, <3>1, <3>2, <3>3 DEF Owned
    <2>9. /\ TypedHolds' /\ Held'
          /\ atWork' = atWork \/ atWork' = atWork \cup {<<"handoff", r.id>>}
      BY <1>3, <1>14, CrossIs
    <2>10. \A w \in atWork' : Serves(w)'
      BY <1>3, <1>14, <2>9 DEF Serves
    <2>11. \A t \in Loose(d) : <<"handoff", t>> \notin atWork'
      <3>1. \A t \in Loose(rest) : t \in claims
        BY <1>3 DEF Loose, Owned, IdsOf
      <3>2. \A t \in Loose(rest) : <<"handoff", t>> # <<"handoff", r.id>>
        BY <2>5, <3>1
      <3>3. QED
        BY <1>3, <2>6, <2>9, <3>2
    <2>12. Served(d)'
      BY <2>10, <2>11 DEF Served
    <2>13. Half(d)'
      BY <1>2, <2>7, <2>8, <2>9, <2>12 DEF Half
    <2>14. QED
      BY <2>3, <2>6, <2>13
  <1>15. QED
    BY <1>10, <1>11, <1>12, <1>13, <1>14 DEF ClaimHandoff

(* A pickup that claims nothing of a ticket leaves the seat and the claims alone. *)
LEMMA Quietly ==
    ASSUME NEW rest \in Seq(CallRec), Ready(rest), NEW d \in Seq(CallRec), Like(d, rest),
           UNCHANGED <<facts, claims, starts, cleanups>>,
           TypedQueue', TypedRest', TypedHolds', Held', Asked',
           \A w \in atWork' : Serves(w)' \/ Releases(d, w),
           \A t \in Loose(rest) : <<"handoff", t>> \notin atWork'
    PROVE  Half(d)'
  <1>1. /\ TypedFacts /\ TypedClaims /\ TypedSeat /\ Seat(rest) /\ Owned(rest)
    BY DEF Ready, Types
  <1>2. TypedFacts' /\ TypedClaims' /\ TypedSeat'
    BY <1>1 DEF TypedFacts, TypedClaims, TypedSeat, facts, starts, cleanups
  <1>3. Seat(rest)'
    BY <1>1 DEF Seat, starts, cleanups
  <1>4. Owned(rest)'
    <2>1. ParkedIds' = ParkedIds /\ Working(rest)' = Working(rest)
      BY DEF ParkedIds, Working, starts
    <2>2. QED
      BY <1>1, <2>1 DEF Owned, starts
  <1>5. QED
    BY <1>2, <1>3, <1>4, HalfCloses

LEMMA ClaimsMerge ==
    ASSUME NEW rest \in Seq(CallRec), Ready(rest), NEW r \in WaitingRow, Kind(r) = "merge",
           ClaimMerge(r, rest),
           UNCHANGED <<queue, facts, paused, consultation, held, cleanups, claims, starts>>
    PROVE  /\ \E d \in Seq(CallRec) : /\ calls' = d /\ Half(d)' /\ Calm(d)
                                      /\ Has("pass", d) => Has("pass", rest)
           /\ merges' \in [Tickets -> {"none", "runs", "refused"}]
           /\ \A t \in Tickets : merges[t] # "none" => merges'[t] # "none"
           /\ merges' # merges => merges'[r.id] # "none"
  <1>1. r.id \in Tickets
    BY Kinds
  <1>2. TypedQueue' /\ TypedRest' /\ Asked'
    BY Untouched
  <1>3. /\ TypedHolds /\ Held /\ Calm(rest) /\ merges \in [Tickets -> {"none", "runs", "refused"}]
        /\ \A w \in atWork : Serves(w)
        /\ \A t \in Loose(rest) : <<"handoff", t>> \notin atWork
    BY DEF Ready, Types, TypedWalk
  <1>4. Drop(r.id) \in Seq(CallRec) /\ Quiet(Drop(r.id)) /\ Call("remove", r.id) \in CallRec
    <2>1. FALSE \in BOOLEAN
      OBVIOUS
    <2>2. QED
      BY <1>1, <2>1, Made
  <1>5. PICK o \in Seq(CallRec) : o = Drop(r.id) /\ Quiet(o)
    BY <1>4
  <1>6. o \o rest \in Seq(CallRec) /\ Like(o \o rest, rest) /\ Calm(o \o rest)
        /\ (Has("pass", o \o rest) <=> Has("pass", rest))
    BY <1>3, <1>5, LikeQuiet
  <1>7. PICK x \in CallRec : x = Call("remove", r.id) /\ x.call = "remove"
    BY <1>4 DEF Call
  <1>8. <<x>> \o rest \in Seq(CallRec) /\ Like(<<x>> \o rest, rest) /\ Calm(<<x>> \o rest)
        /\ (Has("pass", <<x>> \o rest) <=> Has("pass", rest))
    BY <1>3, <1>7, LikeOne
  <1>9. \A d \in {rest, o \o rest, <<x>> \o rest} :
          d \in Seq(CallRec) /\ Like(d, rest) /\ Calm(d) /\ (Has("pass", d) => Has("pass", rest))
    BY <1>3, <1>6, <1>8, LikeSelf
  <1>10. ASSUME TypedHolds', Held', \A w \in atWork' : Serves(w)',
                \A t \in Loose(rest) : <<"handoff", t>> \notin atWork',
                calls' \in {rest, o \o rest, <<x>> \o rest}
         PROVE  \E d \in Seq(CallRec) : /\ calls' = d /\ Half(d)' /\ Calm(d)
                                        /\ Has("pass", d) => Has("pass", rest)
    <2>1. PICK d \in {rest, o \o rest, <<x>> \o rest} : calls' = d
      BY <1>10
    <2>2. d \in Seq(CallRec) /\ Like(d, rest) /\ Calm(d) /\ (Has("pass", d) => Has("pass", rest))
      BY <1>9
    <2>3. Half(d)'
      BY <1>2, <1>10, <2>2, Quietly
    <2>4. QED
      BY <2>1, <2>2, <2>3
  <1>11. CASE Wait(r) /\ calls' = rest /\ UNCHANGED merges
    <2>1. TypedHolds' /\ Held' /\ atWork' = atWork
      BY <1>3, <1>11, Kinds DEF Wait, TypedHolds, Held
    <2>2. \A w \in atWork' : Serves(w)'
      BY <1>3, <1>11, <2>1 DEF Serves
    <2>3. QED
      BY <1>3, <1>10, <1>11, <2>1, <2>2
  <1>12. CASE /\ waits' = Forget(r.id) /\ calls' = Drop(r.id) \o rest
              /\ UNCHANGED <<merges, holds, atWork, lapsed>>
    <2>1. TypedHolds' /\ Held'
      BY <1>3, <1>12, Forgets DEF TypedHolds, Held
    <2>2. \A w \in atWork' : Serves(w)'
      BY <1>3, <1>12 DEF Serves
    <2>3. calls' = o \o rest
      BY <1>5, <1>12
    <2>4. QED
      BY <1>3, <1>10, <1>12, <2>1, <2>2, <2>3
  <1>13. CASE Pass(r) /\ calls' = <<Call("remove", r.id)>> \o rest /\ UNCHANGED merges
    <2>1. TypedHolds' /\ Held' /\ atWork' = atWork
      BY <1>3, <1>13, PassIs
    <2>2. \A w \in atWork' : Serves(w)'
      BY <1>3, <1>13, <2>1 DEF Serves
    <2>3. calls' = <<x>> \o rest
      BY <1>7, <1>13
    <2>4. QED
      BY <1>3, <1>10, <1>13, <2>1, <2>2, <2>3
  <1>14. CASE /\ ~Busy(r) /\ Cross(r)
              /\ merges' = [merges EXCEPT ![r.id] =
                              IF MergeStands(r.id) THEN "runs" ELSE "refused"]
              /\ calls' = (IF MergeStands(r.id) THEN <<Call("remove", r.id)>>
                           ELSE Drop(r.id)) \o rest
    <2>1. TypedHolds' /\ Held' /\ atWork' = atWork \cup {<<"merge", r.id>>}
      BY <1>3, <1>14, CrossIs
    <2>2. /\ merges' \in [Tickets -> {"none", "runs", "refused"}] /\ merges'[r.id] # "none"
          /\ \A t \in Tickets : merges[t] # "none" => merges'[t] # "none"
          /\ \A t : merges[t] # "none" /\ t # r.id /\ t \in Tickets => merges'[t] # "none"
      BY <1>1, <1>3, <1>14
    <2>3. \A w \in atWork' : Serves(w)'
      <3>1. \A w \in atWork : w[1] = "merge" => w[2] \in Tickets
        BY <1>3 DEF TypedHolds, Takers
      <3>2. \A w \in atWork : Serves(w)'
        BY <1>3, <2>2, <3>1 DEF Serves
      <3>3. QED
        BY <2>1, <2>2, <3>2 DEF Serves
    <2>4. \A t \in Loose(rest) : <<"handoff", t>> \notin atWork'
      BY <1>3, <2>1
    <2>5. calls' \in {o \o rest, <<x>> \o rest}
      <3>1. CASE MergeStands(r.id)
        BY <1>7, <1>14, <3>1
      <3>2. CASE ~MergeStands(r.id)
        BY <1>5, <1>14, <3>2
      <3>3. QED
        BY <3>1, <3>2
    <2>6. QED
      BY <1>10, <2>1, <2>2, <2>3, <2>4, <2>5
  <1>15. QED
    BY <1>11, <1>12, <1>13, <1>14 DEF ClaimMerge

LEMMA ClaimsConsultation ==
    ASSUME NEW rest \in Seq(CallRec), Ready(rest), NEW r \in WaitingRow,
           Kind(r) = "consultation", ClaimConsultation(r, rest),
           UNCHANGED <<facts, paused, held, cleanups, claims, starts, merges>>
    PROVE  /\ calls' = rest /\ Half(rest)'
  <1>1. r.id \in Consultations /\ r.id \in Ids
    BY Kinds
  <1>2. /\ TypedQueue /\ TypedRest /\ TypedHolds /\ Held /\ Asked
        /\ \A w \in atWork : Serves(w)
        /\ \A t \in Loose(rest) : <<"handoff", t>> \notin atWork
    BY DEF Ready, Types
  <1>3. Like(rest, rest)
    BY LikeSelf
  <1>4. ASSUME consultation[r.id] = "queued", Wait(r), UNCHANGED <<queue, consultation>>
        PROVE  Half(rest)'
    <2>1. TypedHolds' /\ Held' /\ atWork' = atWork
      BY <1>1, <1>2, <1>4 DEF Wait, TypedHolds, Held
    <2>2. \A w \in atWork' : Serves(w)'
      BY <1>2, <1>4, <2>1 DEF Serves
    <2>3. TypedQueue' /\ TypedRest' /\ Asked'
      BY <1>4, Untouched
    <2>4. QED
      BY <1>2, <1>3, <2>1, <2>2, <2>3, Quietly
  <1>5. ASSUME consultation[r.id] = "queued", queue' = Without(queue, r.id),
               waits' = Forget(r.id), UNCHANGED <<holds, atWork, lapsed>>,
               consultation' = [consultation EXCEPT ![r.id] = "idle"]
        PROVE  Half(rest)'
    <2>1. TypedHolds' /\ Held'
      BY <1>2, <1>5, Forgets DEF TypedHolds, Held
    <2>2. TypedQueue' /\ \A x \in Ids : Stands(x)' => Stands(x) /\ x # r.id
      BY <1>2, <1>5, LeavesOne
    <2>3. TypedRest'
      BY <1>2, <1>5 DEF TypedRest
    <2>4. Asked'
      BY <1>2, <1>5, <2>2 DEF Asked, TypedRest, Ids
    <2>5. \A w \in atWork' : Serves(w)'
      <3>1. \A w \in atWork : w[1] = "consultation" => w[2] \in Consultations
        BY <1>2 DEF TypedHolds, Takers
      <3>2. \A y \in Consultations : consultation[y] = "opening" => consultation'[y] = "opening"
        BY <1>1, <1>2, <1>5 DEF TypedRest
      <3>3. QED
        BY <1>2, <1>5, <3>1, <3>2 DEF Serves
    <2>6. QED
      BY <1>2, <1>3, <1>5, <2>1, <2>2, <2>3, <2>4, <2>5, Quietly
  <1>6. ASSUME consultation[r.id] = "queued", ~Busy(r), queue' = Without(queue, r.id), Cross(r),
               consultation' = [consultation EXCEPT ![r.id] = "opening"]
        PROVE  Half(rest)'
    <2>1. TypedHolds' /\ Held' /\ atWork' = atWork \cup {<<"consultation", r.id>>}
      BY <1>2, <1>6, CrossIs
    <2>2. TypedQueue' /\ \A x \in Ids : Stands(x)' => Stands(x) /\ x # r.id
      BY <1>2, <1>6, LeavesOne
    <2>3. TypedRest'
      BY <1>2, <1>6 DEF TypedRest
    <2>4. Asked'
      BY <1>2, <1>6, <2>2 DEF Asked, TypedRest, Ids
    <2>5. \A w \in atWork' : Serves(w)'
      <3>1. \A w \in atWork : w[1] = "consultation" => w[2] \in Consultations
        BY <1>2 DEF TypedHolds, Takers
      <3>2. \A y \in Consultations : consultation[y] = "opening" => consultation'[y] = "opening"
        BY <1>1, <1>2, <1>6 DEF TypedRest
      <3>3. \A w \in atWork : Serves(w)'
        BY <1>2, <1>6, <3>1, <3>2 DEF Serves
      <3>4. consultation'[r.id] = "opening"
        BY <1>1, <1>2, <1>6 DEF TypedRest
      <3>5. QED
        BY <2>1, <3>3, <3>4 DEF Serves
    <2>6. \A t \in Loose(rest) : <<"handoff", t>> \notin atWork'
      BY <1>2, <2>1
    <2>7. QED
      BY <1>2, <1>3, <1>6, <2>1, <2>2, <2>3, <2>4, <2>5, <2>6, Quietly
  <1>7. ASSUME queue' = Without(queue, r.id), waits' = Forget(r.id),
               UNCHANGED <<consultation, holds, atWork, lapsed>>
        PROVE  Half(rest)'
    <2>1. TypedHolds' /\ Held'
      BY <1>2, <1>7, Forgets DEF TypedHolds, Held
    <2>2. TypedQueue' /\ \A x \in Ids : Stands(x)' => Stands(x) /\ x # r.id
      BY <1>2, <1>7, LeavesOne
    <2>3. TypedRest' /\ Asked'
      BY <1>2, <1>7, <2>2 DEF TypedRest, Asked, Ids
    <2>4. \A w \in atWork' : Serves(w)'
      BY <1>2, <1>7 DEF Serves
    <2>5. QED
      BY <1>2, <1>3, <1>7, <2>1, <2>2, <2>3, <2>4, Quietly
  <1>8. QED
    BY <1>4, <1>5, <1>6, <1>7 DEF ClaimConsultation

--------------------------------------------------------------------------------
(* The walk. *)

LEMMA Counts ==
    ASSUME NEW S \in SUBSET Ids
    PROVE  IsFiniteSet(S) /\ Cardinality(S) \in Nat
  BY FS_Subset, FS_CardinalityType, DispatchAssumption

LEMMA SeatCountIs ==
    ASSUME TypedFacts, TypedClaims, TypedRest
    PROVE  SeatCount \in Nat
  <1> DEFINE T == {t \in Tickets : ticket[t] = "in-flight" /\ t \notin missing} \cup claims
             C == {c \in Consultations : consultation[c] \in {"opening", "working"}}
  <1>1. T \in SUBSET Ids /\ C \in SUBSET Ids
    BY DEF TypedClaims, Ids
  <1> HIDE DEF T, C
  <1>2. Cardinality(T) \in Nat /\ Cardinality(C) \in Nat
    BY <1>1, Counts
  <1>3. QED
    BY <1>2 DEF SeatCount, T, C

LEMMA OpenSeatsIs ==
    ASSUME TypedQueue, TypedFacts, TypedClaims, TypedRest, NEW R \in SUBSET Tickets
    PROVE  OpenSeats(R) \in Nat
  <1>1. PICK n \in Nat : queue \in Queues(n)
    BY DEF TypedQueue
  <1>2. Cardinality(WQ!Positions(queue)) \in Nat
    BY <1>1, PlacesIs
  <1>3. SeatCount \in Nat
    BY SeatCountIs
  <1>4. Cardinality(R) \in Nat
    BY Counts DEF Ids
  <1>5. Limit \in Nat
    BY DispatchAssumption
  <1>6. QED
    BY <1>2, <1>3, <1>4, <1>5 DEF OpenSeats

(* A pass that steps keeps walking, and so do the others. *)
LEMMA Steps ==
    ASSUME TypedWalk, NEW p \in 1..Passes, NEW np \in PassRec, np.walks = passes[p].walks,
           passes' = [passes EXCEPT ![p] = np], UNCHANGED reask,
           merges' \in [Tickets -> {"none", "runs", "refused"}],
           \A t \in Tickets : merges[t] # "none" => merges'[t] # "none",
           np.on \in Tickets => merges'[np.on] # "none"
    PROVE  TypedWalk' /\ FreePasses' = FreePasses
  <1>1. \A o \in 1..Passes : passes'[o] = IF o = p THEN np ELSE passes[o]
    BY DEF TypedWalk
  <1>2. TypedWalk'
    BY <1>1 DEF TypedWalk
  <1>3. \A o \in 1..Passes : passes'[o].walks <=> passes[o].walks
    BY <1>1
  <1>4. QED
    BY <1>2, <1>3 DEF FreePasses

LEMMA VisitedIs ==
    ASSUME TypedWalk, NEW p \in 1..Passes, NEW np \in PassRec, np.walks = passes[p].walks,
           np.rows # <<>>, Visited(p, np), UNCHANGED reask,
           merges' \in [Tickets -> {"none", "runs", "refused"}],
           \A t \in Tickets : merges[t] # "none" => merges'[t] # "none",
           np.on \in Tickets => merges'[np.on] # "none"
    PROVE  TypedWalk' /\ FreePasses' = FreePasses
  <1>1. PICK q : q = [np EXCEPT !.rows = Tail(@)]
    OBVIOUS
  <1>2. np.rows \in Seq(WaitingRow)
    BY DEF PassRec
  <1>3. Tail(np.rows) \in Seq(WaitingRow)
    BY <1>2
  <1>4. q \in PassRec /\ q.walks = np.walks /\ q.on = np.on
    BY <1>1, <1>3 DEF PassRec
  <1>5. passes' = [passes EXCEPT ![p] = q]
    BY <1>1 DEF Visited
  <1>6. QED
    BY <1>4, <1>5, Steps

LEMMA Closing ==
    ASSUME NEW rest \in Seq(CallRec), Ready(rest), NEW d \in Seq(CallRec), calls' = d,
           Half(d)', Calm(d), Has("pass", d) => Has("pass", rest), TypedWalk',
           FreePasses' = FreePasses
    PROVE  IInv'
  <1>1. Has("pass", d) => FreePasses' # {}
    BY DEF Ready
  <1>2. Laps(d)'
    BY <1>1, CalmLaps
  <1>3. QED
    BY <1>2, HalfSound

LEMMA RowStep ==
    ASSUME NEW rest \in Seq(CallRec), Ready(rest), NEW p \in 1..Passes, passes[p].rows # <<>>,
           PassRow(p, rest)
    PROVE  IInv'
  <1>1. PICK pass \in PassRec : pass = passes[p] /\ pass.rows # <<>>
    BY DEF Ready, Types, TypedWalk
  <1>2. PICK r \in WaitingRow : r = Head(pass.rows)
    <2>1. pass.rows \in Seq(WaitingRow)
      BY DEF PassRec
    <2>2. Head(pass.rows) \in WaitingRow
      BY <1>1, <2>1
    <2>3. QED
      BY <2>2
  <1>3. /\ TypedWalk /\ merges \in [Tickets -> {"none", "runs", "refused"}]
        /\ pass.on \in Tickets => merges[pass.on] # "none"
        /\ TypedQueue /\ TypedRest /\ TypedHolds /\ Held /\ Asked /\ Calm(rest)
        /\ \A w \in atWork : Serves(w)
        /\ \A t \in Loose(rest) : <<"handoff", t>> \notin atWork
    BY <1>1 DEF Ready, Types, TypedWalk
  <1>4. UNCHANGED <<facts, paused, reask, cleanups, held, spent>>
    BY DEF PassRow
  <1>5. pass.claimed \in Nat /\ pass.reserved \in SUBSET Tickets
        /\ pass.rows \in Seq(WaitingRow)
    BY DEF PassRec
  <1>6. CASE /\ Kind(r) = "merge" /\ ClaimMerge(r, rest)
             /\ Visited(p, [pass EXCEPT !.on = IF merges' = merges THEN NoOne ELSE r.id])
             /\ UNCHANGED <<queue, claims, consultation, starts>>
    <2>1. r.id \in Tickets /\ r.id \in Ids /\ NoOne \notin Tickets
      BY <1>6, Kinds, DispatchAssumption DEF Ids
    <2>2. /\ \E d \in Seq(CallRec) : /\ calls' = d /\ Half(d)' /\ Calm(d)
                                     /\ Has("pass", d) => Has("pass", rest)
          /\ merges' \in [Tickets -> {"none", "runs", "refused"}]
          /\ \A t \in Tickets : merges[t] # "none" => merges'[t] # "none"
          /\ merges' # merges => merges'[r.id] # "none"
      BY <1>4, <1>6, ClaimsMerge
    <2>3. PICK m \in Ids \cup {NoOne} :
            m = (IF merges' = merges THEN NoOne ELSE r.id) /\ (m \in Tickets => merges'[m] # "none")
      BY <2>1, <2>2
    <2>4. PICK np : np = [pass EXCEPT !.on = m]
      OBVIOUS
    <2>5. np \in PassRec /\ np.walks = pass.walks /\ np.on = m /\ np.rows = pass.rows
      BY <2>4 DEF PassRec
    <2>6. Visited(p, np)
      BY <1>6, <2>3, <2>4
    <2>7. TypedWalk' /\ FreePasses' = FreePasses
      BY <1>1, <1>3, <1>4, <2>2, <2>3, <2>5, <2>6, VisitedIs
    <2>8. QED
      BY <2>2, <2>7, Closing
  <1>7. CASE /\ passes' = [passes EXCEPT ![p].rows = <<>>] /\ calls' = rest
             /\ UNCHANGED <<queue, claims, consultation, starts, merges, checkout>>
    <2>1. PICK np : np = [pass EXCEPT !.rows = <<>>]
      OBVIOUS
    <2>2. np \in PassRec /\ np.walks = pass.walks /\ np.on = pass.on
      <3>1. <<>> \in Seq(WaitingRow)
        OBVIOUS
      <3>2. QED
        BY <2>1, <3>1 DEF PassRec
    <2>3. passes' = [passes EXCEPT ![p] = np]
      BY <1>1, <1>3, <1>7, <2>1 DEF TypedWalk
    <2>4. TypedWalk' /\ FreePasses' = FreePasses
      BY <1>1, <1>3, <1>4, <1>7, <2>2, <2>3, Steps, ZenonT(60)
    <2>5. TypedQueue' /\ TypedRest' /\ Asked'
      BY <1>4, <1>7, Untouched
    <2>6. TypedHolds' /\ Held'
      BY <1>3, <1>7 DEF checkout, TypedHolds, Held
    <2>7. \A w \in atWork' : Serves(w)'
      BY <1>3, <1>7 DEF checkout, Serves
    <2>8. \A t \in Loose(rest) : <<"handoff", t>> \notin atWork'
      BY <1>3, <1>7 DEF checkout
    <2>9. Half(rest)'
      BY <1>4, <1>7, <2>5, <2>6, <2>7, <2>8, LikeSelf, Quietly
    <2>10. QED
      BY <1>3, <1>7, <2>4, <2>9, Closing
  <1>8. CASE /\ Kind(r) = "consultation" /\ ClaimConsultation(r, rest)
             /\ Visited(p, [pass EXCEPT !.claimed = IF atWork' = atWork THEN @ ELSE @ + 1])
             /\ UNCHANGED <<claims, starts, merges>>
    <2>1. calls' = rest /\ Half(rest)'
      BY <1>4, <1>8, ClaimsConsultation
    <2>2. PICK k \in Nat : k = IF atWork' = atWork THEN pass.claimed ELSE pass.claimed + 1
      BY <1>5
    <2>3. PICK np : np = [pass EXCEPT !.claimed = k]
      OBVIOUS
    <2>4. np \in PassRec /\ np.walks = pass.walks /\ np.on = pass.on /\ np.rows = pass.rows
      BY <2>3 DEF PassRec
    <2>5. Visited(p, np)
      BY <1>8, <2>2, <2>3 DEF PassRec
    <2>6. TypedWalk' /\ FreePasses' = FreePasses
      BY <1>1, <1>3, <1>4, <1>8, <2>4, <2>5, VisitedIs
    <2>7. QED
      BY <1>3, <2>1, <2>6, Closing
  <1>9. CASE /\ Visited(p, pass) /\ calls' = rest
             /\ UNCHANGED <<queue, claims, consultation, starts, merges, checkout>>
    <2>1. TypedWalk' /\ FreePasses' = FreePasses
      BY <1>1, <1>3, <1>4, <1>9, VisitedIs
    <2>2. TypedQueue' /\ TypedRest' /\ Asked'
      BY <1>4, <1>9, Untouched
    <2>3. TypedHolds' /\ Held'
      BY <1>3, <1>9 DEF checkout, TypedHolds, Held
    <2>4. \A w \in atWork' : Serves(w)'
      BY <1>3, <1>9 DEF checkout, Serves
    <2>5. \A t \in Loose(rest) : <<"handoff", t>> \notin atWork'
      BY <1>3, <1>9 DEF checkout
    <2>6. Half(rest)'
      BY <1>4, <1>9, <2>2, <2>3, <2>4, <2>5, LikeSelf, Quietly
    <2>7. QED
      BY <1>3, <1>9, <2>1, <2>6, Closing
  <1>10. CASE /\ Kind(r) = "handoff" /\ ClaimHandoff(r, rest)
              /\ Visited(p, IF starts' = starts THEN pass
                            ELSE IF Reserved(pass, r)
                            THEN [pass EXCEPT !.reserved = @ \ {r.id}]
                            ELSE [pass EXCEPT !.claimed = @ + 1])
              /\ UNCHANGED <<queue, consultation, merges>>
    <2>1. \E d \in Seq(CallRec) : /\ calls' = d /\ Half(d)' /\ Calm(d)
                                  /\ Has("pass", d) => Has("pass", rest)
      BY <1>4, <1>10, ClaimsHandoff
    <2>2. PICK np \in PassRec :
            /\ np.walks = pass.walks /\ np.on = pass.on /\ np.rows = pass.rows
            /\ np = IF starts' = starts THEN pass
                    ELSE IF Reserved(pass, r) THEN [pass EXCEPT !.reserved = @ \ {r.id}]
                    ELSE [pass EXCEPT !.claimed = @ + 1]
      <3>1. PICK a : a = [pass EXCEPT !.reserved = @ \ {r.id}]
        OBVIOUS
      <3>2. a \in PassRec /\ a.walks = pass.walks /\ a.on = pass.on /\ a.rows = pass.rows
        BY <1>5, <3>1, SMTT(40) DEF PassRec
      <3>3. PICK b : b = [pass EXCEPT !.claimed = @ + 1]
        OBVIOUS
      <3>4. b \in PassRec /\ b.walks = pass.walks /\ b.on = pass.on /\ b.rows = pass.rows
        BY <1>5, <3>3, SMTT(40) DEF PassRec
      <3>5. QED
        BY <3>1, <3>2, <3>3, <3>4
    <2>3. Visited(p, np)
      BY <1>10, <2>2
    <2>4. TypedWalk' /\ FreePasses' = FreePasses
      BY <1>1, <1>3, <1>4, <1>10, <2>2, <2>3, VisitedIs
    <2>5. QED
      BY <2>1, <2>4, Closing
  <1>11. QED
    BY <1>1, <1>2, <1>6, <1>7, <1>8, <1>9, <1>10 DEF PassRow

(* The head of a lap: another pass is free if the handler still starts one. *)
LEMMA LapStep ==
    ASSUME NEW rest \in Seq(CallRec), Ready(rest), NEW p \in 1..Passes,
           Has("pass", rest) => \E o \in FreePasses : o # p,
           LapHead(p, rest), reask' \in BOOLEAN,
           UNCHANGED <<queue, facts, claims, consultation, paused, starts, cleanups, merges, held>>
    PROVE  IInv'
  <1>1. /\ TypedWalk /\ TypedQueue /\ TypedFacts /\ TypedClaims /\ TypedRest /\ TypedHolds
        /\ Held /\ Calm(rest)
        /\ \A w \in atWork : Serves(w)
        /\ \A t \in Loose(rest) : <<"handoff", t>> \notin atWork
    BY DEF Ready, Types
  <1>2. TypedQueue' /\ TypedRest' /\ Asked'
    BY Untouched
  <1>3. /\ holds' \in [Repositories -> HoldRec] /\ Held' /\ atWork' = atWork
        /\ lapsed' \in SUBSET atWork'
    <2>1. ReadHolds(Repositories)
      BY DEF LapHead
    <2>2. QED
      BY <1>1, <2>1, ReadIs
  <1>4. TypedHolds'
    <2>1. waits' = [i \in Ids |-> IF Stands(i) THEN waits[i] ELSE "none"]
      BY DEF LapHead
    <2>2. QED
      BY <1>1, <1>3, <2>1 DEF TypedHolds
  <1>5. \A w \in atWork' : Serves(w)'
    BY <1>1, <1>3 DEF Serves
  <1>6. PICK R \in SUBSET Tickets : R = IF Limit = 0 THEN {} ELSE MissingSeats
    <2>1. MissingSeats \in SUBSET Tickets
      BY <1>1 DEF MissingSeats, TypedFacts
    <2>2. QED
      BY <2>1
  <1>7. PICK open \in Nat : open = OpenSeats(R)
    BY <1>1, OpenSeatsIs
  <1>8. PICK rows \in Seq(WaitingRow) : rows = Rows
    BY <1>1, Rowed
  <1>9. PICK walks \in BOOLEAN :
          walks = (~paused /\ \/ open > 0
                              \/ \E i \in DOMAIN Rows :
                                   \/ Kind(Rows[i]) = "merge"
                                   \/ Rows[i].origin = "restart" /\ Rows[i].id \in R)
    OBVIOUS
  <1>10. PICK np : np = [walks |-> TRUE, on |-> NoOne, claimed |-> 0,
                         rows |-> IF walks THEN rows ELSE <<>>,
                         open |-> IF walks THEN open ELSE 0,
                         reserved |-> IF walks THEN R ELSE {}]
    OBVIOUS
  <1>11. /\ passes' = [passes EXCEPT ![p] = np]
         /\ calls' = (IF walks /\ rows # <<>> THEN <<[Call("row", NoOne) EXCEPT !.pass = p]>>
                      ELSE <<>>) \o rest
    BY <1>6, <1>7, <1>8, <1>9, <1>10 DEF LapHead
  <1>12. np \in PassRec /\ np.on = NoOne /\ (walks => np.rows = rows)
    BY <1>10 DEF PassRec
  <1>13. \A o \in 1..Passes : passes'[o] = IF o = p THEN np ELSE passes[o]
    BY <1>1, <1>11 DEF TypedWalk
  <1>14. TypedWalk'
    <2>1. NoOne \notin Tickets
      BY DispatchAssumption DEF Ids
    <2>2. QED
      BY <1>1, <1>11, <1>12, <1>13, <2>1 DEF TypedWalk
  <1>15. Has("pass", rest) => FreePasses' # {}
    BY <1>13 DEF FreePasses
  <1>16. ASSUME NEW d \in Seq(CallRec), calls' = d, Like(d, rest), Laps(d)'
         PROVE  IInv'
    <2>1. Half(d)'
      BY <1>1, <1>2, <1>3, <1>4, <1>5, <1>16, Quietly
    <2>2. QED
      BY <1>14, <1>16, <2>1, HalfSound
  <1>17. CASE walks /\ rows # <<>>
    <2>1. PICK x \in CallRec : /\ x = [Call("row", NoOne) EXCEPT !.pass = p]
                               /\ x.call = "row" /\ x.pass = p
      BY MadeRow
    <2>2. PICK d \in Seq(CallRec) : /\ d = <<x>> \o rest /\ Like(d, rest) /\ d # <<>> /\ d[1] = x
                                    /\ Tail(d) = rest /\ ~Twice("pass", d)
                                    /\ Has("pass", d) <=> Has("pass", rest)
      BY <1>1, <2>1, LikeStep
    <2>3. calls' = d
      BY <1>11, <1>17, <2>1, <2>2
    <2>4. passes'[p].rows # <<>>
      BY <1>12, <1>13, <1>17
    <2>5. Laps(d)'
      BY <1>1, <1>15, <2>1, <2>2, <2>4 DEF Laps
    <2>6. QED
      BY <1>16, <2>2, <2>3, <2>5
  <1>18. CASE ~(walks /\ rows # <<>>)
    <2>1. calls' = rest
      BY <1>11, <1>18
    <2>2. Laps(rest)'
      BY <1>1, <1>15, CalmLaps
    <2>3. QED
      BY <1>16, <2>1, <2>2, LikeSelf
  <1>19. QED
    BY <1>17, <1>18

--------------------------------------------------------------------------------
(* The calls of a handler, one by one. *)

LEMMA SameWalk ==
    ASSUME TypedWalk, UNCHANGED <<walk, merges>>
    PROVE  TypedWalk' /\ FreePasses' = FreePasses /\ Walking' = Walking
  BY DEF TypedWalk, FreePasses, Walking, walk

LEMMA Ending ==
    ASSUME NEW r \in Seq(CallRec), NEW d \in Seq(CallRec), calls' = d, Like(d, r), Calm(d),
           Has("pass", d) => FreePasses' # {},
           Types', Asked', Held', Seat(r)', Owned(r)',
           \A w \in atWork' : Serves(w)' \/ Releases(d, w),
           \A t \in Loose(r) : <<"handoff", t>> \notin atWork'
    PROVE  IInv'
  BY Closes, CalmLaps

LEMMA PassStep ==
    ASSUME NEW c \in Seq(CallRec), calls = c, Sound(c), CallPass
    PROVE  IInv'
  <1>1. c # <<>> /\ c[1].call = "pass"
    BY DEF CallPass, Calling
  <1>2. PICK r \in Seq(CallRec) : r = Tail(c) /\ Ready(r)
    BY <1>1, Rest
  <1>3. /\ Has("pass", c) <=> c[1].call = "pass" \/ Has("pass", r)
        /\ Twice("pass", c) <=> Twice("pass", r) \/ (c[1].call = "pass" /\ Has("pass", r))
    BY <1>1, <1>2, Popped DEF Names
  <1>4. FreePasses # {} /\ (Has("pass", r) => Walking = {})
    BY <1>1, <1>3 DEF Sound, Laps
  <1>5. NewPass \in FreePasses
    <2>1. FreePasses \in SUBSET Nat
      BY DispatchAssumption DEF FreePasses
    <2>2. \E p \in FreePasses : \A o \in FreePasses : p <= o
      BY <1>4, <2>1, LeastIs
    <2>3. QED
      BY <2>2 DEF NewPass
  <1>6. PICK p \in 1..Passes : p = NewPass
    BY <1>5 DEF FreePasses
  <1>7. Has("pass", r) => \E o \in FreePasses : o # p
    <2>1. ASSUME Has("pass", r) PROVE \E o \in FreePasses : o # p
      <3>1. 1 \in 1..Passes /\ 2 \in 1..Passes
        BY DispatchAssumption
      <3>2. 1 \in FreePasses /\ 2 \in FreePasses
        BY <1>4, <2>1, <3>1 DEF FreePasses, Walking
      <3>3. QED
        BY <3>2
    <2>2. QED
      BY <2>1
  <1>8. LapHead(p, r)
    BY <1>2, <1>6 DEF CallPass, Remaining
  <1>9. reask' \in BOOLEAN
    BY <1>2 DEF CallPass, Ready, Types, TypedWalk
  <1>10. QED
    BY <1>2, <1>7, <1>8, <1>9, LapStep DEF CallPass

LEMMA CallRowStep ==
    ASSUME NEW c \in Seq(CallRec), calls = c, Sound(c), CallRow
    PROVE  IInv'
  <1>1. c # <<>> /\ c[1].call = "row"
    BY DEF CallRow, Calling
  <1>2. PICK r \in Seq(CallRec) : r = Tail(c) /\ Ready(r)
    BY <1>1, Rest
  <1>3. PICK p \in 1..Passes : p = c[1].pass /\ passes[p].rows # <<>>
    BY <1>1 DEF Sound, Laps
  <1>4. PassRow(p, r)
    BY <1>2, <1>3 DEF CallRow, Remaining
  <1>5. QED
    BY <1>2, <1>3, <1>4, RowStep

LEMMA SplicedIs ==
    ASSUME TypedClaims, NEW i \in 1..Len(parked), parked' = Spliced(parked, i),
           \A j, k \in 1..Len(parked) : parked[j].id = parked[k].id => j = k
    PROVE  /\ parked' \in Seq(ParkedRec) /\ ParkedIds' = ParkedIds \ {parked[i].id}
           /\ \A j, k \in 1..Len(parked') : parked'[j].id = parked'[k].id => j = k
  <1> DEFINE n == Len(parked)
             at(j) == IF j < i THEN j ELSE j + 1
  <1>1. parked \in Seq(ParkedRec) /\ n \in Nat /\ i \in 1..n
    BY DEF TypedClaims
  <1>2. /\ SubSeq(parked, 1, i - 1) \in Seq(ParkedRec) /\ Len(SubSeq(parked, 1, i - 1)) = i - 1
        /\ \A j \in 1..(i - 1) : SubSeq(parked, 1, i - 1)[j] = parked[j]
    BY <1>1
  <1>3. /\ SubSeq(parked, i + 1, n) \in Seq(ParkedRec) /\ Len(SubSeq(parked, i + 1, n)) = n - i
        /\ \A j \in 1..(n - i) : SubSeq(parked, i + 1, n)[j] = parked[i + j]
    BY <1>1
  <1>4. PICK a \in Seq(ParkedRec), b \in Seq(ParkedRec) :
          a = SubSeq(parked, 1, i - 1) /\ b = SubSeq(parked, i + 1, n)
    BY <1>2, <1>3
  <1>5. parked' = a \o b
    BY <1>4 DEF Spliced
  <1>6. /\ parked' \in Seq(ParkedRec) /\ Len(parked') = n - 1
        /\ \A j \in 1..(i - 1) : parked'[j] = a[j]
        /\ \A j \in 1..(n - 1) : j >= i => parked'[j] = b[j - (i - 1)]
    <2>1. Len(a) = i - 1 /\ Len(b) = n - i
      BY <1>2, <1>3, <1>4
    <2>2. /\ a \o b \in Seq(ParkedRec) /\ Len(a \o b) = Len(a) + Len(b)
          /\ \A j \in 1..(Len(a) + Len(b)) :
               (a \o b)[j] = IF j <= Len(a) THEN a[j] ELSE b[j - Len(a)]
      BY ONLY ConcatProperties, a \in Seq(ParkedRec), b \in Seq(ParkedRec)
    <2>3. PICK m : m = n - 1 /\ Len(a) + Len(b) = m
      BY <1>1, <2>1
    <2>4. \A j \in 1..m : (a \o b)[j] = IF j <= i - 1 THEN a[j] ELSE b[j - (i - 1)]
      BY <2>1, <2>2, <2>3
    <2>5. \A j \in 1..(i - 1) : j \in 1..m /\ j <= i - 1
      BY <1>1, <2>3
    <2>6. \A j \in 1..m : j >= i => ~(j <= i - 1)
      BY <1>1, <2>3
    <2>7. QED
      BY <1>5, <2>2, <2>3, <2>4, <2>5, <2>6
  <1>7. \A j \in 1..(n - 1) : at(j) \in 1..n /\ at(j) # i /\ parked'[j] = parked[at(j)]
    <2>1. TAKE j \in 1..(n - 1)
    <2>2. CASE j < i
      BY <1>1, <1>2, <1>4, <1>6, <2>2
    <2>3. CASE j >= i
      <3>1. j - (i - 1) \in 1..(n - i) /\ i + (j - (i - 1)) = j + 1
        BY <1>1, <2>3
      <3>2. parked'[j] = parked[j + 1]
        BY <1>3, <1>4, <1>6, <2>3, <3>1
      <3>3. QED
        BY <1>1, <2>3, <3>2
    <2>4. QED
      BY <1>1, <2>2, <2>3
  <1>8. \A k \in 1..n : k # i => \E j \in 1..(n - 1) : at(j) = k
    <2>1. TAKE k \in 1..n
    <2>2. CASE k < i
      <3>1. k \in 1..(n - 1) /\ at(k) = k
        BY <1>1, <2>2
      <3>2. QED
        BY <3>1
    <2>3. CASE k > i
      <3>1. k - 1 \in 1..(n - 1) /\ at(k - 1) = k
        BY <1>1, <2>3
      <3>2. QED
        BY <3>1
    <2>4. QED
      BY <1>1, <2>2, <2>3
  <1>9. \A j, k \in 1..(n - 1) : at(j) = at(k) => j = k
    BY <1>1
  <1>10. /\ ParkedIds = {parked[k].id : k \in 1..n}
         /\ ParkedIds' = {parked'[j].id : j \in 1..(n - 1)}
         /\ \A j, k \in 1..n : parked[j].id = parked[k].id => j = k
    BY <1>6 DEF ParkedIds
  <1> HIDE DEF n, at
  <1>11. ParkedIds' = ParkedIds \ {parked[i].id}
    <2>1. \A x \in ParkedIds' : x \in ParkedIds /\ x # parked[i].id
      BY <1>1, <1>7, <1>10, SMTT(40)
    <2>2. \A x \in ParkedIds : x # parked[i].id => x \in ParkedIds'
      BY <1>7, <1>8, <1>10
    <2>3. QED
      BY <2>1, <2>2
  <1>12. \A j, k \in 1..(n - 1) : parked'[j].id = parked'[k].id => j = k
    BY <1>7, <1>9, <1>10
  <1>13. QED
    BY <1>6, <1>11, <1>12

LEMMA RemoveStep ==
    ASSUME NEW c \in Seq(CallRec), calls = c, Sound(c), CallRemove
    PROVE  IInv'
  <1>1. c # <<>> /\ c[1].call = "remove" /\ c[1] \in CallRec
    BY DEF CallRemove, Calling
  <1>2. PICK r \in Seq(CallRec) : r = Tail(c) /\ Ready(r)
    BY <1>1, Rest
  <1>3. PICK t \in Tickets : t = c[1].id
    BY <1>1 DEF CallRec, OfTicket
  <1>4. /\ Types /\ Asked /\ Held /\ Seat(r) /\ Owned(r) /\ Calm(r)
        /\ Has("pass", r) => FreePasses # {}
        /\ \A w \in atWork : Serves(w)
        /\ \A u \in Loose(r) : <<"handoff", u>> \notin atWork
        /\ TypedQueue /\ TypedFacts /\ TypedClaims /\ TypedSeat /\ TypedWalk /\ TypedRest
        /\ TypedHolds
    BY <1>2 DEF Ready, Types
  <1>5. /\ queue' = Without(queue, t) /\ waits' = Forget(t)
        /\ UNCHANGED <<facts, consultation, paused, walk, inFlight, runs, cleanups, merges,
                       holds, atWork, lapsed, spent>>
    BY <1>3 DEF CallRemove
  <1>6. TypedQueue' /\ \A x \in Ids : Stands(x)' => Stands(x) /\ x # t
    BY <1>4, <1>5, LeavesOne
  <1>7. waits' \in [Ids -> {"none", "waits", "over"}]
    BY <1>4, <1>5, Forgets
  <1>8. TypedWalk' /\ FreePasses' = FreePasses
    BY <1>4, <1>5, SameWalk
  <1>9. Asked' /\ Held' /\ Seat(r)' /\ TypedFacts' /\ TypedSeat' /\ TypedHolds'
    BY <1>4, <1>5, <1>6, <1>7 DEF Asked, Held, Seat, TypedFacts, TypedSeat, TypedHolds,
       facts, cleanups, Ids
  <1>10. CASE ParkedFor(t) # {}
    <2>1. PICK i \in 1..Len(parked) : parked' = Spliced(parked, i) /\ parked[i].id = t
      <3>1. DOMAIN parked = 1..Len(parked)
        BY <1>4 DEF TypedClaims
      <3>2. QED
        BY <1>3, <1>10, <3>1 DEF CallRemove, ParkedFor
    <2>2. /\ claims' = claims \ {t} /\ held' = held \ {t}
          /\ calls' = <<Release("handoff", t)>> \o r
      BY <1>2, <1>3, <1>10 DEF CallRemove, Remaining
    <2>3. /\ parked' \in Seq(ParkedRec) /\ ParkedIds' = ParkedIds \ {t}
          /\ \A j, k \in 1..Len(parked') : parked'[j].id = parked'[k].id => j = k
      BY <1>4, <2>1, SplicedIs DEF Owned
    <2>4. TypedClaims' /\ TypedRest'
      BY <1>4, <1>5, <2>2, <2>3 DEF TypedClaims, TypedRest
    <2>5. Owned(r)'
      <3>1. t \in ParkedIds
        BY <2>1 DEF ParkedIds
      <3>2. Working(r)' = Working(r)
        BY <1>5 DEF Working
      <3>3. QED
        BY <1>4, <2>2, <2>3, <3>1, <3>2 DEF Owned
    <2>6. PICK x \in CallRec : x = Release("handoff", t) /\ x.call = "release"
      BY MadeRelease DEF Sides, Ids
    <2>7. PICK d \in Seq(CallRec) : /\ d = <<x>> \o r /\ Like(d, r) /\ Calm(d)
                                    /\ Has("pass", d) <=> Has("pass", r)
                                    /\ d # <<>> /\ d[1] = x
      BY <1>4, <2>6, LikeOne
    <2>8. calls' = d
      BY <2>2, <2>6, <2>7
    <2>9. \A w \in atWork' : Serves(w)' \/ Releases(d, w)
      BY <1>4, <1>5, <2>2, <2>6, <2>7 DEF Serves, Releases
    <2>10. Types'
      BY <1>6, <1>8, <1>9, <2>4 DEF Types
    <2>11. QED
      BY <1>4, <1>5, <1>8, <1>9, <2>5, <2>7, <2>8, <2>9, <2>10, Ending
  <1>11. CASE ParkedFor(t) = {}
    <2>1. UNCHANGED <<parked, claims, held>> /\ calls' = r
      BY <1>2, <1>3, <1>11 DEF CallRemove, Remaining
    <2>2. TypedClaims' /\ TypedRest'
      BY <1>4, <1>5, <2>1 DEF TypedClaims, TypedRest
    <2>3. Owned(r)'
      <3>1. ParkedIds' = ParkedIds /\ Working(r)' = Working(r)
        BY <1>5, <2>1 DEF ParkedIds, Working
      <3>2. QED
        BY <1>4, <2>1, <3>1 DEF Owned
    <2>4. \A w \in atWork' : Serves(w)'
      BY <1>4, <1>5, <2>1 DEF Serves
    <2>5. Types'
      BY <1>6, <1>8, <1>9, <2>2 DEF Types
    <2>6. QED
      BY <1>4, <1>5, <1>8, <1>9, <2>1, <2>3, <2>4, <2>5, LikeSelf, Ending
  <1>12. QED
    BY <1>10, <1>11

LEMMA AnswerStep ==
    ASSUME NEW c \in Seq(CallRec), calls = c, Sound(c), CallAnswer
    PROVE  IInv'
  <1>1. c # <<>> /\ c[1].call \in {"answer", "cancelled"}
    BY DEF CallAnswer, Calling
  <1>2. PICK r \in Seq(CallRec) : r = Tail(c) /\ Ready(r)
    BY <1>1, Rest
  <1>3. /\ Types /\ Asked /\ Held /\ Seat(r) /\ Owned(r) /\ Calm(r)
        /\ Has("pass", r) => FreePasses # {}
        /\ \A w \in atWork : Serves(w)
        /\ \A u \in Loose(r) : <<"handoff", u>> \notin atWork
        /\ TypedQueue /\ TypedFacts /\ TypedClaims /\ TypedSeat /\ TypedWalk /\ TypedRest
        /\ TypedHolds
    BY <1>2 DEF Ready, Types
  <1>4. /\ held' \in SUBSET held /\ calls' = r
        /\ UNCHANGED <<queue, facts, claims, consultation, paused, walk, starts, cleanups,
                       merges, checkout>>
    BY <1>2 DEF CallAnswer, Remaining
  <1>5. TypedWalk' /\ FreePasses' = FreePasses
    BY <1>3, <1>4, SameWalk
  <1>6. TypedQueue' /\ TypedRest' /\ TypedHolds' /\ Held' /\ Asked'
    BY <1>3, <1>4 DEF TypedQueue, TypedRest, TypedHolds, Held, Asked, Stands, WQ!Holds,
       WQ!Positions, checkout
  <1>7. \A w \in atWork' : Serves(w)'
    BY <1>3, <1>4 DEF Serves, checkout
  <1>8. \A u \in Loose(r) : <<"handoff", u>> \notin atWork'
    BY <1>3, <1>4 DEF checkout
  <1>9. Half(r)'
    BY <1>2, <1>3, <1>4, <1>6, <1>7, <1>8, LikeSelf, Quietly
  <1>10. QED
    BY <1>2, <1>3, <1>4, <1>5, <1>9, Closing

LEMMA DroppedStep ==
    ASSUME NEW c \in Seq(CallRec), calls = c, Sound(c), CallDropped
    PROVE  IInv'
  <1>1. c # <<>> /\ c[1].call = "dropped"
    BY DEF CallDropped, Calling
  <1>2. PICK r \in Seq(CallRec) : r = Tail(c) /\ Ready(r)
    BY <1>1, Rest
  <1>3. /\ Types /\ Asked /\ Held /\ Calm(r)
        /\ Has("pass", r) => FreePasses # {}
        /\ \A w \in atWork : Serves(w)
        /\ \A u \in Loose(r) : <<"handoff", u>> \notin atWork
        /\ TypedQueue /\ TypedWalk /\ TypedRest /\ TypedHolds
    BY <1>2 DEF Ready, Types
  <1>4. PICK id : id = c[1].id
    OBVIOUS
  <1>5. /\ queue' = Without(queue, id) /\ waits' = Forget(id) /\ held' = held \ {id} /\ calls' = r
        /\ UNCHANGED <<facts, claims, consultation, paused, walk, starts, cleanups, merges,
                       holds, atWork, lapsed, spent>>
    BY <1>2, <1>4 DEF CallDropped, Remaining
  <1>6. TypedQueue' /\ \A x \in Ids : Stands(x)' => Stands(x) /\ x # id
    BY <1>3, <1>5, LeavesOne
  <1>7. waits' \in [Ids -> {"none", "waits", "over"}]
    BY <1>3, <1>5, Forgets
  <1>8. TypedWalk' /\ FreePasses' = FreePasses
    BY <1>3, <1>5, SameWalk
  <1>9. TypedRest' /\ TypedHolds' /\ Held' /\ Asked'
    BY <1>3, <1>5, <1>6, <1>7 DEF TypedRest, TypedHolds, Held, Asked, Ids
  <1>10. \A w \in atWork' : Serves(w)'
    BY <1>3, <1>5 DEF Serves
  <1>11. Half(r)'
    BY <1>2, <1>3, <1>5, <1>6, <1>9, <1>10, LikeSelf, Quietly
  <1>12. QED
    BY <1>2, <1>3, <1>5, <1>8, <1>11, Closing

(* A release frees what its holder holds, and nobody else's checkout. *)
LEMMA ReleaseStep ==
    ASSUME NEW c \in Seq(CallRec), calls = c, Sound(c), CallRelease
    PROVE  IInv'
  <1>1. c # <<>> /\ c[1].call = "release" /\ c[1] \in CallRec
    BY DEF CallRelease, Calling
  <1>2. PICK r \in Seq(CallRec) : r = Tail(c)
    BY <1>1, Rest
  <1>3. PICK side \in Sides, id \in Ids : side = c[1].side /\ id = c[1].id
    BY <1>1 DEF CallRec
  <1>4. r = Tail(c) /\ c = calls
    BY <1>2
  <1>5. PICK w0 : w0 = <<side, id>> /\ w0[1] = side /\ w0[2] = id
    <2>1. <<side, id>>[1] = side /\ <<side, id>>[2] = id
      OBVIOUS
    <2>2. QED
      BY <2>1, Zenon
  <1>6. /\ Types /\ Asked /\ Held /\ Seat(r) /\ Owned(r) /\ Calm(r) /\ Served(c)
        /\ Has("pass", r) => FreePasses # {}
        /\ TypedQueue /\ TypedFacts /\ TypedClaims /\ TypedSeat /\ TypedWalk /\ TypedRest
        /\ TypedHolds
    BY <1>1, <1>2, Rest DEF Sound, Types
  <1>7. PICK mine \in SUBSET Repositories :
          mine = {x \in Repositories : holds[x].side = side /\ holds[x].id = id}
    OBVIOUS
  <1>8. PICK asks \in BOOLEAN : asks = (mine # {} /\ \E i \in Ids \ {id} : waits[i] # "none")
    OBVIOUS
  <1>9. /\ holds' = [x \in Repositories |-> IF x \in mine THEN NoHold ELSE holds[x]]
        /\ atWork' = atWork \ {w0} /\ lapsed' = lapsed \ {w0} /\ waits' = Forget(id)
        /\ reask' = (reask \/ (asks /\ Walking # {}))
        /\ calls' = (IF asks /\ Walking = {} THEN <<StartPass>> ELSE <<>>) \o r
        /\ UNCHANGED <<queue, facts, claims, consultation, paused, passes, starts, cleanups,
                       merges, held, spent>>
    BY <1>2, <1>3, <1>5, <1>7, <1>8 DEF CallRelease, HoldsOf, Remaining
  <1>10. \A w \in atWork' : Serves(w)
    <2>1. TAKE w \in atWork'
    <2>2. w \in atWork /\ w # w0 /\ w = <<w[1], w[2]>>
      BY <1>6, <1>9 DEF TypedHolds, Takers
    <2>3. ~Releases(c, w)
      <3>1. ASSUME c[1] = Release(w[1], w[2]) PROVE FALSE
        <4>1. side = w[1] /\ id = w[2]
          BY <1>3, <3>1 DEF Release, Call
        <4>2. QED
          BY <1>5, <2>2, <4>1
      <3>2. QED
        BY <3>1 DEF Releases
    <2>4. QED
      BY <1>6, <2>2, <2>3 DEF Served
  <1>11. \A w \in atWork' : Serves(w)'
    BY <1>9, <1>10 DEF Serves
  <1>12. ASSUME NEW t \in Loose(r) PROVE <<"handoff", t>> \notin atWork'
    <2>1. CASE t \in Loose(c)
      BY <1>6, <1>9, <2>1 DEF Served
    <2>2. CASE t \notin Loose(c)
      <3>1. c[1] = Release("handoff", t)
        BY <1>1, <1>2, <1>12, <2>2, PoppedLoose
      <3>2. side = "handoff" /\ id = t
        BY <1>3, <3>1 DEF Release, Call
      <3>3. QED
        BY <1>5, <1>9, <3>2
    <2>3. QED
      BY <2>1, <2>2
  <1>13. TypedHolds'
    <2>1. NoHold \in HoldRec
      BY DEF NoHold, HoldRec
    <2>2. holds' \in [Repositories -> HoldRec]
      BY <1>6, <1>9, <2>1 DEF TypedHolds
    <2>3. waits' \in [Ids -> {"none", "waits", "over"}]
      BY <1>6, <1>9, Forgets
    <2>4. QED
      BY <1>6, <1>9, <2>2, <2>3 DEF TypedHolds
  <1>14. Held'
    <2>1. ASSUME NEW x \in Repositories, holds'[x].side # "none"
          PROVE  <<holds'[x].side, holds'[x].id>> \in atWork'
      <3>1. x \notin mine /\ holds'[x] = holds[x]
        BY <1>9, <2>1 DEF NoHold
      <3>2. <<holds[x].side, holds[x].id>> # w0
        BY <1>5, <1>7, <3>1
      <3>3. QED
        BY <1>6, <1>9, <2>1, <3>1, <3>2 DEF Held
    <2>2. ASSUME NEW w \in atWork' \ lapsed'
          PROVE  holds'[Repo[w[2]]].side = w[1] /\ holds'[Repo[w[2]]].id = w[2]
      <3>1. w \in atWork \ lapsed /\ w # w0 /\ w = <<w[1], w[2]>> /\ w[2] \in Ids
        BY <1>6, <1>9 DEF TypedHolds, Takers, Ids
      <3>2. Repo[w[2]] \in Repositories
        BY <3>1, DispatchAssumption
      <3>3. holds[Repo[w[2]]].side = w[1] /\ holds[Repo[w[2]]].id = w[2]
        BY <1>6, <3>1 DEF Held
      <3>4. Repo[w[2]] \notin mine
        BY <1>5, <1>7, <3>1, <3>3
      <3>5. QED
        BY <1>9, <3>2, <3>3, <3>4
    <2>3. QED
      BY <2>1, <2>2 DEF Held
  <1>15. TypedWalk' /\ FreePasses' = FreePasses
    BY <1>6, <1>9 DEF TypedWalk, FreePasses
  <1>16. TypedQueue' /\ TypedRest' /\ Asked' /\ TypedFacts' /\ TypedClaims' /\ TypedSeat'
    BY <1>6, <1>9 DEF TypedQueue, TypedRest, Asked, Stands, WQ!Holds, WQ!Positions, TypedFacts,
       TypedClaims, TypedSeat, facts, starts, cleanups
  <1>17. Seat(r)'
    BY <1>6, <1>9 DEF Seat, starts, cleanups
  <1>18. Owned(r)'
    <2>1. ParkedIds' = ParkedIds /\ Working(r)' = Working(r)
      BY <1>9 DEF ParkedIds, Working, starts
    <2>2. QED
      BY <1>6, <1>9, <2>1 DEF Owned, starts
  <1>19. Types'
    BY <1>13, <1>15, <1>16 DEF Types
  <1>20. CASE asks /\ Walking = {}
    <2>1. PICK x \in CallRec : x = StartPass /\ x.call = "pass"
      BY MadeFree
    <2>2. PICK d \in Seq(CallRec) :
            /\ d = <<x>> \o r /\ Like(d, r) /\ d # <<>> /\ d[1] = x /\ Tail(d) = r
            /\ Twice("pass", d) <=> Has("pass", r)
      BY <1>6, <2>1, LikeStep
    <2>3. calls' = d
      BY <1>9, <1>20, <2>1, <2>2
    <2>4. FreePasses' # {} /\ Walking' = {}
      <3>1. 1 \in 1..Passes
        BY DispatchAssumption
      <3>2. Walking' = {}
        BY <1>9, <1>20 DEF Walking
      <3>3. 1 \in FreePasses
        BY <1>20, <3>1 DEF FreePasses, Walking
      <3>4. QED
        BY <1>15, <3>2, <3>3
    <2>5. Laps(d)'
      BY <1>6, <2>1, <2>2, <2>4 DEF Laps
    <2>6. QED
      BY <1>11, <1>12, <1>14, <1>16, <1>17, <1>18, <1>19, <2>2, <2>3, <2>5, Closes
  <1>21. CASE ~(asks /\ Walking = {})
    <2>1. calls' = r
      BY <1>9, <1>21
    <2>2. QED
      BY <1>6, <1>11, <1>12, <1>14, <1>15, <1>16, <1>17, <1>18, <1>19, <2>1, LikeSelf, Ending
  <1>22. QED
    BY <1>20, <1>21

(* A settle ends a claim that no parked start and no start at work holds any more. *)
LEMMA SettleStep ==
    ASSUME NEW c \in Seq(CallRec), calls = c, Sound(c), CallSettle
    PROVE  IInv'
  <1>1. c # <<>> /\ c[1].call = "settle" /\ c[1] \in CallRec
    BY DEF CallSettle, Calling
  <1>2. PICK r \in Seq(CallRec) : r = Tail(c)
    BY <1>1, Rest
  <1>3. PICK t \in Tickets : t = c[1].id
    BY <1>1 DEF CallRec, OfTicket
  <1>4. /\ Types /\ Asked /\ Held /\ Seat(r) /\ Owned(c) /\ Calm(r) /\ Served(c)
        /\ Has("pass", r) => FreePasses # {}
        /\ \A w \in atWork : Serves(w)
        /\ \A u \in Loose(r) : <<"handoff", u>> \notin atWork
        /\ TypedQueue /\ TypedFacts /\ TypedClaims /\ TypedSeat /\ TypedWalk /\ TypedRest
        /\ TypedHolds
    BY <1>1, <1>2, Rest DEF Sound, Types
  <1>5. /\ IdsOf("settle", c) = {t} \cup IdsOf("settle", r) /\ t \notin IdsOf("settle", r)
        /\ Unique("settle", r) /\ IdsOf("seatfree", c) = IdsOf("seatfree", r)
    <2>1. /\ IdsOf("settle", c) = (IF c[1].call = "settle" THEN {c[1].id} ELSE {})
                                     \cup IdsOf("settle", r)
          /\ Unique("settle", c) <=>
               Unique("settle", r) /\ (c[1].call = "settle" => c[1].id \notin IdsOf("settle", r))
      BY <1>1, <1>2, Popped DEF Names
    <2>2. IdsOf("seatfree", c) = (IF c[1].call = "seatfree" THEN {c[1].id} ELSE {})
                                    \cup IdsOf("seatfree", r)
      BY <1>1, <1>2, Popped DEF Names
    <2>3. QED
      BY <1>1, <1>3, <1>4, <2>1, <2>2 DEF Owned
  <1>6. PICK live \in BOOLEAN : live = (t \in claims /\ calls[1].ok)
    OBVIOUS
  <1>7. /\ claims' = claims \ {t} /\ calls' = r
        /\ ticket' = IF live THEN [ticket EXCEPT ![t] = "in-flight"] ELSE ticket
        /\ missing' = IF live THEN missing \ {t} ELSE missing
        /\ raced' = IF live /\ Stands(t) THEN raced \cup {t} ELSE raced
        /\ UNCHANGED <<queue, listed, consultation, paused, walk, starts, cleanups, merges,
                       held, checkout, spent>>
    BY <1>2, <1>3, <1>6 DEF CallSettle, Remaining
  <1>8. TypedFacts' /\ TypedClaims'
    BY <1>4, <1>7 DEF TypedFacts, TypedClaims, States, starts
  <1>9. TypedQueue' /\ TypedRest' /\ Asked' /\ TypedSeat' /\ TypedHolds' /\ Held'
    BY <1>4, <1>7 DEF TypedQueue, TypedRest, Asked, Stands, WQ!Holds, WQ!Positions, TypedSeat,
       TypedHolds, Held, starts, cleanups, checkout
  <1>10. TypedWalk' /\ FreePasses' = FreePasses
    BY <1>4, <1>7, SameWalk
  <1>11. Seat(r)'
    BY <1>4, <1>7 DEF Seat, starts, cleanups
  <1>12. Owned(r)'
    <2>1. ParkedIds' = ParkedIds /\ Working(r)' = Working(r) /\ Working(r) = Working(c)
      BY <1>5, <1>7 DEF ParkedIds, Working, starts
    <2>2. QED
      BY <1>4, <1>5, <1>7, <2>1 DEF Owned, starts
  <1>13. <<"handoff", t>> \in atWork => Releases(r, <<"handoff", t>>)
    <2>1. ASSUME <<"handoff", t>> \in atWork PROVE Releases(r, <<"handoff", t>>)
      <3>1. 1 \in Where("settle", c)
        BY <1>1 DEF Where
      <3>2. Beside(c, 1)
        BY <1>3, <1>4, <2>1, <3>1 DEF Served, Loose
      <3>3. 1 < Len(c) /\ c[2] = Release("handoff", t)
        BY <1>3, <3>2 DEF Beside
      <3>4. r # <<>> /\ r[1] = c[2]
        <4>1. Len(r) = Len(c) - 1 /\ \A k \in 1..Len(r) : r[k] = c[k + 1]
          BY <1>1, <1>2
        <4>2. 1 \in 1..Len(r) /\ 1 + 1 = 2
          BY <3>3, <4>1
        <4>3. QED
          BY <4>1, <4>2
      <3>5. QED
        BY <3>3, <3>4 DEF Releases
    <2>2. QED
      BY <2>1
  <1>14. \A w \in atWork' : Serves(w)' \/ Releases(r, w)
    <2>1. TAKE w \in atWork'
    <2>2. w \in atWork /\ Serves(w) /\ w = <<w[1], w[2]>>
      BY <1>4, <1>7 DEF checkout, TypedHolds, Takers
    <2>3. CASE w = <<"handoff", t>>
      BY <1>13, <2>2, <2>3
    <2>4. CASE w # <<"handoff", t>>
      BY <1>7, <2>2, <2>4 DEF Serves
    <2>5. QED
      BY <2>3, <2>4
  <1>15. \A u \in Loose(r) : <<"handoff", u>> \notin atWork'
    BY <1>4, <1>7 DEF checkout
  <1>16. Types'
    BY <1>8, <1>9, <1>10 DEF Types
  <1>17. QED
    BY <1>4, <1>7, <1>9, <1>10, <1>11, <1>12, <1>14, <1>15, <1>16, LikeSelf, Ending

(* The one start that has the seat frees it. *)
LEMMA SeatFreeStep ==
    ASSUME NEW c \in Seq(CallRec), calls = c, Sound(c), CallSeatFree
    PROVE  IInv'
  <1>1. c # <<>> /\ c[1].call = "seatfree" /\ c[1] \in CallRec
    BY DEF CallSeatFree, Calling
  <1>2. PICK r \in Seq(CallRec) : r = Tail(c)
    BY <1>1, Rest
  <1>3. PICK t \in Tickets : t = c[1].id
    BY <1>1 DEF CallRec, OfTicket
  <1>4. /\ Types /\ Asked /\ Held /\ Seat(c) /\ Owned(c) /\ Calm(r)
        /\ Has("pass", r) => FreePasses # {}
        /\ \A w \in atWork : Serves(w)
        /\ \A u \in Loose(r) : <<"handoff", u>> \notin atWork
        /\ TypedQueue /\ TypedFacts /\ TypedClaims /\ TypedSeat /\ TypedWalk /\ TypedRest
        /\ TypedHolds
    BY <1>1, <1>2, Rest DEF Sound, Types
  <1>5. /\ IdsOf("seatfree", c) = {t} \cup IdsOf("seatfree", r) /\ t \notin IdsOf("seatfree", r)
        /\ Unique("seatfree", r) /\ IdsOf("settle", c) = IdsOf("settle", r)
        /\ Unique("settle", r)
    <2>1. /\ IdsOf("settle", c) = (IF c[1].call = "settle" THEN {c[1].id} ELSE {})
                                     \cup IdsOf("settle", r)
          /\ Unique("settle", c) <=>
               Unique("settle", r) /\ (c[1].call = "settle" => c[1].id \notin IdsOf("settle", r))
      BY <1>1, <1>2, Popped DEF Names
    <2>2. /\ IdsOf("seatfree", c) = (IF c[1].call = "seatfree" THEN {c[1].id} ELSE {})
                                       \cup IdsOf("seatfree", r)
          /\ Unique("seatfree", c) <=>
               Unique("seatfree", r)
               /\ (c[1].call = "seatfree" => c[1].id \notin IdsOf("seatfree", r))
      BY <1>1, <1>2, Popped DEF Names
    <2>3. QED
      BY <1>1, <1>3, <1>4, <2>1, <2>2 DEF Owned, Seat
  <1>6. /\ inFlight' = FALSE /\ runs' = [runs EXCEPT ![t] = "none"]
        /\ calls' = <<Call("drain", NoOne)>> \o r
        /\ UNCHANGED <<queue, facts, claims, consultation, paused, walk, parked, cleanups,
                       merges, held, checkout, spent>>
    BY <1>2, <1>3 DEF CallSeatFree, Remaining
  <1>7. IdsOf("seatfree", r) \subseteq Tickets
    BY OfTickets
  <1>8. /\ runs[t] # "none" /\ \A u \in Tickets : runs[u] # "none" => u = t
    BY <1>4, <1>5 DEF Seat
  <1>9. IdsOf("seatfree", r) = {}
    BY <1>4, <1>5, <1>7, <1>8 DEF Seat
  <1>10. \A u \in Tickets : runs'[u] = "none"
    BY <1>4, <1>6, <1>8 DEF TypedClaims
  <1>11. TypedClaims' /\ TypedSeat'
    BY <1>4, <1>6 DEF TypedClaims, TypedSeat, cleanups
  <1>12. TypedFacts' /\ TypedQueue' /\ TypedRest' /\ Asked' /\ TypedHolds' /\ Held'
    BY <1>4, <1>6 DEF TypedFacts, TypedQueue, TypedRest, Asked, Stands, WQ!Holds, WQ!Positions,
       TypedHolds, Held, facts, checkout
  <1>13. TypedWalk' /\ FreePasses' = FreePasses
    BY <1>4, <1>6, SameWalk
  <1>14. Seat(r)'
    BY <1>4, <1>5, <1>6, <1>9, <1>10 DEF Seat, cleanups
  <1>15. Owned(r)'
    <2>1. ParkedIds' = ParkedIds
      BY <1>6 DEF ParkedIds
    <2>2. Working(c) = {} /\ Working(r)' = {}
      BY <1>5, <1>8, <1>10 DEF Working
    <2>3. QED
      BY <1>4, <1>5, <1>6, <2>1, <2>2 DEF Owned
  <1>16. \A w \in atWork' : Serves(w)'
    BY <1>4, <1>6 DEF Serves, checkout
  <1>17. \A u \in Loose(r) : <<"handoff", u>> \notin atWork'
    BY <1>4, <1>6 DEF checkout
  <1>18. PICK x \in CallRec : x = Call("drain", NoOne) /\ x.call = "drain"
    BY MadeFree
  <1>19. PICK d \in Seq(CallRec) : /\ d = <<x>> \o r /\ Like(d, r) /\ Calm(d)
                                   /\ Has("pass", d) <=> Has("pass", r)
    BY <1>4, <1>18, LikeOne
  <1>20. Types'
    BY <1>11, <1>12, <1>13 DEF Types
  <1>21. QED
    BY <1>4, <1>6, <1>12, <1>13, <1>14, <1>15, <1>16, <1>17, <1>18, <1>19, <1>20, Ending

LEMMA DrainStep ==
    ASSUME NEW c \in Seq(CallRec), calls = c, Sound(c), CallDrain
    PROVE  IInv'
  <1>1. c # <<>> /\ c[1].call = "drain"
    BY DEF CallDrain, Calling
  <1>2. PICK r \in Seq(CallRec) : r = Tail(c) /\ Ready(r)
    BY <1>1, Rest
  <1>3. /\ Types /\ Asked /\ Held /\ Seat(r) /\ Owned(r) /\ Calm(r)
        /\ Has("pass", r) => FreePasses # {}
        /\ \A w \in atWork : Serves(w)
        /\ \A u \in Loose(r) : <<"handoff", u>> \notin atWork
        /\ TypedQueue /\ TypedFacts /\ TypedClaims /\ TypedSeat /\ TypedWalk /\ TypedRest
        /\ TypedHolds
    BY <1>2 DEF Ready, Types
  <1>4. /\ missing' = {t \in missing : ticket'[t] = "in-flight"}
        /\ UNCHANGED <<queue, listed, raced, claims, consultation, paused, walk, starts, merges,
                       held, checkout, spent>>
    BY DEF CallDrain
  <1>5. TypedQueue' /\ TypedRest' /\ Asked' /\ TypedHolds' /\ Held' /\ TypedClaims'
    BY <1>3, <1>4 DEF TypedQueue, TypedRest, Asked, Stands, WQ!Holds, WQ!Positions, TypedHolds,
       Held, TypedClaims, starts, checkout
  <1>6. TypedWalk' /\ FreePasses' = FreePasses
    BY <1>3, <1>4, SameWalk
  <1>7. Owned(r)'
    <2>1. ParkedIds' = ParkedIds /\ Working(r)' = Working(r)
      BY <1>4 DEF ParkedIds, Working, starts
    <2>2. QED
      BY <1>3, <1>4, <2>1 DEF Owned, starts
  <1>8. \A w \in atWork' : Serves(w)'
    BY <1>3, <1>4 DEF Serves, checkout
  <1>9. \A u \in Loose(r) : <<"handoff", u>> \notin atWork'
    BY <1>3, <1>4 DEF checkout
  <1>10. ASSUME TypedSeat', Seat(r)', ticket' \in [Tickets -> States], calls' = r
         PROVE  IInv'
    <2>1. TypedFacts'
      BY <1>3, <1>4, <1>10 DEF TypedFacts
    <2>2. Types'
      BY <1>5, <1>6, <1>10, <2>1 DEF Types
    <2>3. QED
      BY <1>3, <1>5, <1>6, <1>7, <1>8, <1>9, <1>10, <2>2, LikeSelf, Ending
  <1>11. CASE inFlight \/ clearing
    <2>1. UNCHANGED <<cleanups, ticket>> /\ calls' = r
      BY <1>2, <1>11 DEF CallDrain, Remaining
    <2>2. TypedSeat' /\ Seat(r)' /\ ticket' \in [Tickets -> States]
      BY <1>3, <1>4, <2>1 DEF TypedSeat, Seat, TypedFacts, cleanups, starts
    <2>3. QED
      BY <1>10, <2>1, <2>2
  <1>12. CASE ~(inFlight \/ clearing) /\ cleanupQueue = <<>>
    <2>1. /\ cleanupQueued' = FALSE /\ UNCHANGED <<clearing, cleanupQueue, ticket>>
          /\ calls' = <<Call("drainParked", NoOne)>> \o r
      BY <1>2, <1>12 DEF CallDrain, Remaining
    <2>2. TypedSeat' /\ Seat(r)' /\ TypedFacts'
      BY <1>3, <1>4, <1>12, <2>1 DEF TypedSeat, Seat, TypedFacts, starts
    <2>3. PICK x \in CallRec : x = Call("drainParked", NoOne) /\ x.call = "drainParked"
      BY MadeFree
    <2>4. PICK d \in Seq(CallRec) : /\ d = <<x>> \o r /\ Like(d, r) /\ Calm(d)
                                    /\ Has("pass", d) <=> Has("pass", r)
      BY <1>3, <2>3, LikeOne
    <2>5. Types'
      BY <1>5, <1>6, <2>2 DEF Types
    <2>6. QED
      BY <1>3, <1>5, <1>6, <1>7, <1>8, <1>9, <2>1, <2>2, <2>3, <2>4, <2>5, Ending
  <1>13. CASE ~(inFlight \/ clearing) /\ cleanupQueue # <<>>
    <2>1. /\ clearing' = TRUE /\ cleanupQueue' = Tail(cleanupQueue) /\ UNCHANGED cleanupQueued
          /\ ticket' = [t \in Tickets |->
                          IF t = Head(cleanupQueue) /\ ticket[t] = "in-flight"
                          THEN "open" ELSE ticket[t]]
          /\ calls' = r
      BY <1>2, <1>13 DEF CallDrain, Remaining
    <2>2. cleanupQueue' \in Seq(Tickets \cup {NoOne})
      BY <1>3, <1>13, <2>1 DEF TypedSeat
    <2>3. TypedSeat' /\ Seat(r)'
      BY <1>3, <1>4, <1>13, <2>1, <2>2 DEF TypedSeat, Seat, starts
    <2>4. ticket' \in [Tickets -> States]
      BY <1>3, <2>1 DEF TypedFacts, States
    <2>5. QED
      BY <1>10, <2>1, <2>3, <2>4
  <1>14. QED
    BY <1>11, <1>12, <1>13

LEMMA Unparks ==
    ASSUME TypedClaims, parked # <<>>, parked' = Tail(parked),
           \A j, k \in 1..Len(parked) : parked[j].id = parked[k].id => j = k
    PROVE  /\ parked' \in Seq(ParkedRec) /\ Head(parked).id \in Tickets
           /\ ParkedIds = {Head(parked).id} \cup ParkedIds' /\ Head(parked).id \notin ParkedIds'
           /\ \A j, k \in 1..Len(parked') : parked'[j].id = parked'[k].id => j = k
  <1> DEFINE n == Len(parked)
  <1>1. /\ parked \in Seq(ParkedRec) /\ n \in Nat /\ n # 0 /\ Head(parked) = parked[1]
        /\ parked' \in Seq(ParkedRec) /\ Len(parked') = n - 1
        /\ \A i \in 1..(n - 1) : parked'[i] = parked[i + 1]
        /\ parked[1] \in ParkedRec
    BY DEF TypedClaims
  <1>2. /\ ParkedIds = {parked[k].id : k \in 1..n}
        /\ ParkedIds' = {parked'[j].id : j \in 1..(n - 1)}
        /\ \A j, k \in 1..n : parked[j].id = parked[k].id => j = k
    BY <1>1 DEF ParkedIds
  <1> HIDE DEF n
  <1>3. \A i \in 1..(n - 1) : i + 1 \in 1..n /\ i + 1 # 1 /\ parked'[i] = parked[i + 1]
    BY <1>1
  <1>4. \A k \in 1..n : k # 1 => k - 1 \in 1..(n - 1) /\ (k - 1) + 1 = k
    BY <1>1
  <1>5. 1 \in 1..n
    BY <1>1
  <1>6. \A k \in 1..n : k # 1 => parked[k] = parked'[k - 1]
    BY <1>3, <1>4
  <1>7. \A x \in ParkedIds' : x \in ParkedIds /\ x # parked[1].id
    <2>1. TAKE x \in ParkedIds'
    <2>2. PICK i \in 1..(n - 1) : x = parked'[i].id
      BY <1>2
    <2>3. PICK k \in 1..n : k = i + 1 /\ k # 1 /\ x = parked[k].id
      BY <1>3, <2>2
    <2>4. QED
      BY <1>2, <1>5, <2>3
  <1>8. \A x \in ParkedIds : x = parked[1].id \/ x \in ParkedIds'
    <2>1. TAKE x \in ParkedIds
    <2>2. PICK k \in 1..n : x = parked[k].id
      BY <1>2
    <2>3. CASE k # 1
      <3>1. PICK j \in 1..(n - 1) : x = parked'[j].id
        BY <1>4, <1>6, <2>2, <2>3
      <3>2. QED
        BY <1>2, <3>1
    <2>4. QED
      BY <2>2, <2>3
  <1>9. parked[1].id \in ParkedIds
    BY <1>2, <1>5
  <1>10. \A j, k \in 1..(n - 1) : parked'[j].id = parked'[k].id => j = k
    <2>1. TAKE j, k \in 1..(n - 1)
    <2>2. HAVE parked'[j].id = parked'[k].id
    <2>3. j + 1 = k + 1
      BY <1>2, <1>3, <2>2, ZenonT(60)
    <2>4. QED
      BY <1>1, <2>3
  <1>11. parked[1].id \in Tickets
    BY <1>1 DEF ParkedRec
  <1>12. QED
    BY <1>1, <1>7, <1>8, <1>9, <1>10, <1>11

LEMMA DrainParkedStep ==
    ASSUME NEW c \in Seq(CallRec), calls = c, Sound(c), CallDrainParked
    PROVE  IInv'
  <1>1. c # <<>> /\ c[1].call = "drainParked"
    BY DEF CallDrainParked, Calling
  <1>2. PICK r \in Seq(CallRec) : r = Tail(c) /\ Ready(r)
    BY <1>1, Rest
  <1>3. /\ Types /\ Asked /\ Held /\ Seat(r) /\ Owned(r) /\ Calm(r)
        /\ Has("pass", r) => FreePasses # {}
        /\ \A w \in atWork : Serves(w)
        /\ \A u \in Loose(r) : <<"handoff", u>> \notin atWork
        /\ TypedQueue /\ TypedFacts /\ TypedClaims /\ TypedSeat /\ TypedWalk /\ TypedRest
        /\ TypedHolds
    BY <1>2 DEF Ready, Types
  <1>4. UNCHANGED <<queue, held, waits, facts, consultation, paused, walk, cleanups, merges,
                    holds, atWork, lapsed, spent>>
    BY DEF CallDrainParked, starts
  <1>5. /\ TypedQueue' /\ TypedRest' /\ Asked' /\ TypedHolds' /\ Held' /\ TypedFacts'
    BY <1>3, <1>4 DEF TypedQueue, TypedRest, Asked, Stands, WQ!Holds, WQ!Positions, TypedHolds,
       Held, TypedFacts, facts
  <1>6. TypedWalk' /\ FreePasses' = FreePasses
    BY <1>3, <1>4, SameWalk
  <1>7. \A u \in Loose(r) : <<"handoff", u>> \notin atWork'
    BY <1>3, <1>4
  <1>8. CASE calls' = r /\ UNCHANGED <<claims, starts>>
    <2>1. TypedClaims' /\ TypedSeat' /\ Seat(r)'
      BY <1>3, <1>4, <1>8 DEF TypedClaims, TypedSeat, Seat, starts, cleanups
    <2>2. Owned(r)'
      <3>1. ParkedIds' = ParkedIds /\ Working(r)' = Working(r)
        BY <1>8 DEF ParkedIds, Working, starts
      <3>2. QED
        BY <1>3, <1>8, <3>1 DEF Owned, starts
    <2>3. \A w \in atWork' : Serves(w)'
      BY <1>3, <1>4, <1>8 DEF Serves
    <2>4. Types'
      BY <1>5, <1>6, <2>1 DEF Types
    <2>5. QED
      BY <1>3, <1>5, <1>6, <1>7, <1>8, <2>1, <2>2, <2>3, <2>4, LikeSelf, Ending
  <1>9. CASE /\ ~SeatHeld /\ parked # <<>> /\ parked' = Tail(parked) /\ inFlight' = TRUE
             /\ runs' = [runs EXCEPT ![Head(parked).id] = "works"] /\ calls' = r
             /\ UNCHANGED claims
    <2>1. PICK h : h = Head(parked).id
      OBVIOUS
    <2>2. /\ parked' \in Seq(ParkedRec) /\ h \in Tickets
          /\ ParkedIds = {h} \cup ParkedIds' /\ h \notin ParkedIds'
          /\ \A j, k \in 1..Len(parked') : parked'[j].id = parked'[k].id => j = k
      BY <1>3, <1>9, <2>1, Unparks DEF Owned
    <2>3. ~inFlight /\ ~cleanupQueued /\ ~clearing
      BY <1>3, <1>9 DEF SeatHeld, Seat
    <2>4. \A t \in Tickets : runs[t] = "none"
      BY <1>3, <2>3 DEF Seat
    <2>5. \A t \in Tickets : runs'[t] = IF t = h THEN "works" ELSE "none"
      BY <1>3, <1>9, <2>1, <2>4 DEF TypedClaims
    <2>6. IdsOf("seatfree", r) = {}
      BY <1>3, <2>4, OfTickets DEF Seat
    <2>7. TypedClaims' /\ TypedSeat'
      BY <1>3, <1>4, <1>9, <2>1, <2>2 DEF TypedClaims, TypedSeat, cleanups
    <2>8. Seat(r)'
      BY <1>3, <1>4, <1>9, <2>2, <2>3, <2>5, <2>6 DEF Seat, cleanups
    <2>9. Working(r) = {} /\ Working(r)' = {h}
      BY <2>2, <2>4, <2>5, <2>6 DEF Working
    <2>10. Owned(r)'
      BY <1>3, <1>9, <2>2, <2>9 DEF Owned
    <2>11. \A w \in atWork' : Serves(w)'
      BY <1>3, <1>4, <1>9 DEF Serves
    <2>12. Types'
      BY <1>5, <1>6, <2>7 DEF Types
    <2>13. QED
      BY <1>3, <1>5, <1>6, <1>7, <1>9, <2>8, <2>10, <2>11, <2>12, LikeSelf, Ending
  <1>10. CASE /\ parked # <<>> /\ parked' = Tail(parked)
              /\ claims' = claims \ {Head(parked).id} /\ UNCHANGED <<inFlight, runs>>
              /\ calls' = <<Release("handoff", Head(parked).id), Call("dropped", Head(parked).id),
                            Call("drainParked", NoOne)>> \o r
    <2>1. PICK h : h = Head(parked).id
      OBVIOUS
    <2>2. /\ parked' \in Seq(ParkedRec) /\ h \in Tickets
          /\ ParkedIds = {h} \cup ParkedIds' /\ h \notin ParkedIds'
          /\ \A j, k \in 1..Len(parked') : parked'[j].id = parked'[k].id => j = k
      BY <1>3, <1>10, <2>1, Unparks DEF Owned
    <2>3. TypedClaims' /\ TypedSeat' /\ Seat(r)'
      BY <1>3, <1>4, <1>10, <2>1, <2>2 DEF TypedClaims, TypedSeat, Seat, cleanups
    <2>4. Owned(r)'
      <3>1. Working(r)' = Working(r)
        BY <1>10 DEF Working
      <3>2. QED
        BY <1>3, <1>10, <2>1, <2>2, <3>1 DEF Owned
    <2>5. PICK p \in Seq(CallRec) :
            /\ p = <<Release("handoff", h), Call("dropped", h), Call("drainParked", NoOne)>>
            /\ Quiet(p) /\ p # <<>> /\ p[1] = Release("handoff", h)
      <3>1. Release("handoff", h) \in CallRec /\ Release("handoff", h).call = "release"
        BY <2>2, MadeRelease DEF Sides, Ids
      <3>2. Call("dropped", h) \in CallRec /\ Call("dropped", h).call = "dropped"
        <4>1. FALSE \in BOOLEAN
          OBVIOUS
        <4>2. QED
          BY <2>2, <4>1, Made DEF Call
      <3>3. PICK x \in CallRec, y \in CallRec, z \in CallRec :
              /\ x = Release("handoff", h) /\ y = Call("dropped", h)
              /\ z = Call("drainParked", NoOne)
              /\ x.call = "release" /\ y.call = "dropped" /\ z.call = "drainParked"
        BY <3>1, <3>2, MadeFree
      <3>4. <<x, y, z>> \in Seq(CallRec) /\ Quiet(<<x, y, z>>) /\ <<x, y, z>>[1] = x
        BY <3>3 DEF Quiet
      <3>5. <<x, y, z>> # <<>>
        OBVIOUS
      <3>6. QED
        BY <3>3, <3>4, <3>5
    <2>6. PICK d \in Seq(CallRec) : /\ d = p \o r /\ Like(d, r) /\ Calm(d)
                                    /\ Has("pass", d) <=> Has("pass", r)
      BY <1>3, <2>5, LikeQuiet
    <2>7. calls' = d /\ d # <<>> /\ d[1] = Release("handoff", h)
      <3>1. calls' = d
        BY <1>10, <2>1, <2>5, <2>6
      <3>2. d # <<>> /\ d[1] = p[1]
        BY <2>5, <2>6
      <3>3. QED
        BY <2>5, <3>1, <3>2
    <2>8. \A w \in atWork' : Serves(w)' \/ Releases(d, w)
      BY <1>3, <1>4, <1>10, <2>1, <2>7 DEF Serves, Releases
    <2>9. Types'
      BY <1>5, <1>6, <2>3 DEF Types
    <2>10. QED
      BY <1>3, <1>5, <1>6, <1>7, <2>3, <2>4, <2>6, <2>7, <2>8, <2>9, Ending
  <1>11. QED
    BY <1>2, <1>8, <1>9, <1>10 DEF CallDrainParked, Remaining

--------------------------------------------------------------------------------
(* The steps of the walks, the asks and the ends, when no handler runs. *)

LEMMA Rests ==
    ASSUME NEW c \in Seq(CallRec), calls = c, Sound(c), Idle
    PROVE  /\ Ready(<<>>) /\ Sound(<<>>) /\ <<>> \in Seq(CallRec) /\ calls = <<>> /\ Loose(<<>>) = {}
           /\ ~Has("pass", <<>>) /\ Calm(<<>>)
  <1>1. c = <<>>
    BY DEF Idle
  <1>2. QED
    BY <1>1, Idles, NoCalls DEF Names

LEMMA WalksStep ==
    ASSUME NEW c \in Seq(CallRec), calls = c, Sound(c), NEW p \in 1..Passes, PassWalks(p)
    PROVE  IInv'
  <1>1. Ready(<<>>) /\ <<>> \in Seq(CallRec)
    BY Rests DEF PassWalks
  <1>2. QED
    BY <1>1, RowStep DEF PassWalks

LEMMA NoPassIs == NoPass \in PassRec /\ NoPass.on = NoOne /\ NoOne \notin Tickets
  <1>1. <<>> \in Seq(WaitingRow)
    OBVIOUS
  <1>2. QED
    BY <1>1, DispatchAssumption DEF NoPass, PassRec, Ids

LEMMA EndsStep ==
    ASSUME NEW c \in Seq(CallRec), calls = c, Sound(c), NEW p \in 1..Passes, PassEnds(p)
    PROVE  IInv'
  <1>1. Ready(<<>>) /\ <<>> \in Seq(CallRec) /\ calls = <<>> /\ ~Has("pass", <<>>) /\ Calm(<<>>)
    BY Rests DEF PassEnds
  <1>2. PICK r \in Seq(CallRec) : r = <<>> /\ Ready(r) /\ ~Has("pass", r) /\ Calm(r)
    BY <1>1
  <1>3. /\ reask' = FALSE
        /\ UNCHANGED <<queue, facts, claims, consultation, paused, starts, cleanups, merges, held>>
    BY DEF PassEnds
  <1>4. CASE LapHead(p, <<>>)
    BY <1>2, <1>3, <1>4, LapStep
  <1>5. CASE passes' = [passes EXCEPT ![p] = NoPass] /\ UNCHANGED <<checkout, calls>>
    <2>1. /\ TypedWalk /\ TypedHolds /\ Held
          /\ \A w \in atWork : Serves(w)
          /\ \A u \in Loose(r) : <<"handoff", u>> \notin atWork
      BY <1>2 DEF Ready, Types
    <2>2. \A o \in 1..Passes : passes'[o] = IF o = p THEN NoPass ELSE passes[o]
      BY <1>5, <2>1 DEF TypedWalk
    <2>3. TypedWalk'
      BY <1>3, <1>5, <2>1, <2>2, NoPassIs DEF TypedWalk
    <2>4. TypedQueue' /\ TypedRest' /\ Asked'
      BY <1>1, <1>3, Untouched
    <2>5. TypedHolds' /\ Held'
      BY <1>5, <2>1 DEF TypedHolds, Held, checkout
    <2>6. \A w \in atWork' : Serves(w)'
      BY <1>3, <1>5, <2>1 DEF Serves, checkout
    <2>7. \A u \in Loose(r) : <<"handoff", u>> \notin atWork'
      BY <1>5, <2>1 DEF checkout
    <2>8. Half(r)'
      BY <1>2, <1>3, <2>4, <2>5, <2>6, <2>7, LikeSelf, Quietly
    <2>9. Laps(r)'
      BY <1>2, CalmLaps
    <2>10. calls' = r
      BY <1>1, <1>2, <1>5
    <2>11. QED
      BY <2>3, <2>8, <2>9, <2>10, HalfSound
  <1>6. QED
    BY <1>4, <1>5 DEF PassEnds

LEMMA Roomy ==
    ASSUME Room
    PROVE  FreePasses # {}
  <1>1. ASSUME FreePasses = {} PROVE FALSE
    <2>1. Walking = 1..Passes
      BY <1>1 DEF FreePasses, Walking
    <2>2. Cardinality(Walking) = Passes
      BY <2>1, FS_Interval, DispatchAssumption
    <2>3. QED
      BY <2>2, DispatchAssumption DEF Room
  <1>2. QED
    BY <1>1

(* The calls an ask leaves: a cleanup's drain, a pass. *)
LEMMA Askings ==
    ASSUME NEW drain, drain = Call("drain", NoOne),
           NEW d \in {<<>>, <<StartPass>>, <<drain>>, <<drain>> \o <<StartPass>>}
    PROVE  d \in Seq(CallRec) /\ Like(d, <<>>) /\ Calm(d)
  <1>1. PICK r \in Seq(CallRec) : r = <<>> /\ Calm(r) /\ ~Has("pass", r)
    BY NoCalls DEF Names
  <1>2. PICK x \in CallRec : x = StartPass /\ x.call = "pass"
    BY MadeFree
  <1>3. PICK y \in CallRec : y = drain /\ y.call = "drain"
    BY MadeFree
  <1>4. PICK e \in Seq(CallRec) : e = <<x>> \o r /\ Like(e, r) /\ ~Twice("pass", e)
    BY <1>1, <1>2, LikeStep
  <1>5. Calm(e)
    <2>1. Has("row", e) <=> Has("row", <<x>>) \/ Has("row", r)
      <3>1. PICK p \in Seq(CallRec) : p = <<x>>
        <4>1. <<x>> \in Seq(CallRec)
          OBVIOUS
        <4>2. QED
          BY <4>1
      <3>2. Has("row", p \o r) <=> Has("row", p) \/ Has("row", r)
        BY JoinedSets DEF Names
      <3>3. QED
        BY <1>4, <3>1, <3>2
    <2>2. Has("row", <<x>>) <=> x.call = "row"
      BY OneCall DEF Names
    <2>3. QED
      BY <1>1, <1>2, <1>4, <2>1, <2>2 DEF Calm
  <1>6. e = <<x>>
    BY <1>1, <1>4
  <1>7. <<y>> \o r \in Seq(CallRec) /\ Like(<<y>> \o r, r) /\ Calm(<<y>> \o r)
    BY <1>1, <1>3, LikeOne
  <1>8. <<y>> \o r = <<y>>
    BY <1>1
  <1>9. <<y>> \o e \in Seq(CallRec) /\ Like(<<y>> \o e, e) /\ Calm(<<y>> \o e)
    BY <1>3, <1>5, LikeOne
  <1>10. Like(<<y>> \o e, r)
    BY <1>4, <1>9 DEF Like
  <1>11. Like(r, r)
    BY LikeSelf
  <1>12. d \in {r, e, <<y>> \o r, <<y>> \o e}
    BY <1>1, <1>2, <1>3, <1>6, <1>8
  <1>13. \A z \in {r, e, <<y>> \o r, <<y>> \o e} : z \in Seq(CallRec) /\ Like(z, r) /\ Calm(z)
    BY <1>1, <1>4, <1>5, <1>7, <1>9, <1>10, <1>11
  <1>14. QED
    BY <1>1, <1>12, <1>13

(* The starts and the claims are as they were. *)
LEMMA Steady ==
    ASSUME NEW r \in Seq(CallRec), Ready(r), NEW d \in Seq(CallRec), Like(d, r),
           UNCHANGED <<claims, starts>>,
           TypedQueue', TypedFacts', TypedSeat', TypedRest', TypedHolds', Held', Asked', Seat(r)',
           \A w \in atWork' : Serves(w)' \/ Releases(d, w),
           \A t \in Loose(r) : <<"handoff", t>> \notin atWork'
    PROVE  Half(d)'
  <1>1. TypedClaims /\ Owned(r)
    BY DEF Ready, Types
  <1>2. TypedClaims'
    BY <1>1 DEF TypedClaims, starts
  <1>3. Owned(r)'
    <2>1. ParkedIds' = ParkedIds /\ Working(r)' = Working(r)
      BY DEF ParkedIds, Working, starts
    <2>2. QED
      BY <1>1, <2>1 DEF Owned, starts
  <1>4. QED
    BY <1>2, <1>3, HalfCloses

LEMMA Finish ==
    ASSUME NEW r \in Seq(CallRec), Ready(r), NEW d \in Seq(CallRec), calls' = d, Calm(d),
           Has("pass", d) => FreePasses # {}, UNCHANGED <<walk, merges>>, Half(d)'
    PROVE  IInv'
  <1>1. TypedWalk' /\ FreePasses' = FreePasses
    BY SameWalk DEF Ready, Types
  <1>2. Laps(d)'
    BY <1>1, CalmLaps
  <1>3. QED
    BY <1>1, <1>2, HalfSound

LEMMA AskStep ==
    ASSUME NEW c \in Seq(CallRec), calls = c, Sound(c), NEW r \in Starts, NEW closes \in BOOLEAN,
           Idle, Room, EnterRow(r), DecideAndClose(r, closes),
           UNCHANGED <<listed, missing, claims, consultation, paused, walk, starts, merges,
                       holds, atWork, lapsed>>
    PROVE  IInv'
  <1>1. PICK e \in Seq(CallRec) : e = <<>> /\ Ready(e) /\ Loose(e) = {}
    BY Rests
  <1>2. /\ Seat(e) /\ Asked /\ Held /\ TypedQueue /\ TypedFacts /\ TypedSeat /\ TypedRest
        /\ TypedHolds
        /\ \A w \in atWork : Serves(w)
    BY <1>1 DEF Ready, Types
  <1>3. r \in WaitingRow /\ r.id \in Tickets /\ r.id \notin Consultations /\ r.source \in Tickets
    BY DispatchAssumption DEF WaitingRow, TicketRow
  <1>4. /\ queue' = WQ!Enter(queue, WQ!EntryPlace(queue, r), r) /\ held' = held \cup {r.id}
        /\ raced' = raced \ {r.id} /\ waits' = Forget(r.id)
    BY DEF EnterRow
  <1>5. PICK place : place = WQ!EntryPlace(queue, r)
    OBVIOUS
  <1>6. TypedQueue' /\ \A x \in Ids : Stands(x)' => Stands(x) \/ x = r.id
    BY <1>2, <1>3, <1>4, <1>5, Enters
  <1>7. TypedRest' /\ Asked'
    BY <1>2, <1>3, <1>4, <1>6 DEF TypedRest, Asked, Ids
  <1>8. waits' \in [Ids -> {"none", "waits", "over"}]
    BY <1>2, <1>4, Forgets
  <1>9. TypedHolds' /\ Held'
    BY <1>2, <1>8 DEF TypedHolds, Held
  <1>10. ticket' = ticket \/ ticket' = [ticket EXCEPT ![r.source] = "open"]
    BY DEF DecideAndClose
  <1>11. TypedFacts'
    BY <1>2, <1>3, <1>4, <1>10 DEF TypedFacts, States
  <1>12. TypedSeat' /\ Seat(e)'
    <2>1. CASE UNCHANGED cleanups
      BY <1>2, <2>1 DEF TypedSeat, Seat, cleanups, starts
    <2>2. CASE QueueCleanup(NoOne)
      <3>1. /\ cleanupQueue' = Append(cleanupQueue, NoOne) /\ cleanupQueued' = TRUE
            /\ clearing' = clearing
        BY <2>2 DEF QueueCleanup
      <3>2. cleanupQueue' \in Seq(Tickets \cup {NoOne})
        BY <1>2, <3>1 DEF TypedSeat
      <3>3. QED
        BY <1>2, <3>1, <3>2 DEF TypedSeat, Seat, starts
    <2>3. QED
      BY <2>1, <2>2 DEF DecideAndClose
  <1>13. \A w \in atWork' : Serves(w)'
    BY <1>2 DEF Serves
  <1>14. PICK drain : drain = Call("drain", NoOne)
    OBVIOUS
  <1>15. calls' \in {<<>>, <<StartPass>>, <<drain>>, <<drain>> \o <<StartPass>>}
    <2>1. calls' = (IF r.origin = "workflow" /\ closes THEN <<drain>> ELSE <<>>)
                     \o (IF paused THEN <<>> ELSE <<StartPass>>)
      BY <1>14 DEF DecideAndClose, PassUnlessPaused
    <2>2. PICK x, y : x = drain /\ y = StartPass
      OBVIOUS
    <2>3. /\ <<>> \o <<>> = <<>> /\ <<x>> \o <<>> = <<x>> /\ <<>> \o <<y>> = <<y>>
      OBVIOUS
    <2>4. QED
      BY <2>1, <2>2, <2>3
  <1>16. PICK d \in Seq(CallRec) : calls' = d /\ Like(d, e) /\ Calm(d)
    BY <1>1, <1>14, <1>15, Askings
  <1>17. Half(d)'
    BY <1>1, <1>2, <1>6, <1>7, <1>9, <1>11, <1>12, <1>13, <1>16, Steady
  <1>18. QED
    BY <1>1, <1>16, <1>17, Roomy, Finish

LEMMA DispatchStep ==
    ASSUME NEW c \in Seq(CallRec), calls = c, Sound(c), NEW r \in Starts, Dispatch(r)
    PROVE  IInv'
  <1>1. PICK closes \in BOOLEAN : closes = ~r.automatic
    OBVIOUS
  <1>2. DecideAndClose(r, closes)
    BY <1>1 DEF Dispatch
  <1>3. QED
    BY <1>2, AskStep DEF Dispatch

LEMMA PlaneStep ==
    ASSUME NEW c \in Seq(CallRec), calls = c, Sound(c), NEW r \in Starts, DispatchPlaneAction(r)
    PROVE  IInv'
  <1>1. PICK closes \in BOOLEAN : closes = TRUE
    OBVIOUS
  <1>2. DecideAndClose(r, closes)
    BY <1>1 DEF DispatchPlaneAction
  <1>3. QED
    BY <1>2, AskStep DEF DispatchPlaneAction

LEMMA DrainOnly ==
    ASSUME NEW drain, drain = Call("drain", NoOne), NEW d, d = <<drain>>
    PROVE  ~Has("pass", d)
  <1>1. PICK x \in CallRec : x = drain /\ x.call = "drain"
    BY MadeFree
  <1>2. Has("pass", <<x>>) <=> x.call = "pass"
    BY OneCall DEF Names
  <1>3. QED
    BY <1>1, <1>2

(* A step that hands over calls and changes no more than the asks that are left. *)
LEMMA Handing ==
    ASSUME NEW e \in Seq(CallRec), Ready(e), NEW d \in Seq(CallRec), calls' = d, Like(d, e),
           Calm(d), Has("pass", d) => FreePasses # {},
           UNCHANGED <<queue, facts, claims, consultation, paused, walk, starts, cleanups,
                       merges, held, checkout>>
    PROVE  IInv'
  <1>1. /\ Seat(e) /\ Asked /\ Held /\ TypedQueue /\ TypedFacts /\ TypedSeat /\ TypedRest
        /\ TypedHolds
        /\ \A w \in atWork : Serves(w)
        /\ \A t \in Loose(e) : <<"handoff", t>> \notin atWork
    BY DEF Ready, Types
  <1>2. /\ TypedQueue' /\ TypedFacts' /\ TypedRest' /\ Asked' /\ TypedHolds' /\ Held'
        /\ TypedSeat' /\ Seat(e)'
    BY <1>1 DEF TypedQueue, TypedFacts, TypedRest, Asked, Stands, WQ!Holds, WQ!Positions,
       TypedHolds, Held, TypedSeat, Seat, facts, starts, cleanups, checkout
  <1>3. \A w \in atWork' : Serves(w)'
    BY <1>1 DEF Serves, checkout
  <1>4. \A t \in Loose(e) : <<"handoff", t>> \notin atWork'
    BY <1>1 DEF checkout
  <1>5. Half(d)'
    BY <1>2, <1>3, <1>4, Steady
  <1>6. QED
    BY <1>5, Finish

LEMMA ScheduleStep ==
    ASSUME NEW c \in Seq(CallRec), calls = c, Sound(c), NEW x \in Consultations,
           ScheduleConsultation(x)
    PROVE  IInv'
  <1>1. PICK e \in Seq(CallRec) : e = <<>> /\ Ready(e) /\ Loose(e) = {}
    BY Rests DEF ScheduleConsultation
  <1>2. /\ Seat(e) /\ Asked /\ Held /\ TypedQueue /\ TypedFacts /\ TypedSeat /\ TypedRest
        /\ TypedHolds
        /\ \A w \in atWork : Serves(w)
    BY <1>1 DEF Ready, Types
  <1>3. PICK r \in WaitingRow : r = ConsultationRow(x) /\ r.id = x
    <2>1. ConsultationRow(x) \in WaitingRow
      BY DEF WaitingRow
    <2>2. ConsultationRow(x).id = x
      BY DEF ConsultationRow
    <2>3. QED
      BY <2>1, <2>2
  <1>4. /\ consultation[x] = "idle" /\ consultation' = [consultation EXCEPT ![x] = "queued"]
        /\ queue' = WQ!Enter(queue, WQ!End(queue), r) /\ calls' = <<StartPass>>
        /\ UNCHANGED <<facts, claims, paused, walk, starts, cleanups, merges, held, checkout>>
    BY <1>3 DEF ScheduleConsultation
  <1>5. PICK place : place = WQ!End(queue)
    OBVIOUS
  <1>6. TypedQueue' /\ \A y \in Ids : Stands(y)' => Stands(y) \/ y = x
    BY <1>2, <1>3, <1>4, <1>5, Enters
  <1>7. \A y \in Consultations : consultation'[y] = IF y = x THEN "queued" ELSE consultation[y]
    BY <1>2, <1>4 DEF TypedRest
  <1>8. TypedRest' /\ Asked'
    BY <1>2, <1>4, <1>6, <1>7 DEF TypedRest, Asked, Ids
  <1>9. TypedHolds' /\ Held' /\ TypedFacts' /\ TypedSeat' /\ Seat(e)'
    BY <1>2, <1>4 DEF TypedHolds, Held, TypedFacts, TypedSeat, Seat, facts, checkout, starts,
       cleanups
  <1>10. \A w \in atWork' : Serves(w)'
    <2>1. \A w \in atWork : w[1] = "consultation" => w[2] \in Consultations
      BY <1>2 DEF TypedHolds, Takers
    <2>2. QED
      BY <1>2, <1>4, <1>7, <2>1 DEF Serves, checkout
  <1>11. PICK drain : drain = Call("drain", NoOne)
    OBVIOUS
  <1>12. PICK d \in Seq(CallRec) : calls' = d /\ Like(d, e) /\ Calm(d)
    BY <1>1, <1>4, <1>11, Askings
  <1>13. Half(d)'
    BY <1>1, <1>4, <1>6, <1>8, <1>9, <1>10, <1>12, Steady
  <1>14. Room
    BY DEF ScheduleConsultation
  <1>15. QED
    BY <1>1, <1>4, <1>12, <1>13, <1>14, Roomy, Finish

LEMMA OpenNowStep ==
    ASSUME NEW c \in Seq(CallRec), calls = c, Sound(c), NEW x \in Consultations, OpenNow(x)
    PROVE  IInv'
  <1>1. PICK e \in Seq(CallRec) :
          /\ e = <<>> /\ calls = e /\ Ready(e) /\ Loose(e) = {} /\ Calm(e) /\ ~Has("pass", e)
    BY Rests DEF OpenNow
  <1>2. /\ Seat(e) /\ Asked /\ Held /\ TypedQueue /\ TypedFacts /\ TypedSeat /\ TypedRest
        /\ TypedHolds
        /\ \A w \in atWork : Serves(w)
    BY <1>1 DEF Ready, Types
  <1>3. PICK r \in WaitingRow : r = ConsultationRow(x) /\ r.id = x
    <2>1. ConsultationRow(x) \in WaitingRow
      BY DEF WaitingRow
    <2>2. ConsultationRow(x).id = x
      BY DEF ConsultationRow
    <2>3. QED
      BY <2>1, <2>2
  <1>4. /\ consultation[x] = "idle" /\ consultation' = [consultation EXCEPT ![x] = "opening"]
        /\ ~Busy(r) /\ Cross(r)
        /\ UNCHANGED <<queue, facts, claims, paused, walk, starts, cleanups, merges, held, calls>>
    BY <1>3 DEF OpenNow
  <1>5. Kind(r) = "consultation"
    BY <1>3 DEF Kind
  <1>6. TypedHolds' /\ Held' /\ atWork' = atWork \cup {<<"consultation", x>>}
    BY <1>2, <1>3, <1>4, <1>5, CrossIs
  <1>7. \A y \in Consultations : consultation'[y] = IF y = x THEN "opening" ELSE consultation[y]
    BY <1>2, <1>4 DEF TypedRest
  <1>8. TypedQueue' /\ TypedRest' /\ Asked'
    BY <1>2, <1>4, <1>7 DEF TypedQueue, TypedRest, Asked, Stands, WQ!Holds, WQ!Positions
  <1>9. TypedFacts' /\ TypedSeat' /\ Seat(e)'
    BY <1>2, <1>4 DEF TypedFacts, TypedSeat, Seat, facts, starts, cleanups
  <1>10. \A w \in atWork' : Serves(w)'
    <2>1. \A w \in atWork : w[1] = "consultation" => w[2] \in Consultations
      BY <1>2 DEF TypedHolds, Takers
    <2>2. \A w \in atWork : Serves(w)'
      BY <1>2, <1>4, <1>7, <2>1 DEF Serves
    <2>3. QED
      BY <1>6, <1>7, <2>2 DEF Serves
  <1>11. Half(e)'
    BY <1>1, <1>4, <1>6, <1>8, <1>9, <1>10, LikeSelf, Steady
  <1>12. QED
    BY <1>1, <1>4, <1>11, Finish

LEMMA ForceStep ==
    ASSUME NEW c \in Seq(CallRec), calls = c, Sound(c), NEW id \in Ids, ForceDispatch(id)
    PROVE  IInv'
  <1>1. PICK e \in Seq(CallRec) : /\ e = <<>> /\ Ready(e) /\ ~Has("pass", e) /\ Calm(e)
    BY Rests DEF ForceDispatch
  <1>2. TypedQueue /\ TypedWalk
    BY <1>1 DEF Ready, Types
  <1>3. PICK r \in WaitingRow : r = RowOf(id)
    BY <1>2, Rowed DEF ForceDispatch
  <1>4. UNCHANGED <<facts, paused, walk, cleanups, held>>
    BY DEF ForceDispatch
  <1>5. ASSUME \E d \in Seq(CallRec) : /\ calls' = d /\ Half(d)' /\ Calm(d)
                                       /\ Has("pass", d) => Has("pass", e),
               TypedWalk', FreePasses' = FreePasses
        PROVE  IInv'
    <2>1. PICK d \in Seq(CallRec) : /\ calls' = d /\ Half(d)' /\ Calm(d)
                                    /\ Has("pass", d) => Has("pass", e)
      BY <1>5
    <2>2. QED
      BY <1>1, <1>5, <2>1, Closing
  <1>6. CASE /\ Kind(r) = "merge" /\ ClaimMerge(r, e)
             /\ UNCHANGED <<queue, claims, consultation, starts>>
    <2>1. /\ \E d \in Seq(CallRec) : /\ calls' = d /\ Half(d)' /\ Calm(d)
                                     /\ Has("pass", d) => Has("pass", e)
          /\ merges' \in [Tickets -> {"none", "runs", "refused"}]
          /\ \A t \in Tickets : merges[t] # "none" => merges'[t] # "none"
      BY <1>1, <1>4, <1>6, ClaimsMerge
    <2>2. TypedWalk' /\ FreePasses' = FreePasses
      BY <1>2, <1>4, <2>1 DEF TypedWalk, FreePasses, walk
    <2>3. QED
      BY <1>5, <2>1, <2>2
  <1>7. CASE /\ Kind(r) = "consultation" /\ ClaimConsultation(r, e)
             /\ UNCHANGED <<claims, starts, merges>>
    <2>1. calls' = e /\ Half(e)'
      BY <1>1, <1>4, <1>7, ClaimsConsultation
    <2>2. TypedWalk' /\ FreePasses' = FreePasses
      BY <1>2, <1>4, <1>7, SameWalk
    <2>3. QED
      BY <1>1, <2>1, <2>2, Closing
  <1>8. CASE /\ Kind(r) = "handoff" /\ ClaimHandoff(r, e)
             /\ UNCHANGED <<queue, consultation, merges>>
    <2>1. \E d \in Seq(CallRec) : /\ calls' = d /\ Half(d)' /\ Calm(d)
                                  /\ Has("pass", d) => Has("pass", e)
      BY <1>1, <1>4, <1>8, ClaimsHandoff
    <2>2. TypedWalk' /\ FreePasses' = FreePasses
      BY <1>2, <1>4, <1>8, SameWalk
    <2>3. QED
      BY <1>5, <2>1, <2>2
  <1>9. QED
    BY <1>1, <1>3, <1>6, <1>7, <1>8 DEF ForceDispatch

LEMMA RemoveItemStep ==
    ASSUME NEW c \in Seq(CallRec), calls = c, Sound(c), NEW t \in Tickets, RemoveQueueItem(t)
    PROVE  IInv'
  <1>1. PICK e \in Seq(CallRec) :
          /\ e = <<>> /\ Ready(e) /\ Loose(e) = {} /\ Calm(e) /\ ~Has("pass", e)
    BY Rests DEF RemoveQueueItem
  <1>2. /\ calls' = <<Call("remove", t), Call("cancelled", t)>>
        /\ UNCHANGED <<queue, facts, claims, consultation, paused, walk, starts, cleanups,
                       merges, held, checkout>>
    BY DEF RemoveQueueItem
  <1>3. PICK x \in CallRec, y \in CallRec :
          /\ x = Call("remove", t) /\ y = Call("cancelled", t)
          /\ x.call = "remove" /\ y.call = "cancelled"
    <2>1. FALSE \in BOOLEAN
      OBVIOUS
    <2>2. Call("remove", t) \in CallRec /\ Call("cancelled", t) \in CallRec
      BY <2>1, Made
    <2>3. QED
      BY <2>2 DEF Call
  <1>4. PICK p \in Seq(CallRec) : p = <<x, y>> /\ Quiet(p)
    <2>1. <<x, y>> \in Seq(CallRec) /\ Quiet(<<x, y>>)
      BY <1>3 DEF Quiet
    <2>2. QED
      BY <2>1
  <1>5. /\ Like(p \o e, e) /\ Calm(p \o e)
        /\ Has("pass", p \o e) <=> Has("pass", e)
    BY <1>1, <1>4, LikeQuiet
  <1>6. Like(p, e) /\ Calm(p) /\ ~Has("pass", p)
    <2>1. p \o e = p
      BY <1>1
    <2>2. QED
      BY <1>1, <1>5, <2>1
  <1>7. calls' = p
    BY <1>2, <1>3, <1>4
  <1>8. QED
    BY <1>1, <1>2, <1>6, <1>7, Handing

LEMMA RemoveConsultationStep ==
    ASSUME NEW c \in Seq(CallRec), calls = c, Sound(c), NEW x \in Consultations,
           RemoveConsultationQueueItem(x)
    PROVE  IInv'
  <1>1. PICK e \in Seq(CallRec) :
          /\ e = <<>> /\ calls = e /\ Ready(e) /\ Loose(e) = {} /\ Calm(e) /\ ~Has("pass", e)
    BY Rests DEF RemoveConsultationQueueItem
  <1>2. /\ Seat(e) /\ Asked /\ Held /\ TypedQueue /\ TypedFacts /\ TypedSeat /\ TypedRest
        /\ TypedHolds
        /\ \A w \in atWork : Serves(w)
    BY <1>1 DEF Ready, Types
  <1>3. /\ queue' = Without(queue, x) /\ waits' = Forget(x) /\ Stands(x)
        /\ consultation' = [consultation EXCEPT ![x] = "idle"]
        /\ UNCHANGED <<facts, claims, paused, walk, starts, cleanups, merges, held,
                       holds, atWork, lapsed, calls>>
    BY DEF RemoveConsultationQueueItem
  <1>4. TypedQueue' /\ \A y \in Ids : Stands(y)' => Stands(y) /\ y # x
    BY <1>2, <1>3, LeavesOne
  <1>5. consultation[x] = "queued"
    BY <1>2, <1>3 DEF Asked
  <1>6. \A y \in Consultations : consultation'[y] = IF y = x THEN "idle" ELSE consultation[y]
    BY <1>2, <1>3 DEF TypedRest
  <1>7. TypedRest' /\ Asked'
    BY <1>2, <1>3, <1>4, <1>6 DEF TypedRest, Asked, Ids
  <1>8. waits' \in [Ids -> {"none", "waits", "over"}]
    BY <1>2, <1>3, Forgets
  <1>9. TypedHolds' /\ Held' /\ TypedFacts' /\ TypedSeat' /\ Seat(e)'
    BY <1>2, <1>3, <1>8 DEF TypedHolds, Held, TypedFacts, TypedSeat, Seat, facts, starts, cleanups
  <1>10. \A w \in atWork' : Serves(w)'
    <2>1. \A w \in atWork : w[1] = "consultation" => w[2] \in Consultations
      BY <1>2 DEF TypedHolds, Takers
    <2>2. QED
      BY <1>2, <1>3, <1>5, <1>6, <2>1 DEF Serves
  <1>11. Half(e)'
    BY <1>1, <1>3, <1>4, <1>7, <1>9, <1>10, LikeSelf, Steady
  <1>12. QED
    BY <1>1, <1>3, <1>11, Finish

LEMMA MutedStep ==
    ASSUME NEW c \in Seq(CallRec), calls = c, Sound(c), NEW t \in Tickets, SetSourceMuted(t)
    PROVE  IInv'
  <1>1. PICK e \in Seq(CallRec) :
          /\ e = <<>> /\ calls = e /\ Ready(e) /\ Loose(e) = {} /\ Calm(e) /\ ~Has("pass", e)
    BY Rests DEF SetSourceMuted
  <1>2. /\ Seat(e) /\ Asked /\ Held /\ TypedQueue /\ TypedFacts /\ TypedSeat /\ TypedRest
        /\ TypedHolds
        /\ \A w \in atWork : Serves(w)
    BY <1>1 DEF Ready, Types
  <1>3. /\ queue' = Without(queue, t)
        /\ UNCHANGED <<facts, claims, consultation, paused, walk, starts, cleanups, merges,
                       held, checkout, calls>>
    BY DEF SetSourceMuted
  <1>4. TypedQueue' /\ \A y \in Ids : Stands(y)' => Stands(y) /\ y # t
    BY <1>2, <1>3, LeavesOne
  <1>5. /\ TypedRest' /\ Asked' /\ TypedHolds' /\ Held' /\ TypedFacts' /\ TypedSeat' /\ Seat(e)'
    BY <1>2, <1>3, <1>4 DEF TypedRest, Asked, TypedHolds, Held, TypedFacts, TypedSeat, Seat,
       facts, starts, cleanups, checkout, Ids
  <1>6. \A w \in atWork' : Serves(w)'
    BY <1>2, <1>3 DEF Serves, checkout
  <1>7. Half(e)'
    BY <1>1, <1>3, <1>4, <1>5, <1>6, LikeSelf, Steady
  <1>8. QED
    BY <1>1, <1>3, <1>7, Finish

LEMMA DecidedStep ==
    ASSUME NEW c \in Seq(CallRec), calls = c, Sound(c), NEW t \in Tickets, CloseDecidedCycle(t)
    PROVE  IInv'
  <1>1. PICK e \in Seq(CallRec) :
          /\ e = <<>> /\ Ready(e) /\ Loose(e) = {} /\ ~Has("pass", e)
    BY Rests DEF CloseDecidedCycle
  <1>2. /\ Seat(e) /\ Asked /\ Held /\ TypedQueue /\ TypedFacts /\ TypedSeat /\ TypedRest
        /\ TypedHolds
        /\ \A w \in atWork : Serves(w)
    BY <1>1 DEF Ready, Types
  <1>3. /\ ticket' = [ticket EXCEPT ![t] = "open"]
        /\ cleanupQueued' = TRUE /\ cleanupQueue' = Append(cleanupQueue, NoOne)
        /\ clearing' = clearing /\ calls' = <<Call("drain", NoOne)>>
        /\ UNCHANGED <<listed, raced, missing, claims, consultation, paused, walk, starts,
                       merges, held, checkout>>
    BY DEF CloseDecidedCycle, QueueCleanup
  <1>4. PICK S \in SUBSET WQ!Positions(queue) : queue' = WQ!TakeOut(queue, S)
    <2>1. RouteRows(t) \in SUBSET WQ!Positions(queue) /\ queue' = WQ!TakeOut(queue, RouteRows(t))
      BY DEF CloseDecidedCycle, RouteRows
    <2>2. QED
      BY <2>1
  <1>5. /\ TypedQueue'
        /\ \A x \in Ids : Stands(x)' => \E p \in WQ!Positions(queue) \ S : queue[p].id = x
    BY <1>2, <1>4, Leaves
  <1>6. \A x \in Ids : Stands(x)' => Stands(x)
    BY <1>5 DEF Stands, WQ!Holds
  <1>7. cleanupQueue' \in Seq(Tickets \cup {NoOne})
    BY <1>2, <1>3 DEF TypedSeat
  <1>8. /\ TypedRest' /\ Asked' /\ TypedHolds' /\ Held' /\ TypedSeat' /\ Seat(e)'
    BY <1>2, <1>3, <1>6, <1>7 DEF TypedRest, Asked, TypedHolds, Held, TypedSeat, Seat,
       starts, checkout, Ids
  <1>9. TypedFacts'
    BY <1>2, <1>3 DEF TypedFacts, States
  <1>10. \A w \in atWork' : Serves(w)'
    BY <1>2, <1>3 DEF Serves, checkout
  <1>11. PICK drain : drain = Call("drain", NoOne)
    OBVIOUS
  <1>12. PICK d \in Seq(CallRec) : calls' = d /\ Like(d, e) /\ Calm(d) /\ d = <<drain>>
    BY <1>1, <1>3, <1>11, Askings
  <1>13. Half(d)'
    BY <1>1, <1>3, <1>5, <1>8, <1>9, <1>10, <1>12, Steady
  <1>14. ~Has("pass", d)
    BY <1>11, <1>12, DrainOnly
  <1>15. QED
    BY <1>1, <1>3, <1>12, <1>13, <1>14, Finish

LEMMA CloseStep ==
    ASSUME NEW c \in Seq(CallRec), calls = c, Sound(c), NEW t \in Tickets, CloseWorkCycle(t)
    PROVE  IInv'
  <1>1. PICK e \in Seq(CallRec) :
          /\ e = <<>> /\ Ready(e) /\ Loose(e) = {} /\ ~Has("pass", e)
    BY Rests DEF CloseWorkCycle
  <1>2. /\ Seat(e) /\ Asked /\ Held /\ TypedQueue /\ TypedFacts /\ TypedSeat /\ TypedRest
        /\ TypedHolds
        /\ \A w \in atWork : Serves(w)
    BY <1>1 DEF Ready, Types
  <1>3. /\ cleanupQueued' = TRUE /\ cleanupQueue' = Append(cleanupQueue, t)
        /\ clearing' = clearing /\ calls' = <<Call("drain", NoOne)>>
        /\ UNCHANGED <<queue, facts, claims, consultation, paused, walk, starts,
                       merges, held, checkout>>
    BY DEF CloseWorkCycle, QueueCleanup
  <1>4. cleanupQueue' \in Seq(Tickets \cup {NoOne})
    BY <1>2, <1>3 DEF TypedSeat
  <1>5. TypedSeat' /\ Seat(e)'
    BY <1>2, <1>3, <1>4 DEF TypedSeat, Seat, starts
  <1>6. TypedQueue' /\ TypedFacts' /\ TypedRest' /\ Asked' /\ TypedHolds' /\ Held'
    BY <1>2, <1>3 DEF TypedQueue, TypedFacts, TypedRest, Asked, Stands, WQ!Holds, WQ!Positions,
       TypedHolds, Held, facts, checkout
  <1>7. \A w \in atWork' : Serves(w)'
    BY <1>2, <1>3 DEF Serves, checkout
  <1>8. PICK drain : drain = Call("drain", NoOne)
    OBVIOUS
  <1>9. PICK d \in Seq(CallRec) : calls' = d /\ Like(d, e) /\ Calm(d) /\ d = <<drain>>
    BY <1>1, <1>3, <1>8, Askings
  <1>10. Half(d)'
    BY <1>1, <1>3, <1>5, <1>6, <1>7, <1>9, Steady
  <1>11. ~Has("pass", d)
    BY <1>8, <1>9, DrainOnly
  <1>12. QED
    BY <1>1, <1>3, <1>9, <1>10, <1>11, Finish

LEMMA PauseStep ==
    ASSUME NEW c \in Seq(CallRec), calls = c, Sound(c), SetQueuePaused \/ PickupWorkQueue
    PROVE  IInv'
  <1>1. PICK e \in Seq(CallRec) : e = <<>> /\ Ready(e) /\ Loose(e) = {}
    BY Rests DEF SetQueuePaused, PickupWorkQueue
  <1>2. /\ Seat(e) /\ Asked /\ Held /\ TypedQueue /\ TypedFacts /\ TypedSeat /\ TypedRest
        /\ TypedHolds
        /\ \A w \in atWork : Serves(w)
    BY <1>1 DEF Ready, Types
  <1>3. /\ paused' \in BOOLEAN /\ Room /\ calls' \in {<<>>, <<StartPass>>}
        /\ UNCHANGED <<queue, facts, claims, consultation, walk, starts, cleanups, merges,
                       held, checkout>>
    BY <1>2 DEF SetQueuePaused, PickupWorkQueue, TypedRest
  <1>4. /\ TypedQueue' /\ TypedFacts' /\ TypedRest' /\ Asked' /\ TypedHolds' /\ Held'
        /\ TypedSeat' /\ Seat(e)'
    BY <1>2, <1>3 DEF TypedQueue, TypedFacts, TypedRest, Asked, Stands, WQ!Holds, WQ!Positions,
       TypedHolds, Held, TypedSeat, Seat, facts, starts, cleanups, checkout
  <1>5. \A w \in atWork' : Serves(w)'
    BY <1>2, <1>3 DEF Serves, checkout
  <1>6. PICK drain : drain = Call("drain", NoOne)
    OBVIOUS
  <1>7. PICK d \in Seq(CallRec) : calls' = d /\ Like(d, e) /\ Calm(d)
    BY <1>1, <1>3, <1>6, Askings
  <1>8. Half(d)'
    BY <1>1, <1>3, <1>4, <1>5, <1>7, Steady
  <1>9. QED
    BY <1>1, <1>3, <1>7, <1>8, Roomy, Finish

--------------------------------------------------------------------------------
(* The answers of the commands, when no handler runs. *)

(* Three runs of calls in a row, call by call. *)
LEMMA Strung ==
    ASSUME NEW i \in Seq(CallRec), NEW k \in Seq(CallRec), NEW o \in Seq(CallRec)
    PROVE  /\ (i \o k) \o o \in Seq(CallRec)
           /\ Len((i \o k) \o o) = Len(i) + Len(k) + Len(o)
           /\ \A n \in 1..Len(i) : ((i \o k) \o o)[n] = i[n]
           /\ \A n \in 1..Len(k) : ((i \o k) \o o)[Len(i) + n] = k[n]
           /\ \A n \in 1..Len(o) : ((i \o k) \o o)[Len(i) + Len(k) + n] = o[n]
  <1>1. PICK j \in Seq(CallRec) : j = i \o k
    BY Joined
  <1>2. /\ Len(j) = Len(i) + Len(k) /\ Len(i) \in Nat /\ Len(k) \in Nat
        /\ \A n \in 1..Len(i) : j[n] = i[n]
        /\ \A n \in 1..Len(k) : j[Len(i) + n] = k[n]
    BY <1>1, Joined
  <1>3. /\ j \o o \in Seq(CallRec) /\ Len(j \o o) = Len(j) + Len(o)
        /\ \A n \in 1..Len(j) : (j \o o)[n] = j[n]
        /\ \A n \in 1..Len(o) : (j \o o)[Len(j) + n] = o[n]
    BY Joined
  <1>4. /\ \A n \in 1..Len(i) : n \in 1..Len(j)
        /\ \A n \in 1..Len(k) : Len(i) + n \in 1..Len(j)
    BY <1>2
  <1>5. QED
    BY <1>1, <1>2, <1>3, <1>4

(* A start that ended: its answer, its row, the seat, the queue. *)
LEMMA Reports ==
    ASSUME NEW a \in CallRec, NEW m \in CallRec, NEW s \in CallRec, NEW p \in CallRec,
           a.call = "answer", m.call = "remove", s.call = "seatfree", p.call = "pass",
           NEW d \in Seq(CallRec),
           \/ Len(d) = 3 /\ d[1] = a /\ d[2] = s /\ d[3] = p
           \/ Len(d) = 4 /\ d[1] = a /\ d[2] = m /\ d[3] = s /\ d[4] = p
    PROVE  /\ Calm(d) /\ Loose(d) = {}
           /\ IdsOf("settle", d) = {} /\ Unique("settle", d)
           /\ IdsOf("seatfree", d) = {s.id} /\ Unique("seatfree", d)
  <1>1. /\ Where("settle", d) = {} /\ Where("row", d) = {}
        /\ \E k \in 1..Len(d) : Where("seatfree", d) = {k} /\ d[k] = s
        /\ \E k \in 1..Len(d) : Where("pass", d) = {k}
    <2>1. CASE Len(d) = 3 /\ d[1] = a /\ d[2] = s /\ d[3] = p
      <3>1. /\ Where("settle", d) = {} /\ Where("row", d) = {}
            /\ Where("seatfree", d) = {2} /\ Where("pass", d) = {3}
        BY <2>1 DEF Where
      <3>2. QED
        BY <2>1, <3>1
    <2>2. CASE Len(d) = 4 /\ d[1] = a /\ d[2] = m /\ d[3] = s /\ d[4] = p
      <3>1. /\ Where("settle", d) = {} /\ Where("row", d) = {}
            /\ Where("seatfree", d) = {3} /\ Where("pass", d) = {4}
        BY <2>2 DEF Where
      <3>2. QED
        BY <2>2, <3>1
    <2>3. QED
      BY <2>1, <2>2
  <1>2. QED
    BY <1>1 DEF Calm, Loose, IdsOf, Unique, Has, Twice

(* A start that threw: the attempt and its checkout first. *)
LEMMA Throws ==
    ASSUME NEW x \in CallRec, NEW y \in CallRec, NEW a \in CallRec, NEW m \in CallRec,
           NEW s \in CallRec, x.call = "settle", y = Release("handoff", x.id),
           a.call = "answer", m.call = "remove", s.call = "seatfree",
           NEW d \in Seq(CallRec), d[1] = x /\ d[2] = y /\ d[3] = a,
           \/ Len(d) = 4 /\ d[4] = s
           \/ Len(d) = 5 /\ d[4] = m /\ d[5] = s
    PROVE  /\ Calm(d) /\ Loose(d) = {} /\ ~Has("pass", d)
           /\ IdsOf("settle", d) = {x.id} /\ Unique("settle", d)
           /\ IdsOf("seatfree", d) = {s.id} /\ Unique("seatfree", d)
  <1>1. y.call = "release"
    BY DEF Release, Call
  <1>2. /\ 1 < Len(d)
        /\ Where("settle", d) = {1} /\ Where("row", d) = {} /\ Where("pass", d) = {}
        /\ \E k \in 1..Len(d) : Where("seatfree", d) = {k} /\ d[k] = s
    <2>1. CASE Len(d) = 4 /\ d[4] = s
      <3>1. /\ Where("settle", d) = {1} /\ Where("row", d) = {}
            /\ Where("seatfree", d) = {4} /\ Where("pass", d) = {}
        BY <1>1, <2>1 DEF Where
      <3>2. QED
        BY <2>1, <3>1
    <2>2. CASE Len(d) = 5 /\ d[4] = m /\ d[5] = s
      <3>1. /\ Where("settle", d) = {1} /\ Where("row", d) = {}
            /\ Where("seatfree", d) = {5} /\ Where("pass", d) = {}
        BY <1>1, <2>2 DEF Where
      <3>2. QED
        BY <2>2, <3>1
    <2>3. QED
      BY <2>1, <2>2
  <1>3. Loose(d) = {}
    <2>1. Beside(d, 1)
      BY <1>2 DEF Beside
    <2>2. QED
      BY <1>2, <2>1 DEF Loose
  <1>4. QED
    BY <1>2, <1>3 DEF Calm, IdsOf, Unique, Has, Twice

(* A start's end hands its claim to the settle that follows. *)
LEMMA Answered ==
    ASSUME NEW e \in Seq(CallRec), e = <<>>, Ready(e), NEW d \in Seq(CallRec), calls' = d,
           Calm(d), Has("pass", d) => FreePasses # {}, Loose(d) = {},
           Unique("settle", d), Unique("seatfree", d),
           UNCHANGED <<queue, facts, claims, consultation, paused, walk, inFlight, parked,
                       cleanups, merges, held, checkout>>,
           runs' \in [Tickets -> {"none", "works", "failed", "live"}],
           \A u \in Tickets : runs'[u] = "none" <=> runs[u] = "none",
           \A u \in IdsOf("seatfree", d) : runs[u] # "none",
           Working(e) = Working(d)' \cup IdsOf("settle", d),
           Working(d)' \cap IdsOf("settle", d) = {}
    PROVE  IInv'
  <1>1. /\ Seat(e) /\ Owned(e) /\ Asked /\ Held /\ TypedQueue /\ TypedFacts /\ TypedClaims
        /\ TypedSeat /\ TypedWalk /\ TypedRest /\ TypedHolds
        /\ \A w \in atWork : Serves(w)
    BY DEF Ready, Types
  <1>2. /\ TypedQueue' /\ TypedFacts' /\ TypedRest' /\ Asked' /\ TypedHolds' /\ Held'
        /\ TypedClaims' /\ TypedSeat'
    BY <1>1 DEF TypedQueue, TypedFacts, TypedRest, Asked, Stands, WQ!Holds, WQ!Positions,
       TypedHolds, Held, TypedClaims, TypedSeat, facts, cleanups, checkout
  <1>3. TypedWalk' /\ FreePasses' = FreePasses
    BY <1>1, SameWalk
  <1>4. IdsOf("seatfree", d) \subseteq Tickets
    BY OfTickets
  <1>5. Seat(d)'
    BY <1>1, <1>4 DEF Seat, cleanups
  <1>6. Owned(d)'
    <2>1. ParkedIds' = ParkedIds
      BY DEF ParkedIds
    <2>2. IdsOf("settle", e) = {}
      BY NoCalls DEF Names
    <2>3. QED
      BY <1>1, <2>1, <2>2 DEF Owned
  <1>7. Served(d)'
    BY <1>1 DEF Served, Serves, checkout
  <1>8. Half(d)'
    BY <1>2, <1>5, <1>6, <1>7 DEF Half
  <1>9. Laps(d)'
    BY <1>3, CalmLaps
  <1>10. QED
    BY <1>3, <1>8, <1>9, HalfSound

LEMMA StartEndsStep ==
    ASSUME NEW c \in Seq(CallRec), calls = c, Sound(c), NEW t \in Tickets, NEW ok \in BOOLEAN,
           StartEnds(t, ok)
    PROVE  IInv'
  <1>1. PICK e \in Seq(CallRec) : e = <<>> /\ Ready(e) /\ Calm(e) /\ ~Has("pass", e)
    BY Rests DEF StartEnds
  <1>2. Seat(e) /\ TypedClaims
    BY <1>1 DEF Ready, Types
  <1>3. /\ runs[t] = "works" /\ calls' = <<Release("handoff", t), Settle(t, ok)>>
        /\ runs' = [runs EXCEPT ![t] = IF ok THEN "live" ELSE "failed"]
        /\ UNCHANGED <<queue, facts, claims, consultation, paused, walk, inFlight, parked,
                       cleanups, merges, held, checkout>>
    BY DEF StartEnds, End
  <1>4. PICK x \in CallRec, y \in CallRec :
          /\ x = Settle(t, ok) /\ y = Release("handoff", t) /\ x.call = "settle" /\ x.id = t
    <2>1. Settle(t, ok) \in CallRec /\ Settle(t, ok).call = "settle" /\ Settle(t, ok).id = t
      BY Made
    <2>2. Release("handoff", t) \in CallRec
      BY MadeRelease DEF Sides, Ids
    <2>3. QED
      BY <2>1, <2>2
  <1>5. PICK p \in {<<x, y>>, <<y, x>>} : p = <<y, x>>
    OBVIOUS
  <1>6. PICK o : o = p \o e
    OBVIOUS
  <1>7. PICK d \in Seq(CallRec) : d = o /\ Owes(d, e, t)
    <2>1. o \in Seq(CallRec) /\ Owes(o, e, x.id)
      BY <1>4, <1>5, <1>6, SettleFirst
    <2>2. QED
      BY <1>4, <2>1
  <1>8. calls' = d
    <2>1. <<y, x>> \o <<>> = <<y, x>>
      OBVIOUS
    <2>2. QED
      BY <1>1, <1>3, <1>4, <1>5, <1>6, <1>7, <2>1
  <1>9. /\ IdsOf("settle", e) = {} /\ IdsOf("seatfree", e) = {} /\ Loose(e) = {}
        /\ Unique("settle", e) /\ Unique("seatfree", e)
    BY <1>1, NoCalls DEF Names
  <1>10. /\ IdsOf("settle", d) = {t} /\ IdsOf("seatfree", d) = {} /\ Loose(d) = {}
         /\ Unique("settle", d) /\ Unique("seatfree", d) /\ Calm(d) /\ ~Has("pass", d)
    BY <1>1, <1>7, <1>9 DEF Owes
  <1>11. \A u \in Tickets :
           runs'[u] = IF u = t THEN (IF ok THEN "live" ELSE "failed") ELSE runs[u]
    BY <1>2, <1>3 DEF TypedClaims
  <1>12. runs' \in [Tickets -> {"none", "works", "failed", "live"}]
    BY <1>2, <1>3 DEF TypedClaims
  <1>13. Working(e) = Working(d)' \cup {t} /\ t \notin Working(d)'
    BY <1>3, <1>9, <1>10, <1>11 DEF Working
  <1>14. \A u \in Tickets : runs'[u] = "none" <=> runs[u] = "none"
    BY <1>3, <1>11
  <1>15. /\ \A u \in IdsOf("seatfree", d) : runs[u] # "none"
         /\ Working(e) = Working(d)' \cup IdsOf("settle", d)
         /\ Working(d)' \cap IdsOf("settle", d) = {}
    BY <1>10, <1>13
  <1>16. QED
    BY <1>1, <1>3, <1>8, <1>10, <1>12, <1>14, <1>15, Answered

LEMMA ReportedStep ==
    ASSUME NEW c \in Seq(CallRec), calls = c, Sound(c), NEW t \in Tickets, StartReported(t)
    PROVE  IInv'
  <1>1. PICK e \in Seq(CallRec) : e = <<>> /\ Ready(e)
    BY Rests DEF StartReported
  <1>2. Seat(e) /\ TypedClaims
    BY <1>1 DEF Ready, Types
  <1>3. /\ runs[t] \in {"live", "failed"} /\ Room
        /\ calls' = <<Call("answer", t)>> \o (IF Stands(t) THEN <<Call("remove", t)>> ELSE <<>>)
                    \o <<Call("seatfree", t), StartPass>>
        /\ UNCHANGED <<queue, facts, claims, consultation, paused, walk, starts, cleanups,
                       merges, held, checkout>>
    BY DEF StartReported
  <1>4. PICK a \in CallRec, m \in CallRec, s \in CallRec, p \in CallRec :
          /\ a = Call("answer", t) /\ m = Call("remove", t) /\ s = Call("seatfree", t)
          /\ p = StartPass /\ s.id = t
          /\ a.call = "answer" /\ m.call = "remove" /\ s.call = "seatfree" /\ p.call = "pass"
    <2>1. FALSE \in BOOLEAN
      OBVIOUS
    <2>2. /\ Call("answer", t) \in CallRec /\ Call("remove", t) \in CallRec
          /\ Call("seatfree", t) \in CallRec
      BY <2>1, Made
    <2>3. /\ Call("answer", t).call = "answer" /\ Call("remove", t).call = "remove"
          /\ Call("seatfree", t).call = "seatfree" /\ Call("seatfree", t).id = t
      BY DEF Call
    <2>4. QED
      BY <2>2, <2>3, MadeFree
  <1>5. PICK d \in Seq(CallRec) :
          /\ calls' = d
          /\ \/ Len(d) = 3 /\ d[1] = a /\ d[2] = s /\ d[3] = p
             \/ Len(d) = 4 /\ d[1] = a /\ d[2] = m /\ d[3] = s /\ d[4] = p
    <2>1. <<a>> \in Seq(CallRec) /\ <<m>> \in Seq(CallRec) /\ <<>> \in Seq(CallRec)
          /\ <<s, p>> \in Seq(CallRec)
      OBVIOUS
    <2>2. PICK i \in Seq(CallRec), k \in Seq(CallRec), o \in Seq(CallRec) :
            i = <<a>> /\ k = (IF Stands(t) THEN <<m>> ELSE <<>>) /\ o = <<s, p>>
      BY <2>1
    <2>3. /\ Len(i) = 1 /\ i[1] = a /\ Len(o) = 2 /\ o[1] = s /\ o[2] = p
          /\ Len(k) = 0 \/ (Len(k) = 1 /\ k[1] = m)
      BY <2>2
    <2>4. calls' = (i \o k) \o o
      BY <1>3, <1>4, <2>2
    <2>5. PICK d \in Seq(CallRec) :
            /\ d = (i \o k) \o o /\ Len(d) = Len(i) + Len(k) + Len(o)
            /\ \A n \in 1..Len(i) : d[n] = i[n]
            /\ \A n \in 1..Len(k) : d[Len(i) + n] = k[n]
            /\ \A n \in 1..Len(o) : d[Len(i) + Len(k) + n] = o[n]
      <3>0. i \in Seq(CallRec) /\ k \in Seq(CallRec) /\ o \in Seq(CallRec)
        OBVIOUS
      <3>1. /\ (i \o k) \o o \in Seq(CallRec)
            /\ Len((i \o k) \o o) = Len(i) + Len(k) + Len(o)
            /\ \A n \in 1..Len(i) : ((i \o k) \o o)[n] = i[n]
            /\ \A n \in 1..Len(k) : ((i \o k) \o o)[Len(i) + n] = k[n]
            /\ \A n \in 1..Len(o) : ((i \o k) \o o)[Len(i) + Len(k) + n] = o[n]
        BY ONLY <3>0, Strung, Zenon
      <3>2. QED
        BY ONLY <3>1, Zenon
    <2>6. CASE Len(k) = 0
      <3>1. Len(d) = 3 /\ d[1] = a /\ d[2] = s /\ d[3] = p
        <4>1. 1 \in 1..Len(i) /\ 1 \in 1..Len(o) /\ 2 \in 1..Len(o)
          BY <2>3
        <4>2. d[1] = i[1] /\ d[Len(i) + Len(k) + 1] = o[1] /\ d[Len(i) + Len(k) + 2] = o[2]
          BY <2>5, <4>1
        <4>3. QED
          BY <2>3, <2>5, <2>6, <4>2
      <3>2. QED
        BY <2>4, <2>5, <3>1
    <2>7. CASE Len(k) = 1 /\ k[1] = m
      <3>1. Len(d) = 4 /\ d[1] = a /\ d[2] = m /\ d[3] = s /\ d[4] = p
        <4>1. 1 \in 1..Len(i) /\ 1 \in 1..Len(k) /\ 1 \in 1..Len(o) /\ 2 \in 1..Len(o)
          BY <2>3, <2>7
        <4>2. /\ d[1] = i[1] /\ d[Len(i) + 1] = k[1]
              /\ d[Len(i) + Len(k) + 1] = o[1] /\ d[Len(i) + Len(k) + 2] = o[2]
          BY <2>5, <4>1
        <4>3. QED
          BY <2>3, <2>5, <2>7, <4>2
      <3>2. QED
        BY <2>4, <2>5, <3>1
    <2>8. QED
      BY <2>3, <2>6, <2>7
  <1>6. /\ Calm(d) /\ Loose(d) = {}
        /\ IdsOf("settle", d) = {} /\ Unique("settle", d)
        /\ IdsOf("seatfree", d) = {t} /\ Unique("seatfree", d)
    <2>1. /\ Calm(d) /\ Loose(d) = {}
          /\ IdsOf("settle", d) = {} /\ Unique("settle", d)
          /\ IdsOf("seatfree", d) = {s.id} /\ Unique("seatfree", d)
      BY <1>4, <1>5, Reports
    <2>2. QED
      BY <1>4, <2>1
  <1>7. IdsOf("seatfree", e) = {}
    BY <1>1, NoCalls DEF Names
  <1>8. runs' = runs
    BY <1>3 DEF starts
  <1>9. Working(e) = Working(d)'
    BY <1>3, <1>6, <1>7, <1>8 DEF Working
  <1>10. /\ \A u \in Tickets : runs'[u] = "none" <=> runs[u] = "none"
         /\ \A u \in IdsOf("seatfree", d) : runs[u] # "none"
         /\ Working(e) = Working(d)' \cup IdsOf("settle", d)
         /\ Working(d)' \cap IdsOf("settle", d) = {}
         /\ runs' \in [Tickets -> {"none", "works", "failed", "live"}]
    BY <1>2, <1>3, <1>6, <1>8, <1>9 DEF TypedClaims
  <1>11. UNCHANGED <<queue, facts, claims, consultation, paused, walk, inFlight, parked,
                     cleanups, merges, held, checkout>>
    BY <1>3 DEF starts
  <1>12. QED
    BY <1>1, <1>3, <1>5, <1>6, <1>10, <1>11, Roomy, Answered

LEMMA ThrowsStep ==
    ASSUME NEW c \in Seq(CallRec), calls = c, Sound(c), NEW t \in Tickets, StartThrows(t)
    PROVE  IInv'
  <1>1. PICK e \in Seq(CallRec) : e = <<>> /\ Ready(e)
    BY Rests DEF StartThrows
  <1>2. Seat(e) /\ TypedClaims
    BY <1>1 DEF Ready, Types
  <1>3. /\ runs[t] = "works"
        /\ calls' = <<Settle(t, FALSE), Release("handoff", t), Call("answer", t)>>
                    \o (IF Stands(t) THEN <<Call("remove", t)>> ELSE <<>>)
                    \o <<Call("seatfree", t)>>
        /\ UNCHANGED <<queue, facts, claims, consultation, paused, walk, starts, cleanups,
                       merges, held, checkout>>
    BY DEF StartThrows
  <1>4. PICK x \in CallRec, y \in CallRec, a \in CallRec, m \in CallRec, s \in CallRec :
          /\ x = Settle(t, FALSE) /\ y = Release("handoff", t) /\ a = Call("answer", t)
          /\ m = Call("remove", t) /\ s = Call("seatfree", t)
          /\ x.id = t /\ s.id = t /\ x.call = "settle"
          /\ a.call = "answer" /\ m.call = "remove" /\ s.call = "seatfree"
    <2>1. FALSE \in BOOLEAN
      OBVIOUS
    <2>2. /\ Call("answer", t) \in CallRec /\ Call("remove", t) \in CallRec
          /\ Call("seatfree", t) \in CallRec /\ Settle(t, FALSE) \in CallRec
          /\ Settle(t, FALSE).call = "settle" /\ Settle(t, FALSE).id = t
      BY <2>1, Made
    <2>3. /\ Call("answer", t).call = "answer" /\ Call("remove", t).call = "remove"
          /\ Call("seatfree", t).call = "seatfree" /\ Call("seatfree", t).id = t
      BY DEF Call
    <2>4. Release("handoff", t) \in CallRec
      BY MadeRelease DEF Sides, Ids
    <2>5. QED
      BY <2>2, <2>3, <2>4
  <1>5. PICK d \in Seq(CallRec) :
          /\ calls' = d /\ d[1] = x /\ d[2] = y /\ d[3] = a
          /\ \/ Len(d) = 4 /\ d[4] = s
             \/ Len(d) = 5 /\ d[4] = m /\ d[5] = s
    <2>1. <<x, y, a>> \in Seq(CallRec) /\ <<m>> \in Seq(CallRec) /\ <<>> \in Seq(CallRec)
          /\ <<s>> \in Seq(CallRec)
      OBVIOUS
    <2>2. PICK i \in Seq(CallRec), k \in Seq(CallRec), o \in Seq(CallRec) :
            i = <<x, y, a>> /\ k = (IF Stands(t) THEN <<m>> ELSE <<>>) /\ o = <<s>>
      BY <2>1
    <2>3. /\ Len(i) = 3 /\ i[1] = x /\ i[2] = y /\ i[3] = a /\ Len(o) = 1 /\ o[1] = s
          /\ Len(k) = 0 \/ (Len(k) = 1 /\ k[1] = m)
      BY <2>2
    <2>4. calls' = (i \o k) \o o
      BY <1>3, <1>4, <2>2
    <2>5. PICK d \in Seq(CallRec) :
            /\ d = (i \o k) \o o /\ Len(d) = Len(i) + Len(k) + Len(o)
            /\ \A n \in 1..Len(i) : d[n] = i[n]
            /\ \A n \in 1..Len(k) : d[Len(i) + n] = k[n]
            /\ \A n \in 1..Len(o) : d[Len(i) + Len(k) + n] = o[n]
      <3>0. i \in Seq(CallRec) /\ k \in Seq(CallRec) /\ o \in Seq(CallRec)
        OBVIOUS
      <3>1. /\ (i \o k) \o o \in Seq(CallRec)
            /\ Len((i \o k) \o o) = Len(i) + Len(k) + Len(o)
            /\ \A n \in 1..Len(i) : ((i \o k) \o o)[n] = i[n]
            /\ \A n \in 1..Len(k) : ((i \o k) \o o)[Len(i) + n] = k[n]
            /\ \A n \in 1..Len(o) : ((i \o k) \o o)[Len(i) + Len(k) + n] = o[n]
        BY ONLY <3>0, Strung, Zenon
      <3>2. QED
        BY ONLY <3>1, Zenon
    <2>6. d[1] = x /\ d[2] = y /\ d[3] = a
      <3>1. 1 \in 1..Len(i) /\ 2 \in 1..Len(i) /\ 3 \in 1..Len(i)
        BY <2>3
      <3>2. QED
        BY <2>3, <2>5, <3>1
    <2>7. CASE Len(k) = 0
      <3>1. Len(d) = 4 /\ d[4] = s
        <4>1. 1 \in 1..Len(o)
          BY <2>3
        <4>2. d[Len(i) + Len(k) + 1] = o[1]
          BY <2>5, <4>1
        <4>3. QED
          BY <2>3, <2>5, <2>7, <4>2
      <3>2. QED
        BY <2>4, <2>5, <2>6, <3>1
    <2>8. CASE Len(k) = 1 /\ k[1] = m
      <3>1. Len(d) = 5 /\ d[4] = m /\ d[5] = s
        <4>1. 1 \in 1..Len(k) /\ 1 \in 1..Len(o)
          BY <2>3, <2>8
        <4>2. d[Len(i) + 1] = k[1] /\ d[Len(i) + Len(k) + 1] = o[1]
          BY <2>5, <4>1
        <4>3. QED
          BY <2>3, <2>5, <2>8, <4>2
      <3>2. QED
        BY <2>4, <2>5, <2>6, <3>1
    <2>9. QED
      BY <2>3, <2>7, <2>8
  <1>6. /\ Calm(d) /\ Loose(d) = {} /\ ~Has("pass", d)
        /\ IdsOf("settle", d) = {t} /\ Unique("settle", d)
        /\ IdsOf("seatfree", d) = {t} /\ Unique("seatfree", d)
    <2>1. y = Release("handoff", x.id)
      BY <1>4
    <2>2. /\ Calm(d) /\ Loose(d) = {} /\ ~Has("pass", d)
          /\ IdsOf("settle", d) = {x.id} /\ Unique("settle", d)
          /\ IdsOf("seatfree", d) = {s.id} /\ Unique("seatfree", d)
      <3>1. /\ d[1] = x /\ d[2] = y /\ d[3] = a
            /\ (Len(d) = 4 /\ d[4] = s) \/ (Len(d) = 5 /\ d[4] = m /\ d[5] = s)
        BY <1>5
      <3>2. x.call = "settle" /\ a.call = "answer" /\ m.call = "remove" /\ s.call = "seatfree"
        BY <1>4
      <3>3. QED
        BY <2>1, <3>1, <3>2, Throws, SMTT(40)
    <2>3. QED
      BY <1>4, <2>2
  <1>7. IdsOf("seatfree", e) = {}
    BY <1>1, NoCalls DEF Names
  <1>8. runs' = runs
    BY <1>3 DEF starts
  <1>9. Working(e) = Working(d)' \cup {t} /\ t \notin Working(d)'
    BY <1>3, <1>6, <1>7, <1>8 DEF Working
  <1>10. /\ \A u \in Tickets : runs'[u] = "none" <=> runs[u] = "none"
         /\ \A u \in IdsOf("seatfree", d) : runs[u] # "none"
         /\ Working(e) = Working(d)' \cup IdsOf("settle", d)
         /\ Working(d)' \cap IdsOf("settle", d) = {}
         /\ runs' \in [Tickets -> {"none", "works", "failed", "live"}]
    BY <1>2, <1>3, <1>6, <1>8, <1>9 DEF TypedClaims
  <1>11. UNCHANGED <<queue, facts, claims, consultation, paused, walk, inFlight, parked,
                     cleanups, merges, held, checkout>>
    BY <1>3 DEF starts
  <1>12. QED
    BY <1>1, <1>5, <1>6, <1>10, <1>11, Answered

LEMMA CleanupEndsStep ==
    ASSUME NEW c \in Seq(CallRec), calls = c, Sound(c), CleanupEnds
    PROVE  IInv'
  <1>1. PICK e \in Seq(CallRec) : e = <<>> /\ Ready(e) /\ Loose(e) = {} /\ ~Has("pass", e)
    BY Rests DEF CleanupEnds
  <1>2. /\ Seat(e) /\ Asked /\ Held /\ TypedQueue /\ TypedFacts /\ TypedSeat /\ TypedRest
        /\ TypedHolds
        /\ \A w \in atWork : Serves(w)
    BY <1>1 DEF Ready, Types
  <1>3. /\ clearing' = FALSE /\ calls' = <<Call("drain", NoOne)>>
        /\ UNCHANGED <<queue, facts, claims, consultation, paused, walk, starts, cleanupQueued,
                       cleanupQueue, merges, held, checkout>>
    BY DEF CleanupEnds
  <1>4. TypedSeat' /\ Seat(e)'
    BY <1>2, <1>3 DEF TypedSeat, Seat, starts
  <1>5. TypedQueue' /\ TypedFacts' /\ TypedRest' /\ Asked' /\ TypedHolds' /\ Held'
    BY <1>2, <1>3 DEF TypedQueue, TypedFacts, TypedRest, Asked, Stands, WQ!Holds, WQ!Positions,
       TypedHolds, Held, facts, checkout
  <1>6. \A w \in atWork' : Serves(w)'
    BY <1>2, <1>3 DEF Serves, checkout
  <1>7. PICK drain : drain = Call("drain", NoOne)
    OBVIOUS
  <1>8. PICK d \in Seq(CallRec) : calls' = d /\ Like(d, e) /\ Calm(d) /\ d = <<drain>>
    BY <1>1, <1>3, <1>7, Askings
  <1>9. Half(d)'
    BY <1>1, <1>3, <1>4, <1>5, <1>6, <1>8, Steady
  <1>10. ~Has("pass", d)
    BY <1>7, <1>8, DrainOnly
  <1>11. QED
    BY <1>1, <1>3, <1>8, <1>9, <1>10, Finish

(* The one call a settled merge and a settled opening make. *)
LEMMA ReleaseOnly ==
    ASSUME NEW side \in Sides, NEW id \in Ids
    PROVE  \E d \in Seq(CallRec) :
             /\ d = <<Release(side, id)>> /\ d # <<>> /\ d[1] = Release(side, id)
             /\ Like(d, <<>>) /\ Calm(d) /\ ~Has("pass", d)
  <1>1. PICK x \in CallRec : x = Release(side, id) /\ x.call = "release"
    BY MadeRelease
  <1>2. PICK e \in Seq(CallRec) : e = <<>> /\ Calm(e) /\ ~Has("pass", e)
    BY NoCalls DEF Names
  <1>3. PICK d \in Seq(CallRec) : /\ d = <<x>> \o e /\ Like(d, e) /\ Calm(d)
                                  /\ Has("pass", d) <=> Has("pass", e)
                                  /\ d # <<>> /\ d[1] = x
    BY <1>1, <1>2, LikeOne
  <1>4. <<x>> \o <<>> = <<x>>
    OBVIOUS
  <1>5. QED
    BY <1>1, <1>2, <1>3, <1>4

LEMMA MergeEndsStep ==
    ASSUME NEW c \in Seq(CallRec), calls = c, Sound(c), NEW t \in Tickets,
           NEW merged \in BOOLEAN, MergeEnds(t, merged)
    PROVE  IInv'
  <1>1. PICK e \in Seq(CallRec) : e = <<>> /\ Ready(e) /\ Loose(e) = {}
    BY Rests DEF MergeEnds
  <1>2. /\ Seat(e) /\ Asked /\ Held /\ TypedQueue /\ TypedFacts /\ TypedSeat /\ TypedRest
        /\ TypedHolds /\ TypedWalk
        /\ \A w \in atWork : Serves(w)
    BY <1>1 DEF Ready, Types
  <1>3. /\ merges' = [merges EXCEPT ![t] = "none"]
        /\ listed' = (IF merged THEN listed \ {t} ELSE listed) /\ held' = held \ {t}
        /\ passes' = Wake(t) /\ calls' = <<Release("merge", t)>>
        /\ UNCHANGED <<queue, ticket, raced, missing, claims, consultation, paused, reask, starts,
                       cleanups, checkout>>
    BY DEF MergeEnds
  <1>4. t \in Ids /\ "merge" \in Sides /\ NoOne \notin Tickets /\ t # NoOne
    BY DispatchAssumption DEF Ids, Sides
  <1>5. PICK d \in Seq(CallRec) :
          /\ d = <<Release("merge", t)>> /\ d # <<>> /\ d[1] = Release("merge", t)
          /\ Like(d, e) /\ Calm(d) /\ ~Has("pass", d)
    BY <1>1, <1>4, ReleaseOnly
  <1>6. TypedFacts' /\ TypedRest' /\ TypedQueue' /\ Asked' /\ TypedHolds' /\ Held'
    BY <1>2, <1>3 DEF TypedFacts, TypedRest, TypedQueue, Asked, Stands, WQ!Holds, WQ!Positions,
       TypedHolds, Held, checkout
  <1>7. TypedSeat' /\ Seat(e)'
    BY <1>2, <1>3 DEF TypedSeat, Seat, starts, cleanups
  <1>8. \A u \in Tickets : merges'[u] = IF u = t THEN "none" ELSE merges[u]
    BY <1>2, <1>3 DEF TypedWalk
  <1>9. TypedWalk'
    <2>1. \A p \in 1..Passes :
            passes'[p] = IF passes[p].on = t THEN [passes[p] EXCEPT !.on = NoOne] ELSE passes[p]
      BY <1>3 DEF Wake
    <2>2. \A p \in 1..Passes : passes'[p] \in PassRec
      BY <1>2, <2>1, ZenonT(60) DEF TypedWalk, PassRec
    <2>3. \A p \in 1..Passes : passes'[p].on = IF passes[p].on = t THEN NoOne ELSE passes[p].on
      BY <1>2, <2>1, ZenonT(60) DEF TypedWalk, PassRec
    <2>4. \A p \in 1..Passes : passes'[p].on \in Tickets => merges'[passes'[p].on] # "none"
      BY <1>2, <1>4, <1>8, <2>3 DEF TypedWalk
    <2>5. passes' \in [1..Passes -> PassRec]
      BY <1>3, <2>2 DEF Wake
    <2>6. QED
      BY <1>2, <1>3, <2>4, <2>5 DEF TypedWalk
  <1>10. \A w \in atWork' : Serves(w)' \/ Releases(d, w)
    <2>1. TAKE w \in atWork'
    <2>2. w \in atWork /\ Serves(w) /\ w = <<w[1], w[2]>>
          /\ (w[1] = "merge" => w[2] \in Tickets)
      BY <1>2, <1>3 DEF checkout, TypedHolds, Takers
    <2>3. CASE w[1] = "merge" /\ w[2] = t
      BY <1>5, <2>3 DEF Releases
    <2>4. CASE ~(w[1] = "merge" /\ w[2] = t)
      BY <1>3, <1>8, <2>2, <2>4 DEF Serves
    <2>5. QED
      BY <2>3, <2>4
  <1>11. Half(d)'
    BY <1>1, <1>3, <1>5, <1>6, <1>7, <1>10, Steady
  <1>12. Laps(d)'
    BY <1>5, CalmLaps
  <1>13. QED
    BY <1>3, <1>5, <1>9, <1>11, <1>12, HalfSound

LEMMA OpeningStep ==
    ASSUME NEW c \in Seq(CallRec), calls = c, Sound(c), NEW x \in Consultations,
           NEW ok \in BOOLEAN, OpeningSettles(x, ok)
    PROVE  IInv'
  <1>1. PICK e \in Seq(CallRec) : e = <<>> /\ Ready(e) /\ Loose(e) = {}
    BY Rests DEF OpeningSettles
  <1>2. /\ Seat(e) /\ Asked /\ Held /\ TypedQueue /\ TypedFacts /\ TypedSeat /\ TypedRest
        /\ TypedHolds
        /\ \A w \in atWork : Serves(w)
    BY <1>1 DEF Ready, Types
  <1>3. /\ consultation[x] = "opening"
        /\ consultation' = [consultation EXCEPT ![x] = IF ok THEN "working" ELSE "idle"]
        /\ calls' = <<Release("consultation", x)>>
        /\ UNCHANGED <<queue, facts, claims, paused, walk, starts, cleanups, merges, held,
                       checkout>>
    BY DEF OpeningSettles
  <1>4. x \in Ids /\ "consultation" \in Sides
    BY DEF Ids, Sides
  <1>5. PICK d \in Seq(CallRec) :
          /\ d = <<Release("consultation", x)>> /\ d # <<>> /\ d[1] = Release("consultation", x)
          /\ Like(d, e) /\ Calm(d) /\ ~Has("pass", d)
    BY <1>1, <1>4, ReleaseOnly
  <1>6. \A y \in Consultations :
          consultation'[y] = IF y = x THEN (IF ok THEN "working" ELSE "idle") ELSE consultation[y]
    BY <1>2, <1>3 DEF TypedRest
  <1>7. Asked'
    BY <1>2, <1>3, <1>6 DEF Asked, Stands, WQ!Holds, WQ!Positions
  <1>8. TypedFacts' /\ TypedRest' /\ TypedQueue' /\ TypedHolds' /\ Held' /\ TypedSeat' /\ Seat(e)'
    BY <1>2, <1>3 DEF TypedFacts, TypedRest, TypedQueue, TypedHolds, Held, TypedSeat, Seat, facts,
       starts, cleanups, checkout
  <1>9. \A w \in atWork' : Serves(w)' \/ Releases(d, w)
    <2>1. TAKE w \in atWork'
    <2>2. w \in atWork /\ Serves(w) /\ w = <<w[1], w[2]>>
          /\ (w[1] = "consultation" => w[2] \in Consultations)
      BY <1>2, <1>3 DEF checkout, TypedHolds, Takers
    <2>3. CASE w[1] = "consultation" /\ w[2] = x
      BY <1>5, <2>3 DEF Releases
    <2>4. CASE ~(w[1] = "consultation" /\ w[2] = x)
      BY <1>3, <1>6, <2>2, <2>4 DEF Serves
    <2>5. QED
      BY <2>3, <2>4
  <1>10. Half(d)'
    BY <1>1, <1>3, <1>5, <1>7, <1>8, <1>9, Steady
  <1>11. QED
    BY <1>1, <1>3, <1>5, <1>10, Finish

--------------------------------------------------------------------------------
(* The world: the polls, the budget, and the end of the process. *)

(* What a poll reads: no claim, no start and no checkout moves. *)
LEMMA PollStep ==
    ASSUME NEW c \in Seq(CallRec), calls = c, Sound(c), NEW t \in Tickets,
           TurnEnds(t) \/ AgentMissing(t)
    PROVE  IInv'
  <1>1. PICK e \in Seq(CallRec) :
          /\ e = <<>> /\ calls = e /\ Ready(e) /\ Loose(e) = {} /\ Calm(e) /\ ~Has("pass", e)
    BY Rests DEF TurnEnds, AgentMissing
  <1>2. /\ Seat(e) /\ Asked /\ Held /\ TypedQueue /\ TypedFacts /\ TypedSeat /\ TypedRest
        /\ TypedHolds
        /\ \A w \in atWork : Serves(w)
    BY <1>1 DEF Ready, Types
  <1>3. /\ ticket' \in {ticket, [ticket EXCEPT ![t] = "awaiting"]}
        /\ missing' \in {missing \ {t}, missing \cup {t}}
        /\ UNCHANGED <<queue, listed, raced, claims, consultation, paused, walk, starts, cleanups,
                       merges, held, checkout, calls>>
    BY DEF TurnEnds, AgentMissing
  <1>4. TypedFacts'
    BY <1>2, <1>3 DEF TypedFacts, States
  <1>5. /\ TypedQueue' /\ TypedRest' /\ Asked' /\ TypedHolds' /\ Held' /\ TypedSeat' /\ Seat(e)'
    BY <1>2, <1>3 DEF TypedQueue, TypedRest, Asked, Stands, WQ!Holds, WQ!Positions, TypedHolds,
       Held, TypedSeat, Seat, starts, cleanups, checkout
  <1>6. \A w \in atWork' : Serves(w)'
    BY <1>2, <1>3 DEF Serves, checkout
  <1>7. Half(e)'
    BY <1>1, <1>3, <1>4, <1>5, <1>6, LikeSelf, Steady
  <1>8. QED
    BY <1>1, <1>3, <1>7, Finish

LEMMA ClosesStep ==
    ASSUME NEW c \in Seq(CallRec), calls = c, Sound(c), NEW x \in Consultations,
           ConsultationCloses(x)
    PROVE  IInv'
  <1>1. PICK e \in Seq(CallRec) :
          /\ e = <<>> /\ calls = e /\ Ready(e) /\ Loose(e) = {} /\ Calm(e) /\ ~Has("pass", e)
    BY Rests DEF ConsultationCloses
  <1>2. /\ Seat(e) /\ Asked /\ Held /\ TypedQueue /\ TypedFacts /\ TypedSeat /\ TypedRest
        /\ TypedHolds
        /\ \A w \in atWork : Serves(w)
    BY <1>1 DEF Ready, Types
  <1>3. /\ consultation[x] = "working" /\ consultation' = [consultation EXCEPT ![x] = "idle"]
        /\ UNCHANGED <<queue, facts, claims, paused, walk, starts, cleanups, merges, held,
                       checkout, calls>>
    BY DEF ConsultationCloses
  <1>4. \A y \in Consultations : consultation'[y] = IF y = x THEN "idle" ELSE consultation[y]
    BY <1>2, <1>3 DEF TypedRest
  <1>5. TypedRest' /\ Asked' /\ TypedQueue'
    BY <1>2, <1>3, <1>4 DEF TypedRest, Asked, TypedQueue, Stands, WQ!Holds, WQ!Positions
  <1>6. TypedHolds' /\ Held' /\ TypedFacts' /\ TypedSeat' /\ Seat(e)'
    BY <1>2, <1>3 DEF TypedHolds, Held, TypedFacts, TypedSeat, Seat, facts, starts, cleanups,
       checkout
  <1>7. \A w \in atWork' : Serves(w)'
    <2>1. \A w \in atWork : w[1] = "consultation" => w[2] \in Consultations
      BY <1>2 DEF TypedHolds, Takers
    <2>2. QED
      BY <1>2, <1>3, <1>4, <2>1 DEF Serves, checkout
  <1>8. Half(e)'
    BY <1>1, <1>3, <1>5, <1>6, <1>7, LikeSelf, Steady
  <1>9. QED
    BY <1>1, <1>3, <1>8, Finish

LEMMA BudgetStep ==
    ASSUME NEW c \in Seq(CallRec), calls = c, Sound(c), BudgetEnds
    PROVE  IInv'
  <1>1. PICK e \in Seq(CallRec) :
          /\ e = <<>> /\ calls = e /\ Ready(e) /\ Loose(e) = {} /\ Calm(e) /\ ~Has("pass", e)
    BY Rests DEF BudgetEnds
  <1>2. /\ Seat(e) /\ Asked /\ Held /\ TypedQueue /\ TypedFacts /\ TypedSeat /\ TypedRest
        /\ TypedHolds
        /\ \A w \in atWork : Serves(w)
    BY <1>1 DEF Ready, Types
  <1>3. UNCHANGED <<queue, facts, claims, consultation, paused, walk, starts, cleanups,
                    merges, held, atWork, lapsed, calls>>
    BY DEF BudgetEnds
  <1>4. TypedHolds' /\ Held'
    <2>1. CASE \E r \in Repositories : holds' = [holds EXCEPT ![r].over = TRUE] /\ UNCHANGED waits
      <3>1. PICK r \in Repositories : holds' = [holds EXCEPT ![r].over = TRUE] /\ UNCHANGED waits
        BY <2>1
      <3>2. \A x \in Repositories :
              /\ holds'[x] \in HoldRec
              /\ holds'[x].side = holds[x].side /\ holds'[x].id = holds[x].id
        BY <1>2, <3>1 DEF TypedHolds, HoldRec
      <3>3. holds' \in [Repositories -> HoldRec]
        BY <1>2, <3>1, <3>2 DEF TypedHolds
      <3>4. \A w \in atWork : Repo[w[2]] \in Repositories
        BY <1>2, DispatchAssumption DEF TypedHolds, Takers, Ids
      <3>5. TypedHolds'
        BY <1>2, <1>3, <3>1, <3>3 DEF TypedHolds
      <3>6. \A r1 \in Repositories : holds'[r1].side # "none"
              => <<holds'[r1].side, holds'[r1].id>> \in atWork'
        BY <1>2, <1>3, <3>2 DEF Held
      <3>7. \A w \in atWork' \ lapsed' :
              holds'[Repo[w[2]]].side = w[1] /\ holds'[Repo[w[2]]].id = w[2]
        BY <1>2, <1>3, <3>2, <3>4 DEF Held
      <3>8. QED
        BY <3>5, <3>6, <3>7 DEF Held
    <2>2. CASE \E i \in Ids : waits' = [waits EXCEPT ![i] = "over"] /\ UNCHANGED holds
      BY <1>2, <1>3, <2>2 DEF TypedHolds, Held
    <2>3. QED
      BY <2>1, <2>2 DEF BudgetEnds
  <1>5. /\ TypedQueue' /\ TypedRest' /\ Asked' /\ TypedFacts' /\ TypedSeat' /\ Seat(e)'
    BY <1>2, <1>3 DEF TypedQueue, TypedRest, Asked, Stands, WQ!Holds, WQ!Positions, TypedFacts,
       TypedSeat, Seat, facts, starts, cleanups
  <1>6. \A w \in atWork' : Serves(w)'
    BY <1>2, <1>3 DEF Serves
  <1>7. Half(e)'
    BY <1>1, <1>3, <1>4, <1>5, <1>6, LikeSelf, Steady
  <1>8. QED
    BY <1>1, <1>3, <1>7, Finish

(* A memory that is new: nothing runs, nothing waits, nobody holds a checkout. *)
Anew ==
    /\ passes = [p \in 1..Passes |-> NoPass] /\ reask = FALSE
    /\ inFlight = FALSE /\ parked = <<>> /\ runs = [t \in Tickets |-> "none"]
    /\ cleanupQueued = FALSE /\ clearing = FALSE /\ cleanupQueue = <<>>
    /\ merges = [t \in Tickets |-> "none"] /\ held = {} /\ calls = <<>>
    /\ holds = [r \in Repositories |-> NoHold] /\ waits = [i \in Ids |-> "none"]
    /\ atWork = {} /\ lapsed = {} /\ claims = {}

(* A boot finds rows and facts in the state file, and its memory new. *)
Boot ==
    /\ Anew /\ TypedQueue /\ TypedFacts /\ Asked /\ paused \in BOOLEAN
    /\ consultation \in [Consultations -> {"idle", "queued", "opening", "working"}]

LEMMA BootIs == Boot => IInv
  <1> SUFFICES ASSUME Boot PROVE IInv
    OBVIOUS
  <1>0. /\ Anew /\ TypedQueue /\ TypedFacts /\ Asked /\ paused \in BOOLEAN
        /\ consultation \in [Consultations -> {"idle", "queued", "opening", "working"}]
    BY DEF Boot
  <1>1. PICK e \in Seq(CallRec) :
          /\ e = <<>> /\ IdsOf("settle", e) = {} /\ IdsOf("seatfree", e) = {} /\ Loose(e) = {}
          /\ Unique("settle", e) /\ Unique("seatfree", e)
          /\ ~Has("pass", e) /\ ~Twice("pass", e)
    BY NoCalls DEF Names
  <1>2. TypedClaims
    <2>1. <<>> \in Seq(ParkedRec)
      OBVIOUS
    <2>2. QED
      BY <1>0, <2>1 DEF TypedClaims, Anew
  <1>3. TypedSeat
    <2>1. <<>> \in Seq(Tickets \cup {NoOne})
      OBVIOUS
    <2>2. QED
      BY <1>0, <2>1 DEF TypedSeat, Anew
  <1>4. TypedWalk
    BY <1>0, NoPassIs DEF TypedWalk, Anew
  <1>5. TypedRest
    BY <1>0 DEF TypedRest, Anew
  <1>6. TypedHolds
    BY <1>0 DEF TypedHolds, HoldRec, NoHold, Anew
  <1>7. Held
    BY <1>0 DEF Held, NoHold, Anew
  <1>8. Seat(e)
    BY <1>0, <1>1 DEF Seat, Anew
  <1>9. Owned(e)
    BY <1>0, <1>1 DEF Owned, ParkedIds, Working, Anew
  <1>10. Laps(e)
    BY <1>1 DEF Laps
  <1>11. Served(e)
    BY <1>0, <1>1 DEF Served, Anew
  <1>12. calls = e
    BY <1>0, <1>1 DEF Anew
  <1>13. Sound(e)
    BY <1>0, <1>2, <1>3, <1>4, <1>5, <1>6, <1>7, <1>8, <1>9, <1>10, <1>11 DEF Sound, Types
  <1>14. QED
    BY <1>12, <1>13 DEF IInv

LEMMA InitIInv == Init => IInv
  <1> SUFFICES ASSUME Init PROVE IInv
    OBVIOUS
  <1>1. PICK b \in Boots : queue = [p \in 0..(Len(b) - 1) |-> b[p + 1]]
    BY DEF Init
  <1>2. b \in Seq(Starts) /\ Starts \subseteq TicketRow /\ Starts \subseteq WaitingRow
    BY DispatchAssumption DEF WaitingRow
  <1>3. TypedQueue
    <2>1. Len(b) \in Nat /\ \A i \in 1..Len(b) : b[i] \in Starts
      BY <1>2
    <2>2. \A p \in 0..(Len(b) - 1) : p + 1 \in 1..Len(b)
      BY <2>1
    <2>3. queue \in Queues(Len(b))
      BY <1>1, <1>2, <2>1, <2>2 DEF Queues
    <2>4. QED
      BY <2>1, <2>3 DEF TypedQueue
  <1>4. Asked
    <2>1. ASSUME NEW x \in Consultations, Stands(x) PROVE FALSE
      <3>1. DOMAIN queue = 0..(Len(b) - 1)
        BY <1>1
      <3>2. PICK p \in 0..(Len(b) - 1) : queue[p].id = x
        BY <2>1, <3>1 DEF Stands, WQ!Holds, WQ!Positions
      <3>3. Len(b) \in Nat /\ p + 1 \in 1..Len(b)
        BY <1>2
      <3>4. b[p + 1] \in TicketRow /\ queue[p] = b[p + 1]
        BY <1>1, <1>2, <3>3
      <3>5. QED
        BY <3>2, <3>4, DispatchAssumption DEF TicketRow
    <2>2. QED
      BY <2>1 DEF Asked
  <1>5. TypedFacts
    BY DEF Init, TypedFacts, States
  <1>6. /\ paused \in BOOLEAN
        /\ consultation \in [Consultations -> {"idle", "queued", "opening", "working"}]
    BY DEF Init
  <1>7. Anew
    BY DEF Init, Anew
  <1>8. QED
    BY <1>3, <1>4, <1>5, <1>6, <1>7, BootIs DEF Boot

LEMMA RestartStep ==
    ASSUME NEW c \in Seq(CallRec), calls = c, Sound(c), Restart
    PROVE  IInv'
  <1>1. TypedQueue /\ TypedFacts /\ TypedRest /\ Asked
    BY DEF Sound, Types
  <1>2. UNCHANGED <<queue, facts, paused, spent>>
    BY DEF Restart
  <1>3. consultation' = [x \in Consultations |->
                           IF consultation[x] = "opening" THEN "idle" ELSE consultation[x]]
    BY DEF Restart
  <1>4. Anew'
    BY DEF Restart, Anew
  <1>5. TypedQueue' /\ TypedFacts' /\ paused' \in BOOLEAN
    BY <1>1, <1>2 DEF TypedQueue, TypedFacts, TypedRest, facts
  <1>6. consultation' \in [Consultations -> {"idle", "queued", "opening", "working"}]
    BY <1>1, <1>3 DEF TypedRest
  <1>7. Asked'
    BY <1>1, <1>2, <1>3 DEF Asked, Stands, WQ!Holds, WQ!Positions
  <1>8. Boot'
    BY <1>4, <1>5, <1>6, <1>7 DEF Boot
  <1>9. QED
    BY <1>8, BootIs, PTL

--------------------------------------------------------------------------------
(* The invariant. *)

LEMMA StepIInv == IInv /\ [Next]_vars => IInv'
  <1> SUFFICES ASSUME IInv, [Next]_vars PROVE IInv'
    OBVIOUS
  <1>1. PICK c \in Seq(CallRec) : calls = c /\ Sound(c)
    BY DEF IInv
  <1>2. CASE Handler
    BY <1>1, <1>2, PassStep, CallRowStep, RemoveStep, AnswerStep, ReleaseStep, SettleStep,
       SeatFreeStep, DrainStep, DrainParkedStep, DroppedStep DEF Handler
  <1>3. CASE Walk
    BY <1>1, <1>3, WalksStep, EndsStep DEF Walk
  <1>4. CASE Asks
    BY <1>1, <1>4, DispatchStep, PlaneStep, ScheduleStep, OpenNowStep, ForceStep DEF Asks
  <1>5. CASE Ends
    BY <1>1, <1>5, RemoveItemStep, MutedStep, RemoveConsultationStep, DecidedStep, CloseStep,
       PauseStep DEF Ends
  <1>6. CASE Answers
    BY <1>1, <1>6, StartEndsStep, MergeEndsStep, ReportedStep, ThrowsStep, CleanupEndsStep,
       OpeningStep DEF Answers
  <1>7. CASE World
    BY <1>1, <1>7, PauseStep, ClosesStep, PollStep, BudgetStep, RestartStep DEF World
  <1>8. CASE UNCHANGED vars
    <2>1. Sound(c)'
      BY <1>1, <1>8 DEF vars, Sound, Types, TypedQueue, TypedFacts, TypedClaims, TypedSeat,
         TypedWalk, TypedRest, TypedHolds, Asked, Held, Seat, Owned, Laps, Served, Serves,
         Releases, ParkedIds, Working, FreePasses, Walking, Stands, WQ!Holds, WQ!Positions,
         facts, walk, starts, cleanups, checkout
    <2>2. QED
      BY <1>1, <1>8, <2>1 DEF IInv, vars
  <1>9. QED
    BY <1>2, <1>3, <1>4, <1>5, <1>6, <1>7, <1>8 DEF Next

(* The tables and what is left of the running handler's calls agree after  *)
(* every step: each claim, hold and taken seat has its end to come.        *)
THEOREM Invariant == Spec => []IInv
  BY InitIInv, StepIInv, PTL DEF Spec

LEMMA TypesHold == IInv => TypeOK
  <1> SUFFICES ASSUME IInv PROVE TypeOK
    OBVIOUS
  <1>1. /\ TypedQueue /\ TypedFacts /\ TypedClaims /\ TypedSeat /\ TypedWalk /\ TypedRest
        /\ TypedHolds
    BY DEF IInv, Sound, Types
  <1>2. queue \in [WQ!Positions(queue) -> WaitingRow]
    <2>1. PICK n \in Nat : queue \in Queues(n)
      BY <1>1 DEF TypedQueue
    <2>2. WQ!Positions(queue) = 0..(n - 1)
      BY <2>1, PlacesIs
    <2>3. QED
      BY <2>1, <2>2 DEF Queues
  <1>3. /\ ticket \in [Tickets -> {"open", "awaiting", "in-flight"}]
        /\ listed \subseteq Tickets /\ claims \subseteq Tickets
        /\ raced \subseteq Tickets /\ missing \subseteq Tickets
        /\ consultation \in [Consultations -> {"idle", "queued", "opening", "working"}]
        /\ {paused, reask, inFlight, cleanupQueued, clearing} \subseteq BOOLEAN
    BY <1>1 DEF TypedFacts, TypedClaims, TypedRest, TypedWalk, TypedSeat, States
  <1>4. \A i \in DOMAIN cleanupQueue : cleanupQueue[i] \in Tickets \cup {NoOne}
    BY <1>1 DEF TypedSeat
  <1>5. \A i \in DOMAIN parked : parked[i].id \in Tickets
    <2>1. parked \in Seq(ParkedRec) /\ \A x \in ParkedRec : x.id \in Tickets
      BY <1>1 DEF TypedClaims, ParkedRec
    <2>2. \A i \in DOMAIN parked : parked[i] \in ParkedRec
      BY <2>1
    <2>3. QED
      BY <2>1, <2>2
  <1>6. /\ runs \in [Tickets -> {"none", "works", "failed", "live"}]
        /\ merges \in [Tickets -> {"none", "runs", "refused"}]
        /\ \A p \in 1..Passes : passes[p].on \in Tickets => merges[passes[p].on] # "none"
    BY <1>1 DEF TypedClaims, TypedWalk
  <1>7. Takers \subseteq Sides \X Ids
    BY DEF Takers, Sides, Ids
  <1>8. /\ held \subseteq Tickets /\ lapsed \subseteq atWork /\ atWork \subseteq Sides \X Ids
        /\ holds \in [Repositories ->
                        [side : Sides \cup {"none"}, id : Ids \cup {NoOne}, over : BOOLEAN]]
        /\ waits \in [Ids -> {"none", "waits", "over"}]
    BY <1>1, <1>7 DEF TypedRest, TypedHolds, HoldRec
  <1>9. QED
    BY <1>2, <1>3, <1>4, <1>5, <1>6, <1>8 DEF TypeOK

(* The state has its types: every row of the queue is a row an ask or a schedule made, a *)
(* walk awaits only a merge that runs, and a checkout is held by a handoff, a merge or a  *)
(* Consultation, whatever the ids, the limit, the passes and the boot's queue.            *)
THEOREM DispatchTypes == Spec => []TypeOK
  BY Invariant, TypesHold, PTL

LEMMA AtMostOne ==
    ASSUME NEW S, NEW x, S \subseteq {x}
    PROVE  Cardinality(S) <= 1
  <1>1. S = {} \/ S = {x}
    OBVIOUS
  <1>2. Cardinality({}) = 0
    BY FS_EmptySet
  <1>3. Cardinality({x}) = 1
    BY FS_Singleton
  <1>4. QED
    BY <1>1, <1>2, <1>3

LEMMA OneHandHolds == IInv => OneHand
  <1> SUFFICES ASSUME IInv PROVE OneHand
    OBVIOUS
  <1>1. PICK c \in Seq(CallRec) : calls = c /\ Sound(c)
    BY DEF IInv
  <1>2. Seat(c) /\ Owned(c) /\ TypedSeat /\ TypedClaims
    BY <1>1 DEF Sound, Types
  <1> DEFINE R == {t \in Tickets : runs[t] # "none"}
             S == R \cup (IF clearing THEN {NoOne} ELSE {})
  <1>3. Cardinality(S) <= 1
    <2>1. CASE clearing
      <3>1. R = {}
        BY <1>2, <2>1 DEF Seat
      <3>2. S \subseteq {NoOne}
        BY <3>1
      <3>3. QED
        BY ONLY <3>2, AtMostOne
    <2>2. CASE ~clearing /\ R # {}
      <3>1. PICK x \in R : TRUE
        BY <2>2
      <3>2. S \subseteq {x}
        BY <1>2, <2>2, <3>1 DEF Seat
      <3>3. QED
        BY ONLY <3>2, AtMostOne
    <2>3. CASE ~clearing /\ R = {}
      <3>1. S \subseteq {NoOne}
        BY <2>3
      <3>2. QED
        BY ONLY <3>1, AtMostOne
    <2>4. QED
      BY <2>1, <2>2, <2>3
  <1>4. inFlight <=> \E t \in Tickets : runs[t] # "none"
    BY <1>2 DEF Seat
  <1>5. ASSUME Idle
        PROVE  /\ claims = {parked[i].id : i \in DOMAIN parked}
                             \cup {t \in Tickets : runs[t] = "works"}
               /\ \A i, j \in DOMAIN parked : parked[i].id = parked[j].id => i = j
    <2>1. c = <<>>
      BY <1>1, <1>5 DEF Idle
    <2>2. IdsOf("settle", c) = {} /\ IdsOf("seatfree", c) = {}
      BY <2>1, NoCalls DEF Names
    <2>3. Working(c) = {t \in Tickets : runs[t] = "works"}
      BY <2>2 DEF Working
    <2>4. DOMAIN parked = 1..Len(parked)
      BY <1>2 DEF TypedClaims
    <2>5. ParkedIds = {parked[i].id : i \in DOMAIN parked}
      BY <2>4 DEF ParkedIds
    <2>6. QED
      BY <1>2, <2>2, <2>3, <2>4, <2>5 DEF Owned
  <1>6. QED
    BY <1>3, <1>4, <1>5 DEF OneHand

(* herdr is changed by one hand, and every unresolved attempt has one owner when the     *)
(* handler that made it is done: the start at work, or one claim that parked.             *)
THEOREM DispatchOneHand == Spec => []OneHand
  BY Invariant, OneHandHolds, PTL

LEMMA AloneHolds == IInv => CheckoutAlone
  <1> SUFFICES ASSUME IInv, NEW v \in atWork \ lapsed, NEW w \in atWork \ lapsed,
                      Repo[v[2]] = Repo[w[2]]
               PROVE  v = w
    BY DEF CheckoutAlone
  <1>1. TypedHolds /\ Held
    BY DEF IInv, Sound, Types
  <1>2. v[1] = w[1] /\ v[2] = w[2]
    BY <1>1 DEF Held
  <1>3. v = <<v[1], v[2]>> /\ w = <<w[1], w[2]>>
    BY <1>1 DEF TypedHolds, Takers
  <1>4. QED
    BY <1>2, <1>3

(* Two starts never work one Repository's checkout, unless the budget took it from one.  *)
THEOREM DispatchAlone == Spec => []CheckoutAlone
  BY Invariant, AloneHolds, PTL

--------------------------------------------------------------------------------
(* The Parallel limit. *)

(* One claim more, or one Consultation more, takes at most one seat more. *)
LEMMA OneSeat ==
    ASSUME TypedFacts, TypedClaims, TypedRest, TypedRest', NEW x \in Ids, UNCHANGED facts,
           \/ claims' \subseteq claims \cup {x} /\ UNCHANGED consultation
           \/ /\ UNCHANGED claims
              /\ \A y \in Consultations : y # x => consultation'[y] = consultation[y]
    PROVE  SeatCount' <= SeatCount + 1
  <1> DEFINE TT == {t \in Tickets : ticket[t] = "in-flight" /\ t \notin missing} \cup claims
             CC == {y \in Consultations : consultation[y] \in {"opening", "working"}}
  <1>1. PICK T \in SUBSET Ids, C \in SUBSET Ids : T = TT /\ C = CC
    <2>1. TT \in SUBSET Ids /\ CC \in SUBSET Ids
      BY DEF TypedClaims, Ids
    <2>2. QED
      BY <2>1
  <1>2. PICK T1, C1 : T1 = TT' /\ C1 = CC'
    OBVIOUS
  <1>3. /\ SeatCount = Cardinality(T) + Cardinality(C)
        /\ SeatCount' = Cardinality(T1) + Cardinality(C1)
    BY <1>1, <1>2 DEF SeatCount
  <1>4. \/ T1 \subseteq T \cup {x} /\ C1 = C
        \/ T1 = T /\ C1 \subseteq C \cup {x}
    <2>1. CASE claims' \subseteq claims \cup {x} /\ UNCHANGED consultation
      BY <1>1, <1>2, <2>1 DEF facts
    <2>2. CASE UNCHANGED claims /\ \A y \in Consultations : y # x => consultation'[y] = consultation[y]
      BY <1>1, <1>2, <2>2 DEF facts
    <2>3. QED
      BY <2>1, <2>2
  <1>5. \A S \in SUBSET Ids : /\ IsFiniteSet(S) /\ Cardinality(S) \in Nat
                              /\ \A A \in SUBSET (S \cup {x}) :
                                   Cardinality(A) \in Nat /\ Cardinality(A) <= Cardinality(S) + 1
    <2>1. TAKE S \in SUBSET Ids
    <2>2. IsFiniteSet(S) /\ Cardinality(S) \in Nat
      BY Counts
    <2>3. IsFiniteSet(S \cup {x}) /\ Cardinality(S \cup {x}) <= Cardinality(S) + 1
      BY <2>2, FS_AddElement
    <2>4. ASSUME NEW A \in SUBSET (S \cup {x})
          PROVE  Cardinality(A) \in Nat /\ Cardinality(A) <= Cardinality(S) + 1
      <3>1. Cardinality(A) <= Cardinality(S \cup {x}) /\ IsFiniteSet(A)
        BY <2>3, FS_Subset
      <3>2. Cardinality(A) \in Nat /\ Cardinality(S \cup {x}) \in Nat
        BY <2>3, <3>1, FS_CardinalityType
      <3>3. QED
        BY <2>2, <2>3, <3>1, <3>2
    <2>5. QED
      BY <2>2, <2>4
  <1>6. /\ Cardinality(T) \in Nat /\ Cardinality(C) \in Nat
        /\ \A A \in SUBSET (T \cup {x}) :
             Cardinality(A) \in Nat /\ Cardinality(A) <= Cardinality(T) + 1
        /\ \A A \in SUBSET (C \cup {x}) :
             Cardinality(A) \in Nat /\ Cardinality(A) <= Cardinality(C) + 1
    BY <1>1, <1>5
  <1>7. CASE T1 \subseteq T \cup {x} /\ C1 = C
    <2>1. Cardinality(T1) \in Nat /\ Cardinality(T1) <= Cardinality(T) + 1
      BY <1>6, <1>7
    <2>2. QED
      BY <1>3, <1>6, <1>7, <2>1
  <1>8. CASE T1 = T /\ C1 \subseteq C \cup {x}
    <2>1. Cardinality(C1) \in Nat /\ Cardinality(C1) <= Cardinality(C) + 1
      BY <1>6, <1>8
    <2>2. QED
      BY <1>3, <1>6, <1>8, <2>1
  <1>9. QED
    BY <1>4, <1>7, <1>8

Seated == SeatCount \in Nat

LEMMA SeatsNat == IInv => Seated
  BY SeatCountIs DEF IInv, Sound, Types, Seated

(* A row the cap lets by leaves a seat below the limit for its start. *)
LEMMA CapLeaves ==
    ASSUME TypedFacts, TypedClaims, TypedRest, NEW pass \in PassRec, NEW r \in WaitingRow,
           CapAllows(pass, r), ~Reserved(pass, r), SeatCount' <= SeatCount + 1,
           SeatCount' \in Nat
    PROVE  Limit = 0 \/ SeatCount' <= Limit
  <1>1. pass.reserved \in SUBSET Ids
    BY DEF PassRec, Ids
  <1>2. Cardinality(pass.reserved) \in Nat
    BY <1>1, Counts
  <1>3. SeatCount \in Nat /\ Limit \in Nat
    BY SeatCountIs, DispatchAssumption
  <1>4. Limit = 0 \/ SeatCount + Cardinality(pass.reserved) < Limit
    BY DEF CapAllows
  <1>5. QED
    BY <1>2, <1>3, <1>4

(* What the walk writes of a pass it visits. *)
LEMMA VisitedClaimed ==
    ASSUME TypedWalk, NEW p \in 1..Passes, NEW np \in PassRec, Visited(p, np)
    PROVE  \A o \in 1..Passes : passes'[o].claimed = IF o = p THEN np.claimed ELSE passes[o].claimed
  <1>1. PICK q : q = [np EXCEPT !.rows = Tail(@)]
    OBVIOUS
  <1>2. q.claimed = np.claimed
    BY <1>1 DEF PassRec
  <1>3. passes' = [passes EXCEPT ![p] = q]
    BY <1>1 DEF Visited
  <1>4. QED
    BY <1>2, <1>3 DEF TypedWalk

(* A pass counts a claim only for a row that took a seat, and the cap let it by. *)
RowWithin == (\E o \in 1..Passes : passes'[o].claimed > passes[o].claimed)
               => Limit = 0 \/ SeatCount' <= Limit

LEMMA RowWithinLimit ==
    ASSUME IInv, IInv', NEW rest, NEW p \in 1..Passes, passes[p].rows # <<>>, PassRow(p, rest)
    PROVE  RowWithin
  <1>1. /\ TypedWalk /\ TypedFacts /\ TypedClaims /\ TypedRest
        /\ TypedFacts' /\ TypedClaims' /\ TypedRest'
    BY DEF IInv, Sound, Types
  <1>2. PICK pass \in PassRec : pass = passes[p]
    BY <1>1 DEF TypedWalk
  <1>3. PICK r \in WaitingRow : r = Head(pass.rows)
    <2>1. pass.rows \in Seq(WaitingRow)
      BY DEF PassRec
    <2>2. Head(pass.rows) \in WaitingRow
      BY <1>2, <2>1
    <2>3. QED
      BY <2>2
  <1>4. r.id \in Ids /\ pass.claimed \in Nat
    BY Kinds DEF PassRec
  <1>5. \A o \in 1..Passes : passes[o].claimed \in Nat
    BY <1>1 DEF TypedWalk, PassRec
  <1>6. SeatCount' \in Nat
    <2>1. IInv'
      OBVIOUS
    <2>2. Seated'
      BY <2>1, SeatsNat, PTL
    <2>3. QED
      BY <2>2 DEF Seated
  <1>7. UNCHANGED facts
    BY DEF PassRow
  <1>8. ASSUME \A o \in 1..Passes : passes'[o].claimed = passes[o].claimed
        PROVE  RowWithin
    BY <1>5, <1>8 DEF RowWithin
  <1>9. ASSUME SeatCount' <= SeatCount + 1, CapAllows(pass, r), ~Reserved(pass, r)
        PROVE  RowWithin
    BY <1>1, <1>6, <1>9, CapLeaves DEF RowWithin
  <1>10. ASSUME NEW np \in PassRec, Visited(p, np), np.claimed = pass.claimed
         PROVE  RowWithin
    BY <1>1, <1>2, <1>8, <1>10, VisitedClaimed
  <1>11. CASE /\ Kind(r) = "merge"
              /\ Visited(p, [pass EXCEPT !.on = IF merges' = merges THEN NoOne ELSE r.id])
    <2>1. PICK m \in Ids \cup {NoOne} : m = (IF merges' = merges THEN NoOne ELSE r.id)
      BY <1>4
    <2>2. PICK np \in PassRec : np = [pass EXCEPT !.on = m] /\ np.claimed = pass.claimed
      <3>1. [pass EXCEPT !.on = m] \in PassRec
        BY DEF PassRec
      <3>2. [pass EXCEPT !.on = m].claimed = pass.claimed
        BY DEF PassRec
      <3>3. QED
        BY <3>1, <3>2
    <2>3. Visited(p, np)
      BY <1>11, <2>1, <2>2
    <2>4. QED
      BY <1>10, <2>2, <2>3
  <1>12. CASE passes' = [passes EXCEPT ![p].rows = <<>>]
    <2>1. \A o \in 1..Passes : passes'[o].claimed = passes[o].claimed
      BY <1>1, <1>12 DEF TypedWalk, PassRec
    <2>2. QED
      BY <1>8, <2>1
  <1>13. CASE /\ Kind(r) = "consultation" /\ CapAllows(pass, r) /\ ClaimConsultation(r, rest)
              /\ Visited(p, [pass EXCEPT !.claimed = IF atWork' = atWork THEN @ ELSE @ + 1])
              /\ UNCHANGED <<claims, starts, merges>>
    <2>1. CASE atWork' = atWork
      <3>1. [pass EXCEPT !.claimed = pass.claimed] = pass
        BY DEF PassRec
      <3>2. Visited(p, pass)
        BY <1>13, <2>1, <3>1
      <3>3. QED
        BY <1>10, <3>2
    <2>2. CASE atWork' # atWork
      <3>1. consultation' = [consultation EXCEPT ![r.id] = "opening"]
        BY <1>13, <2>2 DEF ClaimConsultation, Wait
      <3>2. \A y \in Consultations : y # r.id => consultation'[y] = consultation[y]
        BY <1>1, <3>1 DEF TypedRest
      <3>3. SeatCount' <= SeatCount + 1
        BY <1>1, <1>4, <1>7, <1>13, <3>2, OneSeat
      <3>4. ~Reserved(pass, r)
        BY <1>13 DEF Reserved
      <3>5. QED
        BY <1>9, <1>13, <3>3, <3>4
    <2>3. QED
      BY <2>1, <2>2
  <1>14. CASE Visited(p, pass)
    BY <1>10, <1>14
  <1>15. CASE /\ Kind(r) = "handoff" /\ CapAllows(pass, r) /\ ClaimHandoff(r, rest)
              /\ Visited(p, IF starts' = starts THEN pass
                            ELSE IF Reserved(pass, r)
                            THEN [pass EXCEPT !.reserved = @ \ {r.id}]
                            ELSE [pass EXCEPT !.claimed = @ + 1])
              /\ UNCHANGED <<queue, consultation, merges>>
    <2>1. CASE starts' = starts
      BY <1>14, <1>15, <2>1
    <2>2. CASE starts' # starts /\ Reserved(pass, r)
      <3>1. PICK np \in PassRec : np = [pass EXCEPT !.reserved = @ \ {r.id}]
                                  /\ np.claimed = pass.claimed
        <4>1. [pass EXCEPT !.reserved = @ \ {r.id}] \in PassRec
          BY DEF PassRec
        <4>2. [pass EXCEPT !.reserved = @ \ {r.id}].claimed = pass.claimed
          BY DEF PassRec
        <4>3. QED
          BY <4>1, <4>2
      <3>2. Visited(p, np)
        BY <1>15, <2>2, <3>1
      <3>3. QED
        BY <1>10, <3>1, <3>2
    <2>3. CASE starts' # starts /\ ~Reserved(pass, r)
      <3>1. claims' \subseteq claims \cup {r.id}
        BY <1>15 DEF ClaimHandoff
      <3>2. SeatCount' <= SeatCount + 1
        BY <1>1, <1>4, <1>7, <1>15, <3>1, OneSeat
      <3>3. QED
        BY <1>9, <1>15, <2>3, <3>2
    <2>4. QED
      BY <2>1, <2>2, <2>3
  <1>16. QED
    BY <1>2, <1>3, <1>11, <1>12, <1>13, <1>14, <1>15 DEF PassRow

(* Every other step leaves the count of a pass, or starts it again at nothing. *)
LEMMA OthersWithin ==
    ASSUME IInv, Next, ~CallRow, \A p \in 1..Passes : ~PassWalks(p)
    PROVE  \A o \in 1..Passes : passes'[o].claimed <= passes[o].claimed
  <1>1. TypedWalk
    BY DEF IInv, Sound, Types
  <1>2. passes \in [1..Passes -> PassRec] /\ \A o \in 1..Passes : passes[o].claimed \in Nat
    BY <1>1 DEF TypedWalk, PassRec
  <1>3. CASE UNCHANGED passes
    BY <1>2, <1>3
  <1>4. ASSUME NEW o, NEW np, passes' = [passes EXCEPT ![o] = np], np.claimed = 0
        PROVE  \A k \in 1..Passes : passes'[k].claimed <= passes[k].claimed
    BY <1>2, <1>4
  <1>5. ASSUME NEW p, NEW rest, LapHead(p, rest)
        PROVE  \A k \in 1..Passes : passes'[k].claimed <= passes[k].claimed
    <2>1. PICK rows, open, reserved :
            passes' = [passes EXCEPT ![p] = [walks |-> TRUE, on |-> NoOne, claimed |-> 0,
                                             rows |-> rows, open |-> open,
                                             reserved |-> reserved]]
      BY <1>5 DEF LapHead
    <2>2. PICK np : np = [walks |-> TRUE, on |-> NoOne, claimed |-> 0,
                          rows |-> rows, open |-> open, reserved |-> reserved]
      OBVIOUS
    <2>3. np.claimed = 0
      BY <2>2
    <2>4. QED
      BY <1>4, <2>1, <2>2, <2>3
  <1>6. CASE Handler
    <2>1. CASE CallPass
      BY <1>5, <2>1 DEF CallPass
    <2>2. CASE ~CallPass
      <3>1. UNCHANGED passes
        BY <1>6, <2>2 DEF Handler, CallRemove, CallAnswer, CallRelease, CallSettle, CallSeatFree,
           CallDrain, CallDrainParked, CallDropped, walk
      <3>2. QED
        BY <1>3, <3>1
    <2>3. QED
      BY <2>1, <2>2
  <1>7. CASE Walk
    <2>1. PICK p \in 1..Passes : PassEnds(p)
      BY <1>7 DEF Walk
    <2>2. CASE LapHead(p, <<>>)
      BY <1>5, <2>2
    <2>3. CASE passes' = [passes EXCEPT ![p] = NoPass]
      <3>1. NoPass.claimed = 0
        BY DEF NoPass
      <3>2. QED
        BY <1>4, <2>3, <3>1
    <2>4. QED
      BY <2>1, <2>2, <2>3 DEF PassEnds
  <1>8. CASE Asks
    <2>1. UNCHANGED passes
      BY <1>8 DEF Asks, Dispatch, DispatchPlaneAction, ScheduleConsultation, OpenNow,
         ForceDispatch, walk
    <2>2. QED
      BY <1>3, <2>1
  <1>9. CASE Ends
    <2>1. UNCHANGED passes
      BY <1>9 DEF Ends, RemoveQueueItem, SetSourceMuted, RemoveConsultationQueueItem,
         CloseDecidedCycle, CloseWorkCycle, SetQueuePaused, walk
    <2>2. QED
      BY <1>3, <2>1
  <1>10. CASE Answers
    <2>1. CASE \E t \in Tickets : \E ok \in BOOLEAN : MergeEnds(t, ok)
      <3>1. PICK t \in Tickets : passes' = Wake(t)
        BY <2>1 DEF MergeEnds
      <3>2. \A o \in 1..Passes : passes'[o].claimed = passes[o].claimed
        BY <1>2, <3>1 DEF Wake, PassRec
      <3>3. QED
        BY <1>2, <3>2
    <2>2. CASE ~\E t \in Tickets : \E ok \in BOOLEAN : MergeEnds(t, ok)
      <3>1. UNCHANGED passes
        BY <1>10, <2>2 DEF Answers, StartEnds, StartReported, StartThrows, CleanupEnds,
           OpeningSettles, walk
      <3>2. QED
        BY <1>3, <3>1
    <2>3. QED
      BY <2>1, <2>2
  <1>11. CASE World
    <2>1. CASE Restart
      <3>1. \A o \in 1..Passes : passes'[o].claimed = 0
        BY <2>1 DEF Restart, NoPass
      <3>2. QED
        BY <1>2, <3>1
    <2>2. CASE ~Restart
      <3>1. UNCHANGED passes
        BY <1>11, <2>2 DEF World, PickupWorkQueue, ConsultationCloses, TurnEnds, AgentMissing,
           BudgetEnds, walk
      <3>2. QED
        BY <1>3, <3>1
    <2>3. QED
      BY <2>1, <2>2
  <1>12. QED
    BY <1>6, <1>7, <1>8, <1>9, <1>10, <1>11 DEF Next

LEMMA StepWithin ==
    IInv /\ IInv' /\ [Next]_vars =>
      [(\E p \in 1..Passes : passes'[p].claimed > passes[p].claimed /\ passes'[p].walks)
         => Limit = 0 \/ SeatCount' <= Limit]_vars
  <1> SUFFICES ASSUME IInv, IInv', Next
               PROVE  (\E p \in 1..Passes : passes'[p].claimed > passes[p].claimed)
                        => Limit = 0 \/ SeatCount' <= Limit
    OBVIOUS
  <1>1. CASE CallRow
    <2>1. PICK c \in Seq(CallRec) : calls = c /\ Sound(c)
      BY DEF IInv
    <2>2. PICK p \in 1..Passes : p = c[1].pass /\ passes[p].rows # <<>>
      BY <1>1, <2>1 DEF Sound, Laps, CallRow, Calling
    <2>3. PICK rest : rest = Remaining
      OBVIOUS
    <2>4. PassRow(p, rest)
      BY <1>1, <2>1, <2>2, <2>3 DEF CallRow
    <2>5. QED
      BY <2>2, <2>4, RowWithinLimit DEF RowWithin
  <1>2. CASE \E p \in 1..Passes : PassWalks(p)
    BY <1>2, RowWithinLimit DEF PassWalks, RowWithin
  <1>3. CASE ~CallRow /\ \A p \in 1..Passes : ~PassWalks(p)
    <2>1. \A o \in 1..Passes : passes'[o].claimed <= passes[o].claimed
      BY <1>3, OthersWithin
    <2>2. \A o \in 1..Passes : passes'[o].claimed \in Nat /\ passes[o].claimed \in Nat
      BY DEF IInv, Sound, Types, TypedWalk, PassRec
    <2>3. QED
      BY <2>1, <2>2
  <1>4. QED
    BY <1>1, <1>2, <1>3

(* The start a walk makes on a free seat never crosses the Parallel limit, whatever took *)
(* a seat since the head of its lap.                                                      *)
THEOREM DispatchWithinLimit == Spec => PickupWithinLimit
  BY Invariant, StepWithin, PTL DEF Spec, PickupWithinLimit
================================================================================
