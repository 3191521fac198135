---------------------------- MODULE SourceFactsProofs ----------------------------
(***************************************************************************)
(* Two theorems of SourceFacts for any sources, tickets and policies: no   *)
(* older list takes the place of a newer one, and a mute leaves no start   *)
(* waiting.                                                                *)
(*                                                                         *)
(* That a read which settles is no older than what the facts hold is not   *)
(* a property of the facts alone: a read has its version from the moment   *)
(* of its answer, and other reads may settle until its own turn.  It holds *)
(* because a source has one read of the live coordinator at a time, and    *)
(* the settle of that read is the only one that writes (Ordered).          *)
(***************************************************************************)
EXTENDS SourceFacts, TLAPS

(* The host is never behind an answer, nor an answer behind the facts. *)
Ordered == \A s \in Sources :
    /\ list[s].version <= spent
    /\ fact[s].version <= list[s].version
    /\ read[s].phase = "answered" => /\ fact[s].version <= read[s].version
                                     /\ read[s].version <= list[s].version

IInv == TypeOK /\ Ordered

--------------------------------------------------------------------------------
(* What the helpers make of the records. *)

LEMMA ReadValues == NoRead \in Reads /\ Asked \in Reads
                    /\ NoRead.phase = "idle" /\ Asked.phase = "asked"
  <1>1. 0 \in Versions
    BY SourceAssumption DEF Versions, SourceAssumption
  <1>2. NoRead \in Reads
    BY <1>1 DEF NoRead, Reads, Phases
  <1>3. Asked \in Reads /\ Asked.phase = "asked"
    BY <1>2 DEF Asked, Reads, Phases
  <1>4. QED
    BY <1>2, <1>3 DEF NoRead

(* A settled read writes the memberships, the version and the health; only what it  *)
(* got becomes listed, and no membership is forgotten.                              *)
LEMMA AppliedIs ==
    ASSUME TypeOK, NEW s \in Sources, NEW r \in Reads
    PROVE  /\ Applied(s, r) \in Facts
           /\ Applied(s, r).muted = fact[s].muted
           /\ Applied(s, r).version = IF r.phase = "failed" THEN fact[s].version ELSE r.version
           /\ \A t \in Tickets :
                Applied(s, r).member[t] # "never" => \/ fact[s].member[t] # "never"
                                                     \/ r.phase # "failed" /\ t \in r.got
           /\ \A t \in Tickets :
                fact[s].member[t] = "never" =>
                  Applied(s, r).member[t] \in {"never", "listed"}
           /\ \A t \in Tickets : fact[s].member[t] # "never" =>
                  Applied(s, r).member[t] # "never"
  <1> USE DEF TypeOK, Facts, Reads
  <1>1. fact[s] \in Facts
    OBVIOUS
  <1>2. CASE r.phase = "failed"
    BY <1>1, <1>2 DEF Applied, Healths
  <1>3. CASE r.phase # "failed"
    <2> DEFINE m == [t \in Tickets |-> IF t \in r.got THEN "listed"
                                      ELSE IF fact[s].member[t] = "listed" THEN "gone"
                                           ELSE fact[s].member[t]]
    <2>1. m \in [Tickets -> {"never", "gone", "listed"}]
      BY <1>1
    <2>2. Applied(s, r) = [health |-> "healthy", muted |-> fact[s].muted,
                           version |-> r.version, member |-> m]
      BY <1>1, <1>3 DEF Applied
    <2>3. QED
      BY <1>1, <1>3, <2>1, <2>2 DEF Healths
  <1>4. QED
    BY <1>2, <1>3

LEMMA LeftIs ==
    ASSUME NEW f \in Facts
    PROVE  /\ Left(f) \in Facts /\ Left(f).muted = FALSE /\ Left(f).version = f.version
           /\ \A t \in Tickets :
                Left(f).member[t] = IF f.member[t] = "listed" THEN "gone" ELSE f.member[t]
  <1> DEFINE m == [t \in Tickets |-> IF f.member[t] = "listed" THEN "gone"
                                      ELSE f.member[t]]
             g == [f EXCEPT !.health = "removed"]
             h == [g EXCEPT !.muted = FALSE]
  <1>1. g \in Facts /\ g.version = f.version /\ g.member = f.member
    BY DEF Facts, Healths
  <1> HIDE DEF g
  <1>2. h \in Facts /\ h.muted = FALSE /\ h.version = f.version /\ h.member = f.member
    BY <1>1 DEF Facts
  <1>3. m \in [Tickets -> {"never", "gone", "listed"}]
    BY DEF Facts
  <1>4. Left(f) = [h EXCEPT !.member = m]
    BY DEF Left, g
  <1> HIDE DEF h, m
  <1>5. /\ Left(f) \in Facts /\ Left(f).muted = FALSE /\ Left(f).version = f.version
        /\ Left(f).member = m
    BY <1>2, <1>3, <1>4 DEF Facts
  <1>6. QED
    BY <1>5 DEF m

(* A coordinator's start keeps the versions, adds no mute and lists nothing anew.   *)
LEMMA InitializedIs ==
    ASSUME TypeOK, NEW S \in SUBSET Sources
    PROVE  /\ Initialized(S) \in [Sources -> Facts]
           /\ \A s \in Sources :
                /\ Initialized(S)[s].version = fact[s].version
                /\ Initialized(S)[s].muted => fact[s].muted
                /\ \A t \in Tickets :
                     /\ Initialized(S)[s].member[t] = "listed" => fact[s].member[t] = "listed"
                     /\ Initialized(S)[s].member[t] = "never" <=> fact[s].member[t] = "never"
  <1> USE DEF TypeOK, Facts
  <1> SUFFICES ASSUME NEW s \in Sources
      PROVE /\ Initialized(S)[s] \in Facts
            /\ Initialized(S)[s].version = fact[s].version
            /\ Initialized(S)[s].muted => fact[s].muted
            /\ \A t \in Tickets :
                 /\ Initialized(S)[s].member[t] = "listed" => fact[s].member[t] = "listed"
                 /\ Initialized(S)[s].member[t] = "never" <=> fact[s].member[t] = "never"
    BY DEF Initialized
  <1>1. fact[s] \in Facts
    OBVIOUS
  <1>2. CASE s \in S
    BY <1>1, <1>2 DEF Initialized, Healths
  <1>3. CASE s \notin S /\ fact[s].health = "unknown"
    BY <1>1, <1>3 DEF Initialized
  <1>4. CASE s \notin S /\ fact[s].health # "unknown"
    <2>1. Initialized(S)[s] = Left(fact[s])
      BY <1>4 DEF Initialized
    <2> HIDE DEF TypeOK, Facts
    <2>2. QED
      BY <1>1, <2>1, LeftIs
  <1>5. QED
    BY <1>2, <1>3, <1>4

(* A read that begins has answered nothing yet. *)
LEMMA BegunIs ==
    ASSUME TypeOK, NEW S
    PROVE  /\ Begun(S) \in [Sources -> Reads]
           /\ \A s \in Sources : Begun(S)[s].phase = "answered" => Begun(S)[s] = read[s]
  BY ReadValues DEF TypeOK, Begun

LEMMA OpenedIs ==
    ASSUME TypeOK, NEW s \in Sources, NEW r \in Reads
    PROVE  /\ Opened(s, r) \in [Tickets -> [state : {"none", "open", "working"},
                                           row : BOOLEAN, unread : SUBSET Sources]]
           /\ \A t \in Tickets :
                /\ Opened(s, r)[t].row = ticket[t].row
                /\ Opened(s, r)[t].state = "working" <=> ticket[t].state = "working"
                /\ ticket[t].state # "none" => Opened(s, r)[t].state # "none"
                /\ r.phase # "failed" /\ t \in r.got => Opened(s, r)[t].state # "none"
  <1> DEFINE Rows == [state : {"none", "open", "working"}, row : BOOLEAN,
                      unread : SUBSET Sources]
  <1>1. ticket \in [Tickets -> Rows]
    BY DEF TypeOK
  <1>2. CASE r.phase = "failed"
    BY <1>1, <1>2 DEF Opened
  <1>3. CASE r.phase # "failed"
    <2> SUFFICES ASSUME NEW t \in Tickets
                 PROVE  /\ Opened(s, r)[t] \in Rows
                        /\ Opened(s, r)[t].row = ticket[t].row
                        /\ Opened(s, r)[t].state = "working" <=> ticket[t].state = "working"
                        /\ ticket[t].state # "none" => Opened(s, r)[t].state # "none"
                        /\ t \in r.got => Opened(s, r)[t].state # "none"
      BY <1>3 DEF Opened
    <2> DEFINE f == ticket[t]
               g == [f EXCEPT !.state = IF @ = "none" /\ t \in r.got THEN "open" ELSE @]
    <2>1. f \in Rows
      BY <1>1
    <2> HIDE DEF f
    <2>2. /\ g \in Rows /\ g.row = f.row
          /\ g.state = IF f.state = "none" /\ t \in r.got THEN "open" ELSE f.state
      BY <2>1
    <2>3. Opened(s, r)[t] = [g EXCEPT !.unread = @ \ {s}]
      BY <1>3 DEF Opened, f
    <2> HIDE DEF g
    <2>4. /\ Opened(s, r)[t] \in Rows /\ Opened(s, r)[t].row = g.row
          /\ Opened(s, r)[t].state = g.state
      BY <2>2, <2>3
    <2>5. QED
      BY <2>1, <2>2, <2>4 DEF f
  <1>4. QED
    BY <1>2, <1>3

--------------------------------------------------------------------------------
(* The invariant. *)

LEMMA InitIInv == Init => IInv
  <1> SUFFICES ASSUME Init PROVE IInv
    OBVIOUS
  <1>1. 0 \in Versions /\ MaxEvents \in Nat
    BY SourceAssumption DEF Versions, SourceAssumption
  <1>2. /\ list \in [Sources -> [on : SUBSET Tickets, version : Versions]]
        /\ \A s \in Sources : list[s].version = 0
    BY <1>1, SourceAssumption DEF Init, SourceAssumption
  <1>3. plan \in [sources : SUBSET Sources, again : BOOLEAN]
    BY SourceAssumption DEF Init, SourceAssumption
  <1>4. /\ read \in [Sources -> Reads] /\ late \in [Sources -> Reads]
        /\ \A s \in Sources : read[s].phase # "answered"
    BY ReadValues DEF Init
  <1>5. timer \in [Sources -> [named : BOOLEAN, loose : Nat]]
    BY DEF Init, NoTimer
  <1>6. /\ fact \in [Sources -> Facts]
        /\ \A s \in Sources : /\ fact[s].version = 0
                             /\ \A t \in Tickets : fact[s].member[t] = "never"
    BY <1>1 DEF Init, Facts, Healths
  <1>7. ticket \in [Tickets -> [state : {"none", "open", "working"},
                               row : BOOLEAN, unread : SUBSET Sources]]
    BY DEF Init
  <1>8. \A t \in Tickets : Known(t) = {}
    BY <1>6 DEF Known
  <1>9. spent = 0 /\ spent \in 0..MaxEvents
    BY <1>1 DEF Init
  <1>10. TypeOK
    BY <1>2, <1>3, <1>4, <1>5, <1>6, <1>7, <1>8, <1>9 DEF TypeOK
  <1>11. Ordered
    BY <1>2, <1>4, <1>6, <1>9 DEF Ordered
  <1>12. QED
    BY <1>10, <1>11 DEF IInv

(* A step of the reads alone: what has answered is as it was, or of this moment. *)
LEMMA ReadsIInv ==
    ASSUME IInv, UNCHANGED <<list, plan, fact, ticket>>,
           read' \in [Sources -> Reads], late' \in [Sources -> Reads],
           timer' \in [Sources -> [named : BOOLEAN, loose : Nat]],
           spent' = spent \/ Event,
           \A s \in Sources : read'[s].phase = "answered" =>
               read'[s] = read[s] \/ read'[s].version = list[s].version
    PROVE  IInv'
  <1>1. spent \in Nat /\ spent' \in 0..MaxEvents /\ spent <= spent' /\ MaxEvents \in Nat
    BY SourceAssumption DEF IInv, TypeOK, Event, SourceAssumption
  <1>2. TypeOK'
    BY <1>1 DEF IInv, TypeOK, Known
  <1>3. \A s \in Sources : list[s].version \in Nat /\ fact[s].version \in Nat
    BY <1>1 DEF IInv, TypeOK, Facts, Versions
  <1>4. Ordered'
    BY <1>1, <1>3 DEF IInv, Ordered
  <1>5. QED
    BY <1>2, <1>4 DEF IInv

LEMMA AsksIInv ==
    ASSUME IInv, NEW s \in Sources,
           Answer(s) \/ FailRead(s) \/ Fire(s) \/ SettleLate(s) \/ Await(s)
    PROVE  IInv'
  <1>1. /\ read \in [Sources -> Reads] /\ late \in [Sources -> Reads]
        /\ timer \in [Sources -> [named : BOOLEAN, loose : Nat]]
        /\ list \in [Sources -> [on : SUBSET Tickets, version : Versions]]
    BY DEF IInv, TypeOK
  <1>2. CASE Answer(s)
    <2>1. [phase |-> "answered", got |-> list[s].on, version |-> list[s].version,
           waited |-> read[s].waited] \in Reads
      BY <1>1 DEF Reads, Phases
    <2>2. QED
      BY <1>1, <1>2, <2>1, ReadsIInv DEF Answer
  <1>3. CASE FailRead(s)
    <2>1. [read[s] EXCEPT !.phase = "failed"] \in Reads
          /\ [read[s] EXCEPT !.phase = "failed"].phase = "failed"
      BY <1>1, ZenonT(60) DEF Reads, Phases
    <2>2. read' = [read EXCEPT ![s] = [read[s] EXCEPT !.phase = "failed"]]
      BY <1>3 DEF FailRead
    <2>3. QED
      BY <1>1, <1>3, <2>1, <2>2, ReadsIInv DEF FailRead
  <1>4. CASE Fire(s)
    <2>1. timer' \in [Sources -> [named : BOOLEAN, loose : Nat]]
      <3>1. CASE timer[s].named /\ timer' = [timer EXCEPT ![s].named = FALSE]
        BY <1>1, <3>1
      <3>2. CASE timer[s].loose > 0 /\ timer' = [timer EXCEPT ![s].loose = @ - 1]
        <4>1. timer[s].loose \in Nat /\ timer[s].loose - 1 \in Nat
          BY <1>1, <3>2
        <4>2. QED
          BY <1>1, <3>2, <4>1
      <3>3. QED
        BY <1>4, <3>1, <3>2 DEF Fire
    <2>2. QED
      BY <1>1, <1>4, <2>1, BegunIs, ReadsIInv DEF Fire, IInv
  <1>5. CASE SettleLate(s)
    BY <1>1, <1>5, ReadValues, ReadsIInv DEF SettleLate
  <1>6. CASE Await(s)
    <2> DEFINE r == IF InFlight(s) THEN read[s] ELSE Asked
               w == [r EXCEPT !.waited = TRUE]
    <2>1. r \in Reads /\ (r.phase = "answered" => r = read[s])
      BY <1>1, ReadValues
    <2>2. w \in Reads /\ w.phase = r.phase /\ w.version = r.version
      BY <2>1 DEF Reads
    <2>3. read' = [read EXCEPT ![s] = w]
      BY <1>6 DEF Await
    <2>4. timer' \in [Sources -> [named : BOOLEAN, loose : Nat]]
      BY <1>1, <1>6 DEF Await
    <2> HIDE DEF w, r
    <2>5. read' \in [Sources -> Reads] /\ UNCHANGED <<list, plan, late, fact, ticket, spent>>
      BY <1>1, <1>6, <2>2, <2>3 DEF Await
    <2>6. \A o \in Sources : read'[o].phase = "answered" => read'[o].version = read[o].version
      BY <1>1, <2>1, <2>2, <2>3
    <2>7. TypeOK'
      BY <2>4, <2>5 DEF IInv, TypeOK, Known
    <2>8. \A o \in Sources : read'[o].phase = "answered" => read[o].phase = "answered"
      BY <1>1, <2>1, <2>2, <2>3
    <2>9. Ordered'
      BY <2>5, <2>6, <2>8 DEF IInv, Ordered
    <2>10. QED
      BY <2>7, <2>9 DEF IInv
  <1>7. QED
    BY <1>2, <1>3, <1>4, <1>5, <1>6

LEMMA RefreshIInv ==
    ASSUME IInv, Refresh
    PROVE  IInv'
  <1>1. late \in [Sources -> Reads] /\ timer \in [Sources -> [named : BOOLEAN, loose : Nat]]
    BY DEF IInv, TypeOK
  <1>2. QED
    BY <1>1, BegunIs, ReadsIInv DEF Refresh, IInv

(* The settle of a read: the facts take its version, which is no older than theirs, *)
(* and the read is gone.                                                            *)
LEMMA SettleIs ==
    ASSUME IInv, NEW s \in Sources, Settle(s)
    PROVE  /\ fact' = [fact EXCEPT ![s] = Applied(s, read[s])]
           /\ fact' \in [Sources -> Facts] /\ read[s] \in Reads
           /\ \A o \in Sources : fact'[o].version >= fact[o].version
           /\ \A o \in Sources : fact'[o].version <= list[o].version
  <1>1. /\ fact \in [Sources -> Facts] /\ read[s] \in Reads
        /\ read[s].phase \in {"answered", "failed"}
        /\ fact' = [fact EXCEPT ![s] = Applied(s, read[s])]
    BY DEF IInv, TypeOK, Settle
  <1>2. Applied(s, read[s]) \in Facts
    BY <1>1, AppliedIs DEF IInv
  <1>3. Applied(s, read[s]).version
          = IF read[s].phase = "failed" THEN fact[s].version ELSE read[s].version
    BY <1>1, AppliedIs DEF IInv
  <1>4. \A o \in Sources : fact[o].version \in Nat /\ fact[o].version <= list[o].version
    BY <1>1, SourceAssumption DEF IInv, Ordered, Facts, Versions, SourceAssumption
  <1>5. read[s].phase = "answered" => /\ fact[s].version <= read[s].version
                                      /\ read[s].version <= list[s].version
    BY DEF IInv, Ordered
  <1>6. QED
    BY <1>1, <1>2, <1>3, <1>4, <1>5

LEMMA SettleIInv ==
    ASSUME IInv, NEW s \in Sources, Settle(s)
    PROVE  IInv'
  <1>1. /\ fact \in [Sources -> Facts] /\ read \in [Sources -> Reads] /\ read[s] \in Reads
        /\ timer \in [Sources -> [named : BOOLEAN, loose : Nat]]
    BY DEF IInv, TypeOK
  <1>2. /\ fact' \in [Sources -> Facts]
        /\ ticket' \in [Tickets -> [state : {"none", "open", "working"},
                                   row : BOOLEAN, unread : SUBSET Sources]]
        /\ read' \in [Sources -> Reads]
    BY <1>1, SettleIs, OpenedIs, ReadValues DEF Settle, IInv
  <1>3. timer' \in [Sources -> [named : BOOLEAN, loose : Nat]]
    <2>1. timer[s].loose \in Nat /\ timer[s].loose + (IF timer[s].named THEN 1 ELSE 0) \in Nat
      BY <1>1
    <2>2. QED
      BY <1>1, <2>1 DEF Settle, Rescheduled
  <1>4. ASSUME NEW t \in Tickets, Known(t)' # {} PROVE ticket'[t].state # "none"
    <2>1. PICK o \in Sources : fact'[o].member[t] # "never"
      BY <1>4 DEF Known
    <2>2. CASE fact[o].member[t] # "never"
      <3>1. ticket[t].state # "none"
        BY <2>2 DEF IInv, TypeOK, Known
      <3>2. QED
        BY <1>1, <3>1, OpenedIs DEF Settle, IInv
    <2>3. CASE fact[o].member[t] = "never"
      <3>1. o = s /\ fact'[o] = Applied(s, read[s])
        BY <1>1, <2>1, <2>3, SettleIs
      <3>2. read[s].phase # "failed" /\ t \in read[s].got
        BY <1>1, <2>1, <2>3, <3>1, AppliedIs DEF IInv
      <3>3. QED
        BY <1>1, <3>2, OpenedIs DEF Settle, IInv
    <2>4. QED
      BY <2>2, <2>3
  <1>5. TypeOK'
    BY <1>2, <1>3, <1>4 DEF IInv, TypeOK, Settle
  <1>6. UNCHANGED <<list, spent>> /\ read' = [read EXCEPT ![s] = NoRead]
    BY DEF Settle
  <1>7. \A o \in Sources : read'[o].phase = "answered" =>
            o # s /\ read'[o] = read[o] /\ fact'[o] = fact[o]
    BY <1>1, <1>6, SettleIs, ReadValues
  <1>8. Ordered'
    BY <1>6, <1>7, SettleIs DEF IInv, Ordered
  <1>9. QED
    BY <1>5, <1>8 DEF IInv

(* The hosts' lists change, each at most by one version in one event. *)
LEMMA ListsIInv ==
    ASSUME IInv, Event, UNCHANGED <<process, ticket>>,
           list' \in [Sources -> [on : SUBSET Tickets, version : Nat]],
           \A s \in Sources : list'[s].version \in {list[s].version, list[s].version + 1},
           fact' \in [Sources -> Facts],
           \A s \in Sources : /\ fact'[s].version = fact[s].version
                              /\ \A t \in Tickets : fact'[s].member[t] # "never" =>
                                                     fact[s].member[t] # "never"
    PROVE  IInv'
  <1>1. /\ MaxEvents \in Nat /\ spent \in 0..MaxEvents /\ spent' = spent + 1
        /\ spent' \in 0..MaxEvents
    BY SourceAssumption DEF IInv, TypeOK, Event, SourceAssumption
  <1>2. \A s \in Sources : /\ list[s].version \in Nat /\ fact[s].version \in Nat
                           /\ read[s].version \in Nat
    BY <1>1 DEF IInv, TypeOK, Facts, Reads, Versions
  <1>3. \A s \in Sources : list'[s].version <= spent' /\ list'[s].version >= list[s].version
    BY <1>1, <1>2 DEF IInv, Ordered
  <1>4. list' \in [Sources -> [on : SUBSET Tickets, version : Versions]]
    <2>1. \A s \in Sources : list'[s].version \in Versions
      BY <1>1, <1>2, <1>3 DEF Versions
    <2>2. QED
      BY <2>1
  <1>5. \A t \in Tickets : Known(t)' \subseteq Known(t)
    BY DEF Known
  <1>6. TypeOK'
    BY <1>1, <1>4, <1>5 DEF IInv, TypeOK, process
  <1>7. Ordered'
    BY <1>2, <1>3 DEF IInv, Ordered, process
  <1>8. QED
    BY <1>6, <1>7 DEF IInv

LEMMA HostsIInv ==
    ASSUME IInv, NEW t \in Tickets, Merge(t) \/ \E s \in Sources : Change(s, t)
    PROVE  IInv'
  <1>1. /\ list \in [Sources -> [on : SUBSET Tickets, version : Nat]]
        /\ fact \in [Sources -> Facts]
    BY SourceAssumption DEF IInv, TypeOK, Versions, SourceAssumption
  <1>2. ASSUME NEW s \in Sources, Change(s, t) PROVE IInv'
    <2> DEFINE new == [on |-> IF t \in list[s].on THEN list[s].on \ {t}
                              ELSE list[s].on \cup {t},
                       version |-> list[s].version + 1]
    <2>1. new \in [on : SUBSET Tickets, version : Nat] /\ new.version = list[s].version + 1
      BY <1>1
    <2>2. list' = [list EXCEPT ![s] = new]
      BY <1>2 DEF Change
    <2> HIDE DEF new
    <2>3. QED
      BY <1>1, <1>2, <2>1, <2>2, ListsIInv DEF Change
  <1>3. CASE Merge(t)
    <2>1. list' \in [Sources -> [on : SUBSET Tickets, version : Nat]]
          /\ \A s \in Sources : list'[s].version \in {list[s].version, list[s].version + 1}
      BY <1>1, <1>3 DEF Merge
    <2>2. \A s \in Sources :
            /\ [fact[s] EXCEPT !.member[t] = "gone"] \in Facts
            /\ [fact[s] EXCEPT !.member[t] = "gone"].version = fact[s].version
            /\ \A u \in Tickets : [fact[s] EXCEPT !.member[t] = "gone"].member[u]
                    = IF u = t THEN "gone" ELSE fact[s].member[u]
      BY <1>1 DEF Facts
    <2>3. fact' \in [Sources -> Facts]
      BY <1>1, <1>3, <2>2 DEF Merge
    <2>4. \A s \in Sources : /\ fact'[s].version = fact[s].version
                             /\ \A u \in Tickets : fact'[s].member[u] # "never" =>
                                                    fact[s].member[u] # "never"
      BY <1>1, <1>3, <2>2 DEF Merge, ListedBy
    <2>5. QED
      BY <1>3, <2>1, <2>3, <2>4, ListsIInv DEF Merge
  <1>4. QED
    BY <1>2, <1>3

(* A coordinator starts: its reads have answered nothing, and the facts keep their  *)
(* versions.                                                                        *)
LEMMA StartsIInv ==
    ASSUME IInv, NEW S \in SUBSET Sources,
           Rebind(S) \/ \E again \in Policies : Restart(S, again)
    PROVE  IInv'
  <1>1. PICK T \in SUBSET Sources, more \in BOOLEAN : Starts(T, more)
    <2>1. plan \in [sources : SUBSET Sources, again : BOOLEAN] /\ Policies \subseteq BOOLEAN
      BY SourceAssumption DEF IInv, TypeOK, SourceAssumption
    <2>2. QED
      BY <2>1 DEF Rebind, Restart
  <1>2. /\ UNCHANGED <<list, ticket>> /\ Event
        /\ late' \in [Sources -> Reads]
    BY ReadValues DEF IInv, TypeOK, Rebind, Restart
  <1>3. /\ plan' \in [sources : SUBSET Sources, again : BOOLEAN]
        /\ read' \in [Sources -> Reads] /\ \A s \in Sources : read'[s].phase # "answered"
    BY <1>1, ReadValues DEF Starts
  <1>4. timer' \in [Sources -> [named : BOOLEAN, loose : Nat]]
    BY <1>1 DEF Starts, NoTimer
  <1>5. /\ fact' \in [Sources -> Facts]
        /\ \A s \in Sources : fact'[s].version = fact[s].version
        /\ \A t \in Tickets : Known(t)' = Known(t)
    BY <1>1, InitializedIs DEF Starts, IInv, Known
  <1>6. /\ spent \in 0..MaxEvents /\ spent' \in 0..MaxEvents /\ spent' = spent + 1
        /\ MaxEvents \in Nat
    BY <1>2, SourceAssumption DEF IInv, TypeOK, Event, SourceAssumption
  <1>7. TypeOK'
    BY <1>2, <1>3, <1>4, <1>5, <1>6 DEF IInv, TypeOK
  <1>8. \A s \in Sources : list[s].version \in Nat
    BY <1>6 DEF IInv, TypeOK, Versions
  <1>9. Ordered'
    BY <1>2, <1>3, <1>5, <1>6, <1>8 DEF IInv, Ordered
  <1>10. QED
    BY <1>7, <1>9 DEF IInv

(* The mute key changes the mutes and takes rows out. *)
LEMMA MuteIs ==
    ASSUME TypeOK, NEW t \in Tickets, Mute(t)
    PROVE  /\ fact' \in [Sources -> Facts]
           /\ \A s \in Sources : /\ fact'[s].version = fact[s].version
                                /\ fact'[s].member = fact[s].member
                                /\ fact'[s].muted = IF s \in Shown(t) THEN ~Muted(t)
                                                    ELSE fact[s].muted
           /\ ticket' \in [Tickets -> [state : {"none", "open", "working"},
                                     row : BOOLEAN, unread : SUBSET Sources]]
           /\ \A u \in Tickets :
                /\ ticket'[u].state = ticket[u].state
                /\ ticket'[u].row => ticket[u].row /\ (Muted(t) \/ Shown(t) \cap Known(u) = {})
  <1> DEFINE flag == ~Muted(t)
             Rows == [state : {"none", "open", "working"}, row : BOOLEAN,
                      unread : SUBSET Sources]
  <1>1. fact \in [Sources -> Facts] /\ ticket \in [Tickets -> Rows] /\ flag \in BOOLEAN
    BY DEF TypeOK, Muted
  <1>2. fact' = [s \in Sources |-> IF s \in Shown(t) THEN [fact[s] EXCEPT !.muted = flag]
                                   ELSE fact[s]]
    BY DEF Mute
  <1>3. ticket' = IF flag THEN Unqueued(Shown(t)) ELSE ticket
    BY DEF Mute
  <1> HIDE DEF flag
  <1>4. \A s \in Sources : /\ [fact[s] EXCEPT !.muted = flag] \in Facts
                           /\ [fact[s] EXCEPT !.muted = flag].version = fact[s].version
                           /\ [fact[s] EXCEPT !.muted = flag].member = fact[s].member
                           /\ [fact[s] EXCEPT !.muted = flag].muted = flag
    BY <1>1 DEF Facts
  <1>5. /\ fact' \in [Sources -> Facts]
        /\ \A s \in Sources : /\ fact'[s].version = fact[s].version
                             /\ fact'[s].member = fact[s].member
                             /\ fact'[s].muted = IF s \in Shown(t) THEN flag ELSE fact[s].muted
    BY <1>1, <1>2, <1>4
  <1>6. \A u \in Tickets : /\ [ticket[u] EXCEPT !.row = FALSE] \in Rows
                           /\ [ticket[u] EXCEPT !.row = FALSE].state = ticket[u].state
                           /\ [ticket[u] EXCEPT !.row = FALSE].row = FALSE
    BY <1>1
  <1>7. /\ ticket' \in [Tickets -> Rows]
        /\ \A u \in Tickets :
             /\ ticket'[u].state = ticket[u].state
             /\ ticket'[u].row => ticket[u].row /\ (~flag \/ Shown(t) \cap Known(u) = {})
    BY <1>1, <1>3, <1>6 DEF Unqueued
  <1>8. QED
    BY <1>5, <1>7 DEF flag

LEMMA MuteIInv ==
    ASSUME IInv, NEW t \in Tickets, Mute(t)
    PROVE  IInv'
  <1>1. UNCHANGED <<list, process>> /\ Event
    BY DEF Mute
  <1>2. /\ spent \in 0..MaxEvents /\ spent' \in 0..MaxEvents /\ spent' = spent + 1
        /\ MaxEvents \in Nat
    BY <1>1, SourceAssumption DEF IInv, TypeOK, Event, SourceAssumption
  <1>3. \A u \in Tickets : Known(u)' = Known(u)
    BY MuteIs DEF IInv, Known
  <1>4. TypeOK'
    BY <1>1, <1>2, <1>3, MuteIs DEF IInv, TypeOK, process
  <1>5. \A s \in Sources : list[s].version \in Nat
    BY <1>2 DEF IInv, TypeOK, Versions
  <1>6. Ordered'
    BY <1>1, <1>2, <1>5, MuteIs DEF IInv, Ordered, process
  <1>7. QED
    BY <1>4, <1>6 DEF IInv

(* What the factory does with a ticket leaves the facts; a row is added by the      *)
(* top-up alone, on a ticket no mute stands on.                                     *)
LEMMA FactoryIs ==
    ASSUME TypeOK, NEW t \in Tickets,
           TopUp(t) \/ Pickup(t) \/ StartFails(t) \/ CycleEnds(t)
    PROVE  /\ ticket' \in [Tickets -> [state : {"none", "open", "working"},
                                     row : BOOLEAN, unread : SUBSET Sources]]
           /\ \A u \in Tickets :
                /\ ticket[u].state # "none" => ticket'[u].state # "none"
                /\ ticket'[u].row /\ ~ticket[u].row => ~Muted(u)
                /\ ticket'[u].row /\ ticket'[u].state = "working" =>
                     ticket[u].state = "working"
  <1> DEFINE Rows == [state : {"none", "open", "working"}, row : BOOLEAN,
                      unread : SUBSET Sources]
  <1>1. ticket \in [Tickets -> Rows] /\ ticket[t] \in Rows
    BY DEF TypeOK
  <1>2. CASE TopUp(t)
    <2>1. /\ [ticket[t] EXCEPT !.row = TRUE] \in Rows
          /\ [ticket[t] EXCEPT !.row = TRUE].state = ticket[t].state
      BY <1>1
    <2>2. ticket' = [ticket EXCEPT ![t] = [ticket[t] EXCEPT !.row = TRUE]] /\ ~Muted(t)
      BY <1>2 DEF TopUp
    <2>3. QED
      BY <1>1, <2>1, <2>2
  <1>3. CASE Pickup(t)
    <2> DEFINE f == [ticket[t] EXCEPT !.row = FALSE]
               g == [f EXCEPT !.state = "working"]
    <2>1. f \in Rows /\ f.row = FALSE
      BY <1>1
    <2> HIDE DEF f
    <2>2. g \in Rows /\ g.row = FALSE /\ g.state = "working"
      BY <2>1
    <2>3. ticket' = [ticket EXCEPT ![t] = g]
      BY <1>1, <1>3 DEF Pickup, f
    <2> HIDE DEF g
    <2>4. QED
      BY <1>1, <2>2, <2>3
  <1>4. CASE StartFails(t)
    <2> DEFINE f == [ticket[t] EXCEPT !.row = FALSE]
               g == [f EXCEPT !.unread = Sources]
    <2>1. f \in Rows /\ f.row = FALSE /\ f.state = ticket[t].state
      BY <1>1
    <2> HIDE DEF f
    <2>2. g \in Rows /\ g.row = FALSE /\ g.state = ticket[t].state
      BY <2>1
    <2>3. ticket' = [ticket EXCEPT ![t] = g]
      BY <1>1, <1>4 DEF StartFails, f
    <2> HIDE DEF g
    <2>4. QED
      BY <1>1, <2>2, <2>3
  <1>5. CASE CycleEnds(t)
    <2> DEFINE f == [ticket[t] EXCEPT !.state = "open"]
               g == [f EXCEPT !.unread = Sources]
    <2>1. f \in Rows /\ f.state = "open" /\ f.row = ticket[t].row
      BY <1>1
    <2> HIDE DEF f
    <2>2. g \in Rows /\ g.state = "open" /\ g.row = ticket[t].row
      BY <2>1
    <2>3. ticket' = [ticket EXCEPT ![t] = g]
      BY <1>1, <1>5 DEF CycleEnds, f
    <2> HIDE DEF g
    <2>4. QED
      BY <1>1, <2>2, <2>3
  <1>6. QED
    BY <1>2, <1>3, <1>4, <1>5

LEMMA FactoryIInv ==
    ASSUME IInv, NEW t \in Tickets,
           TopUp(t) \/ Pickup(t) \/ StartFails(t) \/ CycleEnds(t)
    PROVE  IInv'
  <1>1. UNCHANGED <<list, plan, late, fact, spent>>
    BY DEF TopUp, Pickup, StartFails, CycleEnds, process
  <1>2. /\ read' \in [Sources -> Reads]
        /\ timer' \in [Sources -> [named : BOOLEAN, loose : Nat]]
        /\ \A s \in Sources : read'[s].phase = "answered" => read'[s] = read[s]
    <2>1. CASE UNCHANGED process
      BY <2>1 DEF process, IInv, TypeOK
    <2>2. CASE CycleEnds(t)
      <3>1. \A s \in Sources : [timer[s] EXCEPT !.named = FALSE] \in [named : BOOLEAN, loose : Nat]
        BY DEF IInv, TypeOK
      <3>2. QED
        BY <2>2, <3>1, BegunIs DEF CycleEnds, RefreshNow, IInv, TypeOK
    <2>3. QED
      BY <2>1, <2>2 DEF TopUp, Pickup, StartFails
  <1>3. \A u \in Tickets : Known(u)' = Known(u)
    BY <1>1 DEF Known
  <1>4. TypeOK'
    BY <1>1, <1>2, <1>3, FactoryIs DEF IInv, TypeOK
  <1>5. Ordered'
    BY <1>1, <1>2 DEF IInv, Ordered
  <1>6. QED
    BY <1>4, <1>5 DEF IInv

LEMMA NextIInv == IInv /\ [Next]_vars => IInv'
  <1> SUFFICES ASSUME IInv, [Next]_vars PROVE IInv'
    OBVIOUS
  <1>1. ASSUME NEW s \in Sources,
               Answer(s) \/ FailRead(s) \/ Fire(s) \/ Settle(s) \/ SettleLate(s) \/ Await(s)
        PROVE  IInv'
    BY <1>1, AsksIInv, SettleIInv
  <1>2. ASSUME NEW t \in Tickets, NEW s \in Sources, Change(s, t) PROVE IInv'
    BY <1>2, HostsIInv
  <1>3. ASSUME NEW t \in Tickets,
               Merge(t) \/ Mute(t) \/ TopUp(t) \/ Pickup(t) \/ StartFails(t) \/ CycleEnds(t)
        PROVE  IInv'
    BY <1>3, HostsIInv, MuteIInv, FactoryIInv
  <1>4. ASSUME NEW S \in SUBSET Sources, Rebind(S) \/ \E again \in Policies : Restart(S, again)
        PROVE  IInv'
    BY <1>4, StartsIInv
  <1>5. CASE UNCHANGED vars
    BY <1>5 DEF IInv, TypeOK, Ordered, Known, vars, process
  <1>6. QED
    BY <1>1, <1>2, <1>3, <1>4, <1>5, RefreshIInv DEF Next

(* The inductive invariant holds in every state, for any sources, tickets and       *)
(* policies: the types, and the order of the versions from the host to the facts.   *)
THEOREM Invariant == Spec => []IInv
  <1> QED
    BY InitIInv, NextIInv, PTL DEF Spec

(* The type invariant: every record has its shape, no version passes the changes of *)
(* the hosts' lists, and the table knows each ticket a membership names.            *)
THEOREM TypeCorrect == Spec => []TypeOK
  <1>1. IInv => TypeOK
    BY DEF IInv
  <1> QED
    BY <1>1, Invariant, PTL

--------------------------------------------------------------------------------
(* The action properties. *)

LEMMA VersionsGrow ==
    IInv /\ [Next]_vars => [\A s \in Sources : fact'[s].version >= fact[s].version]_vars
  <1> SUFFICES ASSUME IInv, [Next]_vars
               PROVE  \A s \in Sources : fact'[s].version >= fact[s].version
    OBVIOUS
  <1>1. /\ fact \in [Sources -> Facts]
        /\ \A s \in Sources : fact[s].version \in Nat
    BY SourceAssumption DEF IInv, TypeOK, Facts, Versions, SourceAssumption
  <1>2. CASE UNCHANGED fact
    BY <1>1, <1>2
  <1>3. ASSUME NEW s \in Sources, Settle(s)
        PROVE  \A o \in Sources : fact'[o].version >= fact[o].version
    BY <1>3, SettleIs
  <1>4. ASSUME NEW t \in Tickets, Merge(t)
        PROVE  \A o \in Sources : fact'[o].version >= fact[o].version
    <2>1. \A o \in Sources : [fact[o] EXCEPT !.member[t] = "gone"].version = fact[o].version
      BY <1>1 DEF Facts
    <2>2. \A o \in Sources : fact'[o].version = fact[o].version
      BY <1>4, <2>1 DEF Merge
    <2>3. QED
      BY <1>1, <2>2
  <1>5. ASSUME NEW t \in Tickets, Mute(t)
        PROVE  \A o \in Sources : fact'[o].version >= fact[o].version
    BY <1>1, <1>5, MuteIs DEF IInv
  <1>6. ASSUME NEW S \in SUBSET Sources, NEW again, Starts(S, again)
        PROVE  \A o \in Sources : fact'[o].version >= fact[o].version
    BY <1>1, <1>6, InitializedIs DEF Starts, IInv
  <1>7. ASSUME NEW S \in SUBSET Sources,
               Rebind(S) \/ \E again \in Policies : Restart(S, again)
        PROVE  \A o \in Sources : fact'[o].version >= fact[o].version
    <2>1. plan.sources \cup S \in SUBSET Sources
      BY DEF IInv, TypeOK
    <2>2. QED
      BY <1>6, <1>7, <2>1 DEF Rebind, Restart
  <1>8. QED
    BY <1>2, <1>3, <1>4, <1>5, <1>7 DEF Next, Answer, FailRead, Fire, SettleLate, Await,
       Change, TopUp, Pickup, StartFails, CycleEnds, Refresh, vars

(* No older list takes the place of a newer one, whatever coordinators come and go  *)
(* with reads in flight (refresh.ts, source-fact.ts).                               *)
THEOREM NewestStands == Spec => NewestReadStands
  <1> QED
    BY Invariant, VersionsGrow, PTL DEF Spec, NewestReadStands

(* A mute on a ticket after a step was there before it, or stands on a source that  *)
(* took the ticket in, if the step sets no mute and forgets no membership's end.    *)
LEMMA MuteWasThere ==
    ASSUME NEW t \in Tickets, Muted(t)',
           \A s \in Sources : fact'[s].muted => fact[s].muted,
           \A s \in Sources : fact'[s].member[t] = "never" \/ fact[s].member[t] # "never"
                              \/ fact'[s].member[t] = "listed",
           ticket'[t].state = "working" => ticket[t].state = "working"
    PROVE  Muted(t) \/ \E s \in ListedBy(t)' \ ListedBy(t) : fact[s].muted
  <1>1. PICK s \in Sources : s \in Shown(t)' /\ fact'[s].muted
    BY DEF Muted, Shown, Known, ListedBy
  <1>2. fact[s].muted
    BY <1>1
  <1>3. s \in Shown(t) \/ s \in ListedBy(t)' \ ListedBy(t)
    BY <1>1 DEF Shown, Known, ListedBy
  <1>4. QED
    BY <1>2, <1>3 DEF Muted

LEMMA MuteLeavesNone ==
    ASSUME IInv, Next, NEW t \in Tickets, ticket'[t].row, Muted(t)'
    PROVE  /\ ticket[t].row
           /\ Muted(t) \/ \E s \in ListedBy(t)' \ ListedBy(t) : fact[s].muted
  <1> DEFINE Goal == /\ ticket[t].row
                     /\ Muted(t) \/ \E s \in ListedBy(t)' \ ListedBy(t) : fact[s].muted
  <1>1. TypeOK /\ fact \in [Sources -> Facts]
    BY DEF IInv, TypeOK
  <1>2. CASE UNCHANGED <<fact, ticket>>
    BY <1>2, MuteWasThere
  <1>3. ASSUME NEW s \in Sources, Settle(s) PROVE Goal
    <2>1. /\ fact' = [fact EXCEPT ![s] = Applied(s, read[s])] /\ read[s] \in Reads
          /\ ticket' = Opened(s, read[s])
      BY <1>3, SettleIs DEF Settle
    <2>2. \A o \in Sources : fact'[o].muted => fact[o].muted
      BY <1>1, <2>1, AppliedIs
    <2>3. \A o \in Sources : fact'[o].member[t] = "never" \/ fact[o].member[t] # "never"
                             \/ fact'[o].member[t] = "listed"
      BY <1>1, <2>1, AppliedIs
    <2>4. /\ ticket'[t].state = "working" => ticket[t].state = "working"
          /\ ticket[t].row
      BY <1>1, <2>1, OpenedIs
    <2>5. QED
      BY <2>2, <2>3, <2>4, MuteWasThere
  <1>4. ASSUME NEW u \in Tickets, Merge(u) PROVE Goal
    <2>1. \A o \in Sources :
            /\ [fact[o] EXCEPT !.member[u] = "gone"].muted = fact[o].muted
            /\ \A v \in Tickets : [fact[o] EXCEPT !.member[u] = "gone"].member[v]
                    = IF v = u THEN "gone" ELSE fact[o].member[v]
      BY <1>1 DEF Facts
    <2>2. \A o \in Sources : fact'[o].muted => fact[o].muted
      BY <1>4, <2>1 DEF Merge
    <2>3. \A o \in Sources : fact'[o].member[t] = "never" \/ fact[o].member[t] # "never"
      BY <1>4, <2>1 DEF Merge, ListedBy
    <2>4. UNCHANGED ticket
      BY <1>4 DEF Merge
    <2>5. QED
      BY <2>2, <2>3, <2>4, MuteWasThere
  <1>5. ASSUME NEW u \in Tickets, Mute(u) PROVE Goal
    <2>1. ticket[t].row /\ ticket'[t].state = ticket[t].state
          /\ (Muted(u) \/ Shown(u) \cap Known(t) = {})
      BY <1>1, <1>5, MuteIs
    <2>2. PICK s \in Sources : s \in Shown(t)' /\ fact'[s].muted
      BY DEF Muted, Shown, Known, ListedBy
    <2>3. s \in Shown(t) /\ s \in Known(t)
      BY <1>1, <1>5, <2>1, <2>2, MuteIs DEF Shown, Known, ListedBy
    <2>4. fact[s].muted
      BY <1>1, <1>5, <2>1, <2>2, <2>3, MuteIs
    <2>5. QED
      BY <2>1, <2>3, <2>4 DEF Muted
  <1>6. ASSUME NEW S \in SUBSET Sources, NEW again, Starts(S, again), UNCHANGED ticket
        PROVE  Goal
    <2>1. /\ \A o \in Sources : fact'[o].muted => fact[o].muted
          /\ \A o \in Sources : fact'[o].member[t] = "never" \/ fact[o].member[t] # "never"
      BY <1>1, <1>6, InitializedIs DEF Starts
    <2>2. QED
      BY <1>6, <2>1, MuteWasThere
  <1>7. ASSUME NEW S \in SUBSET Sources,
               Rebind(S) \/ \E again \in Policies : Restart(S, again)
        PROVE  Goal
    <2>1. plan.sources \cup S \in SUBSET Sources
      BY DEF IInv, TypeOK
    <2>2. QED
      BY <1>6, <1>7, <2>1 DEF Rebind, Restart
  <1>8. ASSUME NEW u \in Tickets,
               TopUp(u) \/ Pickup(u) \/ StartFails(u) \/ CycleEnds(u)
        PROVE  Goal
    <2>1. UNCHANGED fact
      BY <1>8 DEF TopUp, Pickup, StartFails, CycleEnds
    <2>2. /\ ~ticket[t].row => ~Muted(t)
          /\ ticket'[t].state = "working" => ticket[t].state = "working"
      BY <1>1, <1>8, FactoryIs
    <2>3. \A s \in ListedBy(t)' : s \in ListedBy(t)
      BY <2>1 DEF ListedBy
    <2>4. Muted(t)
      BY <2>1, <2>2, <2>3, MuteWasThere
    <2>5. QED
      BY <2>2, <2>4
  <1>9. QED
    BY <1>2, <1>3, <1>4, <1>5, <1>7, <1>8 DEF Next, Answer, FailRead, Fire, SettleLate, Await,
       Change, Refresh

(* The mute leaves no start waiting, and the top-up adds none: a start that waits   *)
(* under a mute waited before a muted source took its ticket in (source-fact.ts,    *)
(* work-queue.ts).                                                                  *)
THEOREM StartsStayUnmuted == Spec => StartsWaitUnmuted
  <1>1. IInv /\ [Next]_vars =>
          [\A t \in Tickets : ticket'[t].row /\ Muted(t)' =>
              /\ ticket[t].row
              /\ Muted(t) \/ \E s \in ListedBy(t)' \ ListedBy(t) : fact[s].muted]_vars
    BY MuteLeavesNone
  <1> QED
    BY <1>1, Invariant, PTL DEF Spec, StartsWaitUnmuted
================================================================================
