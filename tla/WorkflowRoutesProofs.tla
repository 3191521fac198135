------------------------- MODULE WorkflowRoutesProofs -------------------------
(***************************************************************************)
(* The machine on its routes, for any limit, any labels the operator       *)
(* touches and any number of his acts and of failures: the types,          *)
(* MachineHoldsBack and OneHandPerWork of WorkflowRoutes.                  *)
(*                                                                         *)
(* A pickup reads no limit and no hold: what the ask read before must      *)
(* still be so when the row's turn comes.  Of a ticket whose row the       *)
(* machine asked, no agent is at work (Rested) and the limit has room      *)
(* (Capped), and its last turn is not the row's own task over again        *)
(* (Varied); Rested also says which cycle the last turn may be of, for it  *)
(* is by the cycle that a close tells its turns apart.  No agent works on  *)
(* a pull request whose merge runs, and no route leads to an implement     *)
(* (Alone).                                                                *)
(*                                                                         *)
(* That a merge lands over no verdict that asked for rework is a fact of   *)
(* the undisturbed machine alone (Calmly): only the loop fires, the labels *)
(* of the projection are at most one reading behind the verdict, and       *)
(* nothing is said after the one that ships.                               *)
(***************************************************************************)
EXTENDS WorkflowRoutes, TLAPS

(* The records of the tables. *)
Works == Tasks \cup {"none"}
Places == Tickets \cup {"elsewhere"}
Outcomes == [kind : {"none", "unfired", "skip", "failed", "done"}, to : Works, at : Places,
             refired : BOOLEAN, removed : BOOLEAN]
Facing == [on : BOOLEAN, labels : SUBSET Facts, stale : BOOLEAN, reread : BOOLEAN]
TicketRecs == [state : {"open", "working", "awaiting"}, cycle : Nat, task : Works,
               starts : Nat, tries : Nat, failed : BOOLEAN]
Traces == [task : Works, cause : {"unknown", "aborted", "completed"}, out : Outcomes,
           cycle : Nat, hand : Nat, decision : {"none", "closed", "auto", "routed"}]
Rows == [task : Works, origin : {"open", "workflow"}, automatic : BOOLEAN, from : Tickets]
FireRecs == [pc : {"idle", "refresh", "list", "write", "second", "place", "run"}, id : Tickets,
             task : Works, why : {"settle", "sweep", "hand", "merge"}, facts : SUBSET Facts,
             base : SUBSET Facts, hand : Nat, cycle : Nat, was : Outcomes]
Snapshots == [on : BOOLEAN, labels : SUBSET Facts]

Typed ==
    /\ pull \in {"none", "empty", "work", "ready", "merged"}
    /\ labels \subseteq Facts
    /\ {closing, auto, autoOn} \subseteq BOOLEAN
    /\ seen \in [Tickets -> Facing]
    /\ ticket \in [Tickets -> TicketRecs]
    /\ trace \in [Tickets -> Traces]
    /\ row \in [Tickets -> Rows]
    /\ attempt \in {"none", "blocked", "reread", "merged"}
    /\ fetch \in [Tickets -> SUBSET Snapshots]
    /\ fires \in [Fires -> FireRecs]
    /\ phase \in {"turns", "decide", "open"}
    /\ spent \in 0..MaxTroubles

(* A fire is of its owner's kind; what a settle began with is no newer than the ticket. *)
Owned ==
    /\ \A f \in Fires : fires[f].pc # "idle" =>
        /\ fires[f].why \in (CASE f = "loop" -> {"settle", "sweep"} [] f = "hand" -> {"hand"}
                               [] f = "merge" -> {"merge"})
        /\ fires[f].task \in Tasks
        /\ fires[f].why \in {"sweep", "hand"} => trace[fires[f].id].task \in Tasks
    /\ \A f \in Fires : /\ fires[f].hand <= ticket[fires[f].id].starts
                        /\ fires[f].cycle <= ticket[fires[f].id].cycle
    /\ fires["merge"].pc # "idle" => fires["merge"].task = "merge" /\ fires["merge"].id = Pull
    /\ \A t \in Tickets : /\ trace[t].cycle <= ticket[t].cycle
                          /\ trace[t].hand <= ticket[t].starts
                          /\ trace[t].out.to # "none" => trace[t].out.kind = "done"
                          /\ trace[t].out.kind # "none" => trace[t].task \in Tasks

(* The row an automatic ask put on a ticket. *)
Asked(t) == row[t].task # "none" /\ row[t].automatic
Settling(t) == fires["loop"].pc # "idle" /\ fires["loop"].why = "settle" /\ fires["loop"].id = t

(* A ticket with a row rests, and its last turn is of the cycle it stands in. *)
Rested(t) ==
    /\ ticket[t].state = "working" => ticket[t].task \in Tasks
    /\ row[t].task # "none" => ticket[t].state # "working"
    /\ row[t].task # "none" /\ row[t].origin = "open" => ticket[t].state = "open"
    /\ Asked(t) => ~Settling(t)
    /\ Settling(t) /\ fires["loop"].hand = ticket[t].starts /\ ticket[t].state # "open"
         => fires["loop"].cycle = ticket[t].cycle
    /\ trace[t].hand = ticket[t].starts /\ ticket[t].state = "awaiting"
         => trace[t].cycle = ticket[t].cycle
    /\ trace[t].hand = ticket[t].starts /\ trace[t].decision = "closed"
         => ticket[t].state = "open" /\ trace[t].cycle = ticket[t].cycle - 1
(* What the ask of the machine read stays so while its row waits. *)
Capped(t) == Asked(t) => ticket[t].starts < Limit
Varied(t) ==
    Asked(t) => ~(/\ trace[t].hand = ticket[t].starts /\ trace[t].cause = "completed"
                  /\ trace[t].task = row[t].task
                  /\ trace[t].decision = "closed" \/ ticket[t].state = "awaiting")

(* The issue's row opens a cycle, and a merge runs beside no agent. *)
Alone ==
    /\ row[Issue].task # "none" => row[Issue].origin = "open"
    /\ \A t \in Tickets : /\ trace[t].out.kind = "done" => trace[t].out.at # Issue
                          /\ trace[t].out.to # "implement"
    /\ fires["merge"].pc # "idle" => ticket[Pull].state # "working"

(* Nobody disturbed the machine and no merge was tried yet: only the loop fires. *)
Calm == spent = 0 /\ attempt = "none"
Loops == fires["loop"]
At(t) == Loops.pc # "idle" /\ Loops.id = t
Ship == "ready-to-ship"
Again == "needs-work"

(* Nobody but the loop fires, on the turn that works, and nothing fails. *)
Quiet ==
    /\ fires["hand"].pc = "idle" /\ fires["merge"].pc \in {"idle", "run"}
    /\ At(Pull) => Loops.why = "settle" /\ Loops.task \in {"review", "rework"}
    /\ At(Issue) => Loops.task = "implement"
    /\ Loops.pc \in {"write", "second", "place"} =>
         Loops.facts \in (IF Loops.task = "review" THEN {{Ship}, {Again}} ELSE {{"ready-for-review"}})
    /\ Loops.pc = "second" => Loops.id = Issue
    /\ \A t \in Tickets : Settling(t) =>
         /\ ticket[t].state = "working" /\ Loops.task = ticket[t].task
         /\ Loops.hand = ticket[t].starts /\ Loops.cycle = ticket[t].cycle
    /\ Loops.pc # "idle" /\ Loops.why = "sweep" => Loops.id = Issue /\ trace[Issue].out.kind = "skip"
    /\ \A t \in Tickets : trace[t].out.kind # "none" => trace[t].cause = "completed"
    /\ trace[Issue].out.kind = "done" => trace[Issue].out.to = "review"
    /\ \A t \in Tickets : row[t].task # "none" => row[t].automatic

(* The issue rests once its implement completed. *)
Finished == \/ At(Issue) /\ Loops.pc \in {"second", "place"}
            \/ ~At(Issue) /\ trace[Issue].out.kind = "done"
Implemented ==
    /\ ticket[Issue].task \in {"implement", "none"} /\ row[Issue].task \in {"implement", "none"}
    /\ ticket[Issue].state = "working" => ticket[Issue].task = "implement"
    /\ trace[Issue].cause = "completed" =>
        /\ trace[Issue].task = "implement" /\ row[Issue].task = "none"
        /\ trace[Issue].hand = ticket[Issue].starts
        /\ \/ /\ ticket[Issue].state = "awaiting" /\ trace[Issue].decision = "none"
              /\ trace[Issue].cycle = ticket[Issue].cycle
           \/ /\ ticket[Issue].state = "open" /\ trace[Issue].decision = "closed"
              /\ trace[Issue].cycle = ticket[Issue].cycle - 1
           \/ /\ ticket[Issue].state = "open" /\ trace[Issue].decision = "auto" /\ seen[Pull].on
    /\ pull = "ready" => Finished

(* The pull request is listed for good. *)
Listed ==
    /\ pull # "merged"
    /\ \A s \in fetch[Pull] : s.on => pull = "ready"
    /\ seen[Pull].on => pull = "ready" /\ \A s \in fetch[Pull] : s.on
    /\ Again \in labels => seen[Pull].on
    /\ row[Pull].task # "none" \/ ticket[Pull].state = "working" => seen[Pull].on
    /\ row[Pull].task \in {"none", "review", "rework", "merge"}
    /\ ticket[Pull].state = "working" => ticket[Pull].task \in {"review", "rework"}

Stales == \A s \in fetch[Pull] : Again \in s.labels
(* A reading older than the verdict is the last one. *)
Late ==
    /\ Again \in labels /\ Again \notin seen[Pull].labels => Stales
    /\ At(Pull) /\ Loops.pc = "write" /\ Again \in labels /\ Again \notin Loops.base => Stales
    /\ /\ Again \in labels
       /\ \/ row[Pull].task = "review"
          \/ /\ ticket[Pull].state = "working" /\ ticket[Pull].task = "review"
             /\ At(Pull) => Loops.pc \in {"refresh", "list"}
       => Stales
    /\ At(Pull) /\ Loops.task = "review" /\ Loops.pc = "list" /\ Again \in labels
         => Again \in seen[Pull].labels

(* A verdict that ships stands, and nothing is said after it. *)
Shipping == At(Pull) /\ Loops.facts = {Ship}
Shipped ==
    /\ Shipping /\ Loops.pc = "write" /\ Again \in labels => Again \in Loops.base
    /\ Shipping /\ Loops.pc = "place" => Again \notin labels
    /\ (\/ Ship \in labels \cup seen[Pull].labels
        \/ \E s \in fetch[Pull] : Ship \in s.labels)
       => (Shipping /\ Loops.pc = "place") \/ trace[Pull].out.to = "merge"
    /\ trace[Pull].out.to = "merge" =>
        /\ trace[Pull].out.at = Pull
        /\ \/ /\ ticket[Pull].state = "awaiting" /\ trace[Pull].decision = "none"
              /\ trace[Pull].task = "review" /\ trace[Pull].cycle = ticket[Pull].cycle
              /\ trace[Pull].hand = ticket[Pull].starts
              /\ row[Pull].task = "none" /\ Again \notin labels
           \/ ticket[Pull].state = "open" /\ trace[Pull].decision = "closed"
              /\ AtLimit(Pull) /\ row[Pull].task = "none"
           \/ ticket[Pull].state = "open" /\ trace[Pull].decision = "auto"
              /\ (row[Pull].task = "merge" \/ fires["merge"].pc = "run")
    /\ row[Pull].task = "merge" \/ fires["merge"].pc = "run" =>
         Again \notin labels /\ trace[Pull].out.to = "merge"

(* The undisturbed machine, until its first merge was tried. *)
Calmly == Calm => Quiet /\ Implemented /\ Listed /\ Late /\ Shipped

Core == Owned /\ (\A t \in Tickets : Rested(t) /\ Capped(t) /\ Varied(t)) /\ Alone
IInv == Typed /\ Core /\ Calmly

--------------------------------------------------------------------------------
(* What an update of one entry of a table leaves of it. *)

LEMMA Pair == /\ Issue \in Tickets /\ Pull \in Tickets /\ Issue # Pull
              /\ \A t \in Tickets : t = Issue \/ t = Pull
              /\ "elsewhere" \notin Tickets
  BY RoutesAssumption DEF Tickets, RoutesAssumption

LEMMA NoRecords ==
    /\ NoOutcome \in Outcomes /\ Unfired \in Outcomes /\ Skip \in Outcomes /\ Failed \in Outcomes
    /\ NoOutcome.kind = "none" /\ Unfired.kind = "unfired" /\ Skip.kind = "skip" /\ Failed.kind = "failed"
    /\ NoOutcome.to = "none" /\ Unfired.to = "none" /\ Skip.to = "none" /\ Failed.to = "none"
    /\ NoTrace \in Traces /\ NoRow \in Rows
    /\ NoRow.task = "none" /\ NoRow.origin = "open" /\ NoRow.automatic = FALSE /\ NoRow.from = Issue
    /\ NoTrace.task = "none" /\ NoTrace.cause = "unknown" /\ NoTrace.out = NoOutcome
    /\ NoTrace.cycle = 0 /\ NoTrace.hand = 0 /\ NoTrace.decision = "none"
  BY Pair DEF NoOutcome, Unfired, Skip, Failed, Outcome, Outcomes, Works, Places, NoTrace, Traces, NoRow, Rows

LEMMA NoFireRec ==
    /\ NoFire \in FireRecs /\ NoFire.pc = "idle" /\ NoFire.id = Issue /\ NoFire.hand = 0
    /\ NoFire.cycle = 0 /\ NoFire.task = "none" /\ NoFire.why = "settle" /\ NoFire.facts = {}
  BY Pair, NoRecords DEF NoFire, FireRecs, Works

LEMMA ForgetFailed ==
    ASSUME ticket \in [Tickets -> TicketRecs], NEW t \in Tickets,
           ticket' = [ticket EXCEPT ![t].failed = FALSE]
    PROVE  /\ ticket' \in [Tickets -> TicketRecs]
           /\ \A u \in Tickets : /\ ticket'[u].state = ticket[u].state /\ ticket'[u].cycle = ticket[u].cycle
                                 /\ ticket'[u].task = ticket[u].task /\ ticket'[u].starts = ticket[u].starts
                                 /\ ticket'[u].tries = ticket[u].tries
  BY DEF TicketRecs

LEMMA Turns ==
    ASSUME ticket \in [Tickets -> TicketRecs], NEW t \in Tickets,
           NEW state \in {"open", "working", "awaiting"},
           ticket' = [ticket EXCEPT ![t].state = state]
    PROVE  /\ ticket' \in [Tickets -> TicketRecs]
           /\ ticket'[t].state = state /\ ticket'[t].cycle = ticket[t].cycle
           /\ ticket'[t].task = ticket[t].task /\ ticket'[t].starts = ticket[t].starts
           /\ ticket'[t].tries = ticket[t].tries
           /\ \A u \in Tickets \ {t} : ticket'[u] = ticket[u]
  BY DEF TicketRecs

LEMMA NextCycle ==
    ASSUME ticket \in [Tickets -> TicketRecs], NEW t \in Tickets,
           ticket' = [ticket EXCEPT ![t].state = "open", ![t].cycle = @ + 1]
    PROVE  /\ ticket' \in [Tickets -> TicketRecs]
           /\ ticket'[t].state = "open" /\ ticket'[t].cycle = ticket[t].cycle + 1
           /\ ticket'[t].task = ticket[t].task /\ ticket'[t].starts = ticket[t].starts
           /\ ticket'[t].tries = ticket[t].tries
           /\ \A u \in Tickets \ {t} : ticket'[u] = ticket[u]
  <1>1. PICK x \in TicketRecs : x = [ticket[t] EXCEPT !.state = "open", !.cycle = ticket[t].cycle + 1]
    BY DEF TicketRecs
  <1>2. ticket' = [ticket EXCEPT ![t] = x]
    BY <1>1 DEF TicketRecs
  <1>3. QED
    BY <1>1, <1>2 DEF TicketRecs

LEMMA StartTicket ==
    ASSUME ticket \in [Tickets -> TicketRecs], NEW t \in Tickets, row \in [Tickets -> Rows], Start(t)
    PROVE  /\ ticket' \in [Tickets -> TicketRecs]
           /\ ticket'[t].state = "working" /\ ticket'[t].cycle = ticket[t].cycle
           /\ ticket'[t].task = row[t].task /\ ticket'[t].starts = ticket[t].starts + 1
           /\ ticket'[t].tries = ticket[t].tries
           /\ \A u \in Tickets \ {t} : ticket'[u] = ticket[u]
  <1>1. row[t].task \in Works /\ ticket[t] \in TicketRecs /\ ticket[t].starts + 1 \in Nat
    BY DEF Rows, TicketRecs
  <1>2. PICK x \in TicketRecs : x = [ticket[t] EXCEPT !.state = "working", !.task = row[t].task,
                                                      !.starts = ticket[t].starts + 1, !.failed = FALSE]
    BY ONLY <1>1 DEF TicketRecs
  <1>3. ticket' = [ticket EXCEPT ![t] = x]
    BY <1>2 DEF TicketRecs, Start
  <1>4. QED
    BY <1>2, <1>3 DEF TicketRecs

LEMMA FailTicket ==
    ASSUME ticket \in [Tickets -> TicketRecs], NEW t \in Tickets,
           \/ ticket' = [ticket EXCEPT ![t].tries = @ + 1, ![t].failed = TRUE]
           \/ ticket' = [ticket EXCEPT ![t].tries = @ + 1]
    PROVE  /\ ticket' \in [Tickets -> TicketRecs]
           /\ ticket'[t].state = ticket[t].state /\ ticket'[t].cycle = ticket[t].cycle
           /\ ticket'[t].task = ticket[t].task /\ ticket'[t].starts = ticket[t].starts
           /\ ticket'[t].tries = ticket[t].tries + 1
           /\ \A u \in Tickets \ {t} : ticket'[u] = ticket[u]
  <1>1. CASE ticket' = [ticket EXCEPT ![t].tries = @ + 1, ![t].failed = TRUE]
    <2>0. ticket[t] \in TicketRecs /\ ticket[t].tries + 1 \in Nat
      BY DEF TicketRecs
    <2>1. PICK x \in TicketRecs : x = [ticket[t] EXCEPT !.tries = ticket[t].tries + 1, !.failed = TRUE]
      BY ONLY <2>0 DEF TicketRecs
    <2>2. ticket' = [ticket EXCEPT ![t] = x]
      BY <1>1, <2>1 DEF TicketRecs
    <2>3. QED
      BY <2>1, <2>2 DEF TicketRecs
  <1>2. CASE ticket' = [ticket EXCEPT ![t].tries = @ + 1]
    <2>1. PICK x \in TicketRecs : x = [ticket[t] EXCEPT !.tries = ticket[t].tries + 1]
      BY DEF TicketRecs
    <2>2. ticket' = [ticket EXCEPT ![t] = x]
      BY <1>2, <2>1 DEF TicketRecs
    <2>3. QED
      BY <2>1, <2>2 DEF TicketRecs
  <1>3. QED
    BY <1>1, <1>2

LEMMA Decides1 ==
    ASSUME trace \in [Tickets -> Traces], NEW t \in Tickets,
           NEW word \in {"none", "closed", "auto", "routed"},
           trace' = [trace EXCEPT ![t].decision = word]
    PROVE  /\ trace' \in [Tickets -> Traces] /\ trace'[t].decision = word
           /\ trace'[t].task = trace[t].task /\ trace'[t].cause = trace[t].cause
           /\ trace'[t].out = trace[t].out /\ trace'[t].cycle = trace[t].cycle
           /\ trace'[t].hand = trace[t].hand
           /\ \A u \in Tickets \ {t} : trace'[u] = trace[u]
  BY DEF Traces

LEMMA Swapped ==
    ASSUME trace \in [Tickets -> Traces], NEW t \in Tickets, NEW out \in Outcomes,
           trace' = [trace EXCEPT ![t].out = out]
    PROVE  /\ trace' \in [Tickets -> Traces] /\ trace'[t].decision = trace[t].decision
           /\ trace'[t].task = trace[t].task /\ trace'[t].cause = trace[t].cause
           /\ trace'[t].out = out /\ trace'[t].cycle = trace[t].cycle
           /\ trace'[t].hand = trace[t].hand
           /\ \A u \in Tickets \ {t} : trace'[u] = trace[u]
  BY DEF Traces

LEMMA Marked ==
    ASSUME NEW out \in Outcomes
    PROVE  /\ [out EXCEPT !.refired = TRUE] \in Outcomes /\ [out EXCEPT !.removed = TRUE] \in Outcomes
           /\ [out EXCEPT !.refired = TRUE].kind = out.kind
           /\ [out EXCEPT !.refired = TRUE].to = out.to
           /\ [out EXCEPT !.refired = TRUE].at = out.at
           /\ [out EXCEPT !.removed = TRUE].kind = out.kind
           /\ [out EXCEPT !.removed = TRUE].to = out.to
           /\ [out EXCEPT !.removed = TRUE].at = out.at
  BY DEF Outcomes

LEMMA Removes ==
    ASSUME trace \in [Tickets -> Traces], NEW t \in Tickets,
           trace' = [trace EXCEPT ![t].out.removed = TRUE]
    PROVE  /\ trace' \in [Tickets -> Traces] /\ trace'[t].decision = trace[t].decision
           /\ trace'[t].task = trace[t].task /\ trace'[t].cause = trace[t].cause
           /\ trace'[t].out.kind = trace[t].out.kind /\ trace'[t].out.to = trace[t].out.to
           /\ trace'[t].out.at = trace[t].out.at
           /\ trace'[t].cycle = trace[t].cycle /\ trace'[t].hand = trace[t].hand
           /\ \A u \in Tickets \ {t} : trace'[u] = trace[u]
  <1>1. trace[t].out \in Outcomes
    BY DEF Traces
  <1>2. PICK o \in Outcomes : o = [trace[t].out EXCEPT !.removed = TRUE]
    BY <1>1, Marked
  <1>3. o.kind = trace[t].out.kind /\ o.to = trace[t].out.to /\ o.at = trace[t].out.at
    BY <1>1, <1>2, Marked
  <1>4. trace' = [trace EXCEPT ![t].out = o]
    BY <1>2 DEF Traces
  <1>5. QED
    BY <1>3, <1>4, Swapped

LEMMA Lists ==
    ASSUME seen \in [Tickets -> Facing], NEW t \in Tickets, NEW s \in Snapshots,
           seen' = [seen EXCEPT ![t] = Landed(t, s)]
    PROVE  /\ seen' \in [Tickets -> Facing] /\ seen'[t].on = s.on
           /\ seen'[t].labels = (IF s.on THEN s.labels ELSE seen[t].labels)
           /\ \A u \in Tickets \ {t} : seen'[u] = seen[u]
  BY DEF Facing, Snapshots, Landed

LEMMA Notes ==
    ASSUME seen \in [Tickets -> Facing], NEW t \in Tickets,
           \/ seen' = [seen EXCEPT ![t].stale = TRUE]
           \/ seen' = [seen EXCEPT ![t].reread = FALSE]
    PROVE  /\ seen' \in [Tickets -> Facing]
           /\ \A u \in Tickets : seen'[u].on = seen[u].on /\ seen'[u].labels = seen[u].labels
  <1>1. seen[t] \in Facing
    OBVIOUS
  <1>2. PICK x \in Facing : /\ x = [seen[t] EXCEPT !.stale = TRUE] \/ x = [seen[t] EXCEPT !.reread = FALSE]
                            /\ seen' = [seen EXCEPT ![t] = x]
    <2>1. CASE seen' = [seen EXCEPT ![t].stale = TRUE]
      <3>1. [seen[t] EXCEPT !.stale = TRUE] \in Facing
        BY ONLY <1>1 DEF Facing
      <3>2. QED
        BY <2>1, <3>1
    <2>2. CASE seen' = [seen EXCEPT ![t].reread = FALSE]
      <3>1. [seen[t] EXCEPT !.reread = FALSE] \in Facing
        BY ONLY <1>1 DEF Facing
      <3>2. QED
        BY <2>2, <3>1
    <2>3. QED
      BY <2>1, <2>2
  <1>3. x.on = seen[t].on /\ x.labels = seen[t].labels
    BY <1>1, <1>2 DEF Facing
  <1>4. QED
    BY <1>2, <1>3

LEMMA Folds ==
    ASSUME seen \in [Tickets -> Facing], NEW ls \in SUBSET Facts,
           seen' = [seen EXCEPT ![Pull].labels = ls]
    PROVE  /\ seen' \in [Tickets -> Facing] /\ seen'[Pull].labels = ls
           /\ \A u \in Tickets : seen'[u].on = seen[u].on
           /\ \A u \in Tickets \ {Pull} : seen'[u] = seen[u]
  BY Pair DEF Facing

LEMMA Retires ==
    ASSUME seen \in [Tickets -> Facing],
           seen' = [t \in Tickets |-> [seen[t] EXCEPT !.on = FALSE]]
    PROVE  seen' \in [Tickets -> Facing]
  BY DEF Facing

LEMMA Snaps ==
    ASSUME labels \subseteq Facts, pull \in {"none", "empty", "work", "ready", "merged"}, NEW t \in Tickets
    PROVE  /\ Snapshot(t) \in Snapshots /\ Snapshot(t).on = Shown(t)
           /\ Snapshot(t).labels = (IF t = Pull THEN labels ELSE {})
  BY DEF Snapshot, Snapshots, Shown

LEMMA Refreshes ==
    ASSUME labels \subseteq Facts, pull \in {"none", "empty", "work", "ready", "merged"},
           fetch \in [Tickets -> SUBSET Snapshots], NEW t \in Tickets,
           fetch' = Refreshing(t)
    PROVE  /\ fetch' \in [Tickets -> SUBSET Snapshots]
           /\ fetch'[t] = (IF fetch[t] = {} THEN {Snapshot(t)} ELSE fetch[t])
           /\ \A u \in Tickets \ {t} : fetch'[u] = fetch[u]
  BY Snaps DEF Refreshing

LEMMA Drops ==
    ASSUME fetch \in [Tickets -> SUBSET Snapshots], NEW t \in Tickets,
           fetch' = [fetch EXCEPT ![t] = {}]
    PROVE  /\ fetch' \in [Tickets -> SUBSET Snapshots] /\ fetch'[t] = {}
           /\ \A u \in Tickets \ {t} : fetch'[u] = fetch[u]
  OBVIOUS

(* What a fire keeps of itself while it moves on. *)
SameFire(f) ==
    /\ fires'[f].id = fires[f].id /\ fires'[f].task = fires[f].task /\ fires'[f].why = fires[f].why
    /\ fires'[f].hand = fires[f].hand /\ fires'[f].cycle = fires[f].cycle
    /\ fires'[f].was = fires[f].was

LEMMA Wakes ==
    ASSUME fires \in [Fires -> FireRecs], NEW t \in Tickets, fires' = Woken(t)
    PROVE  /\ fires' \in [Fires -> FireRecs]
           /\ \A f \in Fires : /\ SameFire(f)
                               /\ fires'[f].facts = fires[f].facts /\ fires'[f].base = fires[f].base
                               /\ \/ fires'[f].pc = fires[f].pc
                                  \/ t = Pull /\ fires[f].pc = "refresh" /\ fires'[f].pc = "list"
                                  \/ t = Pull /\ fires[f].pc = "second" /\ fires'[f].pc = "place"
  <1>1. ASSUME NEW f \in Fires
        PROVE  /\ fires'[f] \in FireRecs /\ SameFire(f)
               /\ fires'[f].facts = fires[f].facts /\ fires'[f].base = fires[f].base
               /\ \/ fires'[f].pc = fires[f].pc
                  \/ t = Pull /\ fires[f].pc = "refresh" /\ fires'[f].pc = "list"
                  \/ t = Pull /\ fires[f].pc = "second" /\ fires'[f].pc = "place"
    <2>1. fires[f] \in FireRecs
      BY <1>1
    <2>2. fires'[f] = IF t = Issue THEN fires[f]
                      ELSE CASE fires[f].pc = "refresh" -> [fires[f] EXCEPT !.pc = "list"]
                             [] fires[f].pc = "second" -> [fires[f] EXCEPT !.pc = "place"]
                             [] OTHER -> fires[f]
      BY <1>1 DEF Woken
    <2>3. t = Issue \/ t = Pull
      BY Pair
    <2>4. CASE t = Issue \/ fires[f].pc \notin {"refresh", "second"}
      BY <2>1, <2>2, <2>4 DEF SameFire
    <2>5. CASE t # Issue /\ fires[f].pc = "refresh"
      <3>1. fires'[f] = [fires[f] EXCEPT !.pc = "list"]
        BY <2>2, <2>5
      <3>2. QED
        BY <2>1, <2>3, <2>5, <3>1 DEF SameFire, FireRecs
    <2>6. CASE t # Issue /\ fires[f].pc = "second"
      <3>1. fires'[f] = [fires[f] EXCEPT !.pc = "place"]
        BY <2>2, <2>6
      <3>2. QED
        BY <2>1, <2>3, <2>6, <3>1 DEF SameFire, FireRecs
    <2>7. QED
      BY <2>4, <2>5, <2>6
  <1>2. fires' = [f \in Fires |-> fires'[f]]
    BY DEF Woken
  <1>3. QED
    BY <1>1, <1>2

LEMMA Launches ==
    ASSUME fires \in [Fires -> FireRecs], ticket \in [Tickets -> TicketRecs],
           trace \in [Tickets -> Traces], NEW f \in Fires, NEW t \in Tickets,
           NEW why \in {"settle", "sweep", "hand"}, NEW task \in Works, Launch(f, t, why, task)
    PROVE  /\ fires' \in [Fires -> FireRecs] /\ fires[f].pc = "idle"
           /\ fires'[f].pc = "refresh" /\ fires'[f].id = t /\ fires'[f].task = task
           /\ fires'[f].why = why /\ fires'[f].facts = {}
           /\ fires'[f].hand = (IF why = "settle" THEN ticket[t].starts ELSE 0)
           /\ fires'[f].cycle = (IF why = "settle" THEN ticket[t].cycle ELSE 0)
           /\ \A g \in Fires \ {f} : fires'[g] = fires[g]
  <1>1. ticket[t] \in TicketRecs /\ trace[t].out \in Outcomes
    BY DEF Traces
  <1>2. PICK h \in Nat : h = IF why = "settle" THEN ticket[t].starts ELSE 0
    BY <1>1 DEF TicketRecs
  <1>3. PICK c \in Nat : c = IF why = "settle" THEN ticket[t].cycle ELSE 0
    BY <1>1 DEF TicketRecs
  <1>4. PICK o \in Outcomes : o = IF why = "hand" THEN trace[t].out ELSE NoOutcome
    BY <1>1, NoRecords
  <1>5. NoFire \in FireRecs /\ NoFire.facts = {}
    BY NoFireRec
  <1>6. PICK x \in FireRecs : x = [NoFire EXCEPT !.pc = "refresh", !.id = t, !.task = task, !.why = why,
                                       !.hand = h, !.cycle = c, !.was = o]
    BY <1>5 DEF FireRecs
  <1>7. /\ x.pc = "refresh" /\ x.id = t /\ x.task = task /\ x.why = why /\ x.facts = {}
        /\ x.hand = h /\ x.cycle = c
    BY <1>5, <1>6 DEF FireRecs
  <1>8. fires' = [fires EXCEPT ![f] = x]
    BY <1>2, <1>3, <1>4, <1>6 DEF Launch
  <1>9. QED
    BY <1>2, <1>3, <1>7, <1>8 DEF Launch, Idle

LEMMA MovesOn ==
    ASSUME fires \in [Fires -> FireRecs], NEW f \in Fires,
           NEW pc \in {"list", "second", "write", "place"}, NEW facts \in SUBSET Facts, NEW base \in SUBSET Facts,
           \/ fires' = [fires EXCEPT ![f].pc = pc, ![f].facts = facts, ![f].base = base]
           \/ facts = fires[f].facts /\ fires' = [fires EXCEPT ![f].pc = pc, ![f].base = base]
           \/ facts = fires[f].facts /\ fires' = [fires EXCEPT ![f] = [fires[f] EXCEPT !.pc = pc, !.base = base]]
           \/ facts = fires[f].facts /\ base = fires[f].base /\ fires' = [fires EXCEPT ![f].pc = pc]
    PROVE  /\ fires' \in [Fires -> FireRecs] /\ SameFire(f)
           /\ fires'[f].pc = pc /\ fires'[f].facts = facts /\ fires'[f].base = base
           /\ \A g \in Fires \ {f} : fires'[g] = fires[g]
  <1>1. fires[f] \in FireRecs
    OBVIOUS
  <1>2. \E x \in FireRecs :
            /\ fires' = [fires EXCEPT ![f] = x]
            /\ \/ x = [fires[f] EXCEPT !.pc = pc, !.facts = facts, !.base = base]
               \/ facts = fires[f].facts /\ x = [fires[f] EXCEPT !.pc = pc, !.base = base]
               \/ facts = fires[f].facts /\ base = fires[f].base /\ x = [fires[f] EXCEPT !.pc = pc]
    <2>1. /\ [fires[f] EXCEPT !.pc = pc, !.facts = facts, !.base = base] \in FireRecs
          /\ [fires[f] EXCEPT !.pc = pc, !.base = base] \in FireRecs
          /\ [fires[f] EXCEPT !.pc = pc] \in FireRecs
      BY <1>1 DEF FireRecs
    <2>2. QED
      BY <2>1
  <1>3. PICK x \in FireRecs :
            /\ fires' = [fires EXCEPT ![f] = x]
            /\ \/ x = [fires[f] EXCEPT !.pc = pc, !.facts = facts, !.base = base]
               \/ facts = fires[f].facts /\ x = [fires[f] EXCEPT !.pc = pc, !.base = base]
               \/ facts = fires[f].facts /\ base = fires[f].base /\ x = [fires[f] EXCEPT !.pc = pc]
    BY <1>2
  <1>4. /\ x.pc = pc /\ x.facts = facts /\ x.base = base /\ x.id = fires[f].id
        /\ x.task = fires[f].task /\ x.why = fires[f].why /\ x.hand = fires[f].hand
        /\ x.cycle = fires[f].cycle /\ x.was = fires[f].was
    BY <1>1, <1>3 DEF FireRecs
  <1>5. QED
    BY <1>3, <1>4 DEF SameFire

LEMMA Falls ==
    ASSUME fires \in [Fires -> FireRecs], NEW f \in Fires, fires' = [fires EXCEPT ![f] = NoFire]
    PROVE  /\ fires' \in [Fires -> FireRecs] /\ fires'[f] = NoFire
           /\ \A g \in Fires \ {f} : fires'[g] = fires[g]
  BY NoFireRec

MergeFire == [NoFire EXCEPT !.pc = "run", !.id = Pull, !.task = "merge", !.why = "merge"]
LEMMA MergeFireRec ==
    /\ MergeFire \in FireRecs /\ MergeFire.pc = "run" /\ MergeFire.id = Pull
    /\ MergeFire.task = "merge" /\ MergeFire.why = "merge" /\ MergeFire.hand = 0 /\ MergeFire.cycle = 0
    /\ MergeFire.facts = {}
  <1>1. NoFire \in FireRecs /\ Pull \in Tickets /\ "merge" \in Works
    BY NoFireRec, Pair DEF Works, Tasks
  <1>2. NoFire.hand = 0 /\ NoFire.cycle = 0 /\ NoFire.facts = {}
    BY NoFireRec
  <1>3. QED
    BY <1>1, <1>2 DEF MergeFire, FireRecs

--------------------------------------------------------------------------------
(* What a step leaves alone keeps what is said of it. *)

SameTicket(t) == /\ ticket'[t].state = ticket[t].state /\ ticket'[t].cycle = ticket[t].cycle
                 /\ ticket'[t].task = ticket[t].task /\ ticket'[t].starts = ticket[t].starts
SameTrace(t) == /\ trace'[t].task = trace[t].task /\ trace'[t].cause = trace[t].cause
                /\ trace'[t].out.kind = trace[t].out.kind /\ trace'[t].out.to = trace[t].out.to
                /\ trace'[t].out.at = trace[t].out.at /\ trace'[t].cycle = trace[t].cycle
                /\ trace'[t].hand = trace[t].hand /\ trace'[t].decision = trace[t].decision
SameRow(t) == /\ row'[t].task = row[t].task /\ row'[t].origin = row[t].origin
              /\ row'[t].automatic = row[t].automatic
Moved(f) == SameFire(f) /\ (fires'[f].pc = "idle" <=> fires[f].pc = "idle")

LEMMA FireNames == {"loop", "hand", "merge"} = Fires
  BY DEF Fires

LEMMA CoreKept ==
    ASSUME Core, Typed,
           \A t \in Tickets : SameTicket(t) /\ SameTrace(t) /\ SameRow(t), \A f \in Fires : Moved(f)
    PROVE  Core'
  <1>1. Owned'
    <2>1. \A f \in Fires : fires[f].id \in Tickets
      BY DEF Typed, FireRecs
    <2>2. QED
      BY <2>1, FireNames, Pair DEF Core, Owned, Moved, SameFire, SameTicket, SameTrace
  <1>2. ASSUME NEW t \in Tickets PROVE (Rested(t) /\ Capped(t) /\ Varied(t))'
    BY FireNames DEF Core, Rested, Capped, Varied, Asked, Settling, SameTicket, SameTrace, SameRow, Moved, SameFire
  <1>3. Alone'
    BY Pair, FireNames DEF Core, Alone, SameTicket, SameTrace, SameRow, Moved, SameFire
  <1>4. QED
    BY <1>1, <1>2, <1>3 DEF Core

(* The undisturbed machine: its fires and rows. *)
LEMMA QuietKept ==
    ASSUME Quiet, Typed,
           \A t \in Tickets : SameTicket(t) /\ SameTrace(t) /\ SameRow(t),
           \A f \in Fires : Moved(f), fires'["merge"].pc = fires["merge"].pc,
           Loops'.pc \in {"write", "second", "place"} =>
             Loops'.facts \in (IF Loops.task = "review" THEN {{Ship}, {Again}} ELSE {{"ready-for-review"}}),
           Loops'.pc = "second" => Loops.pc = "second" \/ Loops.id = Issue
    PROVE  Quiet'
  <1>1. \A f \in Fires : fires[f].id \in Tickets
    BY DEF Typed, FireRecs
  <1>2. QED
    BY <1>1, Pair, FireNames DEF Quiet, At, Loops, Settling, SameTicket, SameTrace, SameRow, Moved, SameFire

LEMMA ImplementedKept ==
    ASSUME Implemented, SameTicket(Issue), SameTrace(Issue), SameRow(Issue),
           seen[Pull].on => seen'[Pull].on, pull' = "ready" => Finished'
    PROVE  Implemented'
  BY DEF Implemented, SameTicket, SameTrace, SameRow

LEMMA Spends ==
    ASSUME Typed, spent' = spent + 1, spent < MaxTroubles
    PROVE  spent' \in 0..MaxTroubles
  BY RoutesAssumption DEF Typed, RoutesAssumption

LEMMA Disturbed ==
    ASSUME Typed, spent' = spent + 1
    PROVE  Calmly'
  BY RoutesAssumption DEF Typed, Calmly, Calm, RoutesAssumption

--------------------------------------------------------------------------------
(* The reads. *)

LEMMA BeginFetchKeeps ==
    ASSUME IInv, NEW t \in Tickets, BeginFetch(t)
    PROVE  IInv'
  <1>1. /\ Typed /\ Core
        /\ UNCHANGED <<pull, labels, closing, seen, ticket, trace, row, attempt, auto, fires, phase, autoOn, spent>>
        /\ fetch[t] = {} /\ fetch' = Refreshing(t)
    BY DEF IInv, BeginFetch, host, cycle
  <1>2. /\ fetch' \in [Tickets -> SUBSET Snapshots]
        /\ fetch'[t] = {Snapshot(t)}
        /\ \A u \in Tickets \ {t} : fetch'[u] = fetch[u]
    BY <1>1, Refreshes DEF Typed
  <1>3. Snapshot(Pull).on = Shown(Pull) /\ Snapshot(Pull).labels = labels
    BY <1>1, Snaps, Pair DEF Typed
  <1>4. Typed'
    BY <1>1, <1>2 DEF Typed
  <1>5. \A u \in Tickets : SameTicket(u) /\ SameTrace(u) /\ SameRow(u)
    BY <1>1 DEF SameTicket, SameTrace, SameRow
  <1>6. \A f \in Fires : Moved(f)
    BY <1>1 DEF Moved, SameFire
  <1>7. Core'
    BY <1>1, <1>5, <1>6, CoreKept
  <1>8. Calmly'
    <2> SUFFICES ASSUME Calm' PROVE (Quiet /\ Implemented /\ Listed /\ Late /\ Shipped)'
      BY DEF Calmly
    <2>1. Quiet /\ Implemented /\ Listed /\ Late /\ Shipped
      BY <1>1 DEF IInv, Calmly, Calm
    <2>2. Quiet' /\ Implemented'
      BY <1>1, <2>1 DEF Quiet, Implemented, Finished, At, Loops, Settling
    <2>3. Shown(Pull) <=> pull = "ready"
      BY <2>1, Pair DEF Shown, Listed, Again
    <2>4. \A s \in fetch'[Pull] : s \in fetch[Pull] \/ ((s.on <=> pull = "ready") /\ s.labels = labels)
      BY <1>2, <1>3, <2>3, Pair
    <2>5. Listed'
      BY <1>1, <2>1, <2>4 DEF Listed
    <2>6. Late'
      BY <1>1, <2>1, <2>4 DEF Late, Stales, At, Loops
    <2>7. Shipped'
      BY <1>1, <2>1, <2>4 DEF Shipped, Shipping, At, Loops, AtLimit, Count
    <2>8. QED
      BY <2>2, <2>5, <2>6, <2>7
  <1>9. QED
    BY <1>4, <1>7, <1>8 DEF IInv

LEMMA LandFetchKeeps ==
    ASSUME IInv, NEW t \in Tickets, LandFetch(t)
    PROVE  IInv'
  <1>1. /\ Typed /\ Core
        /\ UNCHANGED <<pull, labels, closing, trace, row, auto, phase, autoOn, spent>>
        /\ ticket' = [ticket EXCEPT ![t].failed = FALSE]
        /\ attempt' \in {attempt, "reread"}
        /\ attempt' = "none" => attempt = "none"
        /\ fetch' = [fetch EXCEPT ![t] = {}] /\ fires' = Woken(t)
    BY DEF IInv, LandFetch, host, cycle
  <1>2. PICK s \in fetch[t] : seen' = [seen EXCEPT ![t] = Landed(t, s)]
    BY DEF LandFetch
  <1>3. s \in Snapshots
    BY <1>1, <1>2 DEF Typed
  <1>4. /\ seen' \in [Tickets -> Facing] /\ seen'[t].on = s.on
        /\ seen'[t].labels = (IF s.on THEN s.labels ELSE seen[t].labels)
        /\ \A u \in Tickets \ {t} : seen'[u] = seen[u]
    BY <1>1, <1>2, <1>3, Lists DEF Typed
  <1>5. /\ fires' \in [Fires -> FireRecs]
        /\ \A f \in Fires : /\ SameFire(f)
                            /\ fires'[f].facts = fires[f].facts /\ fires'[f].base = fires[f].base
                            /\ \/ fires'[f].pc = fires[f].pc
                               \/ t = Pull /\ fires[f].pc = "refresh" /\ fires'[f].pc = "list"
                               \/ t = Pull /\ fires[f].pc = "second" /\ fires'[f].pc = "place"
    BY <1>1, Wakes DEF Typed
  <1>6. /\ ticket' \in [Tickets -> TicketRecs]
        /\ \A u \in Tickets : SameTicket(u) /\ ticket'[u].tries = ticket[u].tries
    BY <1>1, ForgetFailed DEF Typed, SameTicket
  <1>7. Typed'
    BY <1>1, <1>4, <1>5, <1>6 DEF Typed
  <1>8. \A u \in Tickets : SameTicket(u) /\ SameTrace(u) /\ SameRow(u)
    BY <1>1, <1>6 DEF SameTrace, SameRow
  <1>9. \A f \in Fires : Moved(f)
    BY <1>5 DEF Moved
  <1>10. Core'
    BY <1>1, <1>8, <1>9, CoreKept
  <1>11. Calmly'
    <2> SUFFICES ASSUME Calm' PROVE (Quiet /\ Implemented /\ Listed /\ Late /\ Shipped)'
      BY DEF Calmly
    <2>1. Quiet /\ Implemented /\ Listed /\ Late /\ Shipped
      BY <1>1 DEF IInv, Calmly, Calm
    <2>2. Loops'.facts = Loops.facts /\ Loops'.base = Loops.base /\ Loops'.id = Loops.id
          /\ Loops'.task = Loops.task
          /\ \/ Loops'.pc = Loops.pc
             \/ t = Pull /\ Loops.pc = "refresh" /\ Loops'.pc = "list"
             \/ t = Pull /\ Loops.pc = "second" /\ Loops'.pc = "place"
      BY <1>5, FireNames DEF Loops, SameFire
    <2>3. fires'["merge"].pc = fires["merge"].pc
      BY <1>5, <2>1, FireNames DEF Quiet
    <2>4. Quiet'
      BY <1>1, <1>8, <1>9, <2>1, <2>2, <2>3, QuietKept DEF Quiet
    <2>5. seen[Pull].on => seen'[Pull].on
      BY <1>2, <1>4, <2>1, Pair DEF Listed
    <2>6. Finished => Finished'
      BY <1>1, <2>2 DEF Finished, At
    <2>7. Implemented'
      BY <1>1, <1>8, <2>1, <2>5, <2>6, Pair, ImplementedKept DEF Implemented
    <2>8. fetch'[Pull] \subseteq fetch[Pull] /\ (t = Pull => fetch'[Pull] = {})
      BY <1>1, Pair DEF Typed
    <2>9. seen'[Pull].on => seen[Pull].on \/ (t = Pull /\ s.on)
      BY <1>4, Pair
    <2>10. Listed'
      BY <1>1, <1>2, <1>8, <2>1, <2>5, <2>8, <2>9, Pair DEF Listed, SameTicket
    <2>11. Again \in labels => seen'[Pull].labels = (IF t = Pull THEN s.labels ELSE seen[Pull].labels)
      BY <1>2, <1>4, <2>1, Pair DEF Listed
    <2>12. Late'
      <3>1. At(Pull)' <=> At(Pull)
        BY <2>2 DEF At
      <3>2. At(Pull) => ticket[Pull].state = "working" /\ Loops.task = ticket[Pull].task
        BY <2>1, Pair DEF Quiet, At, Settling, Loops
      <3>3. t # Pull => seen'[Pull] = seen[Pull] /\ Loops'.pc = Loops.pc
        BY <1>4, <2>2, Pair
      <3>4. SameTicket(Pull)
        BY <1>8, Pair
      <3>5. CASE t = Pull
        BY <1>1, <1>2, <2>1, <2>2, <2>8, <2>11, <3>1, <3>2, <3>4, <3>5 DEF Late, Stales, SameTicket
      <3>6. CASE t # Pull
        <4>1. Stales => Stales'
          BY <2>8 DEF Stales
        <4>2. QED
          BY <1>1, <2>1, <2>2, <3>1, <3>3, <3>4, <3>6, <4>1 DEF Late, SameTicket
      <3>7. QED
        BY <3>5, <3>6
    <2>13. seen'[Pull].labels = seen[Pull].labels \/ (t = Pull /\ seen'[Pull].labels = s.labels)
      BY <1>4, Pair
    <2>14. Shipped'
      <3>1. SameTicket(Pull) /\ ticket'[Pull].tries = ticket[Pull].tries
        BY <1>6, Pair
      <3>3. (Shipping /\ Loops.pc = "place")' <=> (Shipping /\ Loops.pc = "place")
        BY <2>1, <2>2, Pair DEF Shipping, At, Quiet
      <3>4. (Shipping /\ Loops.pc = "write")' <=> (Shipping /\ Loops.pc = "write")
        BY <2>2 DEF Shipping, At
      <3>5. QED
        BY <1>1, <1>2, <2>1, <2>2, <2>3, <2>8, <2>13, <3>1, <3>3, <3>4, Pair
          DEF Shipped, SameTicket, AtLimit, Count
    <2>15. QED
      BY <2>4, <2>7, <2>10, <2>12, <2>14
  <1>12. QED
    BY <1>7, <1>10, <1>11 DEF IInv

LEMMA FailFetchKeeps ==
    ASSUME IInv, NEW t \in Tickets, FailFetch(t)
    PROVE  IInv'
  <1>1. /\ Typed /\ Core
        /\ UNCHANGED <<pull, labels, closing, ticket, trace, row, attempt, auto, phase, autoOn>>
        /\ spent' = spent + 1 /\ spent < MaxTroubles
        /\ seen' = [seen EXCEPT ![t].stale = TRUE]
        /\ fetch' = [fetch EXCEPT ![t] = {}] /\ fires' = Woken(t)
    BY DEF IInv, FailFetch, host, cycle
  <1>2. seen' \in [Tickets -> Facing]
    BY <1>1, Notes DEF Typed
  <1>3. /\ fires' \in [Fires -> FireRecs]
        /\ \A f \in Fires : Moved(f)
    BY <1>1, Wakes DEF Typed, Moved
  <1>4. Typed'
    BY <1>1, <1>2, <1>3, RoutesAssumption DEF Typed, RoutesAssumption
  <1>5. \A u \in Tickets : SameTicket(u) /\ SameTrace(u) /\ SameRow(u)
    BY <1>1 DEF SameTicket, SameTrace, SameRow
  <1>6. QED
    BY <1>1, <1>3, <1>4, <1>5, CoreKept, Disturbed DEF IInv

--------------------------------------------------------------------------------
(* The host. *)

LEMMA PushKeeps ==
    ASSUME IInv, Push
    PROVE  IInv'
  <1>1. /\ Typed /\ Core /\ pull = "empty" /\ pull' = "work"
        /\ UNCHANGED <<labels, closing, seen, ticket, trace, row, attempt, auto, fetch, fires, phase, autoOn, spent>>
    BY DEF IInv, Push, cycle
  <1>2. Typed'
    BY <1>1 DEF Typed
  <1>3. (\A u \in Tickets : SameTicket(u) /\ SameTrace(u) /\ SameRow(u)) /\ \A f \in Fires : Moved(f)
    BY <1>1 DEF SameTicket, SameTrace, SameRow, Moved, SameFire
  <1>4. Core'
    BY <1>1, <1>3, CoreKept
  <1>5. Calmly'
    <2> SUFFICES ASSUME Calm' PROVE (Quiet /\ Implemented /\ Listed /\ Late /\ Shipped)'
      BY DEF Calmly
    <2>1. Quiet /\ Implemented /\ Listed /\ Late /\ Shipped
      BY <1>1 DEF IInv, Calmly, Calm
    <2>2. QED
      BY <1>1, <2>1 DEF Quiet, Implemented, Listed, Late, Shipped, Stales, Shipping, At, Loops, Settling,
        AtLimit, Count
  <1>6. QED
    BY <1>2, <1>4, <1>5 DEF IInv

LEMMA CloseDraftKeeps ==
    ASSUME IInv, CloseDraft
    PROVE  IInv'
  <1>1. /\ Typed /\ Core /\ closing' = FALSE
        /\ pull' = IF pull \in {"empty", "work"} THEN "none" ELSE pull
        /\ labels' = IF pull \in {"empty", "work"} THEN {} ELSE labels
        /\ UNCHANGED <<seen, ticket, trace, row, attempt, auto, fetch, fires, phase, autoOn, spent>>
    BY DEF IInv, CloseDraft, cycle
  <1>2. Typed'
    BY <1>1 DEF Typed
  <1>3. (\A u \in Tickets : SameTicket(u) /\ SameTrace(u) /\ SameRow(u)) /\ \A f \in Fires : Moved(f)
    BY <1>1 DEF SameTicket, SameTrace, SameRow, Moved, SameFire
  <1>4. Core'
    BY <1>1, <1>3, CoreKept
  <1>5. Calmly'
    <2> SUFFICES ASSUME Calm' PROVE (Quiet /\ Implemented /\ Listed /\ Late /\ Shipped)'
      BY DEF Calmly
    <2>1. Quiet /\ Implemented /\ Listed /\ Late /\ Shipped
      BY <1>1 DEF IInv, Calmly, Calm
    <2>2. Quiet'
      BY <1>1, <2>1 DEF Quiet, At, Loops, Settling
    <2>3. Implemented' /\ Listed'
      BY <1>1, <2>1 DEF Implemented, Finished, Listed, At, Loops
    <2>4. labels' \subseteq labels
      BY <1>1
    <2>5. Late'
      BY <1>1, <2>1, <2>4 DEF Late, Stales, At, Loops
    <2>6. Shipped'
      BY <1>1, <2>1, <2>4 DEF Shipped, Shipping, At, Loops, AtLimit, Count
    <2>7. QED
      BY <2>2, <2>3, <2>5, <2>6
  <1>6. QED
    BY <1>2, <1>4, <1>5 DEF IInv
--------------------------------------------------------------------------------
(* The turns. *)

(* What a forced refresh adds to the readings in flight. *)
LEMMA Read ==
    ASSUME Typed, Listed, NEW t \in Tickets, fetch' = Refreshing(t)
    PROVE  /\ fetch' \in [Tickets -> SUBSET Snapshots]
           /\ \A s \in fetch'[Pull] : s \in fetch[Pull] \/ ((s.on <=> pull = "ready") /\ s.labels = labels)
  <1>1. /\ fetch' \in [Tickets -> SUBSET Snapshots]
        /\ fetch'[t] = (IF fetch[t] = {} THEN {Snapshot(t)} ELSE fetch[t])
        /\ \A u \in Tickets \ {t} : fetch'[u] = fetch[u]
    BY Refreshes DEF Typed
  <1>2. Snapshot(Pull).on = Shown(Pull) /\ Snapshot(Pull).labels = labels
    BY Snaps, Pair DEF Typed
  <1>3. Shown(Pull) <=> pull = "ready"
    BY Pair DEF Shown, Listed, Again
  <1>4. QED
    BY <1>1, <1>2, <1>3, Pair

LEMMA SettleKeeps ==
    ASSUME IInv, NEW t \in Tickets, Settle(t)
    PROVE  IInv'
  <1>1. /\ Typed /\ Core /\ Loops.pc = "idle" /\ ticket[t].state = "working" /\ phase' = "turns"
        /\ UNCHANGED <<pull, labels, closing, seen, row, attempt, auto, autoOn, spent>>
    BY DEF IInv, Settle, Step, Idle, Loops, host
  <1>2. ticket[t].task \in Tasks /\ row[t].task = "none"
    BY <1>1 DEF Core, Rested
  <1>3. "loop" \in Fires /\ ticket[t].task \in Works
    BY <1>2, FireNames DEF Works
  <1>4. \A u \in Tickets : ticket[u].starts \in Nat /\ ticket[u].cycle \in Nat
    BY <1>1 DEF Typed, TicketRecs
  <1>5. Calm' => Quiet /\ Implemented /\ Listed /\ Late /\ Shipped
    BY <1>1 DEF IInv, Calmly, Calm
  <1>6. CASE Launch("loop", t, "settle", ticket[t].task) /\ UNCHANGED <<ticket, trace>>
    <2>1. /\ fires' \in [Fires -> FireRecs]
          /\ Loops'.pc = "refresh" /\ Loops'.id = t /\ Loops'.task = ticket[t].task
          /\ Loops'.why = "settle" /\ Loops'.facts = {}
          /\ Loops'.hand = ticket[t].starts /\ Loops'.cycle = ticket[t].cycle
          /\ fires'["hand"] = fires["hand"] /\ fires'["merge"] = fires["merge"]
      BY <1>1, <1>3, <1>6, Launches, FireNames DEF Typed, Loops
    <2>2. fetch' = Refreshing(Pull)
      BY <1>6 DEF Launch
    <2>3. fetch' \in [Tickets -> SUBSET Snapshots]
      BY <1>1, <2>2, Refreshes, Pair DEF Typed
    <2>4. Typed'
      BY <1>1, <1>6, <2>1, <2>3 DEF Typed
    <2>5. Owned'
      BY <1>1, <1>2, <1>4, <1>6, <2>1, FireNames DEF Core, Owned, Loops
    <2>6. ASSUME NEW u \in Tickets PROVE (Rested(u) /\ Capped(u) /\ Varied(u))'
      BY <1>1, <1>2, <1>6, <2>1 DEF Core, Rested, Capped, Varied, Asked, Settling, Loops
    <2>7. Alone'
      BY <1>1, <1>6, <2>1 DEF Core, Alone
    <2>8. ASSUME Calm' PROVE (Quiet /\ Implemented /\ Listed /\ Late /\ Shipped)'
      <3>1. Quiet /\ Implemented /\ Listed /\ Late /\ Shipped
        BY <1>5, <2>8
      <3>2. \A s \in fetch'[Pull] : s \in fetch[Pull] \/ ((s.on <=> pull = "ready") /\ s.labels = labels)
        BY <1>1, <2>2, <3>1, Read, Pair
      <3>3. Quiet'
        BY <1>1, <1>6, <2>1, <3>1, Pair DEF Quiet, Implemented, Listed, At, Settling, Loops
      <3>4. Implemented'
        <4>1. trace[Issue].out.kind = "done" => t # Issue
          BY <1>1, <3>1, Pair DEF Implemented, Quiet
        <4>2. (pull = "ready" => Finished')
          BY <1>1, <1>6, <2>1, <3>1, <4>1, Pair DEF Implemented, Finished, At, Loops
        <4>3. QED
          BY <1>1, <1>6, <3>1, <4>2 DEF Implemented
      <3>5. Listed'
        BY <1>1, <1>6, <3>1, <3>2 DEF Listed
      <3>6. Late'
        BY <1>1, <1>6, <2>1, <3>1, <3>2, Pair DEF Late, Stales, At, Loops
      <3>7. Shipped'
        BY <1>1, <1>6, <2>1, <3>1, <3>2, Pair DEF Shipped, Shipping, At, Loops, AtLimit, Count
      <3>8. QED
        BY <3>3, <3>4, <3>5, <3>6, <3>7
    <2>9. QED
      BY <2>4, <2>5, <2>6, <2>7, <2>8 DEF IInv, Core, Calmly
  <1>7. CASE /\ \E cause \in {"aborted", "unknown"} :
                 trace' = [trace EXCEPT ![t] =
                   [task |-> ticket[t].task, cause |-> cause, out |-> NoOutcome,
                    cycle |-> ticket[t].cycle, hand |-> ticket[t].starts, decision |-> "none"]]
             /\ ticket' = [ticket EXCEPT ![t].state = "awaiting"]
             /\ UNCHANGED <<fetch, fires>>
    <2>1. PICK cause \in {"aborted", "unknown"} :
                 trace' = [trace EXCEPT ![t] =
                   [task |-> ticket[t].task, cause |-> cause, out |-> NoOutcome,
                    cycle |-> ticket[t].cycle, hand |-> ticket[t].starts, decision |-> "none"]]
      BY <1>7
    <2>2. [task |-> ticket[t].task, cause |-> cause, out |-> NoOutcome,
           cycle |-> ticket[t].cycle, hand |-> ticket[t].starts, decision |-> "none"] \in Traces
      BY <1>3, <1>4, NoRecords DEF Traces
    <2>3. /\ trace' \in [Tickets -> Traces]
          /\ trace'[t].task = ticket[t].task /\ trace'[t].cause = cause /\ trace'[t].out = NoOutcome
          /\ trace'[t].cycle = ticket[t].cycle /\ trace'[t].hand = ticket[t].starts
          /\ trace'[t].decision = "none"
          /\ \A u \in Tickets \ {t} : trace'[u] = trace[u]
      BY <1>1, <2>1, <2>2 DEF Typed
    <2>4. /\ ticket' \in [Tickets -> TicketRecs]
          /\ ticket'[t].state = "awaiting" /\ ticket'[t].cycle = ticket[t].cycle
          /\ ticket'[t].task = ticket[t].task /\ ticket'[t].starts = ticket[t].starts
          /\ ticket'[t].tries = ticket[t].tries
          /\ \A u \in Tickets \ {t} : ticket'[u] = ticket[u]
      BY <1>1, <1>7, Turns DEF Typed
    <2>5. Typed'
      BY <1>1, <1>7, <2>3, <2>4 DEF Typed
    <2>6. Owned'
      <3>1. \A u \in Tickets : ticket'[u].starts = ticket[u].starts /\ ticket'[u].cycle = ticket[u].cycle
        BY <2>4
      <3>2. \A f \in Fires : fires[f].id \in Tickets
        BY <1>1 DEF Typed, FireRecs
      <3>3. NoOutcome.to = "none" /\ ticket[t].cycle <= ticket[t].cycle /\ ticket[t].starts <= ticket[t].starts
        BY <1>4, NoRecords
      <3>4. Owned /\ fires' = fires
        BY <1>1, <1>7 DEF Core
      <3>5. \A u \in Tickets : /\ trace'[u].cycle <= ticket'[u].cycle
                               /\ trace'[u].hand <= ticket'[u].starts
                               /\ trace'[u].out.to # "none" => trace'[u].out.kind = "done"
                               /\ trace'[u].out.kind # "none" => trace'[u].task \in Tasks
                               /\ trace[u].task \in Tasks => trace'[u].task \in Tasks
        BY <1>2, <2>3, <3>1, <3>3, <3>4 DEF Owned
      <3>6. QED
        BY <3>1, <3>2, <3>4, <3>5, FireNames DEF Owned
    <2>7. ASSUME NEW u \in Tickets PROVE (Rested(u) /\ Capped(u) /\ Varied(u))'
      <3>1. CASE u = t
        BY <1>1, <1>2, <1>7, <2>3, <2>4, <3>1 DEF Core, Rested, Capped, Varied, Asked, Settling, Loops
      <3>2. CASE u # t
        BY <1>1, <1>7, <2>3, <2>4, <2>7, <3>2 DEF Core, Rested, Capped, Varied, Asked, Settling, Loops
      <3>3. QED
        BY <3>1, <3>2
    <2>8. Alone'
      BY <1>1, <1>7, <2>3, <2>4, NoRecords, Pair DEF Core, Alone
    <2>9. ASSUME Calm' PROVE (Quiet /\ Implemented /\ Listed /\ Late /\ Shipped)'
      <3>1. Quiet /\ Implemented /\ Listed /\ Late /\ Shipped
        BY <1>5, <2>9
      <3>2. ~At(Issue) /\ ~At(Pull) /\ ~At(Issue)' /\ ~At(Pull)' /\ Loops' = Loops
        BY <1>1, <1>7 DEF At, Loops
      <3>3. Quiet'
        BY <1>1, <1>7, <2>3, <3>1, <3>2, NoRecords DEF Quiet, Settling, Loops
      <3>4. t = Issue => pull # "ready"
        BY <1>1, <3>1, <3>2, Pair DEF Implemented, Finished, Quiet
      <3>5. Implemented'
        BY <1>1, <1>7, <2>3, <2>4, <3>1, <3>2, <3>4, Pair DEF Implemented, Finished
      <3>6. Listed'
        BY <1>1, <1>2, <1>7, <2>4, <3>1, Pair DEF Listed
      <3>7. Late'
        BY <1>1, <1>2, <1>7, <2>4, <3>1, <3>2, Pair DEF Late, Stales
      <3>8. t = Pull => trace[Pull].out.to # "merge"
        BY <1>1, <3>1 DEF Shipped
      <3>9. Shipped'
        <4>1. CASE t = Pull
          BY <1>1, <1>2, <1>7, <2>3, <2>4, <3>1, <3>2, <3>8, <4>1, NoRecords DEF Shipped, Shipping
        <4>2. CASE t # Pull
          BY <1>1, <1>2, <1>7, <2>3, <2>4, <3>1, <3>2, <4>2, Pair DEF Shipped, Shipping, AtLimit, Count
        <4>3. QED
          BY <4>1, <4>2
      <3>10. QED
        BY <3>3, <3>5, <3>6, <3>7, <3>9
    <2>10. QED
      BY <2>5, <2>6, <2>7, <2>8, <2>9 DEF IInv, Core, Calmly
  <1>8. QED
    BY <1>6, <1>7 DEF Settle

(* A step of the cycle that touches nothing but its own memory. *)
LEMMA StepKeeps ==
    ASSUME IInv, phase' \in {"turns", "decide", "open"}, {auto', autoOn'} \subseteq BOOLEAN,
           UNCHANGED <<pull, labels, closing, seen, ticket, trace, row, attempt, fetch, fires, spent>>
    PROVE  IInv'
  <1>1. Typed'
    BY DEF IInv, Typed
  <1>2. (\A u \in Tickets : SameTicket(u) /\ SameTrace(u) /\ SameRow(u)) /\ \A f \in Fires : Moved(f)
    BY DEF SameTicket, SameTrace, SameRow, Moved, SameFire
  <1>3. Core'
    BY <1>2, CoreKept DEF IInv
  <1>4. Calmly'
    BY DEF IInv, Calmly, Calm, Quiet, Implemented, Finished, Listed, Late, Shipped, Stales, Shipping,
      At, Loops, Settling, AtLimit, Count
  <1>5. QED
    BY <1>1, <1>3, <1>4 DEF IInv

LEMMA EndTurnsKeeps ==
    ASSUME IInv, EndTurns
    PROVE  IInv'
  <1>1. /\ Typed /\ Core /\ Loops.pc = "idle" /\ phase' = "decide"
        /\ UNCHANGED <<pull, labels, closing, seen, ticket, trace, row, attempt, auto, autoOn, spent>>
    BY DEF IInv, EndTurns, Step, Idle, Loops, host
  <1>2. CASE UNCHANGED <<fetch, fires>>
    <2>1. {auto', autoOn'} \subseteq BOOLEAN
      BY <1>1 DEF Typed
    <2>2. QED
      BY <1>1, <1>2, <2>1, StepKeeps
  <1>3. CASE Sweepable /\ Launch("loop", Issue, "sweep", "implement")
    <2>1. /\ fires' \in [Fires -> FireRecs]
          /\ Loops'.pc = "refresh" /\ Loops'.id = Issue /\ Loops'.task = "implement"
          /\ Loops'.why = "sweep" /\ Loops'.facts = {}
          /\ Loops'.hand = 0 /\ Loops'.cycle = 0
          /\ fires'["hand"] = fires["hand"] /\ fires'["merge"] = fires["merge"]
      BY <1>1, <1>3, Launches, FireNames, Pair DEF Typed, Loops, Works, Tasks
    <2>2. fetch' = Refreshing(Pull)
      BY <1>3 DEF Launch
    <2>3. fetch' \in [Tickets -> SUBSET Snapshots]
      BY <1>1, <2>2, Refreshes, Pair DEF Typed
    <2>4. Typed'
      BY <1>1, <2>1, <2>3 DEF Typed
    <2>5. Owned'
      <3>1. \A u \in Tickets : ticket[u].starts \in Nat /\ ticket[u].cycle \in Nat
        BY <1>1 DEF Typed, TicketRecs
      <3>2. trace[Issue].task \in Tasks
        BY <1>1, <1>3, Pair DEF Sweepable, Core, Owned
      <3>3. QED
        BY <1>1, <2>1, <3>1, <3>2, FireNames, Pair DEF Core, Owned, Loops, Tasks
    <2>6. ASSUME NEW u \in Tickets PROVE (Rested(u) /\ Capped(u) /\ Varied(u))'
      BY <1>1, <2>1 DEF Core, Rested, Capped, Varied, Asked, Settling, Loops
    <2>7. Alone'
      BY <1>1, <2>1 DEF Core, Alone
    <2>8. ASSUME Calm' PROVE (Quiet /\ Implemented /\ Listed /\ Late /\ Shipped)'
      <3>1. Quiet /\ Implemented /\ Listed /\ Late /\ Shipped
        BY <1>1, <2>8 DEF IInv, Calmly, Calm
      <3>2. \A s \in fetch'[Pull] : s \in fetch[Pull] \/ ((s.on <=> pull = "ready") /\ s.labels = labels)
        BY <1>1, <2>2, <3>1, Read, Pair
      <3>3. trace[Issue].out.kind = "skip"
        BY <1>3 DEF Sweepable
      <3>4. ~At(Pull) /\ ~At(Pull)' /\ ~At(Issue)
        BY <1>1, <2>1, Pair DEF At, Loops
      <3>5. Quiet'
        BY <1>1, <2>1, <3>1, <3>3, <3>4 DEF Quiet, At, Settling, Loops
      <3>6. pull # "ready"
        BY <3>1, <3>3, <3>4 DEF Implemented, Finished
      <3>7. Implemented'
        BY <1>1, <3>1, <3>6 DEF Implemented
      <3>8. Listed'
        BY <1>1, <3>1, <3>2 DEF Listed
      <3>9. Late'
        BY <1>1, <3>1, <3>2, <3>4 DEF Late, Stales
      <3>10. Shipped'
        BY <1>1, <2>1, <3>1, <3>2, <3>4 DEF Shipped, Shipping, AtLimit, Count
      <3>11. QED
        BY <3>5, <3>7, <3>8, <3>9, <3>10
    <2>9. QED
      BY <2>4, <2>5, <2>6, <2>7, <2>8 DEF IInv, Core, Calmly
  <1>4. QED
    BY <1>2, <1>3 DEF EndTurns

LEMMA EndAskKeeps ==
    ASSUME IInv, EndAsk
    PROVE  IInv'
  <1>1. {auto', autoOn'} \subseteq BOOLEAN
    BY DEF IInv, Typed, EndAsk
  <1>2. QED
    BY <1>1, StepKeeps DEF EndAsk, Step, host

LEMMA ToggleAutoKeeps ==
    ASSUME IInv, ToggleAuto
    PROVE  IInv'
  <1>1. /\ Typed /\ Core /\ spent' = spent + 1 /\ spent < MaxTroubles /\ auto' = ~auto
        /\ UNCHANGED <<pull, labels, closing, seen, ticket, trace, row, attempt, fetch, fires, phase, autoOn>>
    BY DEF IInv, ToggleAuto, Act, host, cycle
  <1>2. Typed'
    BY <1>1, RoutesAssumption DEF Typed, RoutesAssumption
  <1>3. (\A u \in Tickets : SameTicket(u) /\ SameTrace(u) /\ SameRow(u)) /\ \A f \in Fires : Moved(f)
    BY <1>1 DEF SameTicket, SameTrace, SameRow, Moved, SameFire
  <1>4. QED
    BY <1>1, <1>2, <1>3, CoreKept, Disturbed DEF IInv

--------------------------------------------------------------------------------
(* The ends of a cycle. *)

LEMMA Closes ==
    ASSUME Typed, NEW t \in Tickets, CloseEnds(t)
    PROVE  /\ trace' \in [Tickets -> Traces] /\ seen' \in [Tickets -> Facing]
           /\ ticket' \in [Tickets -> TicketRecs] /\ closing' \in BOOLEAN
           /\ fetch' \in [Tickets -> SUBSET Snapshots] /\ fetch' = Refreshing(t)
           /\ trace'[t].decision = (IF Mine(t) THEN "closed" ELSE trace[t].decision)
           /\ trace'[t].task = trace[t].task /\ trace'[t].cause = trace[t].cause
           /\ trace'[t].out = trace[t].out /\ trace'[t].cycle = trace[t].cycle
           /\ trace'[t].hand = trace[t].hand
           /\ \A u \in Tickets \ {t} : trace'[u] = trace[u]
           /\ \A u \in Tickets : seen'[u].on = seen[u].on /\ seen'[u].labels = seen[u].labels
           /\ ticket'[t].state = "open" /\ ticket'[t].cycle = ticket[t].cycle + 1
           /\ ticket'[t].task = ticket[t].task /\ ticket'[t].starts = ticket[t].starts
           /\ ticket'[t].tries = ticket[t].tries
           /\ \A u \in Tickets \ {t} : ticket'[u] = ticket[u]
  <1>1. /\ trace' \in [Tickets -> Traces]
        /\ trace'[t].decision = (IF Mine(t) THEN "closed" ELSE trace[t].decision)
        /\ trace'[t].task = trace[t].task /\ trace'[t].cause = trace[t].cause
        /\ trace'[t].out = trace[t].out /\ trace'[t].cycle = trace[t].cycle
        /\ trace'[t].hand = trace[t].hand
        /\ \A u \in Tickets \ {t} : trace'[u] = trace[u]
    <2>1. CASE Mine(t)
      <3>1. trace' = [trace EXCEPT ![t].decision = "closed"]
        BY <2>1 DEF CloseEnds
      <3>2. trace \in [Tickets -> Traces] /\ "closed" \in {"none", "closed", "auto", "routed"}
        BY DEF Typed
      <3>3. /\ trace' \in [Tickets -> Traces] /\ trace'[t].decision = "closed"
            /\ trace'[t].task = trace[t].task /\ trace'[t].cause = trace[t].cause
            /\ trace'[t].out = trace[t].out /\ trace'[t].cycle = trace[t].cycle
            /\ trace'[t].hand = trace[t].hand
            /\ \A u \in Tickets \ {t} : trace'[u] = trace[u]
        BY <3>1, <3>2, Decides1
      <3>4. QED
        BY <2>1, <3>3
    <2>2. CASE ~Mine(t)
      BY <2>2 DEF CloseEnds, Typed
    <2>3. QED
      BY <2>1, <2>2
  <1>2. /\ seen' \in [Tickets -> Facing]
        /\ \A u \in Tickets : seen'[u].on = seen[u].on /\ seen'[u].labels = seen[u].labels
    <2>1. CASE Mine(t)
      BY <2>1, Notes DEF Typed, CloseEnds
    <2>2. CASE ~Mine(t)
      BY <2>2 DEF CloseEnds, Typed
    <2>3. QED
      BY <2>1, <2>2
  <1>3. /\ ticket' \in [Tickets -> TicketRecs]
        /\ ticket'[t].state = "open" /\ ticket'[t].cycle = ticket[t].cycle + 1
        /\ ticket'[t].task = ticket[t].task /\ ticket'[t].starts = ticket[t].starts
        /\ ticket'[t].tries = ticket[t].tries
        /\ \A u \in Tickets \ {t} : ticket'[u] = ticket[u]
    BY NextCycle DEF Typed, CloseEnds
  <1>4. closing' \in BOOLEAN /\ fetch' = Refreshing(t)
    BY DEF CloseEnds, Typed
  <1>5. fetch' \in [Tickets -> SUBSET Snapshots]
    BY <1>4, Refreshes DEF Typed
  <1>6. QED
    BY <1>1, <1>2, <1>3, <1>4, <1>5

(* A cycle that ends leaves every fire and every trace within its ticket. *)
LEMMA Outlives ==
    ASSUME Typed, Owned, UNCHANGED fires,
           \A u \in Tickets : /\ trace'[u].out = trace[u].out /\ trace'[u].cycle = trace[u].cycle
                              /\ trace'[u].hand = trace[u].hand /\ trace'[u].task = trace[u].task,
           \A u \in Tickets : /\ ticket'[u].starts = ticket[u].starts
                              /\ ticket[u].cycle <= ticket'[u].cycle /\ ticket'[u].cycle \in Nat
    PROVE  Owned'
  <1>1. \A u \in Tickets : ticket[u].cycle \in Nat /\ trace[u].cycle \in Nat
    BY DEF Typed, TicketRecs, Traces
  <1>2. \A f \in Fires : fires[f].id \in Tickets /\ fires[f].cycle \in Nat
    BY DEF Typed, FireRecs
  <1>3. \A f \in Fires : /\ fires[f].cycle <= ticket'[fires[f].id].cycle
                         /\ fires[f].hand <= ticket'[fires[f].id].starts
    BY <1>1, <1>2 DEF Owned
  <1>4. \A u \in Tickets : /\ trace'[u].cycle <= ticket'[u].cycle /\ trace'[u].hand <= ticket'[u].starts
                           /\ trace'[u].out.to # "none" => trace'[u].out.kind = "done"
                           /\ trace'[u].out.kind # "none" => trace'[u].task \in Tasks
    BY <1>1 DEF Owned
  <1>5. \A f \in Fires : fires[f].pc # "idle" =>
          /\ fires[f].why \in (CASE f = "loop" -> {"settle", "sweep"} [] f = "hand" -> {"hand"}
                               [] f = "merge" -> {"merge"})
          /\ fires[f].task \in Tasks
          /\ fires[f].why \in {"sweep", "hand"} => trace'[fires[f].id].task \in Tasks
    BY <1>2 DEF Owned
  <1>6. fires["merge"].pc # "idle" => fires["merge"].task = "merge" /\ fires["merge"].id = Pull
    BY DEF Owned
  <1>7. QED
    BY <1>3, <1>4, <1>5, <1>6 DEF Owned

(* The rest of an invariant that a close keeps, whichever rows it takes along. *)
LEMMA CloseCore ==
    ASSUME Typed, Core, NEW t \in Tickets, ticket[t].state = "awaiting", CloseEnds(t),
           UNCHANGED fires,
           \A u \in Tickets : row'[u].task # "none" =>
               /\ row'[u].task = row[u].task /\ row'[u].origin = row[u].origin
               /\ row'[u].automatic = row[u].automatic
    PROVE  Core'
  <1>1. /\ trace'[t].decision = (IF Mine(t) THEN "closed" ELSE trace[t].decision)
        /\ trace'[t].task = trace[t].task /\ trace'[t].cause = trace[t].cause
        /\ trace'[t].out = trace[t].out /\ trace'[t].cycle = trace[t].cycle
        /\ trace'[t].hand = trace[t].hand
        /\ \A u \in Tickets \ {t} : trace'[u] = trace[u]
        /\ ticket'[t].state = "open" /\ ticket'[t].cycle = ticket[t].cycle + 1
        /\ ticket'[t].task = ticket[t].task /\ ticket'[t].starts = ticket[t].starts
        /\ \A u \in Tickets \ {t} : ticket'[u] = ticket[u]
    BY Closes
  <1>2. \A u \in Tickets : ticket[u].cycle \in Nat /\ ticket[u].starts \in Nat
                           /\ trace[u].cycle \in Nat /\ trace[u].hand \in Nat
    BY DEF Typed, TicketRecs, Traces
  <1>3. \A f \in Fires : fires[f].id \in Tickets /\ fires[f].cycle \in Nat /\ fires[f].hand \in Nat
    BY DEF Typed, FireRecs
  <1>4. Owned'
    <2>1. \A u \in Tickets : ticket'[u].starts = ticket[u].starts /\ ticket[u].cycle <= ticket'[u].cycle
                             /\ ticket'[u].cycle \in Nat
      BY <1>1, <1>2
    <2>2. \A u \in Tickets : trace'[u].out = trace[u].out /\ trace'[u].cycle = trace[u].cycle
                             /\ trace'[u].hand = trace[u].hand /\ trace'[u].task = trace[u].task
      BY <1>1
    <2>3. QED
      BY <2>1, <2>2, Outlives DEF Core
  <1>5. ASSUME NEW u \in Tickets PROVE (Rested(u) /\ Capped(u) /\ Varied(u))'
    <2>1. Rested(u) /\ Capped(u) /\ Varied(u)
      BY DEF Core
    <2>2. row'[u].task # "none" => row'[u] = row'[u] /\ row'[u].task = row[u].task
                 /\ row'[u].origin = row[u].origin /\ row'[u].automatic = row[u].automatic
      OBVIOUS
    <2>3. CASE u = t
      <3>1. Rested(t)'
        BY <1>1, <1>2, <2>1, <2>2, <2>3 DEF Rested, Asked, Settling, Mine, Undecided
      <3>2. (Capped(t) /\ Varied(t))'
        BY <1>1, <1>2, <2>1, <2>2, <2>3 DEF Capped, Varied, Asked
      <3>3. QED
        BY <2>3, <3>1, <3>2
    <2>4. CASE u # t
      BY <1>1, <1>2, <2>1, <2>2, <2>4 DEF Rested, Capped, Varied, Asked, Settling
    <2>5. QED
      BY <2>3, <2>4
  <1>6. Alone'
    <2>1. \A u \in Tickets : trace'[u].out = trace[u].out
      BY <1>1
    <2>2. ticket'[Pull].state = "working" => ticket[Pull].state = "working"
      BY <1>1, Pair
    <2>3. QED
      BY <2>1, <2>2, Pair DEF Core, Alone
  <1>7. QED
    BY <1>4, <1>5, <1>6 DEF Core

LEMMA AutoCloseKeeps ==
    ASSUME IInv, NEW t \in Tickets, AutoClose(t)
    PROVE  IInv'
  <1>1. /\ Typed /\ Core /\ Loops.pc = "idle" /\ phase' = "decide" /\ CloseEnds(t)
        /\ ticket[t].state = "awaiting" /\ Undecided(t) /\ Rule(t) = "close"
        /\ UNCHANGED <<pull, labels, row, attempt, auto, fires, autoOn, spent>>
    BY DEF IInv, AutoClose, Step, Idle, Loops, Closable
  <1>2. /\ trace' \in [Tickets -> Traces] /\ seen' \in [Tickets -> Facing]
        /\ ticket' \in [Tickets -> TicketRecs] /\ closing' \in BOOLEAN
        /\ fetch' \in [Tickets -> SUBSET Snapshots] /\ fetch' = Refreshing(t)
        /\ trace'[t].decision = (IF Mine(t) THEN "closed" ELSE trace[t].decision)
        /\ trace'[t].task = trace[t].task /\ trace'[t].cause = trace[t].cause
        /\ trace'[t].out = trace[t].out /\ trace'[t].cycle = trace[t].cycle
        /\ trace'[t].hand = trace[t].hand
        /\ \A u \in Tickets \ {t} : trace'[u] = trace[u]
        /\ \A u \in Tickets : seen'[u].on = seen[u].on /\ seen'[u].labels = seen[u].labels
        /\ ticket'[t].state = "open" /\ ticket'[t].cycle = ticket[t].cycle + 1
        /\ ticket'[t].task = ticket[t].task /\ ticket'[t].starts = ticket[t].starts
        /\ ticket'[t].tries = ticket[t].tries
        /\ \A u \in Tickets \ {t} : ticket'[u] = ticket[u]
    BY <1>1, Closes
  <1>3. Typed'
    BY <1>1, <1>2 DEF Typed
  <1>4. Core'
    BY <1>1, CloseCore
  <1>5. ASSUME Calm' PROVE (Quiet /\ Implemented /\ Listed /\ Late /\ Shipped)'
    <2>1. Quiet /\ Implemented /\ Listed /\ Late /\ Shipped
      BY <1>1, <1>5 DEF IInv, Calmly, Calm
    <2>2. \A s \in fetch'[Pull] : s \in fetch[Pull] \/ ((s.on <=> pull = "ready") /\ s.labels = labels)
      BY <1>1, <1>2, <2>1, Read
    <2>3. ~At(Issue) /\ ~At(Pull) /\ ~At(Issue)' /\ ~At(Pull)' /\ Loops' = Loops
      BY <1>1 DEF At, Loops
    <2>4. \A u \in Tickets : trace'[u].out = trace[u].out /\ trace'[u].cause = trace[u].cause
                             /\ trace'[u].task = trace[u].task /\ trace'[u].hand = trace[u].hand
      BY <1>2
    <2>5. Quiet'
      <3>1. fires' = fires /\ row' = row /\ fires["loop"].pc = "idle"
        BY <1>1 DEF Loops
      <3>2. QED
        BY <2>1, <2>4, <3>1, Pair DEF Quiet, Settling, At, Loops
    <2>6. \A u \in Tickets : /\ ticket'[u].task = ticket[u].task /\ ticket'[u].starts = ticket[u].starts
                             /\ ticket'[u].tries = ticket[u].tries
                             /\ ticket'[u].state = "working" => ticket[u].state = "working"
      BY <1>2
    <2>7. \A u \in Tickets : ticket[u].cycle \in Nat
      BY <1>1 DEF Typed, TicketRecs
    <2>8. Implemented'
      <3>1. CASE t = Issue
        BY <1>1, <1>2, <2>1, <2>3, <2>7, <3>1, Pair DEF Implemented, Finished, Mine
      <3>2. CASE t # Issue
        BY <1>1, <1>2, <2>1, <2>3, <3>2, Pair DEF Implemented, Finished
      <3>3. QED
        BY <3>1, <3>2
    <2>9. Listed'
      BY <1>1, <1>2, <2>1, <2>2, <2>6, Pair DEF Listed
    <2>10. Late'
      BY <1>1, <1>2, <2>1, <2>2, <2>3, <2>6, Pair DEF Late, Stales
    <2>11. Shipped'
      <3>1. t = Pull /\ trace[Pull].out.to = "merge" => AtLimit(Pull) /\ Mine(Pull) /\ row[Pull].task = "none"
        <4> SUFFICES ASSUME t = Pull, trace[Pull].out.to = "merge"
                     PROVE  AtLimit(Pull) /\ Mine(Pull) /\ row[Pull].task = "none"
          OBVIOUS
        <4>1. trace[Pull].out.kind = "done" /\ trace[Pull].cause = "completed" /\ trace[Pull].out.at = Pull
          BY <1>1, <2>1, Pair DEF Core, Owned, Quiet, Shipped
        <4>2. ~Held(Pull)
          BY <4>1 DEF Held
        <4>3. AtLimit(Pull)
          <5>1. CASE Stands(trace[Pull].out)
            BY <1>1, <4>1, <4>2, <5>1 DEF Rule
          <5>2. CASE ~Stands(trace[Pull].out)
            BY <1>1, <4>1, <4>2, <5>2 DEF Rule
          <5>3. QED
            BY <5>1, <5>2
        <4>4. QED
          BY <1>1, <2>1, <4>3 DEF Shipped, Mine
      <3>2. AtLimit(Pull)' <=> AtLimit(Pull)
        BY <2>6, Pair DEF AtLimit, Count
      <3>3. CASE t = Pull
        BY <1>1, <1>2, <2>1, <2>2, <2>3, <2>4, <3>1, <3>2, <3>3 DEF Shipped, Shipping
      <3>4. CASE t # Pull
        BY <1>1, <1>2, <2>1, <2>2, <2>3, <2>4, <3>2, <3>4, Pair DEF Shipped, Shipping
      <3>5. QED
        BY <3>3, <3>4
    <2>12. QED
      BY <2>5, <2>8, <2>9, <2>10, <2>11
  <1>6. QED
    BY <1>3, <1>4, <1>5 DEF IInv, Calmly

(* A route's decision. *)
LEMMA Routes ==
    ASSUME Typed, NEW t \in Tickets, NEW word \in {"auto", "routed"}, Decides(t, word)
    PROVE  /\ trace' \in [Tickets -> Traces] /\ ticket' \in [Tickets -> TicketRecs]
           /\ trace'[t].decision = (IF Mine(t) THEN word ELSE trace[t].decision)
           /\ trace'[t].task = trace[t].task /\ trace'[t].cause = trace[t].cause
           /\ trace'[t].out = trace[t].out /\ trace'[t].cycle = trace[t].cycle
           /\ trace'[t].hand = trace[t].hand
           /\ \A u \in Tickets \ {t} : trace'[u] = trace[u]
           /\ ticket'[t].task = ticket[t].task /\ ticket'[t].starts = ticket[t].starts
           /\ ticket'[t].tries = ticket[t].tries
           /\ \/ /\ Mine(t) /\ ticket[t].state = "awaiting" /\ ticket'[t].state = "open"
                 /\ ticket'[t].cycle = ticket[t].cycle + 1
              \/ ~(Mine(t) /\ ticket[t].state = "awaiting") /\ ticket'[t] = ticket[t]
           /\ \A u \in Tickets \ {t} : ticket'[u] = ticket[u]
  <1>1. /\ trace' \in [Tickets -> Traces]
        /\ trace'[t].decision = (IF Mine(t) THEN word ELSE trace[t].decision)
        /\ trace'[t].task = trace[t].task /\ trace'[t].cause = trace[t].cause
        /\ trace'[t].out = trace[t].out /\ trace'[t].cycle = trace[t].cycle
        /\ trace'[t].hand = trace[t].hand
        /\ \A u \in Tickets \ {t} : trace'[u] = trace[u]
    <2>1. CASE Mine(t)
      <3>1. trace' = [trace EXCEPT ![t].decision = word]
        BY <2>1 DEF Decides
      <3>2. trace \in [Tickets -> Traces] /\ word \in {"none", "closed", "auto", "routed"}
        BY DEF Typed
      <3>3. /\ trace' \in [Tickets -> Traces] /\ trace'[t].decision = word
            /\ trace'[t].task = trace[t].task /\ trace'[t].cause = trace[t].cause
            /\ trace'[t].out = trace[t].out /\ trace'[t].cycle = trace[t].cycle
            /\ trace'[t].hand = trace[t].hand
            /\ \A u \in Tickets \ {t} : trace'[u] = trace[u]
        BY <3>1, <3>2, Decides1
      <3>4. QED
        BY <2>1, <3>3
    <2>2. CASE ~Mine(t)
      BY <2>2 DEF Decides, Typed
    <2>3. QED
      BY <2>1, <2>2
  <1>2. /\ ticket' \in [Tickets -> TicketRecs]
        /\ ticket'[t].task = ticket[t].task /\ ticket'[t].starts = ticket[t].starts
        /\ ticket'[t].tries = ticket[t].tries
        /\ \/ /\ Mine(t) /\ ticket[t].state = "awaiting" /\ ticket'[t].state = "open"
              /\ ticket'[t].cycle = ticket[t].cycle + 1
           \/ ~(Mine(t) /\ ticket[t].state = "awaiting") /\ ticket'[t] = ticket[t]
        /\ \A u \in Tickets \ {t} : ticket'[u] = ticket[u]
    <2>1. CASE Mine(t) /\ ticket[t].state = "awaiting"
      <3>1. ticket' = [ticket EXCEPT ![t].state = "open", ![t].cycle = @ + 1]
        BY <2>1 DEF Decides
      <3>2. QED
        BY <2>1, <3>1, NextCycle DEF Typed
    <2>2. CASE ~(Mine(t) /\ ticket[t].state = "awaiting")
      <3>1. ticket' = ticket
        BY <2>2 DEF Decides
      <3>2. QED
        BY <2>2, <3>1 DEF Typed
    <2>3. QED
      BY <2>1, <2>2
  <1>3. QED
    BY <1>1, <1>2

(* The row a route asks keeps the core, when the automatic ask passed the gates. *)
LEMMA RouteCore ==
    ASSUME Typed, Core, NEW t \in Tickets, NEW word \in {"auto", "routed"}, Decides(t, word),
           NEW automatic \in BOOLEAN,
           trace[t].out.at = Pull,
           row' = [row EXCEPT ![Pull] = Row(trace[t].out.to, "workflow", automatic, t)],
           ticket[Pull].state # "working", UNCHANGED fires,
           automatic => /\ ~AtLimit(Pull) /\ ~SameTypeHold(Pull, trace[t].out.to)
                        /\ Loops.pc = "idle"
    PROVE  Core' /\ row' \in [Tickets -> Rows]
           /\ row'[Pull].task = trace[t].out.to /\ row'[Pull].origin = "workflow"
           /\ row'[Pull].automatic = automatic /\ row'[Pull].from = t /\ row'[Issue] = row[Issue]
  <1>1. trace[t].out \in Outcomes
    BY DEF Typed, Traces
  <1>2. Row(trace[t].out.to, "workflow", automatic, t) \in Rows
    BY <1>1 DEF Row, Rows, Outcomes
  <1>3. /\ row' \in [Tickets -> Rows]
        /\ row'[Pull].task = trace[t].out.to /\ row'[Pull].origin = "workflow"
        /\ row'[Pull].automatic = automatic /\ row'[Pull].from = t /\ row'[Issue] = row[Issue]
    BY <1>2, Pair DEF Typed, Row
  <1>4. /\ trace'[t].decision = (IF Mine(t) THEN word ELSE trace[t].decision)
        /\ trace'[t].task = trace[t].task /\ trace'[t].cause = trace[t].cause
        /\ trace'[t].out = trace[t].out /\ trace'[t].cycle = trace[t].cycle
        /\ trace'[t].hand = trace[t].hand
        /\ \A u \in Tickets \ {t} : trace'[u] = trace[u]
        /\ ticket'[t].task = ticket[t].task /\ ticket'[t].starts = ticket[t].starts
        /\ \/ /\ Mine(t) /\ ticket[t].state = "awaiting" /\ ticket'[t].state = "open"
              /\ ticket'[t].cycle = ticket[t].cycle + 1
           \/ ~(Mine(t) /\ ticket[t].state = "awaiting") /\ ticket'[t] = ticket[t]
        /\ \A u \in Tickets \ {t} : ticket'[u] = ticket[u]
    BY Routes
  <1>5. \A u \in Tickets : ticket[u].cycle \in Nat /\ ticket[u].starts \in Nat /\ ticket[u].tries \in Nat
                           /\ trace[u].cycle \in Nat /\ trace[u].hand \in Nat
    BY DEF Typed, TicketRecs, Traces
  <1>6. \A f \in Fires : fires[f].id \in Tickets /\ fires[f].cycle \in Nat /\ fires[f].hand \in Nat
    BY DEF Typed, FireRecs
  <1>7. Owned'
    <2>1. \A u \in Tickets : ticket'[u].starts = ticket[u].starts /\ ticket[u].cycle <= ticket'[u].cycle
                             /\ ticket'[u].cycle \in Nat
      BY <1>4, <1>5
    <2>2. \A u \in Tickets : trace'[u].out = trace[u].out /\ trace'[u].cycle = trace[u].cycle
                             /\ trace'[u].hand = trace[u].hand /\ trace'[u].task = trace[u].task
      BY <1>4
    <2>3. QED
      BY <2>1, <2>2, Outlives DEF Core
  <1>8. Rested(Pull)'
    <2>1. Rested(Pull)
      BY Pair DEF Core
    <2>2. CASE t = Pull
      BY <1>3, <1>4, <1>5, <2>1, <2>2 DEF Rested, Asked, Settling, Mine, Undecided, Loops
    <2>3. CASE t # Pull
      BY <1>3, <1>4, <2>1, <2>3, Pair DEF Rested, Asked, Settling, Loops
    <2>4. QED
      BY <2>2, <2>3
  <1>9. Rested(Issue)'
    <2>1. Rested(Issue)
      BY Pair DEF Core
    <2>2. CASE t = Issue
      BY <1>3, <1>4, <1>5, <2>1, <2>2 DEF Rested, Asked, Settling, Mine, Undecided, Loops
    <2>3. CASE t # Issue
      BY <1>3, <1>4, <2>1, <2>3, Pair DEF Rested, Asked, Settling, Loops
    <2>4. QED
      BY <2>2, <2>3
  <1>10. (Capped(Pull) /\ Capped(Issue))'
    <2>1. Capped(Issue)
      BY Pair DEF Core
    <2>2. \A u \in Tickets : ticket'[u].starts = ticket[u].starts
      BY <1>4
    <2>3. automatic => ticket[Pull].starts < Limit
      BY <1>5, Pair, RoutesAssumption DEF AtLimit, Count, RoutesAssumption
    <2>4. QED
      BY <1>3, <2>1, <2>2, <2>3, Pair DEF Capped, Asked
  <1>11. Varied(Pull)'
    <2>1. Rested(Pull)
      BY Pair DEF Core
    <2>2. automatic => ~(/\ trace[Pull].hand = ticket[Pull].starts /\ trace[Pull].cause = "completed"
                         /\ trace[Pull].task = trace[t].out.to
                         /\ trace[Pull].decision = "closed" \/ ticket[Pull].state = "awaiting")
      BY <2>1 DEF Rested, SameTypeHold
    <2>3. row'[Pull].automatic => automatic
      BY <1>3
    <2>4. /\ trace'[Pull].hand = trace[Pull].hand /\ trace'[Pull].cause = trace[Pull].cause
          /\ trace'[Pull].task = trace[Pull].task /\ ticket'[Pull].starts = ticket[Pull].starts
          /\ trace'[Pull].decision = "closed" \/ ticket'[Pull].state = "awaiting"
               => trace[Pull].decision = "closed" \/ ticket[Pull].state = "awaiting"
      BY <1>4, Pair
    <2>5. QED
      BY ONLY <1>3, <2>2, <2>3, <2>4 DEF Varied, Asked
  <1>12. Varied(Issue)'
    <2>1. Varied(Issue)
      BY Pair DEF Core
    <2>2. CASE t = Issue
      BY <1>3, <1>4, <2>1, <2>2 DEF Varied, Asked, Mine, Undecided
    <2>3. CASE t # Issue
      BY <1>3, <1>4, <2>1, <2>3, Pair DEF Varied, Asked
    <2>4. QED
      BY <2>2, <2>3
  <1>13. Alone'
    <2>1. \A u \in Tickets : trace'[u].out = trace[u].out
      BY <1>4
    <2>2. ticket'[Pull].state = "working" => ticket[Pull].state = "working"
      BY <1>4, Pair
    <2>3. QED
      BY <1>3, <2>1, <2>2, Pair DEF Core, Alone
  <1>14. QED
    BY <1>3, <1>7, <1>8, <1>9, <1>10, <1>11, <1>12, <1>13, Pair DEF Core

LEMMA RouteMeans ==
    ASSUME Typed, NEW t \in Tickets, Rule(t) = "route"
    PROVE  trace[t].out.kind = "done" /\ Stands(trace[t].out) /\ ~AtLimit(trace[t].out.at)
  <1>1. trace[t].out.kind \in {"none", "unfired", "skip", "failed", "done"}
    BY DEF Typed, Traces, Outcomes
  <1>2. CASE Held(t) \/ trace[t].out.kind = "failed"
    BY <1>2 DEF Rule
  <1>3. CASE ~Held(t) /\ trace[t].out.kind \in {"none", "unfired", "skip"}
    BY <1>3 DEF Rule
  <1>4. CASE ~Held(t) /\ trace[t].out.kind = "done" /\ ~Stands(trace[t].out)
    BY <1>4 DEF Rule
  <1>5. CASE ~Held(t) /\ trace[t].out.kind = "done" /\ Stands(trace[t].out)
    BY <1>5 DEF Rule
  <1>6. QED
    BY <1>1, <1>2, <1>3, <1>4, <1>5

LEMMA AskContinuationKeeps ==
    ASSUME IInv, NEW t \in Tickets, AskContinuation(t)
    PROVE  IInv'
  <1>0. t \in Continuations /\ Continuations \in {{u \in Tickets : Owed(u)}, {}}
    BY DEF AskContinuation, Continuations
  <1>1. /\ Typed /\ Core /\ Loops.pc = "idle" /\ phase' = "turns" /\ autoOn' = auto
        /\ Decides(t, "auto") /\ Owed(t)
        /\ row' = [row EXCEPT ![trace[t].out.at] = Row(trace[t].out.to, "workflow", TRUE, t)]
        /\ UNCHANGED <<pull, labels, closing, seen, attempt, auto, fetch, fires, spent>>
    BY <1>0 DEF IInv, AskContinuation, Step, Idle, Loops, host
  <1>2. /\ trace[t].out.kind = "done" /\ Stands(trace[t].out) /\ ~AtLimit(trace[t].out.at)
        /\ Accepts(trace[t].out.at, trace[t].out.to)
    BY <1>1, RouteMeans DEF Owed, Continues, Refires, Stands
  <1>3. trace[t].out.at = Pull
    BY <1>1, <1>2, Pair DEF Core, Alone, Stands
  <1>4. /\ Suggested(Pull) = trace[t].out.to /\ ~SameTypeHold(Pull, trace[t].out.to)
        /\ ticket[Pull].state \in {"open", "awaiting"} /\ row[Pull].task = "none"
        /\ trace[t].out.to = "merge" => fires["merge"].pc = "idle"
    BY <1>2, <1>3 DEF Stands, Actionable, Accepts, Idle
  <1>5. seen[Pull].on
    BY <1>1, <1>4 DEF Suggested, Core, Alone
  <1>6. Core' /\ row' \in [Tickets -> Rows]
           /\ row'[Pull].task = trace[t].out.to /\ row'[Pull].origin = "workflow"
           /\ row'[Pull].automatic = TRUE /\ row'[Pull].from = t /\ row'[Issue] = row[Issue]
    BY <1>1, <1>2, <1>3, <1>4, RouteCore
  <1>7. /\ trace' \in [Tickets -> Traces] /\ ticket' \in [Tickets -> TicketRecs]
        /\ trace'[t].decision = (IF Mine(t) THEN "auto" ELSE trace[t].decision)
        /\ trace'[t].task = trace[t].task /\ trace'[t].cause = trace[t].cause
        /\ trace'[t].out = trace[t].out /\ trace'[t].cycle = trace[t].cycle
        /\ trace'[t].hand = trace[t].hand
        /\ \A u \in Tickets \ {t} : trace'[u] = trace[u]
        /\ ticket'[t].task = ticket[t].task /\ ticket'[t].starts = ticket[t].starts
        /\ ticket'[t].tries = ticket[t].tries
        /\ \/ /\ Mine(t) /\ ticket[t].state = "awaiting" /\ ticket'[t].state = "open"
              /\ ticket'[t].cycle = ticket[t].cycle + 1
           \/ ~(Mine(t) /\ ticket[t].state = "awaiting") /\ ticket'[t] = ticket[t]
        /\ \A u \in Tickets \ {t} : ticket'[u] = ticket[u]
    BY <1>1, Routes
  <1>8. Typed'
    BY <1>1, <1>6, <1>7 DEF Typed
  <1>9. ASSUME Calm' PROVE (Quiet /\ Implemented /\ Listed /\ Late /\ Shipped)'
    <2>1. Quiet /\ Implemented /\ Listed /\ Late /\ Shipped
      BY <1>1, <1>9 DEF IInv, Calmly, Calm
    <2>2. ~At(Issue) /\ ~At(Pull) /\ ~At(Issue)' /\ ~At(Pull)' /\ Loops' = Loops
      BY <1>1 DEF At, Loops
    <2>3. \A u \in Tickets : trace'[u].out = trace[u].out /\ trace'[u].cause = trace[u].cause
                             /\ trace'[u].task = trace[u].task /\ trace'[u].hand = trace[u].hand
      BY <1>7
    <2>4. \A u \in Tickets : /\ ticket'[u].task = ticket[u].task /\ ticket'[u].starts = ticket[u].starts
                             /\ ticket'[u].tries = ticket[u].tries
                             /\ ticket'[u].state = "working" => ticket[u].state = "working"
      BY <1>7
    <2>5. Quiet'
      <3>1. fires' = fires /\ fires["loop"].pc = "idle"
        BY <1>1 DEF Loops
      <3>2. \A u \in Tickets : row'[u].task # "none" => row'[u].automatic
        BY <1>6, <2>1, Pair DEF Quiet
      <3>3. QED
        BY <2>1, <2>3, <3>1, <3>2, Pair DEF Quiet, Settling, At, Loops
    <2>6. Implemented'
      <3>1. CASE t = Issue
        <4>1. trace[Issue].cause = "completed" /\ trace[Issue].task # "none"
          BY <1>2, <2>1, <3>1 DEF Quiet, Implemented
        <4>2. CASE ticket[Issue].state = "awaiting" /\ trace[Issue].decision = "none"
          <5>1. Mine(Issue)
            BY <2>1, <4>1, <4>2 DEF Implemented, Mine, Undecided
          <5>2. trace'[Issue].decision = "auto" /\ ticket'[Issue].state = "open"
            BY <1>7, <3>1, <4>2, <5>1
          <5>3. Finished'
            BY <1>2, <2>2, <2>3, <3>1 DEF Finished
          <5>4. QED
            BY <1>1, <1>5, <1>6, <2>1, <2>3, <2>4, <4>1, <5>2, <5>3, Pair DEF Implemented
        <4>3. CASE trace[Issue].decision # "none"
          <5>1. trace'[Issue].decision = trace[Issue].decision /\ ticket'[Issue] = ticket[Issue]
            BY <1>7, <3>1, <4>3 DEF Mine, Undecided
          <5>2. Finished'
            BY <1>2, <2>2, <2>3, <3>1 DEF Finished
          <5>3. trace'[Issue].cycle = trace[Issue].cycle
            BY <1>7, <3>1
          <5>4. QED
            BY <1>1, <1>5, <1>6, <2>1, <2>3, <5>1, <5>2, <5>3, Pair DEF Implemented
        <4>4. QED
          BY <2>1, <4>1, <4>2, <4>3 DEF Implemented
      <3>2. CASE t # Issue
        BY <1>1, <1>6, <1>7, <2>1, <2>2, <3>2, Pair DEF Implemented, Finished
      <3>3. QED
        BY <3>1, <3>2
    <2>7. Listed'
      <3>1. trace[t].out.to \in {"none", "review", "rework", "merge"}
        BY <1>1 DEF Typed, Traces, Outcomes, Works, Tasks, Core, Alone
      <3>2. QED
        BY <1>1, <1>5, <1>6, <2>1, <2>4, <3>1, Pair DEF Listed
    <2>8. trace[t].out.to = "review" => Again \notin seen[Pull].labels
      BY <1>4, <1>5, Pair DEF Suggested, TaskOf, Again
    <2>9. Late'
      BY <1>1, <1>6, <2>1, <2>2, <2>4, <2>8, Pair DEF Late, Stales
    <2>10. Shipped'
      <3>1. trace[t].out.to = "merge" => t = Pull
        BY <1>2, <2>1, Pair DEF Quiet
      <3>2. trace[Pull].out.to = "merge" => trace[Pull].cause = "completed" /\ trace[Pull].out.at = Pull
        BY <1>1, <2>1, Pair DEF Core, Owned, Quiet, Shipped
      <3>3. trace[Pull].out.to = "merge" /\ t = Issue =>
              ticket[Pull].state = "open" /\ trace[Pull].decision = "auto" /\ fires["merge"].pc = "run"
        <4>1. t = Issue => trace[t].out.to = "review"
          BY <1>2, <2>1 DEF Quiet
        <4>2. QED
          BY <1>2, <1>3, <1>4, <2>1, <3>2, <4>1 DEF Shipped, SameTypeHold
      <3>4. trace[Pull].out.to = "merge" /\ t = Pull =>
              /\ ticket[Pull].state = "awaiting" /\ Mine(Pull) /\ Again \notin labels
        BY <1>2, <1>3, <1>4, <2>1, <3>2 DEF Shipped, Mine, Undecided
      <3>5. AtLimit(Pull)' <=> AtLimit(Pull)
        BY <2>4, Pair DEF AtLimit, Count
      <3>6. CASE t = Pull /\ trace[Pull].out.to = "merge"
        <4>1. ticket'[Pull].state = "open" /\ trace'[Pull].decision = "auto" /\ row'[Pull].task = "merge"
          BY <1>6, <1>7, <3>4, <3>6
        <4>2. QED
          BY <1>1, <2>1, <2>2, <2>3, <3>2, <3>4, <3>6, <4>1, Pair DEF Shipped, Shipping
      <3>7. CASE t = Issue /\ trace[Pull].out.to = "merge"
        <4>1. ticket'[Pull].state = "open" /\ trace'[Pull].decision = "auto" /\ row'[Pull].task # "merge"
          BY <1>6, <1>7, <3>1, <3>3, <3>7, Pair
        <4>2. QED
          BY <1>1, <2>1, <2>2, <2>3, <3>2, <3>3, <3>7, <4>1, Pair DEF Shipped, Shipping
      <3>8. CASE trace[Pull].out.to # "merge"
        <4>1. row'[Pull].task # "merge"
          BY <1>6, <3>1, <3>8
        <4>2. QED
          BY <1>1, <2>1, <2>2, <2>3, <3>8, <4>1, Pair DEF Shipped, Shipping
      <3>9. QED
        BY <3>6, <3>7, <3>8, Pair
    <2>11. QED
      BY <2>5, <2>6, <2>7, <2>9, <2>10
  <1>10. QED
    BY <1>6, <1>8, <1>9 DEF IInv, Calmly

(* A row the open walk asks, of a ticket that passed its gates. *)
LEMMA OpenCore ==
    ASSUME Typed, Core, NEW t \in Tickets, NEW automatic \in BOOLEAN,
           row' = [row EXCEPT ![t] = Row(Suggested(t), "open", automatic, t)],
           ticket[t].state = "open", UNCHANGED <<ticket, trace, fires>>,
           automatic => ~AtLimit(t) /\ ~SameTypeHold(t, Suggested(t)) /\ Loops.pc = "idle"
    PROVE  Core' /\ row' \in [Tickets -> Rows]
           /\ row'[t].task = Suggested(t) /\ row'[t].origin = "open"
           /\ row'[t].automatic = automatic /\ \A u \in Tickets \ {t} : row'[u] = row[u]
  <1>1. Suggested(t) \in Works
    BY DEF Suggested, TaskOf, Works, Tasks
  <1>2. Row(Suggested(t), "open", automatic, t) \in Rows
    BY <1>1 DEF Row, Rows
  <1>3. /\ row' \in [Tickets -> Rows]
        /\ row'[t].task = Suggested(t) /\ row'[t].origin = "open"
        /\ row'[t].automatic = automatic /\ \A u \in Tickets \ {t} : row'[u] = row[u]
    BY <1>2 DEF Typed, Row
  <1>4. Owned'
    BY DEF Core, Owned
  <1>5. ASSUME NEW u \in Tickets PROVE (Rested(u) /\ Capped(u) /\ Varied(u))'
    <2>1. Rested(u) /\ Capped(u) /\ Varied(u)
      BY DEF Core
    <2>2. CASE u # t
      BY <1>3, <2>1, <2>2 DEF Rested, Capped, Varied, Asked, Settling
    <2>3. CASE u = t
      <3>1. Rested(t)'
        BY <1>3, <2>1, <2>3 DEF Rested, Asked, Settling, Loops
      <3>2. row'[t].automatic => automatic
        BY <1>3
      <3>3. ticket[t].starts \in Nat /\ ticket[t].tries \in Nat
        BY DEF Typed, TicketRecs
      <3>4. Capped(t)'
        BY <3>2, <3>3, RoutesAssumption DEF Capped, Asked, AtLimit, Count, RoutesAssumption
      <3>5. automatic => ~(/\ trace[t].hand = ticket[t].starts /\ trace[t].cause = "completed"
                           /\ trace[t].task = Suggested(t) /\ trace[t].decision = "closed")
        BY <2>1, <2>3 DEF Rested, SameTypeHold
      <3>6. Varied(t)'
        BY ONLY <1>3, <3>2, <3>5, ticket[t].state = "open", ticket' = ticket, trace' = trace DEF Varied, Asked
      <3>7. QED
        BY <2>3, <3>1, <3>4, <3>6
    <2>4. QED
      BY <2>2, <2>3
  <1>6. Alone'
    BY <1>3, Pair DEF Core, Alone
  <1>7. QED
    BY <1>3, <1>4, <1>5, <1>6 DEF Core

LEMMA AskOpenKeeps ==
    ASSUME IInv, AskOpen
    PROVE  IInv'
  <1>1. /\ Typed /\ Core /\ Loops.pc = "idle" /\ phase' = "turns" /\ autoOn' = auto
        /\ UNCHANGED <<pull, labels, closing, seen, ticket, trace, attempt, auto, fetch, fires, spent>>
    BY DEF IInv, AskOpen, Step, Idle, Loops, host
  <1>2. CASE row' = row
    <2>1. {auto', autoOn'} \subseteq BOOLEAN
      BY <1>1 DEF Typed
    <2>2. QED
      BY <1>1, <1>2, <2>1, StepKeeps
  <1>3. ASSUME NEW t \in Tickets, Fresh(t), t = Issue => Suggested(t) = "implement",
               row' = [row EXCEPT ![t] = Row(Suggested(t), "open", TRUE, t)]
        PROVE  IInv'
    <2>1. /\ \A u \in Tickets : row[u].task = "none"
          /\ ~Covered(t) /\ ticket[t].state = "open" /\ seen[t].on /\ ~AtLimit(t)
          /\ ~SameTypeHold(t, Suggested(t)) /\ Suggested(t) # "none"
          /\ Suggested(t) = "merge" => fires["merge"].pc = "idle"
      BY <1>3 DEF Fresh, Actionable, Accepts, Idle
    <2>2. /\ Core' /\ row' \in [Tickets -> Rows]
          /\ row'[t].task = Suggested(t) /\ row'[t].origin = "open"
          /\ row'[t].automatic = TRUE /\ \A u \in Tickets \ {t} : row'[u] = row[u]
      BY <1>1, <1>3, <2>1, OpenCore
    <2>3. Typed'
      BY <1>1, <2>2 DEF Typed
    <2>4. ASSUME Calm' PROVE (Quiet /\ Implemented /\ Listed /\ Late /\ Shipped)'
      <3>1. Quiet /\ Implemented /\ Listed /\ Late /\ Shipped
        BY <1>1, <2>4 DEF IInv, Calmly, Calm
      <3>2. ~At(Issue) /\ ~At(Pull) /\ ~At(Issue)' /\ ~At(Pull)' /\ Loops' = Loops
        BY <1>1 DEF At, Loops
      <3>3. Quiet'
        BY <1>1, <2>2, <3>1 DEF Quiet, Settling, At, Loops
      <3>4. CASE t = Issue
        <4>1. Suggested(Issue) = "implement" /\ row'[Pull] = row[Pull] /\ row'[Issue].task = "implement"
          BY <1>3, <2>2, <3>4, Pair
        <4>2. trace[Issue].cause # "completed"
          <5>1. Projected(Pull) => ~(ticket[Issue].state = "open")
            BY <2>1, <3>4 DEF Covered
          <5>2. seen[Pull].on => Projected(Pull)
            BY DEF Projected
          <5>3. QED
            BY <2>1, <3>1, <3>4, <4>1, <5>1, <5>2 DEF Implemented, SameTypeHold
        <4>3. Implemented'
          BY <1>1, <3>1, <3>2, <4>1, <4>2 DEF Implemented, Finished
        <4>4. (Listed /\ Late)'
          BY <1>1, <3>1, <3>2, <4>1 DEF Listed, Late, Stales
        <4>5. Shipped'
          BY <1>1, <3>1, <3>2, <4>1 DEF Shipped, Shipping, AtLimit, Count
        <4>6. QED
          BY <3>3, <4>3, <4>4, <4>5
      <3>5. CASE t = Pull
        <4>1. row'[Issue] = row[Issue] /\ row'[Pull].task = Suggested(Pull) /\ seen[Pull].on
          BY <2>1, <2>2, <3>5, Pair
        <4>2. Suggested(Pull) = TaskOf(seen[Pull].labels)
          BY <4>1 DEF Suggested
        <4>3. Implemented'
          BY <1>1, <3>1, <3>2, <4>1 DEF Implemented, Finished
        <4>4. Listed'
          BY <1>1, <3>1, <4>1, <4>2 DEF Listed, TaskOf
        <4>5. Suggested(Pull) = "review" => Again \notin seen[Pull].labels
          BY <4>2 DEF TaskOf, Again
        <4>6. Late'
          BY <1>1, <3>1, <3>2, <4>1, <4>5 DEF Late, Stales
        <4>7. Suggested(Pull) = "merge" => Ship \in seen[Pull].labels
          BY <4>2 DEF TaskOf, Ship
        <4>8. trace[Pull].out.to = "merge" => /\ ticket[Pull].state = "open" /\ trace[Pull].decision = "auto"
                                              /\ fires["merge"].pc = "run"
          BY <2>1, <3>1, <3>5, Pair DEF Shipped
        <4>9. Suggested(Pull) # "merge"
          BY <2>1, <3>1, <3>2, <3>5, <4>7, <4>8 DEF Shipped, Shipping
        <4>10. Shipped'
          BY <1>1, <3>1, <3>2, <4>1, <4>8, <4>9 DEF Shipped, Shipping
        <4>11. QED
          BY <3>3, <4>3, <4>4, <4>6, <4>10
      <3>6. QED
        BY <3>4, <3>5, Pair
    <2>5. QED
      BY <2>2, <2>3, <2>4 DEF IInv, Calmly
  <1>4. CASE Fresh(Pull) /\ row' = [row EXCEPT ![Pull] = Row(Suggested(Pull), "open", TRUE, Pull)]
    BY <1>3, <1>4, Pair
  <1>5. Suggested(Issue) = "implement"
    BY Pair DEF Suggested
  <1>6. CASE Fresh(Issue) /\ row' = [row EXCEPT ![Issue] = Row("implement", "open", TRUE, Issue)]
    BY <1>3, <1>5, <1>6, Pair
  <1>7. QED
    BY <1>2, <1>4, <1>6 DEF AskOpen

--------------------------------------------------------------------------------
(* The pickup and the merge. *)

LEMMA Leave ==
    ASSUME Typed, NEW t \in Tickets, Leaves(t)
    PROVE  /\ row' \in [Tickets -> Rows] /\ row'[t].task = "none" /\ row'[t].origin = "open"
           /\ \A u \in Tickets \ {t} : row'[u] = row[u]
  BY NoRecords DEF Leaves, Typed

(* A row that leaves without a start. *)
LEMMA LeaveCore ==
    ASSUME Typed, Core, NEW t \in Tickets, row'[t].task = "none",
           \A u \in Tickets \ {t} : row'[u] = row[u],
           \A u \in Tickets : SameTicket(u) /\ SameTrace(u), \A f \in Fires : Moved(f)
    PROVE  Core'
  <1>1. Owned'
    <2>1. \A f \in Fires : fires[f].id \in Tickets
      BY DEF Typed, FireRecs
    <2>2. QED
      BY <2>1, FireNames, Pair DEF Core, Owned, Moved, SameFire, SameTicket, SameTrace
  <1>2. ASSUME NEW u \in Tickets PROVE (Rested(u) /\ Capped(u) /\ Varied(u))'
    <2>1. CASE u = t
      BY <2>1, FireNames DEF Core, Rested, Capped, Varied, Asked, Settling, SameTicket, SameTrace, Moved, SameFire
    <2>2. CASE u # t
      BY <2>2, FireNames DEF Core, Rested, Capped, Varied, Asked, Settling, SameTicket, SameTrace, Moved, SameFire
    <2>3. QED
      BY <2>1, <2>2
  <1>3. Alone'
    BY Pair, FireNames DEF Core, Alone, SameTicket, SameTrace, Moved, SameFire
  <1>4. QED
    BY <1>1, <1>2, <1>3 DEF Core

LEMMA PickupStarts ==
    ASSUME IInv, NEW t \in Tickets, row[t].task \notin {"none", "merge"}, Idle("merge"), Leaves(t),
           Claimable(t), Start(t),
           UNCHANGED <<labels, closing, seen, trace, attempt, auto, fetch, phase, autoOn>>
    PROVE  IInv'
  <1>1. /\ Typed /\ Core /\ fires["merge"].pc = "idle"
        /\ UNCHANGED <<labels, closing, seen, trace, attempt, auto, fetch, fires, phase, autoOn, spent>>
        /\ pull' = IF row[t].task = "implement" /\ pull = "none" THEN "empty" ELSE pull
    BY DEF IInv, Idle, Start
  <1>2. /\ ticket' \in [Tickets -> TicketRecs]
        /\ ticket'[t].state = "working" /\ ticket'[t].cycle = ticket[t].cycle
        /\ ticket'[t].task = row[t].task /\ ticket'[t].starts = ticket[t].starts + 1
        /\ ticket'[t].tries = ticket[t].tries
        /\ \A u \in Tickets \ {t} : ticket'[u] = ticket[u]
    BY <1>1, StartTicket DEF Typed
  <1>3. /\ row' \in [Tickets -> Rows] /\ row'[t].task = "none" /\ row'[t].origin = "open"
        /\ \A u \in Tickets \ {t} : row'[u] = row[u]
    BY <1>1, Leave
  <1>4. row[t].task \in Tasks
    BY <1>1 DEF Typed, Rows, Works
  <1>5. \A u \in Tickets : ticket[u].cycle \in Nat /\ ticket[u].starts \in Nat
                           /\ trace[u].cycle \in Nat /\ trace[u].hand \in Nat
    BY <1>1 DEF Typed, TicketRecs, Traces
  <1>6. \A f \in Fires : fires[f].id \in Tickets /\ fires[f].cycle \in Nat /\ fires[f].hand \in Nat
    BY <1>1 DEF Typed, FireRecs
  <1>7. Typed'
    BY <1>1, <1>2, <1>3 DEF Typed
  <1>8. Owned'
    <2>1. \A u \in Tickets : /\ ticket'[u].cycle = ticket[u].cycle /\ ticket'[u].starts \in Nat
                             /\ ticket[u].starts <= ticket'[u].starts
      BY <1>2, <1>5
    <2>2. \A f \in Fires : fires[f].hand <= ticket'[fires[f].id].starts
      BY <1>1, <1>5, <1>6, <2>1 DEF Core, Owned
    <2>3. \A u \in Tickets : trace[u].hand <= ticket'[u].starts
      BY <1>1, <1>5, <2>1 DEF Core, Owned
    <2>4. QED
      BY <1>1, <1>6, <2>1, <2>2, <2>3 DEF Core, Owned
  <1>9. ASSUME NEW u \in Tickets PROVE (Rested(u) /\ Capped(u) /\ Varied(u))'
    <2>1. CASE u = t
      <3>1. trace[t].hand # ticket'[t].starts
        BY <1>1, <1>2, <1>5 DEF Core, Owned
      <3>2. Settling(t) => Loops.hand # ticket'[t].starts
        BY <1>1, <1>2, <1>5, <1>6, FireNames DEF Core, Owned, Settling, Loops
      <3>3. QED
        BY <1>1, <1>2, <1>3, <1>4, <2>1, <3>1, <3>2 DEF Rested, Capped, Varied, Asked, Settling, Loops
    <2>2. CASE u # t
      BY <1>1, <1>2, <1>3, <2>2 DEF Core, Rested, Capped, Varied, Asked, Settling
    <2>3. QED
      BY <2>1, <2>2
  <1>10. Alone'
    BY <1>1, <1>3, Pair DEF Core, Alone
  <1>11. ASSUME Calm' PROVE (Quiet /\ Implemented /\ Listed /\ Late /\ Shipped)'
    <2>1. Quiet /\ Implemented /\ Listed /\ Late /\ Shipped
      BY <1>1, <1>11 DEF IInv, Calmly, Calm
    <2>2. ~Settling(t)
      BY <1>1, <2>1 DEF Core, Rested, Asked, Quiet
    <2>3. Loops' = Loops /\ (At(Issue)' <=> At(Issue)) /\ (At(Pull)' <=> At(Pull))
      BY <1>1 DEF At, Loops
    <2>4. Quiet'
      BY <1>1, <1>2, <1>3, <2>1, <2>2, <2>3 DEF Quiet, Settling, Loops
    <2>5. CASE t = Issue
      <3>1. trace[Issue].cause # "completed" /\ row[Issue].task = "implement"
        BY <1>4, <2>1, <2>5 DEF Implemented, Tasks
      <3>2. ticket'[Pull] = ticket[Pull] /\ row'[Pull] = row[Pull]
        BY <1>2, <1>3, <2>5, Pair
      <3>3. Implemented'
        BY <1>1, <1>2, <1>3, <2>1, <2>3, <2>5, <3>1 DEF Implemented, Finished
      <3>4. Listed'
        BY <1>1, <2>1, <3>2 DEF Listed
      <3>5. Late'
        BY <1>1, <2>1, <2>3, <3>2 DEF Late, Stales
      <3>6. Shipped'
        BY <1>1, <2>1, <2>3, <3>2 DEF Shipped, Shipping, AtLimit, Count
      <3>7. QED
        BY <2>4, <3>3, <3>4, <3>5, <3>6
    <2>6. CASE t = Pull
      <3>1. row[Pull].task \in {"review", "rework"} /\ pull' = pull /\ seen[Pull].on
        BY <1>1, <2>1, <2>6 DEF Listed
      <3>2. ticket'[Issue] = ticket[Issue] /\ row'[Issue] = row[Issue]
        BY <1>2, <1>3, <2>6, Pair
      <3>3. Implemented'
        BY <1>1, <2>1, <2>3, <3>1, <3>2 DEF Implemented, Finished
      <3>4. Listed'
        BY <1>1, <1>2, <1>3, <2>1, <2>6, <3>1 DEF Listed
      <3>5. ~At(Pull)
        BY <2>1, <2>2, <2>6 DEF Quiet, At, Settling, Loops
      <3>6. Late'
        BY <1>1, <1>2, <1>3, <2>1, <2>3, <2>6, <3>1, <3>5 DEF Late, Stales
      <3>7. trace[Pull].out.to # "merge"
        BY <1>1, <2>1, <3>1 DEF Shipped
      <3>8. Shipped'
        BY <1>1, <1>3, <2>1, <2>3, <2>6, <3>5, <3>7 DEF Shipped, Shipping
      <3>9. QED
        BY <2>4, <3>3, <3>4, <3>6, <3>8
    <2>7. QED
      BY <2>5, <2>6, Pair
  <1>12. QED
    BY <1>7, <1>8, <1>9, <1>10, <1>11 DEF IInv, Core, Calmly

LEMMA PickupFails ==
    ASSUME IInv, NEW t \in Tickets, Leaves(t), FailStart(t),
           UNCHANGED <<labels, closing, seen, trace, attempt, auto, fetch, phase, autoOn>>
    PROVE  IInv'
  <1>1. /\ Typed /\ Core /\ spent' = spent + 1 /\ spent < MaxTroubles
        /\ UNCHANGED <<pull, labels, closing, seen, trace, attempt, auto, fetch, fires, phase, autoOn>>
    BY DEF IInv, FailStart
  <1>2. /\ ticket' \in [Tickets -> TicketRecs]
        /\ \A u \in Tickets : SameTicket(u)
    <2>1. ticket' = [ticket EXCEPT ![t].tries = @ + 1, ![t].failed = TRUE]
      BY DEF FailStart
    <2>2. /\ ticket' \in [Tickets -> TicketRecs]
          /\ ticket'[t].state = ticket[t].state /\ ticket'[t].cycle = ticket[t].cycle
          /\ ticket'[t].task = ticket[t].task /\ ticket'[t].starts = ticket[t].starts
          /\ \A u \in Tickets \ {t} : ticket'[u] = ticket[u]
      BY <1>1, <2>1, FailTicket DEF Typed
    <2>3. QED
      BY <2>2 DEF SameTicket
  <1>3. /\ row' \in [Tickets -> Rows] /\ row'[t].task = "none"
        /\ \A u \in Tickets \ {t} : row'[u] = row[u]
    BY <1>1, Leave
  <1>4. Typed'
    BY <1>1, <1>2, <1>3, RoutesAssumption DEF Typed, RoutesAssumption
  <1>5. (\A u \in Tickets : SameTrace(u)) /\ \A f \in Fires : Moved(f)
    BY <1>1 DEF SameTrace, Moved, SameFire
  <1>6. Core'
    BY <1>1, <1>2, <1>3, <1>5, LeaveCore
  <1>7. QED
    BY <1>1, <1>4, <1>6, Disturbed DEF IInv

LEMMA PickupDrops ==
    ASSUME IInv, NEW t \in Tickets, row[t].task \notin {"none", "merge"}, Idle("merge"), Leaves(t),
           UNCHANGED <<pull, labels, closing, seen, ticket, trace, attempt, auto, fetch, fires, phase, autoOn, spent>>
    PROVE  IInv'
  <1>1. Typed /\ Core /\ fires["merge"].pc = "idle"
    BY DEF IInv, Idle
  <1>2. /\ row' \in [Tickets -> Rows] /\ row'[t].task = "none"
        /\ \A u \in Tickets \ {t} : row'[u] = row[u]
    BY <1>1, Leave
  <1>3. Typed'
    BY <1>1, <1>2 DEF Typed
  <1>4. (\A u \in Tickets : SameTicket(u) /\ SameTrace(u)) /\ \A f \in Fires : Moved(f)
    BY DEF SameTicket, SameTrace, Moved, SameFire
  <1>5. Core'
    BY <1>1, <1>2, <1>4, LeaveCore
  <1>6. ASSUME Calm' PROVE (Quiet /\ Implemented /\ Listed /\ Late /\ Shipped)'
    <2>1. Quiet /\ Implemented /\ Listed /\ Late /\ Shipped
      BY <1>6 DEF IInv, Calmly, Calm
    <2>2. Loops' = Loops /\ (At(Issue)' <=> At(Issue)) /\ (At(Pull)' <=> At(Pull))
      BY DEF At, Loops
    <2>3. \A u \in Tickets : row'[u] = row[u] \/ row'[u].task = "none"
      BY <1>2
    <2>4. Quiet'
      BY <1>2, <2>1, <2>2 DEF Quiet, Settling, Loops
    <2>5. Implemented' /\ Listed' /\ Late'
      BY <2>1, <2>2, <2>3, Pair DEF Implemented, Finished, Listed, Late, Stales
    <2>6. t = Pull => trace[Pull].out.to # "merge"
      BY <1>1, <2>1 DEF Shipped
    <2>7. row'[Pull].task = "merge" => row[Pull].task = "merge"
      BY <2>3, Pair
    <2>8. t # Pull => row'[Pull] = row[Pull]
      BY <1>2, Pair
    <2>9. Shipped'
      BY <2>1, <2>2, <2>6, <2>7, <2>8 DEF Shipped, Shipping, AtLimit, Count
    <2>10. QED
      BY <2>4, <2>5, <2>9
  <1>7. QED
    BY <1>3, <1>5, <1>6 DEF IInv, Calmly

LEMMA PickupKeeps ==
    ASSUME IInv, NEW t \in Tickets, Pickup(t)
    PROVE  IInv'
  <1>1. /\ row[t].task \notin {"none", "merge"} /\ Idle("merge") /\ Leaves(t)
        /\ UNCHANGED <<labels, closing, seen, trace, attempt, auto, fetch, phase, autoOn>>
    BY DEF Pickup, CheckoutFree, cycle
  <1>2. CASE Claimable(t) /\ Start(t)
    BY <1>1, <1>2, PickupStarts
  <1>3. CASE FailStart(t)
    BY <1>1, <1>3, PickupFails
  <1>4. CASE UNCHANGED <<ticket, pull, fires, spent>>
    BY <1>1, <1>4, PickupDrops
  <1>5. QED
    BY <1>2, <1>3, <1>4 DEF Pickup

LEMMA PickupMergeKeeps ==
    ASSUME IInv, PickupMerge
    PROVE  IInv'
  <1>1. /\ Typed /\ Core /\ row[Pull].task = "merge" /\ fires["merge"].pc = "idle" /\ Leaves(Pull)
        /\ UNCHANGED <<pull, labels, closing, seen, ticket, trace, attempt, auto, fetch, phase, autoOn, spent>>
    BY DEF IInv, PickupMerge, Idle, host, cycle
  <1>2. /\ row' \in [Tickets -> Rows] /\ row'[Pull].task = "none"
        /\ row'[Issue] = row[Issue]
        /\ \A u \in Tickets \ {Pull} : row'[u] = row[u]
    BY <1>1, Leave, Pair
  <1>3. \A u \in Tickets : SameTicket(u) /\ SameTrace(u)
    BY <1>1 DEF SameTicket, SameTrace
  <1>4. CASE fires' = fires /\ ~(ticket[Pull].state \in {"open", "awaiting"} /\ Projected(Pull))
    <2>1. Typed'
      BY <1>1, <1>2, <1>4 DEF Typed
    <2>2. \A f \in Fires : Moved(f)
      BY <1>4 DEF Moved, SameFire
    <2>3. Core'
      BY <1>1, <1>2, <1>3, <2>2, LeaveCore, Pair
    <2>4. ~Calm'
      BY <1>1, <1>4 DEF IInv, Calmly, Calm, Listed, Shipped, Projected
    <2>5. QED
      BY <2>1, <2>3, <2>4 DEF IInv, Calmly
  <1>5. CASE ticket[Pull].state \in {"open", "awaiting"} /\ fires' = [fires EXCEPT !["merge"] = MergeFire]
    <2>1. /\ fires' \in [Fires -> FireRecs] /\ fires'["merge"] = MergeFire
          /\ fires'["loop"] = fires["loop"] /\ fires'["hand"] = fires["hand"]
      BY <1>1, <1>5, MergeFireRec, FireNames DEF Typed
    <2>2. Typed'
      BY <1>1, <1>2, <2>1 DEF Typed
    <2>3. Owned'
      <3>1. \A u \in Tickets : ticket[u].starts \in Nat /\ ticket[u].cycle \in Nat
        BY <1>1 DEF Typed, TicketRecs
      <3>2. QED
        BY <1>1, <2>1, <3>1, MergeFireRec, FireNames, Pair DEF Core, Owned, Tasks
    <2>4. ASSUME NEW u \in Tickets PROVE (Rested(u) /\ Capped(u) /\ Varied(u))'
      <3>1. CASE u = Pull
        BY <1>1, <1>2, <2>1, <3>1 DEF Core, Rested, Capped, Varied, Asked, Settling
      <3>2. CASE u # Pull
        BY <1>1, <1>2, <2>1, <3>2 DEF Core, Rested, Capped, Varied, Asked, Settling
      <3>3. QED
        BY <3>1, <3>2
    <2>5. Alone'
      BY <1>1, <1>2, <1>5, Pair DEF Core, Alone
    <2>6. ASSUME Calm' PROVE (Quiet /\ Implemented /\ Listed /\ Late /\ Shipped)'
      <3>1. Quiet /\ Implemented /\ Listed /\ Late /\ Shipped
        BY <1>1, <2>6 DEF IInv, Calmly, Calm
      <3>2. Loops' = Loops /\ (At(Issue)' <=> At(Issue)) /\ (At(Pull)' <=> At(Pull))
        BY <2>1 DEF At, Loops
      <3>3. Quiet'
        BY <1>1, <1>2, <2>1, <3>1, <3>2, MergeFireRec DEF Quiet, Settling, Loops
      <3>4. Implemented' /\ Listed' /\ Late'
        BY <1>1, <1>2, <3>1, <3>2, Pair DEF Implemented, Finished, Listed, Late, Stales
      <3>5. fires'["merge"].pc = "run"
        BY <2>1, MergeFireRec
      <3>6. trace[Pull].out.to = "merge" /\ Again \notin labels
        BY <1>1, <3>1 DEF Shipped
      <3>7. ticket[Pull].state = "open" /\ trace[Pull].decision = "auto" /\ trace[Pull].out.at = Pull
        BY <1>1, <3>1, <3>6 DEF Shipped
      <3>8. Shipped'
        BY <1>1, <3>1, <3>2, <3>5, <3>6, <3>7, Pair DEF Shipped, Shipping
      <3>9. QED
        BY <3>3, <3>4, <3>8
    <2>7. QED
      BY <2>2, <2>3, <2>4, <2>5, <2>6 DEF IInv, Core, Calmly
  <1>6. QED
    BY <1>4, <1>5 DEF PickupMerge, MergeFire

LEMMA MergeKeeps ==
    ASSUME IInv, Merge
    PROVE  IInv'
  <1>1. /\ Typed /\ Core /\ fires["merge"].pc = "run" /\ "merge" \in Fires
        /\ UNCHANGED <<labels, closing, seen, trace, row, auto, fetch, phase, autoOn, spent>>
        /\ attempt' \in {"merged", "blocked"} /\ pull' \in {"merged", pull}
        /\ ticket' = [ticket EXCEPT ![Pull].tries = @ + 1]
        /\ fires' = [fires EXCEPT !["merge"].pc = "list"]
    BY FireNames DEF IInv, Merge, cycle
  <1>2. /\ ticket' \in [Tickets -> TicketRecs]
        /\ \A u \in Tickets : SameTicket(u)
    <2>1. /\ ticket' \in [Tickets -> TicketRecs]
          /\ ticket'[Pull].state = ticket[Pull].state /\ ticket'[Pull].cycle = ticket[Pull].cycle
          /\ ticket'[Pull].task = ticket[Pull].task /\ ticket'[Pull].starts = ticket[Pull].starts
          /\ \A u \in Tickets \ {Pull} : ticket'[u] = ticket[u]
      BY <1>1, FailTicket, Pair DEF Typed
    <2>2. QED
      BY <2>1 DEF SameTicket
  <1>3. fires["merge"] \in FireRecs /\ fires["merge"].facts \in SUBSET Facts /\ fires["merge"].base \in SUBSET Facts
    BY <1>1 DEF Typed, FireRecs
  <1>4. /\ fires' \in [Fires -> FireRecs] /\ SameFire("merge") /\ fires'["merge"].pc = "list"
        /\ \A g \in Fires \ {"merge"} : fires'[g] = fires[g]
    <2>1. PICK x \in FireRecs : x = [fires["merge"] EXCEPT !.pc = "list"]
      BY <1>3 DEF FireRecs
    <2>2. fires' = [fires EXCEPT !["merge"] = x]
      BY <1>1, <2>1 DEF Typed
    <2>3. QED
      BY <1>1, <1>3, <2>1, <2>2 DEF Typed, SameFire, FireRecs
  <1>5. \A f \in Fires : Moved(f)
    BY <1>1, <1>4 DEF Moved, SameFire
  <1>6. \A u \in Tickets : SameTrace(u) /\ SameRow(u)
    BY <1>1 DEF SameTrace, SameRow
  <1>7. Core'
    BY <1>1, <1>2, <1>5, <1>6, CoreKept
  <1>8. Typed'
    BY <1>1, <1>2, <1>4 DEF Typed
  <1>9. QED
    BY <1>1, <1>7, <1>8 DEF IInv, Calmly, Calm

--------------------------------------------------------------------------------
(* The transition fire. *)

SameTraceButOut(t) ==
    /\ trace'[t].task = trace[t].task /\ trace'[t].cause = trace[t].cause
    /\ trace'[t].cycle = trace[t].cycle /\ trace'[t].hand = trace[t].hand
    /\ trace'[t].decision = trace[t].decision

(* What the end of a fire writes. *)
LEMMA Records ==
    ASSUME Typed, Core, NEW f \in Fires, fires[f].pc # "idle", NEW out \in Outcomes, Ends(f, out)
    PROVE  /\ fires' \in [Fires -> FireRecs] /\ fires'[f] = NoFire
           /\ \A g \in Fires \ {f} : fires'[g] = fires[g]
           /\ trace' \in [Tickets -> Traces] /\ ticket' \in [Tickets -> TicketRecs]
           /\ seen' \in [Tickets -> Facing]
           /\ \A u \in Tickets : /\ ticket'[u].cycle = ticket[u].cycle /\ ticket'[u].task = ticket[u].task
                                 /\ ticket'[u].starts = ticket[u].starts /\ ticket'[u].tries = ticket[u].tries
           /\ \A u \in Tickets \ {fires[f].id} : trace'[u] = trace[u] /\ ticket'[u] = ticket[u]
           /\ fires[f].why = "settle" =>
                /\ seen' = seen
                /\ trace'[fires[f].id] = [task |-> fires[f].task, cause |-> "completed", out |-> out,
                     cycle |-> fires[f].cycle, hand |-> fires[f].hand, decision |-> "none"]
                /\ ticket'[fires[f].id].state =
                     (IF ticket[fires[f].id].state = "open" THEN "open" ELSE "awaiting")
           /\ fires[f].why # "settle" =>
                /\ ticket' = ticket
                /\ SameTraceButOut(fires[f].id)
                /\ \/ trace'[fires[f].id].out = trace[fires[f].id].out
                   \/ /\ trace'[fires[f].id].out.kind = out.kind /\ trace'[fires[f].id].out.to = out.to
                      /\ trace'[fires[f].id].out.at = out.at
           /\ fires[f].why = "merge" => trace' = trace
           /\ fires[f].why = "sweep" =>
                /\ seen' = seen
                /\ trace[fires[f].id].out.kind = "skip" /\ out.kind # "none" =>
                      /\ trace'[fires[f].id].out.kind = out.kind /\ trace'[fires[f].id].out.to = out.to
                      /\ trace'[fires[f].id].out.at = out.at
                /\ out.kind = "none" => trace' = trace
  <1>1. fires[f] \in FireRecs /\ fires[f].id \in Tickets
    BY DEF Typed, FireRecs
  <1>2. fires[f].why \in {"settle", "sweep", "hand", "merge"} /\ fires[f].task \in Works
        /\ fires[f].cycle \in Nat /\ fires[f].hand \in Nat
    BY <1>1 DEF FireRecs
  <1>3. /\ fires' \in [Fires -> FireRecs] /\ fires'[f] = NoFire
        /\ \A g \in Fires \ {f} : fires'[g] = fires[g]
    BY Falls DEF Typed, Ends
  <1>4. Record(f, out)
    BY DEF Ends
  <1>5. CASE fires[f].why = "settle"
    <2>1. /\ trace' = [trace EXCEPT ![fires[f].id] =
                 [task |-> fires[f].task, cause |-> "completed", out |-> out, cycle |-> fires[f].cycle,
                  hand |-> fires[f].hand, decision |-> "none"]]
          /\ ticket' = [ticket EXCEPT ![fires[f].id].state = IF @ = "open" THEN @ ELSE "awaiting"]
          /\ seen' = seen
      BY <1>4, <1>5 DEF Record
    <2>2. [task |-> fires[f].task, cause |-> "completed", out |-> out, cycle |-> fires[f].cycle,
           hand |-> fires[f].hand, decision |-> "none"] \in Traces
      BY <1>2 DEF Traces
    <2>3. PICK state \in {"open", "working", "awaiting"} :
            state = IF ticket[fires[f].id].state = "open" THEN "open" ELSE "awaiting"
      OBVIOUS
    <2>4. ticket' = [ticket EXCEPT ![fires[f].id].state = state]
      BY <1>1, <2>1, <2>3 DEF Typed
    <2>5. /\ ticket' \in [Tickets -> TicketRecs]
          /\ ticket'[fires[f].id].state = state /\ ticket'[fires[f].id].cycle = ticket[fires[f].id].cycle
          /\ ticket'[fires[f].id].task = ticket[fires[f].id].task
          /\ ticket'[fires[f].id].starts = ticket[fires[f].id].starts
          /\ ticket'[fires[f].id].tries = ticket[fires[f].id].tries
          /\ \A u \in Tickets \ {fires[f].id} : ticket'[u] = ticket[u]
      BY <1>1, <2>4, Turns DEF Typed
    <2>6. /\ trace' \in [Tickets -> Traces]
          /\ \A u \in Tickets \ {fires[f].id} : trace'[u] = trace[u]
          /\ trace'[fires[f].id] = [task |-> fires[f].task, cause |-> "completed", out |-> out,
               cycle |-> fires[f].cycle, hand |-> fires[f].hand, decision |-> "none"]
      BY <1>1, <2>1, <2>2 DEF Typed
    <2>7. QED
      BY <1>3, <1>5, <2>1, <2>3, <2>5, <2>6 DEF Typed
  <1>6. CASE fires[f].why = "sweep"
    <2>1. /\ trace' = IF trace[fires[f].id].out.kind = "skip" /\ out.kind # "none"
                       THEN [trace EXCEPT ![fires[f].id].out = [out EXCEPT !.refired = TRUE]]
                       ELSE trace
          /\ ticket' = ticket /\ seen' = seen
      BY <1>4, <1>6 DEF Record
    <2>2. CASE trace[fires[f].id].out.kind = "skip" /\ out.kind # "none"
      <3>1. PICK o \in Outcomes : o = [out EXCEPT !.refired = TRUE]
        BY Marked
      <3>2. o.kind = out.kind /\ o.to = out.to /\ o.at = out.at
        BY <3>1, Marked
      <3>3. trace' = [trace EXCEPT ![fires[f].id].out = o]
        BY <2>1, <2>2, <3>1
      <3>4. /\ trace' \in [Tickets -> Traces] /\ trace'[fires[f].id].out = o
            /\ SameTraceButOut(fires[f].id)
            /\ \A u \in Tickets \ {fires[f].id} : trace'[u] = trace[u]
        BY <1>1, <3>3, Swapped DEF Typed, SameTraceButOut
      <3>5. QED
        BY <1>3, <1>6, <2>1, <2>2, <3>2, <3>4 DEF Typed
    <2>3. CASE ~(trace[fires[f].id].out.kind = "skip" /\ out.kind # "none")
      BY <1>3, <1>6, <2>1, <2>3 DEF Typed, SameTraceButOut
    <2>4. QED
      BY <2>2, <2>3
  <1>7. CASE fires[f].why = "hand"
    <2>1. /\ trace' = IF trace[fires[f].id].out = fires[f].was /\ out.kind # "none"
                       THEN [trace EXCEPT ![fires[f].id].out = out] ELSE trace
          /\ ticket' = ticket /\ seen' = seen
      BY <1>4, <1>7 DEF Record
    <2>2. CASE trace' = [trace EXCEPT ![fires[f].id].out = out]
      <3>1. /\ trace' \in [Tickets -> Traces] /\ trace'[fires[f].id].out = out
            /\ SameTraceButOut(fires[f].id)
            /\ \A u \in Tickets \ {fires[f].id} : trace'[u] = trace[u]
        BY <1>1, <2>2, Swapped DEF Typed, SameTraceButOut
      <3>2. QED
        BY <1>3, <1>7, <2>1, <3>1 DEF Typed
    <2>3. CASE trace' = trace
      BY <1>3, <1>7, <2>1, <2>3 DEF Typed, SameTraceButOut
    <2>4. QED
      BY <2>1, <2>2, <2>3
  <1>8. CASE fires[f].why = "merge"
    <2>1. /\ seen' = IF attempt = "merged"
                      THEN [t \in Tickets |-> [seen[t] EXCEPT !.on = FALSE]] ELSE seen
          /\ ticket' = ticket /\ trace' = trace
      BY <1>4, <1>8 DEF Record
    <2>2. seen' \in [Tickets -> Facing]
      BY <2>1, Retires DEF Typed
    <2>3. QED
      BY <1>3, <1>8, <2>1, <2>2 DEF Typed, SameTraceButOut
  <1>9. QED
    BY <1>2, <1>5, <1>6, <1>7, <1>8

(* An outcome that names no issue and no implement. *)
Sound(out) == /\ out \in Outcomes
              /\ out.to # "none" => out.kind = "done"
              /\ out.kind = "done" => out.at # Issue
              /\ out.to # "implement"

LEMMA EndsCore ==
    ASSUME Typed, Core, NEW f \in Fires, fires[f].pc # "idle", NEW out, Sound(out), Ends(f, out), row' = row
    PROVE  Core'
  <1>1. /\ fires' \in [Fires -> FireRecs] /\ fires'[f] = NoFire
        /\ \A g \in Fires \ {f} : fires'[g] = fires[g]
        /\ \A u \in Tickets : /\ ticket'[u].cycle = ticket[u].cycle /\ ticket'[u].starts = ticket[u].starts
                              /\ ticket'[u].task = ticket[u].task
        /\ \A u \in Tickets \ {fires[f].id} : trace'[u] = trace[u] /\ ticket'[u] = ticket[u]
    BY Records DEF Sound
  <1>2. /\ fires[f].why = "settle" =>
                /\ trace'[fires[f].id] = [task |-> fires[f].task, cause |-> "completed", out |-> out,
                     cycle |-> fires[f].cycle, hand |-> fires[f].hand, decision |-> "none"]
                /\ ticket'[fires[f].id].state =
                     (IF ticket[fires[f].id].state = "open" THEN "open" ELSE "awaiting")
        /\ fires[f].why # "settle" =>
                /\ ticket' = ticket
                /\ SameTraceButOut(fires[f].id)
                /\ \/ trace'[fires[f].id].out = trace[fires[f].id].out
                   \/ /\ trace'[fires[f].id].out.kind = out.kind /\ trace'[fires[f].id].out.to = out.to
                      /\ trace'[fires[f].id].out.at = out.at
        /\ fires[f].why = "merge" => trace' = trace
    BY Records DEF Sound
  <1>3. \A g \in Fires : /\ fires[g].id \in Tickets /\ fires[g].cycle \in Nat /\ fires[g].hand \in Nat
    BY DEF Typed, FireRecs
  <1>4. \A u \in Tickets : ticket[u].cycle \in Nat /\ ticket[u].starts \in Nat
    BY DEF Typed, TicketRecs
  <1>5. NoFire.pc = "idle" /\ NoFire.id = Issue /\ NoFire.hand = 0 /\ NoFire.cycle = 0
    BY NoFireRec
  <1>6. fires[f].why = "settle" => f = "loop" /\ Settling(fires[f].id)
    BY DEF Core, Owned, Settling, Fires
  <1>7. \A u \in Tickets : /\ trace'[u].cycle <= ticket[u].cycle /\ trace'[u].hand <= ticket[u].starts
                           /\ trace'[u].out.to # "none" => trace'[u].out.kind = "done"
                           /\ trace'[u].out.kind # "none" => trace'[u].task \in Tasks
                           /\ trace[u].task \in Tasks => trace'[u].task \in Tasks
                           /\ trace'[u].out.kind = "done" => trace'[u].out.at # Issue
                           /\ trace'[u].out.to # "implement"
    <2> SUFFICES ASSUME NEW u \in Tickets
                 PROVE  /\ trace'[u].cycle <= ticket[u].cycle /\ trace'[u].hand <= ticket[u].starts
                        /\ trace'[u].out.to # "none" => trace'[u].out.kind = "done"
                        /\ trace'[u].out.kind # "none" => trace'[u].task \in Tasks
                        /\ trace[u].task \in Tasks => trace'[u].task \in Tasks
                        /\ trace'[u].out.kind = "done" => trace'[u].out.at # Issue
                        /\ trace'[u].out.to # "implement"
      OBVIOUS
    <2>1. CASE u # fires[f].id
      BY <1>1, <2>1 DEF Core, Owned, Alone
    <2>2. CASE u = fires[f].id /\ fires[f].why = "settle"
      BY <1>2, <2>2 DEF Core, Owned, Sound
    <2>3. CASE u = fires[f].id /\ fires[f].why # "settle"
      <3>1. fires[f].why \in {"sweep", "hand", "merge"}
        BY <2>3 DEF Typed, FireRecs
      <3>2. CASE fires[f].why = "merge"
        BY <1>2, <3>2 DEF Core, Owned, Alone
      <3>3. CASE fires[f].why \in {"sweep", "hand"}
        <4>1. trace[u].task \in Tasks
          BY <2>3, <3>3 DEF Core, Owned
        <4>2. QED
          BY <1>2, <2>3, <4>1 DEF Core, Owned, Alone, Sound, SameTraceButOut
      <3>4. QED
        BY <3>1, <3>2, <3>3
    <2>4. QED
      BY <2>1, <2>2, <2>3
  <1>8. Owned'
    <2>1. \A g \in Fires : /\ fires'[g].hand <= ticket[fires'[g].id].starts
                           /\ fires'[g].cycle <= ticket[fires'[g].id].cycle
      <3> SUFFICES ASSUME NEW g \in Fires
                   PROVE  /\ fires'[g].hand <= ticket[fires'[g].id].starts
                          /\ fires'[g].cycle <= ticket[fires'[g].id].cycle
        OBVIOUS
      <3>1. CASE g = f
        BY <1>1, <1>4, <1>5, <3>1, Pair
      <3>2. CASE g # f
        BY <1>1, <3>2 DEF Core, Owned
      <3>3. QED
        BY <3>1, <3>2
    <2>2. \A g \in Fires : fires'[g].id \in Tickets
      BY <1>1 DEF FireRecs
    <2>3. \A g \in Fires : fires'[g].pc # "idle" => fires'[g] = fires[g]
      BY <1>1, <1>5
    <2>4. QED
      BY <1>1, <1>7, <2>1, <2>2, <2>3, FireNames DEF Core, Owned
  <1>9. ASSUME NEW u \in Tickets PROVE (Rested(u) /\ Capped(u) /\ Varied(u))'
    <2>1. Rested(u) /\ Capped(u) /\ Varied(u)
      BY DEF Core
    <2>2. Settling(u)' => Settling(u) /\ fires'["loop"] = fires["loop"]
      BY <1>1, <1>5, FireNames DEF Settling
    <2>3. ticket'[u].state \in {ticket[u].state, "awaiting"}
          /\ (ticket[u].state = "open" => ticket'[u].state = "open")
      BY <1>1, <1>2
    <2>4. CASE u # fires[f].id
      BY <1>1, <2>1, <2>2, <2>4 DEF Rested, Capped, Varied, Asked, Loops
    <2>5. CASE u = fires[f].id /\ fires[f].why # "settle"
      BY <1>2, <2>1, <2>2, <2>5 DEF Rested, Capped, Varied, Asked, Loops, SameTraceButOut
    <2>6. CASE u = fires[f].id /\ fires[f].why = "settle"
      <3>1. ~Asked(u)
        BY <1>6, <2>1, <2>6 DEF Rested
      <3>2. Capped(u)' /\ Varied(u)'
        BY <3>1 DEF Capped, Varied, Asked
      <3>3. fires'["loop"].pc = "idle" /\ f = "loop"
        BY <1>1, <1>5, <1>6, <2>6
      <3>4. Rested(u)'
        BY <1>1, <1>2, <1>6, <2>1, <2>3, <2>6, <3>1, <3>3 DEF Rested, Settling, Asked, Loops
      <3>5. QED
        BY <3>2, <3>4
    <2>7. QED
      BY <2>4, <2>5, <2>6
  <1>10. Alone'
    <2>1. fires'["merge"].pc # "idle" => fires["merge"].pc # "idle"
      BY <1>1, <1>5, FireNames
    <2>2. ticket'[Pull].state = "working" => ticket[Pull].state = "working"
      BY <1>1, <1>2, Pair
    <2>3. QED
      BY <1>7, <2>1, <2>2 DEF Core, Alone
  <1>11. QED
    BY <1>8, <1>9, <1>10 DEF Core

(* The machine left alone: how the turn of the issue ends, and the pull request's. *)
LEMMA EndsIssue ==
    ASSUME Typed, Core, Quiet, Implemented, Listed, Late, Shipped, At(Issue), NEW out, Sound(out),
           out.kind = "done" => out.to = "review", pull = "ready" => out.kind = "done",
           Ends("loop", out), UNCHANGED <<pull, labels, row, attempt, fetch>>
    PROVE  (Quiet /\ Implemented /\ Listed /\ Late /\ Shipped)'
  <1>1. "loop" \in Fires /\ Loops.pc # "idle" /\ Loops.id = Issue /\ out \in Outcomes
        /\ Loops.why \in {"settle", "sweep"} /\ Loops.task = "implement"
    BY FireNames DEF At, Loops, Sound, Core, Owned, Quiet
  <1>2. /\ fires' \in [Fires -> FireRecs] /\ Loops' = NoFire
        /\ fires'["hand"] = fires["hand"] /\ fires'["merge"] = fires["merge"]
        /\ \A u \in Tickets : /\ ticket'[u].cycle = ticket[u].cycle /\ ticket'[u].task = ticket[u].task
                              /\ ticket'[u].starts = ticket[u].starts /\ ticket'[u].tries = ticket[u].tries
        /\ trace'[Pull] = trace[Pull] /\ ticket'[Pull] = ticket[Pull]
        /\ seen' = seen
    BY <1>1, Records, FireNames, Pair DEF Loops
  <1>3. Loops.why = "settle" =>
          /\ trace'[Issue] = [task |-> Loops.task, cause |-> "completed", out |-> out,
               cycle |-> Loops.cycle, hand |-> Loops.hand, decision |-> "none"]
          /\ ticket'[Issue].state =
               (IF ticket[Issue].state = "open" THEN "open" ELSE "awaiting")
    BY <1>1, Records, FireNames DEF Loops
  <1>4. Loops.why = "sweep" =>
          /\ ticket' = ticket
          /\ SameTraceButOut(Issue)
          /\ \/ out.kind # "none"
                /\ trace'[Issue].out.kind = out.kind /\ trace'[Issue].out.to = out.to
             \/ out.kind = "none" /\ trace' = trace
    BY <1>1, Records, FireNames DEF Loops, Quiet
  <1>5. Loops'.pc = "idle"
    BY <1>2, NoFireRec
  <1>6. ~At(Issue)' /\ ~At(Pull)' /\ ~At(Pull) /\ \A u \in Tickets : ~Settling(u)'
    BY <1>1, <1>5, Pair DEF At, Settling, Loops
  <1>7. Loops.why = "sweep" => trace[Issue].out.kind = "skip" /\ trace[Issue].cause = "completed"
    BY <1>1, Pair DEF Quiet
  <1>8. Loops.why = "settle" =>
          /\ ticket[Issue].state = "working" /\ Loops.hand = ticket[Issue].starts
          /\ Loops.cycle = ticket[Issue].cycle /\ row[Issue].task = "none"
    BY <1>1, Pair DEF Quiet, Settling, Loops, Core, Rested
  <1>9. trace'[Issue].cause = "completed" /\ trace'[Issue].task = "implement"
        /\ trace'[Issue].hand = ticket[Issue].starts
    BY <1>1, <1>3, <1>4, <1>7, <1>8 DEF SameTraceButOut, Implemented
  <1>10. (out.kind = "done" => trace'[Issue].out.kind = "done")
         /\ (trace'[Issue].out.kind = "done" => trace'[Issue].out.to = "review")
    BY <1>1, <1>3, <1>4, <1>7
  <1>11. Quiet'
    <2>1. \A u \in Tickets : trace'[u].out.kind # "none" => trace'[u].cause = "completed"
      BY <1>2, <1>9, Pair DEF Quiet
    <2>2. QED
      BY <1>2, <1>5, <1>6, <1>10, <2>1, UNCHANGED row DEF Quiet
  <1>12. Implemented'
    <2>1. Finished' <=> trace'[Issue].out.kind = "done"
      BY <1>6 DEF Finished
    <2>2. /\ ticket'[Issue].task = ticket[Issue].task /\ ticket'[Issue].starts = ticket[Issue].starts
          /\ ticket'[Issue].cycle = ticket[Issue].cycle
      BY <1>2, Pair
    <2>3. CASE Loops.why = "settle"
      BY <1>2, <1>3, <1>8, <1>9, <1>10, <2>1, <2>2, <2>3 DEF Implemented
    <2>4. CASE Loops.why = "sweep"
      BY <1>2, <1>4, <1>7, <1>9, <1>10, <2>1, <2>2, <2>4 DEF Implemented, SameTraceButOut
    <2>5. QED
      BY <1>1, <2>3, <2>4
  <1>13. Listed' /\ Late'
    BY <1>2, <1>6 DEF Listed, Late, Stales
  <1>14. Shipped'
    BY <1>2, <1>6 DEF Shipped, Shipping, AtLimit, Count
  <1>15. QED
    BY <1>11, <1>12, <1>13, <1>14

LEMMA EndsPull ==
    ASSUME Typed, Core, Quiet, Implemented, Listed, Late, Shipped, At(Pull), NEW out, Sound(out),
           out.to = "merge" <=> Shipping /\ Loops.pc = "place", out.kind = "done" => out.at = Pull,
           Ends("loop", out), UNCHANGED <<pull, labels, row, attempt, fetch>>
    PROVE  (Quiet /\ Implemented /\ Listed /\ Late /\ Shipped)'
  <1>1. "loop" \in Fires /\ Loops.pc # "idle" /\ Loops.id = Pull /\ out \in Outcomes
        /\ Loops.why = "settle" /\ Loops.task \in {"review", "rework"}
    BY FireNames DEF At, Loops, Sound, Quiet
  <1>2. /\ fires' \in [Fires -> FireRecs] /\ Loops' = NoFire
        /\ fires'["hand"] = fires["hand"] /\ fires'["merge"] = fires["merge"]
        /\ \A u \in Tickets : /\ ticket'[u].cycle = ticket[u].cycle /\ ticket'[u].task = ticket[u].task
                              /\ ticket'[u].starts = ticket[u].starts /\ ticket'[u].tries = ticket[u].tries
        /\ trace'[Issue] = trace[Issue] /\ ticket'[Issue] = ticket[Issue]
        /\ seen' = seen
    BY <1>1, Records, FireNames, Pair DEF Loops
  <1>3. /\ trace'[Pull] = [task |-> Loops.task, cause |-> "completed", out |-> out,
               cycle |-> Loops.cycle, hand |-> Loops.hand, decision |-> "none"]
        /\ ticket'[Pull].state = (IF ticket[Pull].state = "open" THEN "open" ELSE "awaiting")
    BY <1>1, Records, FireNames DEF Loops
  <1>4. Loops'.pc = "idle"
    BY <1>2, NoFireRec
  <1>5. ~At(Issue)' /\ ~At(Pull)' /\ ~At(Issue) /\ \A u \in Tickets : ~Settling(u)'
    BY <1>1, <1>4, Pair DEF At, Settling, Loops
  <1>6. /\ ticket[Pull].state = "working" /\ Loops.hand = ticket[Pull].starts
        /\ Loops.cycle = ticket[Pull].cycle /\ row[Pull].task = "none"
    BY <1>1, Pair DEF Quiet, Settling, Loops, Core, Rested
  <1>7. trace[Pull].out.to # "merge"
    BY <1>6 DEF Shipped
  <1>8. Quiet'
    <2>1. \A u \in Tickets : trace'[u].out.kind # "none" => trace'[u].cause = "completed"
      BY <1>2, <1>3, Pair DEF Quiet
    <2>2. QED
      BY <1>2, <1>4, <1>5, <2>1, UNCHANGED row DEF Quiet
  <1>9. Implemented'
    BY <1>2, <1>5 DEF Implemented, Finished
  <1>10. Listed' /\ Late'
    BY <1>2, <1>3, <1>5, <1>6 DEF Listed, Late, Stales
  <1>11. Shipped'
    <2>1. ticket'[Pull].cycle = ticket[Pull].cycle /\ ticket'[Pull].starts = ticket[Pull].starts
      BY <1>2, Pair
    <2>2. trace'[Pull].out = out /\ trace'[Pull].decision = "none" /\ trace'[Pull].task = Loops.task
          /\ trace'[Pull].cycle = Loops.cycle /\ trace'[Pull].hand = Loops.hand
      BY <1>3
    <2>3. ticket'[Pull].state = "awaiting" /\ row'[Pull].task = "none"
      BY <1>3, <1>6
    <2>4. fires["merge"].pc # "run"
      BY <1>7 DEF Shipped
    <2>5. out.to = "merge" => Loops.task = "review" /\ Again \notin labels /\ out.at = Pull
      <3>1. out.to = "merge" => out.kind = "done"
        BY DEF Sound
      <3>2. Shipping /\ Loops.pc = "place" => Loops.task = "review"
        BY DEF Shipping, Quiet, Ship
      <3>3. QED
        BY <3>1, <3>2 DEF Shipped
    <2>6. QED
      BY <1>2, <1>5, <1>6, <1>7, <2>1, <2>2, <2>3, <2>4, <2>5 DEF Shipped, Shipping
  <1>12. QED
    BY <1>8, <1>9, <1>10, <1>11

LEMMA VerdictFacts ==
    ASSUME NEW task \in Tasks, NEW facts \in Verdicts(task)
    PROVE  facts \in SUBSET Facts
  <1>1. CASE task \in {"implement", "rework"}
    BY <1>1 DEF Verdicts, Facts
  <1>2. CASE task = "review"
    BY <1>2 DEF Verdicts, Facts
  <1>3. CASE task = "merge"
    BY <1>3 DEF Verdicts, Facts
  <1>4. QED
    BY <1>1, <1>2, <1>3 DEF Tasks

(* The fire whose reading ends it. *)
LEMMA EvaluateEnds ==
    ASSUME IInv, NEW f \in Fires, fires[f].pc = "list", NEW out, Sound(out), out.kind # "done",
           Ends(f, out), UNCHANGED <<pull, labels, closing, row, attempt, auto, fetch, phase, autoOn, spent>>
    PROVE  IInv'
  <1>1. /\ Typed /\ Core /\ out \in Outcomes /\ fires[f].pc # "idle"
    BY DEF IInv, Sound
  <1>2. /\ fires' \in [Fires -> FireRecs]
        /\ trace' \in [Tickets -> Traces] /\ ticket' \in [Tickets -> TicketRecs]
        /\ seen' \in [Tickets -> Facing]
    BY <1>1, Records
  <1>3. Typed'
    BY <1>1, <1>2 DEF Typed
  <1>4. Core'
    BY <1>1, EndsCore
  <1>5. ASSUME Calm' PROVE (Quiet /\ Implemented /\ Listed /\ Late /\ Shipped)'
    <2>1. Quiet /\ Implemented /\ Listed /\ Late /\ Shipped
      BY <1>5 DEF IInv, Calmly, Calm
    <2>2. f = "loop"
      BY <2>1 DEF Quiet, Fires
    <2>3. Loops.pc = "list" /\ Loops.id \in Tickets
      BY <1>1, <2>2 DEF Loops, Typed, FireRecs
    <2>4. CASE Loops.id = Issue
      <3>1. At(Issue) /\ pull # "ready"
        BY <2>1, <2>3, <2>4 DEF At, Implemented, Finished, Loops
      <3>2. QED
        BY <1>1, <2>1, <2>2, <3>1, EndsIssue
    <2>5. CASE Loops.id = Pull
      <3>1. At(Pull) /\ ~(Shipping /\ Loops.pc = "place") /\ out.to # "merge"
        BY <2>3, <2>5 DEF At, Loops, Sound
      <3>2. QED
        BY <1>1, <2>1, <2>2, <3>1, EndsPull
    <2>6. QED
      BY <2>3, <2>4, <2>5, Pair
  <1>6. QED
    BY <1>3, <1>4, <1>5 DEF IInv, Calmly

(* The fire that goes on to write. *)
LEMMA EvaluateChooses ==
    ASSUME IInv, NEW f \in Fires, fires[f].pc = "list", NEW facts \in Verdicts(fires[f].task),
           fires' = [fires EXCEPT ![f].pc = "write", ![f].facts = facts,
                   ![f].base = IF fires[f].task = "implement" THEN labels ELSE seen[Pull].labels],
           UNCHANGED <<seen, ticket, trace, pull, labels, closing, row, attempt, auto, fetch, phase, autoOn, spent>>
    PROVE  IInv'
  <1>1. Typed /\ Core /\ fires[f].task \in Tasks /\ fires[f] \in FireRecs
    BY DEF IInv, Core, Owned, Typed
  <1>2. facts \in SUBSET Facts
    BY <1>1, VerdictFacts
  <1>3. seen[Pull].labels \in SUBSET Facts /\ labels \in SUBSET Facts
    BY <1>1, Pair DEF Typed, Facing
  <1>4. PICK base \in SUBSET Facts : base = IF fires[f].task = "implement" THEN labels ELSE seen[Pull].labels
    BY <1>3
  <1>5. /\ fires' \in [Fires -> FireRecs] /\ SameFire(f)
        /\ fires'[f].pc = "write" /\ fires'[f].facts = facts /\ fires'[f].base = base
        /\ \A g \in Fires \ {f} : fires'[g] = fires[g]
    <2>1. fires' = [fires EXCEPT ![f].pc = "write", ![f].facts = facts, ![f].base = base]
      BY <1>4
    <2>2. fires \in [Fires -> FireRecs]
      BY <1>1 DEF Typed
    <2>3. QED
      BY <1>2, <2>1, <2>2, MovesOn
  <1>6. \A g \in Fires : Moved(g)
    BY <1>5 DEF Moved, SameFire
  <1>7. \A u \in Tickets : SameTicket(u) /\ SameTrace(u) /\ SameRow(u)
    BY DEF SameTicket, SameTrace, SameRow
  <1>8. Core'
    BY <1>1, <1>6, <1>7, CoreKept
  <1>9. Typed'
    BY <1>1, <1>5 DEF Typed
  <1>10. ASSUME Calm' PROVE (Quiet /\ Implemented /\ Listed /\ Late /\ Shipped)'
    <2>1. Quiet /\ Implemented /\ Listed /\ Late /\ Shipped
      BY <1>10 DEF IInv, Calmly, Calm
    <2>2. f = "loop"
      BY <2>1 DEF Quiet, Fires
    <2>3. /\ Loops.pc = "list" /\ Loops'.pc = "write" /\ Loops'.facts = facts /\ Loops'.base = base
          /\ Loops'.id = Loops.id /\ Loops'.task = Loops.task
          /\ Loops.id \in Tickets /\ fires'["merge"] = fires["merge"]
      BY <1>1, <1>5, <2>2, FireNames DEF Loops, FireRecs, SameFire
    <2>4. Loops.task \in {"implement", "review", "rework"}
      BY <2>1, <2>3, Pair DEF Quiet, At, Loops
    <2>5. facts \in (IF Loops.task = "review" THEN {{Ship}, {Again}} ELSE {{"ready-for-review"}})
      BY <2>2, <2>4 DEF Verdicts, Loops, Ship, Again
    <2>6. Quiet'
      BY <1>1, <1>6, <1>7, <2>1, <2>3, <2>5, QuietKept
    <2>7. (At(Issue)' <=> At(Issue)) /\ (At(Pull)' <=> At(Pull))
      BY <2>3 DEF At
    <2>8. Implemented'
      BY <2>1, <2>3, <2>7 DEF Implemented, Finished, At
    <2>9. Listed'
      BY <2>1 DEF Listed
    <2>10. At(Pull) => /\ ticket[Pull].state = "working" /\ Loops.task = ticket[Pull].task
                       /\ row[Pull].task = "none" /\ base = seen[Pull].labels
      <3>1. At(Pull) => Settling(Pull) /\ Loops.task # "implement"
        BY <2>1 DEF Quiet, At, Settling, Loops
      <3>2. QED
        BY <1>1, <1>4, <2>1, <2>2, <3>1, Pair DEF Quiet, Core, Rested, Loops
    <2>11. Late'
      BY <2>1, <2>3, <2>7, <2>10 DEF Late, Stales
    <2>12. Shipped'
      <3>1. At(Pull) => trace[Pull].out.to # "merge"
        BY <2>1, <2>10 DEF Shipped
      <3>2. Shipping' => Loops.task = "review"
        BY <2>1, <2>3, <2>5, <2>7 DEF Shipping, Ship
      <3>3. CASE At(Pull)
        BY <2>1, <2>3, <2>7, <2>10, <3>1, <3>2, <3>3 DEF Shipped, Shipping, Late
      <3>4. CASE ~At(Pull)
        BY <2>1, <2>3, <2>7, <3>4 DEF Shipped, Shipping, AtLimit, Count
      <3>5. QED
        BY <3>3, <3>4
    <2>13. QED
      BY <2>6, <2>8, <2>9, <2>11, <2>12
  <1>11. QED
    BY <1>8, <1>9, <1>10 DEF IInv, Calmly

LEMMA EvaluateKeeps ==
    ASSUME IInv, NEW f \in Fires, Evaluate(f)
    PROVE  IInv'
  <1>1. /\ fires[f].pc = "list"
        /\ UNCHANGED <<pull, labels, closing, row, attempt, auto, fetch, phase, autoOn, spent>>
    BY DEF Evaluate, host, cycle
  <1>2. Sound(NoOutcome) /\ Sound(Skip) /\ Sound(Unfired)
    BY NoRecords DEF Sound
  <1>3. CASE Ends(f, NoOutcome)
    BY <1>1, <1>2, <1>3, NoRecords, EvaluateEnds
  <1>4. CASE Ends(f, Skip)
    BY <1>1, <1>2, <1>4, NoRecords, EvaluateEnds
  <1>5. CASE Ends(f, Unfired)
    BY <1>1, <1>2, <1>5, NoRecords, EvaluateEnds
  <1>6. CASE /\ \E facts \in Verdicts(fires[f].task) :
                  fires' = [fires EXCEPT ![f].pc = "write", ![f].facts = facts,
                   ![f].base = IF fires[f].task = "implement" THEN labels ELSE seen[Pull].labels]
             /\ UNCHANGED <<seen, ticket, trace>>
    BY <1>1, <1>6, EvaluateChooses
  <1>7. QED
    BY <1>3, <1>4, <1>5, <1>6 DEF Evaluate

(* The write of the chosen facts: an implement's, and that of another turn. *)
LEMMA WriteKeeps ==
    ASSUME IInv, NEW f \in Fires, Write(f)
    PROVE  IInv'
  <1>1. /\ Typed /\ Core /\ fires[f].pc = "write" /\ fires[f] \in FireRecs
        /\ labels' = (labels \ (fires[f].base \ fires[f].facts)) \cup (fires[f].facts \ fires[f].base)
        /\ pull' = IF Publishes(fires[f]) THEN "ready" ELSE pull
        /\ UNCHANGED <<ticket, trace, closing, row, attempt, auto, phase, autoOn, spent>>
    BY DEF IInv, Write, cycle, Typed
  <1>2. fires[f].facts \in SUBSET Facts /\ fires[f].base \in SUBSET Facts /\ {} \in SUBSET Facts
    BY <1>1 DEF FireRecs
  <1>3. labels' \subseteq Facts /\ pull' \in {"none", "empty", "work", "ready", "merged"}
    BY <1>1, <1>2 DEF Typed
  <1>4. \A u \in Tickets : SameTicket(u) /\ SameTrace(u) /\ SameRow(u)
    BY <1>1 DEF SameTicket, SameTrace, SameRow
  <1>5. CASE fires[f].task = "implement"
    <2>1. /\ fires' = [fires EXCEPT ![f].pc = "second", ![f].base = {}]
          /\ fetch' = [fetch EXCEPT ![Pull] = IF @ = {} THEN {Snapshot(Pull)'} ELSE @]
          /\ seen' = seen
      BY <1>5 DEF Write
    <2>2. /\ fires' \in [Fires -> FireRecs] /\ SameFire(f)
          /\ fires'[f].pc = "second" /\ fires'[f].facts = fires[f].facts /\ fires'[f].base = {}
          /\ \A g \in Fires \ {f} : fires'[g] = fires[g]
      <3>1. fires \in [Fires -> FireRecs]
        BY <1>1 DEF Typed
      <3>2. PICK facts \in SUBSET Facts : facts = fires[f].facts
        BY <1>2
      <3>3. PICK base \in SUBSET Facts : base = {}
        BY <1>2
      <3>4. fires' = [fires EXCEPT ![f].pc = "second", ![f].base = base]
        BY <2>1, <3>3
      <3>5. QED
        BY <3>1, <3>2, <3>3, <3>4, MovesOn
    <2>3. Snapshot(Pull)' \in Snapshots /\ Snapshot(Pull)'.labels = labels' /\ Snapshot(Pull)'.on = Shown(Pull)'
      BY <1>3, Pair DEF Snapshot, Snapshots, Shown
    <2>4. /\ fetch' \in [Tickets -> SUBSET Snapshots]
          /\ fetch'[Pull] = (IF fetch[Pull] = {} THEN {Snapshot(Pull)'} ELSE fetch[Pull])
      BY <1>1, <2>1, <2>3, Pair DEF Typed
    <2>5. \A g \in Fires : Moved(g)
      BY <1>1, <2>2 DEF Moved, SameFire
    <2>6. Core'
      BY <1>1, <1>4, <2>5, CoreKept
    <2>7. Typed'
      BY <1>1, <1>3, <2>1, <2>2, <2>4 DEF Typed
    <2>8. ASSUME Calm' PROVE (Quiet /\ Implemented /\ Listed /\ Late /\ Shipped)'
      <3>1. Quiet /\ Implemented /\ Listed /\ Late /\ Shipped
        BY <1>1, <2>8 DEF IInv, Calmly, Calm
      <3>2. f = "loop"
        BY <1>1, <3>1 DEF Quiet, Fires
      <3>3. /\ Loops.pc = "write" /\ Loops'.pc = "second" /\ Loops'.facts = Loops.facts
            /\ Loops'.id = Loops.id /\ Loops'.task = Loops.task /\ Loops.task = "implement"
            /\ Loops.id \in Tickets /\ fires'["merge"] = fires["merge"]
        BY <1>1, <1>5, <2>2, <3>2, FireNames DEF Loops, FireRecs, SameFire
      <3>4. Loops.id = Issue /\ Loops.facts = {"ready-for-review"} /\ At(Issue)' /\ ~At(Pull) /\ ~At(Pull)'
        BY <3>1, <3>3, Pair DEF Quiet, At, Loops
      <3>5. labels' \subseteq labels \cup {"ready-for-review"}
        BY <1>1, <3>2, <3>4 DEF Loops
      <3>6. (Again \in labels' => Again \in labels) /\ (Ship \in labels' => Ship \in labels)
        BY <3>5 DEF Again, Ship
      <3>7. pull = "ready" => pull' = "ready"
        BY <1>1
      <3>8. pull' # "merged"
        BY <1>1, <3>1 DEF Listed
      <3>9. \A s \in fetch'[Pull] : s \in fetch[Pull] \/ ((s.on <=> pull' = "ready") /\ s.labels = labels')
        <4>1. Shown(Pull)' <=> pull' = "ready"
          <5>1. Again \in labels' => pull' = "ready"
            BY <3>1, <3>6, <3>7 DEF Listed
          <5>2. QED
            BY <3>8, <5>1, Pair DEF Shown, Again
        <4>2. QED
          BY <2>3, <2>4, <4>1
      <3>10. Quiet'
        BY <1>1, <1>4, <2>5, <3>1, <3>3, <3>4, QuietKept
      <3>11. Implemented'
        BY <1>1, <2>1, <3>1, <3>3, <3>4 DEF Implemented, Finished
      <3>12. Listed'
        BY <1>1, <2>1, <3>1, <3>6, <3>7, <3>8, <3>9 DEF Listed
      <3>13. Late'
        BY <1>1, <2>1, <3>1, <3>4, <3>6, <3>9 DEF Late, Stales
      <3>14. Shipped'
        <4>1. ~Shipping /\ ~Shipping'
          BY <3>4 DEF Shipping
        <4>2. (\/ Ship \in labels' \cup seen'[Pull].labels
               \/ \E s \in fetch'[Pull] : Ship \in s.labels)
              => trace[Pull].out.to = "merge"
          BY <2>1, <3>1, <3>6, <3>9, <4>1 DEF Shipped
        <4>3. QED
          BY <1>1, <3>1, <3>3, <3>6, <4>1, <4>2 DEF Shipped, AtLimit, Count
      <3>15. QED
        BY <3>10, <3>11, <3>12, <3>13, <3>14
    <2>9. QED
      BY <2>6, <2>7, <2>8 DEF IInv, Calmly
  <1>6. CASE fires[f].task # "implement"
    <2>1. /\ fetch' = fetch /\ pull' = pull
          /\ fires' = [fires EXCEPT ![f] = [fires[f] EXCEPT !.pc = "place", !.base = {}]]
          /\ seen' = IF seen[Pull].on /\ fires[f].facts # fires[f].base
                       THEN [seen EXCEPT ![Pull].labels = fires[f].facts] ELSE seen
      BY <1>1, <1>6 DEF Write, Publishes
    <2>2. /\ fires' \in [Fires -> FireRecs] /\ SameFire(f)
          /\ fires'[f].pc = "place" /\ fires'[f].facts = fires[f].facts /\ fires'[f].base = {}
          /\ \A g \in Fires \ {f} : fires'[g] = fires[g]
      <3>1. fires \in [Fires -> FireRecs]
        BY <1>1 DEF Typed
      <3>2. PICK facts \in SUBSET Facts : facts = fires[f].facts
        BY <1>2
      <3>3. PICK base \in SUBSET Facts : base = {}
        BY <1>2
      <3>4. fires' = [fires EXCEPT ![f] = [fires[f] EXCEPT !.pc = "place", !.base = base]]
        BY <2>1, <3>3
      <3>5. QED
        BY <3>1, <3>2, <3>3, <3>4, MovesOn
    <2>3. /\ seen' \in [Tickets -> Facing] /\ seen'[Pull].on = seen[Pull].on /\ seen'[Issue] = seen[Issue]
          /\ seen'[Pull].labels = (IF seen[Pull].on /\ fires[f].facts # fires[f].base
                                   THEN fires[f].facts ELSE seen[Pull].labels)
      <3>1. CASE seen[Pull].on /\ fires[f].facts # fires[f].base
        <4>1. seen' = [seen EXCEPT ![Pull].labels = fires[f].facts]
          BY <2>1, <3>1
        <4>2. QED
          BY <1>1, <1>2, <3>1, <4>1, Folds, Pair DEF Typed
      <3>2. CASE ~(seen[Pull].on /\ fires[f].facts # fires[f].base)
        BY <1>1, <2>1, <3>2 DEF Typed
      <3>3. QED
        BY <3>1, <3>2
    <2>4. \A g \in Fires : Moved(g)
      BY <1>1, <2>2 DEF Moved, SameFire
    <2>5. Core'
      BY <1>1, <1>4, <2>4, CoreKept
    <2>6. Typed'
      BY <1>1, <1>3, <2>1, <2>2, <2>3 DEF Typed
    <2>7. ASSUME Calm' PROVE (Quiet /\ Implemented /\ Listed /\ Late /\ Shipped)'
      <3>1. Quiet /\ Implemented /\ Listed /\ Late /\ Shipped
        BY <1>1, <2>7 DEF IInv, Calmly, Calm
      <3>2. f = "loop"
        BY <1>1, <3>1 DEF Quiet, Fires
      <3>3. /\ Loops.pc = "write" /\ Loops'.pc = "place" /\ Loops'.facts = Loops.facts
            /\ Loops'.id = Loops.id /\ Loops'.task = Loops.task /\ Loops.task # "implement"
            /\ Loops.id \in Tickets /\ fires'["merge"] = fires["merge"]
            /\ Loops = fires[f]
        BY <1>1, <1>6, <2>2, <3>2, FireNames DEF Loops, FireRecs, SameFire
      <3>4. Loops.id = Pull /\ At(Pull) /\ At(Pull)' /\ ~At(Issue) /\ ~At(Issue)'
        BY <3>1, <3>3, Pair DEF Quiet, At, Loops
      <3>5. /\ ticket[Pull].state = "working" /\ Loops.task = ticket[Pull].task
            /\ row[Pull].task = "none" /\ seen[Pull].on
        <4>1. Settling(Pull)
          BY <3>1, <3>4 DEF Quiet, At, Settling, Loops
        <4>2. QED
          BY <1>1, <3>1, <4>1, Pair DEF Quiet, Core, Rested, Listed, Loops
      <3>6. trace[Pull].out.to # "merge"
        BY <3>1, <3>5 DEF Shipped
      <3>7. Loops.facts \in (IF Loops.task = "review" THEN {{Ship}, {Again}} ELSE {{"ready-for-review"}})
        BY <3>1, <3>3 DEF Quiet
      <3>8. Ship # Again /\ Ship # "ready-for-review" /\ Again # "ready-for-review"
        BY DEF Ship, Again
      <3>9. labels' = (labels \ (Loops.base \ Loops.facts)) \cup (Loops.facts \ Loops.base)
            /\ seen'[Pull].labels = (IF Loops.facts # Loops.base THEN Loops.facts ELSE seen[Pull].labels)
        BY <1>1, <2>3, <3>3, <3>5
      <3>10. Quiet'
        BY <1>1, <1>4, <2>4, <3>1, <3>3, <3>7, QuietKept
      <3>11. Implemented'
        BY <1>1, <2>1, <2>3, <3>1, <3>4 DEF Implemented, Finished
      <3>12. Listed'
        BY <1>1, <2>1, <2>3, <3>1, <3>5 DEF Listed
      <3>13. Shipping => Again \notin labels'
        BY <3>1, <3>3, <3>8, <3>9 DEF Shipped, Shipping
      <3>14. Again \in labels' /\ Again \notin seen'[Pull].labels => Stales
        <4>1. CASE Loops.facts = {Ship}
          BY <3>4, <3>13, <4>1 DEF Shipping
        <4>2. CASE Loops.facts = {"ready-for-review"}
          BY <3>1, <3>3, <3>4, <3>8, <3>9, <4>2 DEF Late
        <4>3. CASE Loops.facts = {Again}
          BY <3>1, <3>9, <4>3 DEF Late
        <4>4. QED
          BY <3>7, <4>1, <4>2, <4>3
      <3>15. Late'
        BY <1>1, <2>1, <3>3, <3>4, <3>5, <3>14 DEF Late, Stales
      <3>16. Shipped'
        <4>1. ~(Ship \in labels \cup seen[Pull].labels \/ \E s \in fetch[Pull] : Ship \in s.labels)
          BY <3>1, <3>3, <3>6 DEF Shipped
        <4>2. Shipping' <=> Shipping
          BY <3>3, <3>4 DEF Shipping
        <4>3. Loops.facts # {Ship} => Ship \notin labels' \cup seen'[Pull].labels
          BY <3>7, <3>8, <3>9, <4>1
        <4>4. Shipping <=> Loops.facts = {Ship}
          BY <3>4 DEF Shipping
        <4>5. fires["merge"].pc # "run"
          BY <3>1, <3>6 DEF Shipped
        <4>6. QED
          BY <1>1, <2>1, <3>3, <3>5, <3>6, <3>13, <4>1, <4>2, <4>3, <4>4, <4>5 DEF Shipped
      <3>17. QED
        BY <3>10, <3>11, <3>12, <3>15, <3>16
    <2>8. QED
      BY <2>5, <2>6, <2>7 DEF IInv, Calmly
  <1>7. QED
    BY <1>5, <1>6

LEMMA PlaceKeeps ==
    ASSUME IInv, NEW f \in Fires, Place(f)
    PROVE  IInv'
  <1>1. /\ Typed /\ Core /\ fires[f].pc = "place" /\ fires[f] \in FireRecs /\ fires[f].pc # "idle"
        /\ UNCHANGED <<pull, labels, closing, row, attempt, auto, fetch, phase, autoOn, spent>>
    BY DEF IInv, Place, host, cycle, Typed
  <1>2. \E out : /\ Ends(f, out)
                 /\ out = IF fires[f].facts = {} THEN NoOutcome
                          ELSE Outcome("done", TaskOf(fires[f].facts),
                                       IF fires[f].task # "implement" \/ Projected(Pull) THEN Pull ELSE "elsewhere")
    BY DEF Place
  <1>3. PICK out : /\ Ends(f, out)
                   /\ out = IF fires[f].facts = {} THEN NoOutcome
                            ELSE Outcome("done", TaskOf(fires[f].facts),
                                         IF fires[f].task # "implement" \/ Projected(Pull) THEN Pull ELSE "elsewhere")
    BY <1>2
  <1>4. TaskOf(fires[f].facts) \in {"none", "rework", "review", "merge"}
    BY DEF TaskOf
  <1>5. /\ Sound(out)
        /\ fires[f].facts # {} => out.kind = "done" /\ out.to = TaskOf(fires[f].facts)
        /\ out.kind = "done" /\ fires[f].task # "implement" => out.at = Pull
    <2>1. CASE fires[f].facts = {}
      BY <1>3, <2>1, NoRecords DEF Sound
    <2>2. CASE fires[f].facts # {}
      <3>1. PICK at \in Places \ {Issue} : /\ out = Outcome("done", TaskOf(fires[f].facts), at)
                                           /\ fires[f].task # "implement" => at = Pull
        <4>1. Pull \in Places \ {Issue} /\ "elsewhere" \in Places \ {Issue}
          BY Pair DEF Places
        <4>2. QED
          BY <1>3, <2>2, <4>1
      <3>2. QED
        BY <1>4, <2>2, <3>1 DEF Sound, Outcome, Outcomes, Works, Tasks
    <2>3. QED
      BY <2>1, <2>2
  <1>6. out \in Outcomes
    BY <1>5 DEF Sound
  <1>7. /\ fires' \in [Fires -> FireRecs]
        /\ trace' \in [Tickets -> Traces] /\ ticket' \in [Tickets -> TicketRecs]
        /\ seen' \in [Tickets -> Facing]
    BY <1>1, <1>3, <1>6, Records
  <1>8. Typed'
    BY <1>1, <1>7 DEF Typed
  <1>9. Core'
    BY <1>1, <1>3, <1>5, EndsCore
  <1>10. ASSUME Calm' PROVE (Quiet /\ Implemented /\ Listed /\ Late /\ Shipped)'
    <2>1. Quiet /\ Implemented /\ Listed /\ Late /\ Shipped
      BY <1>1, <1>10 DEF IInv, Calmly, Calm
    <2>2. f = "loop"
      BY <1>1, <2>1 DEF Quiet, Fires
    <2>3. Loops.pc = "place" /\ Loops.id \in Tickets /\ Loops = fires[f]
          /\ Loops.facts \in (IF Loops.task = "review" THEN {{Ship}, {Again}} ELSE {{"ready-for-review"}})
      BY <1>1, <2>1, <2>2 DEF Loops, FireRecs, Quiet
    <2>4. TaskOf({"ready-for-review"}) = "review" /\ TaskOf({Ship}) = "merge" /\ TaskOf({Again}) = "rework"
      BY DEF TaskOf, Ship, Again
    <2>5. out.kind = "done" /\ out.to = TaskOf(Loops.facts)
      BY <1>5, <2>3
    <2>6. Ship # Again /\ Ship # "ready-for-review"
      BY DEF Ship, Again
    <2>7. CASE Loops.id = Issue
      <3>1. At(Issue) /\ Loops.task = "implement"
        BY <2>1, <2>3, <2>7 DEF At, Quiet
      <3>2. out.to = "review"
        BY <2>3, <2>4, <2>5, <3>1
      <3>3. QED
        BY <1>1, <1>3, <1>5, <2>1, <2>2, <2>5, <3>1, <3>2, EndsIssue
    <2>8. CASE Loops.id = Pull
      <3>1. At(Pull) /\ Loops.task # "implement"
        BY <2>1, <2>3, <2>8 DEF At, Quiet
      <3>2. out.to = "merge" <=> Shipping /\ Loops.pc = "place"
        <4>1. Shipping <=> Loops.facts = {Ship}
          BY <3>1 DEF Shipping
        <4>2. QED
          BY <2>3, <2>4, <2>5, <2>6, <4>1
      <3>3. out.at = Pull
        BY <1>5, <2>3, <2>5, <3>1
      <3>4. QED
        BY <1>1, <1>3, <1>5, <2>1, <2>2, <3>1, <3>2, <3>3, EndsPull
    <2>9. QED
      BY <2>3, <2>7, <2>8, Pair
  <1>11. QED
    BY <1>8, <1>9, <1>10 DEF IInv, Calmly

LEMMA FailWriteKeeps ==
    ASSUME IInv, NEW f \in Fires, FailWrite(f)
    PROVE  IInv'
  <1>1. /\ Typed /\ Core /\ fires[f].pc # "idle" /\ spent' = spent + 1 /\ spent < MaxTroubles
        /\ pull' \in {pull, "ready"} /\ Ends(f, Failed)
        /\ UNCHANGED <<labels, closing, row, attempt, auto, fetch, phase, autoOn>>
    BY DEF IInv, FailWrite, cycle
  <1>2. Failed \in Outcomes /\ Sound(Failed)
    BY NoRecords DEF Sound
  <1>3. /\ fires' \in [Fires -> FireRecs]
        /\ trace' \in [Tickets -> Traces] /\ ticket' \in [Tickets -> TicketRecs]
        /\ seen' \in [Tickets -> Facing]
    BY <1>1, <1>2, Records
  <1>4. Typed'
    BY <1>1, <1>3, RoutesAssumption DEF Typed, RoutesAssumption
  <1>5. Core'
    BY <1>1, <1>2, EndsCore
  <1>6. QED
    BY <1>1, <1>4, <1>5, Disturbed DEF IInv

--------------------------------------------------------------------------------
(* The operator, whose acts disturb the machine. *)

LEMMA RelabelKeeps ==
    ASSUME IInv, NEW l \in HandLabels, Relabel(l)
    PROVE  IInv'
  <1>1. /\ Typed /\ Core /\ spent' = spent + 1 /\ spent < MaxTroubles
        /\ labels' \in {labels \ {l}, labels \cup {l}}
        /\ UNCHANGED <<pull, closing, seen, ticket, trace, row, attempt, auto, fetch, fires, phase, autoOn>>
    BY DEF IInv, Relabel, Act, cycle
  <1>2. l \in Facts
    BY RoutesAssumption DEF RoutesAssumption, Facts
  <1>3. Typed'
    BY <1>1, <1>2, RoutesAssumption DEF Typed, RoutesAssumption
  <1>4. (\A u \in Tickets : SameTicket(u) /\ SameTrace(u) /\ SameRow(u)) /\ \A f \in Fires : Moved(f)
    BY <1>1 DEF SameTicket, SameTrace, SameRow, Moved, SameFire
  <1>5. QED
    BY <1>1, <1>3, <1>4, CoreKept, Disturbed DEF IInv

LEMMA HandStartKeeps ==
    ASSUME IInv, NEW t \in Tickets, HandStart(t)
    PROVE  IInv'
  <1>1. /\ Typed /\ Core /\ spent' = spent + 1 /\ spent < MaxTroubles /\ ticket[t].state = "open"
        /\ row' = [row EXCEPT ![t] = Row(Suggested(t), "open", FALSE, t)] /\ FALSE \in BOOLEAN
        /\ UNCHANGED <<pull, labels, closing, seen, ticket, trace, attempt, auto, fetch, fires, phase, autoOn>>
    BY DEF IInv, HandStart, Act, Actionable, host, cycle
  <1>2. Core' /\ row' \in [Tickets -> Rows]
    BY <1>1, OpenCore
  <1>3. Typed'
    BY <1>1, <1>2, Spends DEF Typed
  <1>4. QED
    BY <1>1, <1>2, <1>3, Disturbed DEF IInv

LEMMA HandRouteKeeps ==
    ASSUME IInv, NEW t \in Tickets, HandRoute(t)
    PROVE  IInv'
  <1>1. /\ Typed /\ Core /\ spent' = spent + 1 /\ spent < MaxTroubles
        /\ trace[t].out.kind = "done" /\ trace[t].out.at \in Tickets
        /\ ticket[trace[t].out.at].state \in {"open", "awaiting"}
        /\ row' = [row EXCEPT ![trace[t].out.at] = Row(trace[t].out.to, "workflow", FALSE, t)]
        /\ Decides(t, "routed")
        /\ UNCHANGED <<pull, labels, closing, seen, attempt, auto, fetch, fires, phase, autoOn>>
    BY DEF IInv, HandRoute, Act, host, cycle
  <1>2. trace[t].out.at = Pull
    BY <1>1, Pair DEF Core, Alone
  <1>3. Core' /\ row' \in [Tickets -> Rows]
    BY <1>1, <1>2, RouteCore
  <1>4. trace' \in [Tickets -> Traces] /\ ticket' \in [Tickets -> TicketRecs]
    BY <1>1, Routes
  <1>5. Typed'
    BY <1>1, <1>3, <1>4, Spends DEF Typed
  <1>6. QED
    BY <1>1, <1>3, <1>5, Disturbed DEF IInv

LEMMA CloseKeeps ==
    ASSUME IInv, NEW t \in Tickets, Close(t)
    PROVE  IInv'
  <1>1. /\ Typed /\ Core /\ spent' = spent + 1 /\ spent < MaxTroubles
        /\ ticket[t].state = "awaiting" /\ CloseEnds(t)
        /\ UNCHANGED <<pull, labels, attempt, auto, fires, phase, autoOn>>
    BY DEF IInv, Close, Act, cycle
  <1>2. /\ row' \in [Tickets -> Rows]
        /\ \A u \in Tickets : row'[u] = row[u] \/ row'[u] = NoRow
    BY <1>1, NoRecords DEF Close, Typed
  <1>3. \A u \in Tickets : row'[u].task # "none" =>
            /\ row'[u].task = row[u].task /\ row'[u].origin = row[u].origin
            /\ row'[u].automatic = row[u].automatic
    BY <1>2, NoRecords
  <1>4. Core'
    BY <1>1, <1>3, CloseCore
  <1>5. /\ trace' \in [Tickets -> Traces] /\ seen' \in [Tickets -> Facing]
        /\ ticket' \in [Tickets -> TicketRecs] /\ closing' \in BOOLEAN
        /\ fetch' \in [Tickets -> SUBSET Snapshots]
    BY <1>1, Closes
  <1>6. Typed'
    BY <1>1, <1>2, <1>5, RoutesAssumption DEF Typed, RoutesAssumption
  <1>7. QED
    BY <1>1, <1>4, <1>6, Disturbed DEF IInv

LEMMA CancelKeeps ==
    ASSUME IInv, NEW t \in Tickets, Cancel(t)
    PROVE  IInv'
  <1>1. /\ Typed /\ Core /\ spent' = spent + 1 /\ spent < MaxTroubles /\ Leaves(t)
        /\ trace' = trace \/ trace' = [trace EXCEPT ![row[t].from].out.removed = TRUE]
        /\ UNCHANGED <<pull, labels, closing, seen, ticket, attempt, auto, fetch, fires, phase, autoOn>>
    BY DEF IInv, Cancel, Act, host, cycle
  <1>2. row[t].from \in Tickets
    BY <1>1 DEF Typed, Rows
  <1>3. /\ row' \in [Tickets -> Rows] /\ row'[t].task = "none"
        /\ \A u \in Tickets \ {t} : row'[u] = row[u]
    BY <1>1, Leave
  <1>4. trace' \in [Tickets -> Traces] /\ \A u \in Tickets : SameTrace(u)
    <2>1. CASE trace' = trace
      BY <1>1, <2>1 DEF Typed, SameTrace
    <2>2. CASE trace' = [trace EXCEPT ![row[t].from].out.removed = TRUE]
      BY <1>1, <1>2, <2>2, Removes DEF Typed, SameTrace
    <2>3. QED
      BY <1>1, <2>1, <2>2
  <1>5. (\A u \in Tickets : SameTicket(u)) /\ \A f \in Fires : Moved(f)
    BY <1>1 DEF SameTicket, Moved, SameFire
  <1>6. Core'
    BY <1>1, <1>3, <1>4, <1>5, LeaveCore
  <1>7. Typed'
    BY <1>1, <1>3, <1>4, RoutesAssumption DEF Typed, RoutesAssumption
  <1>8. QED
    BY <1>1, <1>6, <1>7, Disturbed DEF IInv

LEMMA CloseInFlightKeeps ==
    ASSUME IInv, NEW t \in Tickets, CloseInFlight(t)
    PROVE  IInv'
  <1>1. /\ Typed /\ Core /\ spent' = spent + 1 /\ spent < MaxTroubles /\ ticket[t].state = "working"
        /\ ticket' = [ticket EXCEPT ![t].state = "open", ![t].cycle = @ + 1]
        /\ fetch' = Refreshing(t)
        /\ UNCHANGED <<pull, labels, closing, seen, trace, row, attempt, auto, fires, phase, autoOn>>
    BY DEF IInv, CloseInFlight, Act, host, cycle
  <1>2. /\ ticket' \in [Tickets -> TicketRecs]
        /\ ticket'[t].state = "open" /\ ticket'[t].cycle = ticket[t].cycle + 1
        /\ ticket'[t].task = ticket[t].task /\ ticket'[t].starts = ticket[t].starts
        /\ \A u \in Tickets \ {t} : ticket'[u] = ticket[u]
    BY <1>1, NextCycle DEF Typed
  <1>3. fetch' \in [Tickets -> SUBSET Snapshots]
    BY <1>1, Refreshes DEF Typed
  <1>4. Typed'
    BY <1>1, <1>2, <1>3, Spends DEF Typed
  <1>5. \A u \in Tickets : ticket[u].cycle \in Nat
    BY <1>1 DEF Typed, TicketRecs
  <1>6. \A u \in Tickets : /\ ticket'[u].starts = ticket[u].starts
                           /\ ticket[u].cycle <= ticket'[u].cycle /\ ticket'[u].cycle \in Nat
    BY <1>2, <1>5
  <1>7. Owned'
    BY <1>1, <1>6, Outlives DEF Core
  <1>8. ASSUME NEW u \in Tickets PROVE (Rested(u) /\ Capped(u) /\ Varied(u))'
    <2>1. CASE u = t
      BY <1>1, <1>2, <2>1 DEF Core, Rested, Capped, Varied, Asked, Settling
    <2>2. CASE u # t
      BY <1>1, <1>2, <2>2 DEF Core, Rested, Capped, Varied, Asked, Settling
    <2>3. QED
      BY <2>1, <2>2
  <1>9. Alone'
    BY <1>1, <1>2, Pair DEF Core, Alone
  <1>10. QED
    BY <1>1, <1>4, <1>7, <1>8, <1>9, Disturbed DEF IInv, Core

LEMMA RefireKeeps ==
    ASSUME IInv, NEW t \in Tickets, Refire(t)
    PROVE  IInv'
  <1>1. /\ Typed /\ Core /\ spent' = spent + 1 /\ spent < MaxTroubles
        /\ trace[t].out.kind \in {"unfired", "failed"} /\ Launch("hand", t, "hand", trace[t].task)
        /\ UNCHANGED <<pull, labels, closing, seen, ticket, trace, row, attempt, auto, phase, autoOn>>
    BY DEF IInv, Refire, Act, host, cycle
  <1>2. trace[t].task \in Tasks /\ trace[t].task \in Works
    BY <1>1 DEF Core, Owned, Works
  <1>3. /\ fires' \in [Fires -> FireRecs]
        /\ fires'["hand"].id = t /\ fires'["hand"].task = trace[t].task /\ fires'["hand"].why = "hand"
        /\ fires'["hand"].hand = 0 /\ fires'["hand"].cycle = 0
        /\ fires'["loop"] = fires["loop"] /\ fires'["merge"] = fires["merge"]
    BY <1>1, <1>2, Launches, FireNames DEF Typed
  <1>4. fetch' \in [Tickets -> SUBSET Snapshots]
    BY <1>1, Refreshes, Pair DEF Typed, Launch
  <1>5. Typed'
    BY <1>1, <1>3, <1>4, Spends DEF Typed
  <1>6. Owned'
    <2>1. \A u \in Tickets : ticket[u].starts \in Nat /\ ticket[u].cycle \in Nat
      BY <1>1 DEF Typed, TicketRecs
    <2>2. QED
      BY <1>1, <1>2, <1>3, <2>1, FireNames DEF Core, Owned
  <1>7. ASSUME NEW u \in Tickets PROVE (Rested(u) /\ Capped(u) /\ Varied(u))'
    BY <1>1, <1>3 DEF Core, Rested, Capped, Varied, Asked, Settling, Loops
  <1>8. Alone'
    BY <1>1, <1>3 DEF Core, Alone
  <1>9. QED
    BY <1>1, <1>5, <1>6, <1>7, <1>8, Disturbed DEF IInv, Core

--------------------------------------------------------------------------------
(* The invariant. *)

LEMMA InitIInv ==
    ASSUME Init
    PROVE  IInv
  <1>1. Typed
    <2>1. /\ seen \in [Tickets -> Facing]
          /\ ticket \in [Tickets -> TicketRecs]
      BY DEF Init, Facing, TicketRecs, Works
    <2>2. /\ trace \in [Tickets -> Traces] /\ row \in [Tickets -> Rows]
          /\ fetch \in [Tickets -> SUBSET Snapshots] /\ fires \in [Fires -> FireRecs]
      BY NoRecords, NoFireRec DEF Init
    <2>3. 0 \in 0..MaxTroubles
      BY RoutesAssumption DEF RoutesAssumption
    <2>4. QED
      BY <2>1, <2>2, <2>3 DEF Init, Typed
  <1>2. \A f \in Fires : fires[f].pc = "idle" /\ fires[f].hand = 0 /\ fires[f].cycle = 0 /\ fires[f].id = Issue
    BY NoFireRec DEF Init
  <1>3. \A t \in Tickets : /\ trace[t].task = "none" /\ trace[t].cause = "unknown" /\ trace[t].out.kind = "none"
                           /\ trace[t].out.to = "none" /\ trace[t].cycle = 0 /\ trace[t].hand = 0
                           /\ trace[t].decision = "none"
                           /\ row[t].task = "none" /\ row[t].origin = "open"
                           /\ ticket[t].state = "open" /\ ticket[t].cycle = 1 /\ ticket[t].starts = 0
                           /\ ticket[t].task = "none" /\ fetch[t] = {}
                           /\ seen[t].labels = {} /\ (seen[t].on <=> t = Issue)
    BY NoRecords DEF Init
  <1>4. ~seen[Pull].on
    BY <1>3, Pair
  <1>5. Core
    BY <1>2, <1>3, FireNames, Pair DEF Core, Owned, Rested, Capped, Varied, Asked, Settling, Alone
  <1>6. Calmly
    BY <1>2, <1>3, <1>4, FireNames, Pair DEF Init, Calmly, Quiet, Implemented, Listed, Late, Shipped, Shipping, At, Loops,
      Settling, Stales, Finished, Again, Ship
  <1>7. QED
    BY <1>1, <1>5, <1>6 DEF IInv

LEMMA StutterKeeps ==
    ASSUME IInv, UNCHANGED vars
    PROVE  IInv'
  <1>1. {auto', autoOn'} \subseteq BOOLEAN /\ phase' \in {"turns", "decide", "open"}
    BY DEF IInv, Typed, vars, cycle
  <1>2. QED
    BY <1>1, StepKeeps DEF vars, host, cycle

LEMMA NextKeeps ==
    ASSUME IInv, Next
    PROVE  IInv'
  <1>1. ASSUME NEW t \in Tickets, BeginFetch(t) \/ LandFetch(t) \/ FailFetch(t) \/ Settle(t) \/ Pickup(t)
        PROVE  IInv'
    BY <1>1, BeginFetchKeeps, LandFetchKeeps, FailFetchKeeps, SettleKeeps, PickupKeeps
  <1>2. ASSUME NEW f \in Fires, FireStep(f) \/ FailWrite(f)
        PROVE  IInv'
    BY <1>2, EvaluateKeeps, WriteKeeps, PlaceKeeps, FailWriteKeeps DEF FireStep
  <1>3. CASE Loop
    BY <1>3, AutoCloseKeeps, AskContinuationKeeps, EndTurnsKeeps, EndAskKeeps, AskOpenKeeps DEF Loop
  <1>4. CASE Merge \/ PickupMerge \/ Push \/ CloseDraft
    BY <1>4, MergeKeeps, PickupMergeKeeps, PushKeeps, CloseDraftKeeps
  <1>5. CASE Operator
    BY <1>5, RelabelKeeps, ToggleAutoKeeps, HandStartKeeps, HandRouteKeeps, CloseKeeps, CloseInFlightKeeps,
      CancelKeeps, RefireKeeps DEF Operator
  <1>6. QED
    BY <1>1, <1>2, <1>3, <1>4, <1>5 DEF Next

(* The inductive invariant holds of every behaviour: what an ask of the top-up read (the  *)
(* limit, the hold on the task, the resting ticket) is still so at the pickup of its row. *)
THEOREM Invariant == Spec => []IInv
  <1>1. Init => IInv
    BY InitIInv
  <1>2. IInv /\ [Next]_vars => IInv'
    BY NextKeeps, StutterKeeps
  <1>3. QED
    BY <1>1, <1>2, PTL DEF Spec

(* Every record keeps its type, an agent is at work on a task, and a fire, a trace and a  *)
(* row speak of no cycle and no handoff ahead of their ticket's (workflow.ts, state/).    *)
THEOREM RoutesTypes == Spec => []TypeOK
  <1>1. IInv => TypeOK
    <2> SUFFICES ASSUME IInv PROVE TypeOK
      OBVIOUS
    <2>1. \A t \in Tickets :
        /\ ticket[t].state \in {"open", "working", "awaiting"}
        /\ ticket[t].task \in Tasks \cup {"none"}
        /\ trace[t].task \in Tasks \cup {"none"} /\ trace[t].cycle <= ticket[t].cycle
        /\ trace[t].hand <= ticket[t].starts
        /\ row[t].task \in Tasks \cup {"none"} /\ row[t].from \in Tickets
        /\ trace[t].out.to # "none" => trace[t].out.kind = "done"
      BY DEF IInv, Typed, Core, Owned, TicketRecs, Traces, Rows, Works
    <2>2. \A f \in Fires :
        fires[f].pc \in {"idle", "refresh", "list", "write", "second", "place", "run"}
      BY DEF IInv, Typed, FireRecs
    <2>3. seen \in [Tickets -> [on : BOOLEAN, labels : SUBSET Facts, stale : BOOLEAN, reread : BOOLEAN]]
      BY DEF IInv, Typed, Facing
    <2>4. QED
      BY <2>1, <2>2, <2>3 DEF IInv, Typed, TypeOK
  <1>2. QED
    BY <1>1, Invariant, PTL

--------------------------------------------------------------------------------
(* The steps the properties are about. *)

LEMMA RecordStarts ==
    ASSUME Typed, NEW f \in Fires, NEW out, Record(f, out)
    PROVE  \A u \in Tickets : ticket'[u].starts = ticket[u].starts
  <1>1. fires[f].why \in {"settle", "sweep", "hand", "merge"} /\ fires[f].id \in Tickets
    BY DEF Typed, FireRecs
  <1>2. CASE fires[f].why = "settle"
    <2>1. PICK state \in {"open", "working", "awaiting"} :
            state = IF ticket[fires[f].id].state = "open" THEN "open" ELSE "awaiting"
      OBVIOUS
    <2>2. ticket' = [ticket EXCEPT ![fires[f].id].state = state]
      BY <1>1, <1>2, <2>1 DEF Record, Typed
    <2>3. QED
      BY <1>1, <2>2, Turns DEF Typed
  <1>3. CASE fires[f].why # "settle"
    BY <1>1, <1>3 DEF Record
  <1>4. QED
    BY <1>2, <1>3

(* Only a pickup starts an agent. *)
LEMMA OnlyPickupStarts ==
    ASSUME IInv, Next, NEW t \in Tickets, ticket'[t].starts > ticket[t].starts
    PROVE  /\ row[t].task \notin {"none", "merge"} /\ Claimable(t) /\ Start(t)
  <1>1. Typed /\ Core
    BY DEF IInv
  <1>2. \A u \in Tickets : ticket[u].starts \in Nat
    BY <1>1 DEF Typed, TicketRecs
  <1>3. ASSUME \A u \in Tickets : ticket'[u].starts = ticket[u].starts
        PROVE  FALSE
    BY <1>2, <1>3
  <1>4. ASSUME NEW u \in Tickets, BeginFetch(u) \/ FailFetch(u)
        PROVE  FALSE
    BY <1>3, <1>4 DEF BeginFetch, FailFetch
  <1>5. ASSUME NEW u \in Tickets, LandFetch(u)
        PROVE  FALSE
    BY <1>1, <1>3, <1>5, ForgetFailed DEF LandFetch, Typed
  <1>6. ASSUME NEW u \in Tickets, Settle(u)
        PROVE  FALSE
    <2>1. CASE ticket' = ticket
      BY <1>3, <2>1
    <2>2. CASE ticket' = [ticket EXCEPT ![u].state = "awaiting"]
      <3>1. "awaiting" \in {"open", "working", "awaiting"} /\ ticket \in [Tickets -> TicketRecs]
        BY <1>1 DEF Typed
      <3>2. QED
        BY <1>3, <2>2, <3>1, Turns
    <2>3. QED
      BY <1>6, <2>1, <2>2 DEF Settle
  <1>7. ASSUME NEW u \in Tickets, Pickup(u)
        PROVE  row[t].task \notin {"none", "merge"} /\ Claimable(t) /\ Start(t)
    <2>1. row[u].task \notin {"none", "merge"}
      BY <1>7 DEF Pickup
    <2>2. CASE Claimable(u) /\ Start(u)
      <3>1. \A v \in Tickets \ {u} : ticket'[v] = ticket[v]
        BY <1>1, <2>2, StartTicket DEF Typed
      <3>2. t = u
        BY <1>2, <3>1
      <3>3. QED
        BY <2>1, <2>2, <3>2
    <2>3. CASE FailStart(u)
      <3>1. ticket' = [ticket EXCEPT ![u].tries = @ + 1, ![u].failed = TRUE]
        BY <2>3 DEF FailStart
      <3>2. QED
        BY <1>1, <1>3, <3>1, FailTicket DEF Typed
    <2>4. CASE ticket' = ticket
      BY <1>3, <2>4
    <2>5. QED
      BY <1>7, <2>2, <2>3, <2>4 DEF Pickup
  <1>8. ASSUME NEW f \in Fires, FireStep(f) \/ FailWrite(f)
        PROVE  FALSE
    <2>1. CASE ticket' = ticket
      BY <1>3, <2>1
    <2>2. CASE \E out : Record(f, out)
      BY <1>1, <1>3, <2>2, RecordStarts
    <2>3. QED
      BY <1>8, <2>1, <2>2 DEF FireStep, Evaluate, Write, Place, FailWrite, Ends
  <1>9. ASSUME NEW u \in Tickets, AutoClose(u) \/ AskContinuation(u)
        PROVE  FALSE
    <2>1. CASE CloseEnds(u)
      BY <1>1, <1>3, <2>1, Closes
    <2>2. CASE Decides(u, "auto")
      BY <1>1, <1>3, <2>2, Routes
    <2>3. QED
      BY <1>9, <2>1, <2>2 DEF AutoClose, AskContinuation
  <1>10. CASE EndTurns \/ EndAsk \/ AskOpen \/ PickupMerge \/ Push \/ CloseDraft
    BY <1>3, <1>10 DEF EndTurns, EndAsk, AskOpen, PickupMerge, Push, CloseDraft
  <1>11. CASE Merge
    <2>1. ticket' = [ticket EXCEPT ![Pull].tries = @ + 1]
      BY <1>11 DEF Merge
    <2>2. QED
      BY <1>1, <1>3, <2>1, FailTicket, Pair DEF Typed
  <1>12. CASE Operator
    <2>1. CASE ticket' = ticket
      BY <1>3, <2>1
    <2>2. ASSUME NEW u \in Tickets, HandRoute(u)
          PROVE  FALSE
      BY <1>1, <1>3, <2>2, Routes DEF HandRoute
    <2>3. ASSUME NEW u \in Tickets, Close(u)
          PROVE  FALSE
      BY <1>1, <1>3, <2>3, Closes DEF Close
    <2>4. ASSUME NEW u \in Tickets, CloseInFlight(u)
          PROVE  FALSE
      BY <1>1, <1>3, <2>4, NextCycle DEF CloseInFlight, Typed
    <2>5. QED
      BY <1>12, <2>1, <2>2, <2>3, <2>4 DEF Operator, Relabel, ToggleAuto, HandStart, Cancel, Refire
  <1>13. QED
    BY <1>4, <1>5, <1>6, <1>7, <1>8, <1>9, <1>10, <1>11, <1>12 DEF Next, Loop

(* Only the run of a merge merges. *)
LEMMA OnlyMergeMerges ==
    ASSUME IInv, Next, pull # "merged", pull' = "merged"
    PROVE  fires["merge"].pc = "run"
  <1>1. CASE Merge
    BY <1>1 DEF Merge
  <1>2. ASSUME NEW t \in Tickets, BeginFetch(t) \/ LandFetch(t) \/ FailFetch(t) \/ Settle(t)
        PROVE  FALSE
    BY <1>2 DEF BeginFetch, LandFetch, FailFetch, Settle, host
  <1>3. ASSUME NEW t \in Tickets, Pickup(t)
        PROVE  FALSE
    BY <1>3 DEF Pickup, Start, FailStart
  <1>4. ASSUME NEW f \in Fires, FireStep(f) \/ FailWrite(f)
        PROVE  FALSE
    BY <1>4 DEF FireStep, Evaluate, Write, Place, FailWrite, host
  <1>5. CASE Loop
    BY <1>5 DEF Loop, AutoClose, AskContinuation, EndTurns, EndAsk, AskOpen, host
  <1>6. CASE PickupMerge \/ Push \/ CloseDraft
    BY <1>6 DEF PickupMerge, Push, CloseDraft, host
  <1>7. CASE Operator
    BY <1>7 DEF Operator, Relabel, ToggleAuto, HandStart, HandRoute, Close, CloseInFlight, Cancel, Refire, host
  <1>8. QED
    BY <1>1, <1>2, <1>3, <1>4, <1>5, <1>6, <1>7 DEF Next

--------------------------------------------------------------------------------
(* The properties. *)

(* The machine holds itself back, whatever happens while its row waits: no start by itself *)
(* passes the Handoff limit or repeats the task the ticket's last handoff completed and a  *)
(* close ended (observation.ts's top-up, handoff-dispatch.ts's pickup).                    *)
THEOREM HoldsBack == Spec => MachineHoldsBack
  <1>1. ASSUME IInv, [Next]_vars, NEW t \in Tickets, StartsByItself(t)
        PROVE  /\ ticket'[t].starts <= Limit
               /\ ~(/\ trace[t].hand = ticket[t].starts
                    /\ trace[t].cause = "completed" /\ trace[t].decision = "closed"
                    /\ trace[t].task = ticket'[t].task)
    <2>1. Typed /\ Core /\ ticket[t].starts \in Nat
      BY <1>1 DEF IInv, Typed, TicketRecs
    <2>2. row[t].automatic /\ ticket'[t].starts > ticket[t].starts
      BY <1>1 DEF StartsByItself
    <2>3. CASE Next
      <3>1. row[t].task \notin {"none", "merge"} /\ Start(t)
        BY <1>1, <2>2, <2>3, OnlyPickupStarts
      <3>2. ticket'[t].starts = ticket[t].starts + 1 /\ ticket'[t].task = row[t].task
        BY <2>1, <3>1, StartTicket DEF Typed
      <3>3. Asked(t) /\ Capped(t) /\ Varied(t)
        BY <2>1, <2>2, <3>1 DEF Core, Asked
      <3>4. QED
        BY <2>1, <3>2, <3>3, RoutesAssumption DEF Capped, Varied, RoutesAssumption
    <2>4. CASE UNCHANGED vars
      BY <2>1, <2>2, <2>4 DEF vars
    <2>5. QED
      BY <1>1, <2>3, <2>4
  <1>2. IInv /\ [Next]_vars => [\A t \in Tickets :
            StartsByItself(t) =>
                /\ ticket'[t].starts <= Limit
                /\ ~(/\ trace[t].hand = ticket[t].starts
                     /\ trace[t].cause = "completed" /\ trace[t].decision = "closed"
                     /\ trace[t].task = ticket'[t].task)]_vars
    BY <1>1
  <1>3. QED
    BY <1>2, Invariant, PTL DEF Spec, MachineHoldsBack

(* One hand on one work: no implement by itself while the pull request is listed or an     *)
(* agent is on it, no merge under an agent at work, and undisturbed, no first merge over a *)
(* verdict that asked for rework (handoff-dispatch.ts 1927, 1017; workflow.ts 1116).       *)
THEOREM OneHand == Spec => OneHandPerWork
  <1>1. ASSUME IInv, [Next]_vars, StartsByItself(Issue)
        PROVE  ~seen[Pull].on /\ ticket[Pull].state = "open"
    <2>1. Typed /\ Core /\ ticket[Issue].starts \in Nat
      BY <1>1, Pair DEF IInv, Typed, TicketRecs
    <2>2. ticket'[Issue].starts > ticket[Issue].starts
      BY <1>1 DEF StartsByItself
    <2>3. CASE Next
      <3>1. row[Issue].task # "none" /\ Claimable(Issue)
        BY <1>1, <2>2, <2>3, Pair, OnlyPickupStarts
      <3>2. row[Issue].origin = "open"
        BY <2>1, <3>1 DEF Core, Alone
      <3>3. QED
        BY <3>1, <3>2 DEF Claimable, Actionable, Covered, Projected
    <2>4. CASE UNCHANGED vars
      BY <2>1, <2>2, <2>4 DEF vars
    <2>5. QED
      BY <1>1, <2>3, <2>4
  <1>2. ASSUME IInv, [Next]_vars, pull # "merged", pull' = "merged"
        PROVE  /\ ticket[Pull].state # "working"
               /\ spent = 0 /\ attempt = "none" => "needs-work" \notin labels
    <2>1. fires["merge"].pc = "run"
      BY <1>2, OnlyMergeMerges DEF vars, host
    <2>2. QED
      BY <1>2, <2>1 DEF IInv, Core, Alone, Calmly, Calm, Shipped, Again
  <1>3. IInv /\ [Next]_vars => [StartsByItself(Issue) => ~seen[Pull].on /\ ticket[Pull].state = "open"]_vars
    BY <1>1
  <1>4. IInv /\ [Next]_vars => [pull # "merged" /\ pull' = "merged" =>
            /\ ticket[Pull].state # "working"
            /\ spent = 0 /\ attempt = "none" => "needs-work" \notin labels]_vars
    BY <1>2
  <1>5. QED
    BY <1>3, <1>4, Invariant, PTL DEF Spec, OneHandPerWork
================================================================================
