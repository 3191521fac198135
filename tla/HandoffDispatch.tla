----------------------------- MODULE HandoffDispatch ----------------------------
(***************************************************************************)
(* The Handoff dispatch: the pickup passes that walk the Work queue, the   *)
(* one herdr seat their starts share with the environment cleanups, the    *)
(* merges that take no seat, and the hold on a Repository's checkout.      *)
(*                                                                         *)
(* Source: handoff-dispatch.ts, with checkout-hold.ts and parallel.ts; the *)
(* Consultation's claim and settle are consultation-operations.ts.         *)
(*                                                                         *)
(* The process has one thread.  A handler runs to its first await without  *)
(* interruption, and the calls it makes may start a pickup pass in its     *)
(* middle.  "calls" is what is left of the running handler, the next call  *)
(* first; a new event is handled only when it is empty.  What a handler    *)
(* awaits is state: the passes, the runs, the merges, the cleanup.         *)
(*                                                                         *)
(* Abstracted: the choice, the message, the report lines and their         *)
(* once-per-fact bookkeeping; the commands of a start, a merge and a       *)
(* cleanup, which are a success or a failure; time, which is the moment a  *)
(* hold or a wait grows older than the budget.                             *)
(***************************************************************************)
EXTENDS Integers, Sequences, FiniteSets

CONSTANTS
    Tickets, Consultations, \* what a row of the queue may stand for
    Starts,                 \* the ticket rows an ask may enter
    Boots,                  \* the queues a boot may find: sequences of those rows
    Repositories, Repo,     \* the Repository whose checkout a start works
    Limit,                  \* maxParallelAgents, 0 for none
    Passes,                 \* bound: the pickup passes that may walk at once
    MaxAsks,                \* bound: asks
    MaxEvents               \* bound: polls, acts of the operator, budgets that run out,
                            \* agents that go missing

Ids == Tickets \cup Consultations
NoOne == "nobody"

TicketRow == [id : Tickets, source : Tickets, origin : {"open", "workflow", "restart"},
              automatic : BOOLEAN, action : BOOLEAN, worktree : BOOLEAN]
ConsultationRow(c) == [id |-> c, source |-> c, origin |-> "none",
                       automatic |-> FALSE, action |-> FALSE, worktree |-> TRUE]
WaitingRow == Starts \cup {ConsultationRow(c) : c \in Consultations}

ASSUME DispatchAssumption ==
    /\ Tickets \cap Consultations = {} /\ NoOne \notin Ids
    /\ IsFiniteSet(Ids) /\ IsFiniteSet(Repositories)
    /\ Repo \in [Ids -> Repositories]
    /\ Starts \subseteq TicketRow /\ Boots \subseteq Seq(Starts)
    /\ Limit \in Nat /\ Passes \in Nat \ {0, 1}
    /\ MaxAsks \in Nat /\ MaxEvents \in Nat

VARIABLES
    \* the state file
    queue,         \* the Work queue: position -> row
    ticket,        \* the ticket's state
    listed,        \* the tickets some source still lists
    claims,        \* the tickets with an unresolved attempt
    consultation,  \* the Consultation's state
    raced,         \* the tickets a start landed on after their row entered
    missing,       \* the in-flight tickets whose agent the poll does not list
    paused,        \* the queue pause
    \* the module's memory
    passes,        \* the pickup passes: the rows of the lap still to visit
    reask,         \* checkoutReaskWanted
    inFlight,      \* the seat's flag of a handoff
    cleanupQueued, \* the seat's flag of a cleanup
    clearing,      \* a cleanup executes
    cleanupQueue,  \* the cleanups that wait: the ticket to close, or no one
    parked,        \* handoffQueue: the claimed starts that wait for the seat
    runs,          \* the start at work on a ticket, and how its commands ended
    merges,        \* planeActionRunsInFlight
    held,          \* intentOnStarted: the tickets whose ask waits for its answer
    holds,         \* the checkout's holder, by Repository
    waits,         \* the rows that wait for a checkout
    atWork,        \* history: who took a checkout, side and id, and did not let it go
    lapsed,        \* history: those of them whose hold the budget ended
    calls,         \* what is left of the running handler
    spent          \* the bounds' counters

facts == <<ticket, listed, raced, missing>>
starts == <<inFlight, parked, runs>>
cleanups == <<cleanupQueued, clearing, cleanupQueue>>
walk == <<passes, reask>>
checkout == <<holds, waits, atWork, lapsed>>
vars == <<queue, facts, claims, consultation, paused, walk, starts, cleanups,
          merges, held, checkout, calls, spent>>

WQ == INSTANCE WorkQueue WITH topUp <- "none"

Sides == {"handoff", "merge", "consultation"}
NoHold == [side |-> "none", id |-> NoOne, over |-> FALSE]
NoPass == [walks |-> FALSE, rows |-> <<>>, open |-> 0, claimed |-> 0,
           reserved |-> {}, on |-> NoOne]

TypeOK ==
    /\ queue \in [WQ!Positions(queue) -> WaitingRow]
    /\ ticket \in [Tickets -> {"open", "awaiting", "in-flight"}]
    /\ listed \subseteq Tickets /\ claims \subseteq Tickets
    /\ raced \subseteq Tickets /\ missing \subseteq Tickets
    /\ consultation \in [Consultations -> {"idle", "queued", "opening", "working"}]
    /\ {paused, reask, inFlight, cleanupQueued, clearing} \subseteq BOOLEAN
    /\ \A i \in DOMAIN cleanupQueue : cleanupQueue[i] \in Tickets \cup {NoOne}
    /\ \A i \in DOMAIN parked : parked[i].id \in Tickets
    /\ \A p \in 1..Passes : passes[p].on \in Tickets => merges[passes[p].on] # "none"
    /\ runs \in [Tickets -> {"none", "works", "failed", "live"}]
    /\ merges \in [Tickets -> {"none", "runs", "refused"}]
    /\ held \subseteq Tickets /\ lapsed \subseteq atWork /\ atWork \subseteq Sides \X Ids
    /\ holds \in [Repositories ->
                    [side : Sides \cup {"none"}, id : Ids \cup {NoOne}, over : BOOLEAN]]
    /\ waits \in [Ids -> {"none", "waits", "over"}]

Init ==
    /\ queue \in {[p \in 0..(Len(b) - 1) |-> b[p + 1]] : b \in Boots}
    /\ ticket \in [Tickets -> {"open", "awaiting", "in-flight"}]
    /\ listed = Tickets
    /\ claims = {} /\ raced = {} /\ missing = {} /\ held = {}
    /\ atWork = {} /\ lapsed = {}
    /\ consultation = [c \in Consultations |-> "idle"]
    /\ paused = FALSE /\ reask = FALSE
    /\ passes = [p \in 1..Passes |-> NoPass]
    /\ inFlight = FALSE /\ cleanupQueued = FALSE /\ clearing = FALSE
    /\ cleanupQueue = <<>> /\ parked = <<>>
    /\ runs = [t \in Tickets |-> "none"]
    /\ merges = [t \in Tickets |-> "none"]
    /\ holds = [r \in Repositories |-> NoHold]
    /\ waits = [i \in Ids |-> "none"]
    /\ calls = <<>>
    /\ spent = [asks |-> 0, events |-> 0]

--------------------------------------------------------------------------------
(* Calls and passes. *)

Idle == calls = <<>>
Calling(name) == calls # <<>> /\ calls[1].call = name
Call(name, id) == [call |-> name, id |-> id, ok |-> FALSE, side |-> "none", pass |-> 0]
Settle(id, ok) == [Call("settle", id) EXCEPT !.ok = ok]
Release(side, id) == [Call("release", id) EXCEPT !.side = side]
Remaining == Tail(calls)

FreePasses == {p \in 1..Passes : ~passes[p].walks}
NewPass == CHOOSE p \in FreePasses : \A o \in FreePasses : p <= o
Walking == {p \in 1..Passes : passes[p].walks}

(* Bound: an event that starts a pass finds a free one. *)
Room == Cardinality(Walking) < Passes
StartPass == Call("pass", NoOne)

Spend(what) == spent' = [spent EXCEPT ![what] = @ + 1]
Event == spent.events < MaxEvents /\ Spend("events")

RowOf(id) == CHOOSE r \in {queue[p] : p \in WQ!Positions(queue)} : r.id = id
Without(q, id) == WQ!TakeOut(q, {p \in WQ!Positions(q) : q[p].id = id})
Stands(id) == WQ!Holds(queue, id)
Rows == [i \in 1..Cardinality(WQ!Positions(queue)) |-> queue[i - 1]]
Kind(r) == IF r.id \in Consultations THEN "consultation"
           ELSE IF r.action THEN "merge" ELSE "handoff"

Forget(id) == [waits EXCEPT ![id] = "none"]

--------------------------------------------------------------------------------
(* The Parallel limit. *)

SeatCount ==
    Cardinality({t \in Tickets : ticket[t] = "in-flight" /\ t \notin missing} \cup claims)
      + Cardinality({c \in Consultations : consultation[c] \in {"opening", "working"}})

MissingSeats == missing \ claims

OpenSeats(reserved) ==
    IF Limit = 0 THEN Cardinality(WQ!Positions(queue))
    ELSE LET left == Limit - SeatCount - Cardinality(reserved)
         IN IF left < 0 THEN 0 ELSE left

Reserved(pass, r) == Kind(r) = "handoff" /\ r.origin = "restart" /\ r.id \in pass.reserved

(* Fault: the walk trusts the count it took at its head. *)
CapAtHead(pass, r) == Reserved(pass, r) \/ pass.claimed < pass.open

CapAllows(pass, r) ==
    \/ Reserved(pass, r)
    \/ /\ pass.claimed < pass.open
       /\ Limit = 0 \/ SeatCount + Cardinality(pass.reserved) < Limit

--------------------------------------------------------------------------------
(* The checkout hold. *)

HolderStands(h) ==
    CASE h.side = "handoff" -> h.id \in claims
      [] h.side = "merge" -> merges[h.id] # "none"
      [] h.side = "consultation" -> consultation[h.id] = "opening"
      [] OTHER -> FALSE

Works(r) == Kind(r) # "handoff" \/ r.worktree

Keeps(h) == HolderStands(h) /\ ~h.over
Dropped(R) == {<<holds[r].side, holds[r].id>> :
                 r \in {x \in R : HolderStands(holds[x]) /\ holds[x].over}}

(* holderOf: a hold that stands for nothing, or too long, is gone. *)
ReadHolds(R) ==
    /\ holds' = [r \in Repositories |->
                   IF r \in R /\ ~Keeps(holds[r]) THEN NoHold ELSE holds[r]]
    /\ lapsed' = lapsed \cup Dropped(R)
    /\ UNCHANGED atWork

Busy(r) == Works(r) /\ Keeps(holds[Repo[r.id]])

(* The gate reads a free checkout and the claim takes it, in one step. *)
Cross(r) ==
    IF Works(r)
    THEN /\ holds' = [holds EXCEPT ![Repo[r.id]] = [side |-> Kind(r), id |-> r.id, over |-> FALSE]]
         /\ lapsed' = (lapsed \ {<<Kind(r), r.id>>}) \cup Dropped({Repo[r.id]})
         /\ atWork' = atWork \cup {<<Kind(r), r.id>>}
         /\ waits' = Forget(r.id)
    ELSE UNCHANGED checkout

(* The gate reads a free checkout and the start goes no further. *)
Pass(r) ==
    IF Works(r) THEN ReadHolds({Repo[r.id]}) /\ waits' = Forget(r.id)
    ELSE UNCHANGED checkout

(* A row that meets a checkout at work keeps its place. *)
Wait(r) ==
    /\ Busy(r) /\ waits[r.id] # "over"
    /\ waits' = [waits EXCEPT ![r.id] =
                   IF @ = "none" /\ Stands(r.id) THEN "waits" ELSE @]
    /\ UNCHANGED <<holds, atWork, lapsed>>

(* A row that waited past the budget leaves. *)
WaitOver(r) == Busy(r) /\ waits[r.id] = "over"

--------------------------------------------------------------------------------
(* What a row's pickup comes to. *)

HandoffAllowsState(origin, s) ==
    CASE origin = "open" -> s = "open"
      [] origin = "workflow" -> s \in {"open", "awaiting"}
      [] origin = "restart" -> s = "in-flight"

Projected(t) == t \in listed \/ ticket[t] # "open"

Raced(r) == r.origin \in {"restart", "workflow"} /\ ticket[r.id] = "in-flight" /\ r.id \in raced

(* The source's half of the gates, and the fixing pull request, are the sources'. *)
MayBeRefused(r) ==
    \/ Raced(r)
    \/ ~HandoffAllowsState(r.origin, ticket[r.id])
    \/ r.id \in claims
    \/ r.origin = "open"

ClaimPasses(r) ==
    /\ ~Raced(r)
    /\ HandoffAllowsState(r.origin, ticket[r.id])
    /\ r.origin = "open" => r.id \in listed
    /\ r.id \notin claims

SeatHeld == inFlight \/ cleanupQueued

(* Fault: a queued cleanup does not hold the seat. *)
RunOrParkOverCleanup(p) ==
    IF inFlight
    THEN /\ parked' = Append(parked, p)
         /\ UNCHANGED <<inFlight, runs>>
    ELSE /\ inFlight' = TRUE
         /\ runs' = [runs EXCEPT ![p.id] = "works"]
         /\ UNCHANGED parked

(* runClaimedHandoff: the seat is taken, or the claim parks behind it. *)
RunOrPark(p) ==
    IF SeatHeld
    THEN /\ parked' = Append(parked, p)
         /\ UNCHANGED <<inFlight, runs>>
    ELSE /\ inFlight' = TRUE
         /\ runs' = [runs EXCEPT ![p.id] = "works"]
         /\ UNCHANGED parked

Drop(t) == <<Call("remove", t), Call("answer", t)>>

(* A handoff row: it waits, leaves, or is claimed; "rest" is the caller's. *)
ClaimHandoff(r, rest) ==
    \/ /\ Works(r) /\ Wait(r)
       /\ calls' = rest
       /\ UNCHANGED <<claims, parked, inFlight, runs>>
    \/ /\ Works(r) /\ WaitOver(r)
       /\ waits' = Forget(r.id)
       /\ calls' = Drop(r.id) \o rest
       /\ UNCHANGED <<claims, parked, inFlight, runs, holds, atWork, lapsed>>
    \/ /\ ~Busy(r) /\ MayBeRefused(r)
       /\ Pass(r)
       /\ calls' = Drop(r.id) \o rest
       /\ UNCHANGED <<claims, parked, inFlight, runs>>
    \/ /\ ~Busy(r) /\ ClaimPasses(r) /\ Projected(r.id)
       /\ claims' = claims \cup {r.id}
       /\ Cross(r)
       /\ RunOrPark([id |-> r.id, origin |-> r.origin, claimed |-> ticket[r.id]])
       /\ calls' = rest
    \/ /\ ~Busy(r) /\ ClaimPasses(r) /\ ~Projected(r.id)
       /\ claims' = claims \cup {r.id}
       /\ Cross(r)
       /\ calls' = <<Settle(r.id, FALSE), Release("handoff", r.id)>> \o Drop(r.id) \o rest
       /\ UNCHANGED <<parked, inFlight, runs>>

MergeStands(t) == ticket[t] \in {"open", "awaiting"} /\ Projected(t)

(* The merge's claim is the removal of its row: a walk that comes late leaves. *)
ClaimMerge(r, rest) ==
    \/ /\ Wait(r)
       /\ calls' = rest
       /\ UNCHANGED merges
    \/ /\ WaitOver(r)
       /\ waits' = Forget(r.id)
       /\ calls' = Drop(r.id) \o rest
       /\ UNCHANGED <<merges, holds, atWork, lapsed>>
    \/ /\ ~Busy(r) /\ ~Stands(r.id)
       /\ Pass(r)
       /\ calls' = <<Call("remove", r.id)>> \o rest
       /\ UNCHANGED merges
    \/ /\ ~Busy(r) /\ Stands(r.id)
       /\ merges' = [merges EXCEPT ![r.id] =
                       IF MergeStands(r.id) THEN "runs" ELSE "refused"]
       /\ Cross(r)
       /\ calls' = (IF MergeStands(r.id) THEN <<Call("remove", r.id)>> ELSE Drop(r.id)) \o rest

(* pickup of a Consultation: the move to opening is its claim. *)
ClaimConsultation(r, rest) ==
    /\ calls' = rest
    /\ \/ /\ consultation[r.id] = "queued" /\ Wait(r)
          /\ UNCHANGED <<queue, consultation>>
       \/ /\ consultation[r.id] = "queued" /\ WaitOver(r)
          /\ consultation' = [consultation EXCEPT ![r.id] = "idle"]
          /\ queue' = Without(queue, r.id)
          /\ waits' = Forget(r.id)
          /\ UNCHANGED <<holds, atWork, lapsed>>
       \/ /\ consultation[r.id] = "queued" /\ ~Busy(r)
          /\ consultation' = [consultation EXCEPT ![r.id] = "opening"]
          /\ queue' = Without(queue, r.id)
          /\ Cross(r)
       \/ /\ consultation[r.id] # "queued"
          /\ queue' = Without(queue, r.id)
          /\ waits' = Forget(r.id)
          /\ UNCHANGED <<consultation, holds, atWork, lapsed>>

--------------------------------------------------------------------------------
(* A pickup pass. *)

(* The sweeps, the brake and the seat reading at the head of a lap. *)
LapHead(p, rest) ==
    LET reserved == IF Limit = 0 THEN {} ELSE MissingSeats
        open == OpenSeats(reserved)
        mayStart == \/ open > 0
                    \/ \E i \in DOMAIN Rows :
                          \/ Kind(Rows[i]) = "merge"
                          \/ Rows[i].origin = "restart" /\ Rows[i].id \in reserved
        walks == ~paused /\ mayStart
    IN /\ ReadHolds(Repositories)
       /\ waits' = [i \in Ids |-> IF Stands(i) THEN waits[i] ELSE "none"]
       /\ passes' = [passes EXCEPT ![p] =
                       [walks |-> TRUE, on |-> NoOne, claimed |-> 0,
                        rows |-> IF walks THEN Rows ELSE <<>>,
                        open |-> IF walks THEN open ELSE 0,
                        reserved |-> IF walks THEN reserved ELSE {}]]
       /\ calls' = (IF walks /\ Rows # <<>> THEN <<[Call("row", NoOne) EXCEPT !.pass = p]>>
                    ELSE <<>>) \o rest

Visited(p, pass) == passes' = [passes EXCEPT ![p] = [pass EXCEPT !.rows = Tail(@)]]

(* pickupLapStep, to its next await. *)
PassRow(p, rest) ==
    LET pass == passes[p]
        r == Head(pass.rows)
    IN /\ \/ /\ Kind(r) = "merge"
             /\ ClaimMerge(r, rest)
             /\ Visited(p, [pass EXCEPT !.on = IF merges' = merges THEN NoOne ELSE r.id])
             /\ UNCHANGED <<queue, claims, consultation, starts>>
          \/ /\ Kind(r) # "merge" /\ ~CapAllows(pass, r)
             /\ passes' = [passes EXCEPT ![p].rows = <<>>]
             /\ calls' = rest
             /\ UNCHANGED <<queue, claims, consultation, starts, merges, checkout>>
          \/ /\ Kind(r) = "consultation" /\ CapAllows(pass, r)
             /\ ClaimConsultation(r, rest)
             /\ Visited(p, [pass EXCEPT !.claimed = IF atWork' = atWork THEN @ ELSE @ + 1])
             /\ UNCHANGED <<claims, starts, merges>>
          \/ /\ Kind(r) = "handoff" /\ CapAllows(pass, r) /\ r.id \in claims
             /\ Visited(p, pass)
             /\ calls' = rest
             /\ UNCHANGED <<queue, claims, consultation, starts, merges, checkout>>
          \/ /\ Kind(r) = "handoff" /\ CapAllows(pass, r) /\ r.id \notin claims
             /\ ClaimHandoff(r, rest)
             /\ Visited(p, IF starts' = starts THEN pass
                           ELSE IF Reserved(pass, r)
                           THEN [pass EXCEPT !.reserved = @ \ {r.id}]
                           ELSE [pass EXCEPT !.claimed = @ + 1])
             /\ UNCHANGED <<queue, consultation, merges>>
       /\ UNCHANGED <<facts, paused, reask, cleanups, held, spent>>

PassWalks(p) ==
    /\ Idle /\ passes[p].walks /\ passes[p].on = NoOne
    /\ passes[p].rows # <<>>
    /\ PassRow(p, <<>>)

(* A checkout let go during the walk earns the pass one more lap. *)
PassEnds(p) ==
    /\ Idle /\ passes[p].walks /\ passes[p].on = NoOne
    /\ passes[p].rows = <<>>
    /\ reask' = FALSE
    /\ IF reask THEN LapHead(p, <<>>)
       ELSE passes' = [passes EXCEPT ![p] = NoPass] /\ UNCHANGED <<checkout, calls>>
    /\ UNCHANGED <<queue, facts, claims, consultation, paused, starts, cleanups,
                   merges, held, spent>>

--------------------------------------------------------------------------------
(* The calls of a handler. *)

CallPass ==
    /\ Calling("pass")
    /\ LapHead(NewPass, Remaining)
    /\ UNCHANGED <<queue, facts, claims, consultation, paused, reask, starts, cleanups,
                   merges, held, spent>>

CallRow == Calling("row") /\ PassRow(calls[1].pass, Remaining)

ParkedFor(t) == {i \in DOMAIN parked : parked[i].id = t}
Spliced(s, i) == SubSeq(s, 1, i - 1) \o SubSeq(s, i + 1, Len(s))

(* removeQueueRow, and the claim that parked for the row: one, as OneHand says. *)
CallRemove ==
    /\ Calling("remove")
    /\ LET t == calls[1].id
       IN /\ queue' = Without(queue, t)
          /\ waits' = Forget(t)
          /\ IF ParkedFor(t) # {}
             THEN /\ \E i \in ParkedFor(t) : parked' = Spliced(parked, i)
                  /\ claims' = claims \ {t}
                  /\ held' = held \ {t}
                  /\ calls' = <<Release("handoff", t)>> \o Remaining
             ELSE UNCHANGED <<parked, claims, held>> /\ calls' = Remaining
    /\ UNCHANGED <<facts, consultation, paused, walk, inFlight, runs, cleanups, merges,
                   holds, atWork, lapsed, spent>>

(* settleIntentOnStarted; the operator's cancel leaves a live run its own answer. *)
CallAnswer ==
    /\ Calling("answer") \/ Calling("cancelled")
    /\ held' = IF Calling("cancelled") /\ calls[1].id \in claims THEN held
               ELSE held \ {calls[1].id}
    /\ calls' = Remaining
    /\ UNCHANGED <<queue, facts, claims, consultation, paused, walk, starts, cleanups,
                   merges, checkout, spent>>

(* Fault: the release goes by the Repository and not by the holder. *)
HoldsOfRepository(side, id) == {Repo[id]}

HoldsOf(side, id) == {r \in Repositories : holds[r].side = side /\ holds[r].id = id}

(* releaseCheckoutAndReask: the walking pass gets a lap, or a pass starts. *)
CallRelease ==
    /\ Calling("release")
    /\ LET id == calls[1].id
           side == calls[1].side
           mine == HoldsOf(side, id)
           asks == mine # {} /\ \E i \in Ids \ {id} : waits[i] # "none"
       IN /\ holds' = [r \in Repositories |-> IF r \in mine THEN NoHold ELSE holds[r]]
          /\ atWork' = atWork \ {<<side, id>>}
          /\ lapsed' = lapsed \ {<<side, id>>}
          /\ waits' = Forget(id)
          /\ reask' = (reask \/ (asks /\ Walking # {}))
          /\ calls' = (IF asks /\ Walking = {} THEN <<StartPass>> ELSE <<>>) \o Remaining
    /\ UNCHANGED <<queue, facts, claims, consultation, paused, passes, starts, cleanups,
                   merges, held, spent>>

(* settleHandoff: the attempt resolves, and a start that went live moves the ticket. *)
CallSettle ==
    /\ Calling("settle")
    /\ LET t == calls[1].id
           live == t \in claims /\ calls[1].ok
       IN /\ claims' = claims \ {t}
          /\ ticket' = IF live THEN [ticket EXCEPT ![t] = "in-flight"] ELSE ticket
          /\ missing' = IF live THEN missing \ {t} ELSE missing
          /\ raced' = IF live /\ Stands(t) THEN raced \cup {t} ELSE raced
    /\ calls' = Remaining
    /\ UNCHANGED <<queue, listed, consultation, paused, walk, starts, cleanups, merges,
                   held, checkout, spent>>

(* Fault: the seat is free and the starts that wait for it are not read. *)
CallSeatFreeOnly ==
    /\ Calling("seatfree")
    /\ inFlight' = FALSE
    /\ runs' = [runs EXCEPT ![calls[1].id] = "none"]
    /\ calls' = Remaining
    /\ UNCHANGED <<queue, facts, claims, consultation, paused, walk, parked, cleanups,
                   merges, held, checkout, spent>>

CallSeatFree ==
    /\ Calling("seatfree")
    /\ inFlight' = FALSE
    /\ runs' = [runs EXCEPT ![calls[1].id] = "none"]
    /\ calls' = <<Call("drain", NoOne)>> \o Remaining
    /\ UNCHANGED <<queue, facts, claims, consultation, paused, walk, parked, cleanups,
                   merges, held, checkout, spent>>

(* drainCleanupQueue: a close of a turn at work ends it as it starts. *)
CallDrain ==
    /\ Calling("drain")
    /\ IF inFlight \/ clearing
       THEN UNCHANGED <<cleanups, ticket>> /\ calls' = Remaining
       ELSE IF cleanupQueue = <<>>
       THEN /\ cleanupQueued' = FALSE
            /\ UNCHANGED <<clearing, cleanupQueue, ticket>>
            /\ calls' = <<Call("drainParked", NoOne)>> \o Remaining
       ELSE /\ clearing' = TRUE
            /\ cleanupQueue' = Tail(cleanupQueue)
            /\ ticket' = [t \in Tickets |->
                            IF t = Head(cleanupQueue) /\ ticket[t] = "in-flight"
                            THEN "open" ELSE ticket[t]]
            /\ calls' = Remaining
            /\ UNCHANGED cleanupQueued
    /\ missing' = {t \in missing : ticket'[t] = "in-flight"}
    /\ UNCHANGED <<queue, listed, raced, claims, consultation, paused, walk, starts, merges,
                   held, checkout, spent>>

MovedWhileParked(p) ==
    \/ ~HandoffAllowsState(p.origin, ticket[p.id])
    \/ p.origin = "workflow" /\ ticket[p.id] # p.claimed

(* drainHandoffQueue, one parked start: it runs, or its ticket moved and it drops. *)
CallDrainParked ==
    /\ Calling("drainParked")
    /\ \/ /\ SeatHeld \/ parked = <<>>
          /\ calls' = Remaining
          /\ UNCHANGED <<queue, claims, held, waits, starts>>
       \/ /\ ~SeatHeld /\ parked # <<>> /\ ~MovedWhileParked(Head(parked))
          /\ parked' = Tail(parked)
          /\ inFlight' = TRUE
          /\ runs' = [runs EXCEPT ![Head(parked).id] = "works"]
          /\ calls' = Remaining
          /\ UNCHANGED <<queue, claims, held, waits>>
       \/ /\ ~SeatHeld /\ parked # <<>> /\ MovedWhileParked(Head(parked))
          /\ parked' = Tail(parked)
          /\ claims' = claims \ {Head(parked).id}
          /\ calls' = <<Release("handoff", Head(parked).id), Call("dropped", Head(parked).id),
                        Call("drainParked", NoOne)>> \o Remaining
          /\ UNCHANGED <<queue, held, waits, inFlight, runs>>
    /\ UNCHANGED <<facts, consultation, paused, walk, cleanups, merges,
                   holds, atWork, lapsed, spent>>

CallDropped ==
    /\ Calling("dropped")
    /\ queue' = Without(queue, calls[1].id)
    /\ waits' = Forget(calls[1].id)
    /\ held' = held \ {calls[1].id}
    /\ calls' = Remaining
    /\ UNCHANGED <<facts, claims, consultation, paused, walk, starts, cleanups, merges,
                   holds, atWork, lapsed, spent>>

--------------------------------------------------------------------------------
(* The asks. *)

QueueCleanup(t) ==
    /\ cleanupQueued' = TRUE
    /\ cleanupQueue' = Append(cleanupQueue, t)
    /\ UNCHANGED clearing

PassUnlessPaused == IF paused THEN <<>> ELSE <<StartPass>>

(* The row enters and the ask waits for its answer. *)
EnterRow(r) ==
    /\ ~Stands(r.id)
    /\ queue' = WQ!Enter(queue, WQ!EntryPlace(queue, r), r)
    /\ held' = held \cup {r.id}
    /\ raced' = raced \ {r.id}
    /\ waits' = Forget(r.id)
    /\ Spend("asks")

(* The route ends the cycle it continues and closes the environment of that turn. *)
DecideAndClose(r, closes) ==
    /\ ticket' = IF r.origin = "workflow" /\ ticket[r.source] = "awaiting"
                 THEN [ticket EXCEPT ![r.source] = "open"] ELSE ticket
    /\ IF r.origin = "workflow" /\ closes THEN QueueCleanup(NoOne) ELSE UNCHANGED cleanups
    /\ calls' = (IF r.origin = "workflow" /\ closes THEN <<Call("drain", NoOne)>> ELSE <<>>)
                \o PassUnlessPaused

(* dispatch, of a handoff. *)
Dispatch(r) ==
    /\ Idle /\ Room /\ spent.asks < MaxAsks /\ Kind(r) = "handoff"
    /\ HandoffAllowsState(r.origin, ticket[r.id])
    /\ r.origin = "open" => r.id \in listed
    /\ r.id \notin claims
    /\ EnterRow(r)
    /\ DecideAndClose(r, ~r.automatic)
    /\ UNCHANGED <<listed, missing, claims, consultation, paused, walk, starts, merges,
                   holds, atWork, lapsed>>

DispatchPlaneAction(r) ==
    /\ Idle /\ Room /\ spent.asks < MaxAsks /\ Kind(r) = "merge"
    /\ ticket[r.id] \in {"open", "awaiting"}
    /\ merges[r.id] = "none"
    /\ EnterRow(r)
    /\ DecideAndClose(r, TRUE)
    /\ UNCHANGED <<listed, missing, claims, consultation, paused, walk, starts, merges,
                   holds, atWork, lapsed>>

ScheduleConsultation(c) ==
    /\ Idle /\ Room /\ spent.asks < MaxAsks
    /\ consultation[c] = "idle"
    /\ consultation' = [consultation EXCEPT ![c] = "queued"]
    /\ queue' = WQ!Enter(queue, WQ!End(queue), ConsultationRow(c))
    /\ calls' = <<StartPass>>
    /\ Spend("asks")
    /\ UNCHANGED <<facts, claims, paused, walk, starts, cleanups, merges, held, checkout>>

(* The operator opens a Consultation beside the queue: it waits for no checkout. *)
OpenNow(c) ==
    /\ Idle /\ spent.asks < MaxAsks
    /\ consultation[c] = "idle"
    /\ ~Busy(ConsultationRow(c))
    /\ consultation' = [consultation EXCEPT ![c] = "opening"]
    /\ Cross(ConsultationRow(c))
    /\ Spend("asks")
    /\ UNCHANGED <<queue, facts, claims, paused, walk, starts, cleanups, merges, held, calls>>

(* forceDispatchWorkQueueItem: the row's claim, whatever the limit reads. *)
ForceDispatch(id) ==
    /\ Idle /\ Room /\ Stands(id) /\ Event
    /\ LET r == RowOf(id)
       IN \/ /\ Kind(r) = "merge"
             /\ ClaimMerge(r, <<>>)
             /\ UNCHANGED <<queue, claims, consultation, starts>>
          \/ /\ Kind(r) = "consultation"
             /\ ClaimConsultation(r, <<>>)
             /\ UNCHANGED <<claims, starts, merges>>
          \/ /\ Kind(r) = "handoff"
             /\ ClaimHandoff(r, <<>>)
             /\ UNCHANGED <<queue, consultation, merges>>
    /\ UNCHANGED <<facts, paused, walk, cleanups, held>>

--------------------------------------------------------------------------------
(* The rows that leave, and the cycles that end. *)

(* removeQueueItem: the row, the parked claim and the held answer end together. *)
RemoveQueueItem(t) ==
    /\ Idle /\ Stands(t) /\ Event
    /\ calls' = <<Call("remove", t), Call("cancelled", t)>>
    /\ UNCHANGED <<queue, facts, claims, consultation, paused, walk, starts, cleanups,
                   merges, held, checkout>>

RemoveConsultationQueueItem(c) ==
    /\ Idle /\ Stands(c) /\ Event
    /\ queue' = Without(queue, c)
    /\ waits' = Forget(c)
    /\ consultation' = [consultation EXCEPT ![c] = "idle"]
    /\ UNCHANGED <<facts, claims, paused, walk, starts, cleanups, merges, held,
                   holds, atWork, lapsed, calls>>

(* setSourceMuted: the state file drops the row and the module hears nothing. *)
SetSourceMuted(t) ==
    /\ Idle /\ Stands(t) /\ ~RowOf(t).action /\ Event
    /\ queue' = Without(queue, t)
    /\ UNCHANGED <<facts, claims, consultation, paused, walk, starts, cleanups, merges,
                   held, checkout, calls>>

RouteRows(t) == {p \in WQ!Positions(queue) :
                   WQ!Route(queue[p]) /\ (queue[p].id = t \/ queue[p].source = t)}

(* appCloseDecidedCycle: the settled turn's cycle, its routes, its environment. *)
CloseDecidedCycle(t) ==
    /\ Idle /\ ticket[t] = "awaiting" /\ Event
    /\ ticket' = [ticket EXCEPT ![t] = "open"]
    /\ queue' = WQ!TakeOut(queue, RouteRows(t))
    /\ QueueCleanup(NoOne)
    /\ calls' = <<Call("drain", NoOne)>>
    /\ UNCHANGED <<listed, raced, missing, claims, consultation, paused, walk, starts,
                   merges, held, checkout>>

(* closeWorkCycle: the close of a turn at work waits for the seat. *)
CloseWorkCycle(t) ==
    /\ Idle /\ ticket[t] = "in-flight" /\ Event
    /\ QueueCleanup(t)
    /\ calls' = <<Call("drain", NoOne)>>
    /\ UNCHANGED <<queue, facts, claims, consultation, paused, walk, starts, merges,
                   held, checkout>>

SetQueuePaused ==
    /\ Idle /\ Room
    /\ paused' = ~paused
    /\ IF paused THEN UNCHANGED spent ELSE Event
    /\ calls' = IF paused THEN <<StartPass>> ELSE <<>>
    /\ UNCHANGED <<queue, facts, claims, consultation, walk, starts, cleanups, merges,
                   held, checkout>>

--------------------------------------------------------------------------------
(* What the process waits for. *)

PickupWorkQueue ==
    /\ Idle /\ Room /\ Event
    /\ calls' = <<StartPass>>
    /\ UNCHANGED <<queue, facts, claims, consultation, paused, walk, starts, cleanups,
                   merges, held, checkout>>

End(t, ok) == <<Release("handoff", t), Settle(t, ok)>>

(* finishHandoff to its await: the checkout first, then the attempt. *)
StartEnds(t, ok) ==
    /\ Idle /\ runs[t] = "works"
    /\ runs' = [runs EXCEPT ![t] = IF ok THEN "live" ELSE "failed"]
    /\ calls' = End(t, ok)
    /\ UNCHANGED <<queue, facts, claims, consultation, paused, walk, inFlight, parked,
                   cleanups, merges, held, checkout, spent>>

(* The start answers, its row leaves, the seat is free, and the queue is read again. *)
StartReported(t) ==
    /\ Idle /\ Room /\ runs[t] \in {"live", "failed"}
    /\ calls' = <<Call("answer", t)>> \o (IF Stands(t) THEN <<Call("remove", t)>> ELSE <<>>)
                \o <<Call("seatfree", t), StartPass>>
    /\ UNCHANGED <<queue, facts, claims, consultation, paused, walk, starts, cleanups,
                   merges, held, checkout, spent>>

(* failHandoff: the start threw. *)
StartThrows(t) ==
    /\ Idle /\ runs[t] = "works"
    /\ calls' = <<Settle(t, FALSE), Release("handoff", t), Call("answer", t)>>
                \o (IF Stands(t) THEN <<Call("remove", t)>> ELSE <<>>)
                \o <<Call("seatfree", t)>>
    /\ UNCHANGED <<queue, facts, claims, consultation, paused, walk, starts, cleanups,
                   merges, held, checkout, spent>>

CleanupEnds ==
    /\ Idle /\ clearing
    /\ clearing' = FALSE
    /\ calls' = <<Call("drain", NoOne)>>
    /\ UNCHANGED <<queue, facts, claims, consultation, paused, walk, starts, cleanupQueued,
                   cleanupQueue, merges, held, checkout, spent>>

(* Fault: the walks that awaited the merge are not resumed. *)
WakeNobody(t) == passes

(* The walks that await the merge go on when it settles. *)
Wake(t) == [p \in 1..Passes |->
              IF passes[p].on = t THEN [passes[p] EXCEPT !.on = NoOne] ELSE passes[p]]

(* The merge settled: a merged ticket leaves the list, and the mark goes last. *)
MergeEnds(t, merged) ==
    /\ Idle /\ merges[t] # "none" /\ (merged => merges[t] = "runs")
    /\ merges' = [merges EXCEPT ![t] = "none"]
    /\ listed' = IF merged THEN listed \ {t} ELSE listed
    /\ held' = held \ {t}
    /\ passes' = Wake(t)
    /\ calls' = <<Release("merge", t)>>
    /\ UNCHANGED <<queue, ticket, raced, missing, claims, consultation, paused, reask, starts,
                   cleanups, checkout, spent>>

OpeningSettles(c, ok) ==
    /\ Idle /\ consultation[c] = "opening"
    /\ consultation' = [consultation EXCEPT ![c] = IF ok THEN "working" ELSE "idle"]
    /\ calls' = <<Release("consultation", c)>>
    /\ UNCHANGED <<queue, facts, claims, paused, walk, starts, cleanups, merges, held,
                   checkout, spent>>

ConsultationCloses(c) ==
    /\ Idle /\ consultation[c] = "working"
    /\ consultation' = [consultation EXCEPT ![c] = "idle"]
    /\ UNCHANGED <<queue, facts, claims, paused, walk, starts, cleanups, merges, held,
                   checkout, calls, spent>>

(* The poll reads the agents: a turn settles, an agent is missing or back. *)
TurnEnds(t) ==
    /\ Idle /\ ticket[t] = "in-flight"
    /\ ticket' = [ticket EXCEPT ![t] = "awaiting"]
    /\ missing' = missing \ {t}
    /\ UNCHANGED <<queue, listed, raced, claims, consultation, paused, walk, starts, cleanups,
                   merges, held, checkout, calls, spent>>

AgentMissing(t) ==
    /\ Idle /\ ticket[t] = "in-flight"
    /\ IF t \in missing THEN UNCHANGED spent ELSE Event
    /\ missing' = IF t \in missing THEN missing \ {t} ELSE missing \cup {t}
    /\ UNCHANGED <<queue, ticket, listed, raced, claims, consultation, paused, walk, starts,
                   cleanups, merges, held, checkout, calls>>

(* CHECKOUT_WORK_BUDGET_MS is over, for a hold or for a row's wait. *)
BudgetEnds ==
    /\ Idle /\ Event
    /\ \/ \E r \in Repositories :
             /\ holds[r].side # "none" /\ ~holds[r].over
             /\ holds' = [holds EXCEPT ![r].over = TRUE]
             /\ UNCHANGED waits
       \/ \E i \in Ids :
             /\ waits[i] = "waits"
             /\ waits' = [waits EXCEPT ![i] = "over"]
             /\ UNCHANGED holds
    /\ UNCHANGED <<queue, facts, claims, consultation, paused, walk, starts, cleanups,
                   merges, held, atWork, lapsed, calls>>

(* The process dies and boots: the memory is new, the boot settles what it finds. *)
Restart ==
    /\ passes' = [p \in 1..Passes |-> NoPass] /\ reask' = FALSE
    /\ inFlight' = FALSE /\ parked' = <<>> /\ runs' = [t \in Tickets |-> "none"]
    /\ cleanupQueued' = FALSE /\ clearing' = FALSE /\ cleanupQueue' = <<>>
    /\ merges' = [t \in Tickets |-> "none"]
    /\ held' = {} /\ calls' = <<>>
    /\ holds' = [r \in Repositories |-> NoHold]
    /\ waits' = [i \in Ids |-> "none"]
    /\ atWork' = {} /\ lapsed' = {}
    /\ claims' = {}
    /\ consultation' = [c \in Consultations |->
                          IF consultation[c] = "opening" THEN "idle" ELSE consultation[c]]
    /\ UNCHANGED <<queue, facts, paused, spent>>

--------------------------------------------------------------------------------
Handler ==
    \/ CallPass \/ CallRow \/ CallRemove \/ CallAnswer \/ CallRelease \/ CallSettle
    \/ CallSeatFree \/ CallDrain \/ CallDrainParked \/ CallDropped

Walk == \E p \in 1..Passes : PassWalks(p) \/ PassEnds(p)

Asks ==
    \/ \E r \in Starts : Dispatch(r) \/ DispatchPlaneAction(r)
    \/ \E c \in Consultations : ScheduleConsultation(c) \/ OpenNow(c)
    \/ \E id \in Ids : ForceDispatch(id)

Ends ==
    \/ \E t \in Tickets : RemoveQueueItem(t) \/ SetSourceMuted(t)
    \/ \E c \in Consultations : RemoveConsultationQueueItem(c)
    \/ \E t \in Tickets : CloseDecidedCycle(t) \/ CloseWorkCycle(t)
    \/ SetQueuePaused

Answers ==
    \/ \E t \in Tickets :
          \/ \E ok \in BOOLEAN : StartEnds(t, ok) \/ MergeEnds(t, ok)
          \/ StartReported(t)
          \/ StartThrows(t)
    \/ CleanupEnds
    \/ \E c \in Consultations : \E ok \in BOOLEAN : OpeningSettles(c, ok)

World ==
    \/ PickupWorkQueue
    \/ \E c \in Consultations : ConsultationCloses(c)
    \/ \E t \in Tickets : TurnEnds(t) \/ AgentMissing(t)
    \/ BudgetEnds
    \/ Restart

Next == Handler \/ Walk \/ Asks \/ Ends \/ Answers \/ World

Spec == Init /\ [][Next]_vars

(* The loop does not stop while a handler, a walk or a command has a step to take:    *)
(* every command ends, by itself or by its timeout.  The asks and the events are      *)
(* bounded, so the one condition leaves none of them out; nobody has to ask or to     *)
(* poll, and no opening of a Consultation has to settle.                              *)
Progress ==
    \/ Handler
    \/ Walk
    \/ CleanupEnds
    \/ \E t \in Tickets :
          \/ \E ok \in BOOLEAN : StartEnds(t, ok) \/ MergeEnds(t, ok)
          \/ StartReported(t)

FairSpec == Spec /\ WF_vars(Progress)

--------------------------------------------------------------------------------
(* Safety. *)

(* herdr is changed by one hand: at most one start runs its commands, and none while *)
(* a cleanup closes an environment, however the starts and the cleanups queued.  And  *)
(* every unresolved attempt is owned by the start at work or by one that is parked,   *)
(* once: no handler ends with a claim nobody will settle, or with a start whose claim *)
(* was settled under it.                                                              *)
OneHand ==
    /\ Cardinality({t \in Tickets : runs[t] # "none"} \cup
                   (IF clearing THEN {NoOne} ELSE {})) <= 1
    /\ inFlight <=> \E t \in Tickets : runs[t] # "none"
    /\ Idle =>
         /\ claims = {parked[i].id : i \in DOMAIN parked}
                       \cup {t \in Tickets : runs[t] = "works"}
         /\ \A i, j \in DOMAIN parked : parked[i].id = parked[j].id => i = j

(* Two starts work one Repository's checkout only when the budget took the hold from *)
(* one of them, and nobody frees a checkout that another start holds.                *)
CheckoutAlone ==
    \A v, w \in atWork \ lapsed : Repo[v[2]] = Repo[w[2]] => v = w

(* A seat that is free at the head of a lap may be taken before its row is reached:  *)
(* the start a walk makes on a free seat never crosses the limit.                    *)
PickupWithinLimit ==
    [][(\E p \in 1..Passes : passes'[p].claimed > passes[p].claimed /\ passes'[p].walks)
        => Limit = 0 \/ SeatCount' <= Limit]_vars

--------------------------------------------------------------------------------
(* Liveness. *)

(* Once nobody asks any more the dispatch comes to rest: every claim settles, parked or *)
(* at work, whatever was closed and cancelled meanwhile, the laps of a pass end, and no *)
(* flag keeps the seat.                                                                 *)
AtRest == /\ claims = {} /\ Walking = {} /\ ~SeatHeld /\ ~clearing
          /\ \A t \in Tickets : runs[t] = "none" /\ merges[t] = "none"
ComesToRest == []<>AtRest

================================================================================
