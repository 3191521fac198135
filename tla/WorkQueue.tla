------------------------------- MODULE WorkQueue --------------------------------
(***************************************************************************)
(* The work_queue table: the starts that wait for a seat, in an order kept *)
(* as integer positions, the table's primary key.                          *)
(*                                                                         *)
(* Source: state/work-queue.ts for the table; observation.ts for the two   *)
(* top-up walks, which read the queue once and await their asks before a   *)
(* row enters; handoff-dispatch.ts, components/app.ts and                  *)
(* state/source-fact.ts for who takes rows out.                            *)
(*                                                                         *)
(* A call is one SQLite transaction, hence one step.  The queue is the     *)
(* table: a function from the positions in use to the rows they hold.      *)
(*                                                                         *)
(* Abstracted: the choice, the message and the time a row carries; a route *)
(* that continues the row's own ticket has that ticket as its source.  The *)
(* mark a cancel leaves on the source's trace is a write of the trace's    *)
(* table, not of this one.                                                 *)
(***************************************************************************)
EXTENDS Integers, FiniteSets

CONSTANTS
    Tickets,      \* the tickets a start may be asked for
    Consultations \* the Consultations that may be scheduled

ASSUME DisjointAssumption == Tickets \cap Consultations = {}

VARIABLES
    queue, \* work_queue: position -> row
    topUp  \* what the walk that awaits its ask read: no route row, no row at all

vars == <<queue, topUp>>

Origins == {"open", "workflow", "restart"}

WorkRow == [id : Tickets, source : Tickets, origin : Origins,
            automatic : BOOLEAN, action : BOOLEAN]
ConsultationRow == [id : Consultations, source : Consultations, origin : {"none"},
                    automatic : {FALSE}, action : {FALSE}]
Row == WorkRow \cup ConsultationRow

Positions(q) == DOMAIN q
Readings == {"none", "no-route", "empty"}

(* The positions in use are 0 to n - 1 whatever enters and leaves between, so no  *)
(* shift of an entry and no swap of a move ever lands on a place another row has. *)
TypeOK ==
    /\ Positions(queue) = 0..(Cardinality(Positions(queue)) - 1)
    /\ queue \in [Positions(queue) -> Row]
    /\ topUp \in Readings

Init ==
    /\ queue = [p \in {} |-> 0]
    /\ topUp = "none"

--------------------------------------------------------------------------------
(* The table. *)

Holds(q, id) == \E p \in Positions(q) : q[p].id = id
Route(r) == r.origin = "workflow"
Owed(r) == Route(r) /\ r.automatic

Least(S) == CHOOSE p \in S : \A o \in S : p <= o
Greatest(S) == CHOOSE p \in S : \A o \in S : o <= p

End(q) == IF Positions(q) = {} THEN 0 ELSE Greatest(Positions(q)) + 1

(* Fault: every row enters at the end. *)
EntryAtEnd(q, r) == End(q)

(* workQueuePosition: the rows the new one enters ahead of, and its place. *)
EntryPlace(q, r) ==
    LET behind == {p \in Positions(q) :
                      \/ r.automatic /\ r.origin = "workflow" /\ ~Route(q[p])
                      \/ r.automatic /\ r.origin = "restart" /\ ~Owed(q[p])}
    IN IF behind = {} THEN End(q) ELSE Least(behind)

(* The rows from the place up move one place later. *)
Enter(q, place, r) ==
    LET before == {p \in Positions(q) : p < place}
        later == {p + 1 : p \in Positions(q) \ before}
    IN [p \in before \cup {place} \cup later |->
          IF p < place THEN q[p] ELSE IF p = place THEN r ELSE q[p - 1]]

Kept(q, S) == [p \in Positions(q) \ S |-> q[p]]

(* repackWorkQueuePositions: the rows keep their order, from place 0 on. *)
Repack(q) ==
    LET rank(p) == Cardinality({o \in Positions(q) : o < p})
    IN [i \in 0..(Cardinality(Positions(q)) - 1) |->
          q[CHOOSE p \in Positions(q) : rank(p) = i]]

(* Fault: the rows that stay keep their positions. *)
TakeOutOnly(q, S) == Kept(q, S)

TakeOut(q, S) == Repack(Kept(q, S))

--------------------------------------------------------------------------------
(* Who puts rows in. *)

Enqueue(r) ==
    /\ ~Holds(queue, r.id)
    /\ queue' = Enter(queue, EntryPlace(queue, r), r)

(* The operator's asks, at any time. *)
OperatorEnqueue(r) ==
    /\ r \in WorkRow /\ ~r.automatic
    /\ r.source = r.id \/ Route(r)
    /\ Enqueue(r)
    /\ UNCHANGED topUp

(* Fault: the walk does not look for what waits. *)
TopUpLooksAway(reading) == topUp = "none" /\ topUp' = reading /\ UNCHANGED queue

(* The walks of one cycle run one after another; each reads the queue once. *)
TopUpReads(reading) ==
    /\ topUp = "none"
    /\ reading = "no-route" => \A p \in Positions(queue) : ~Route(queue[p])
    /\ reading = "empty" => Positions(queue) = {}
    /\ topUp' = reading
    /\ UNCHANGED queue

TopUpContinuation(r) ==
    /\ topUp = "no-route"
    /\ r \in WorkRow /\ Owed(r)
    /\ Enqueue(r)
    /\ topUp' = "none"

TopUpOpen(r) ==
    /\ topUp = "empty"
    /\ r \in WorkRow /\ r.automatic /\ r.origin = "open" /\ r.source = r.id
    /\ Enqueue(r)
    /\ topUp' = "none"

(* The restart is the one fresh add a standing row does not hold. *)
TopUpRestart(r) ==
    /\ topUp # "no-route"
    /\ r \in WorkRow /\ r.automatic /\ r.origin = "restart" /\ r.source = r.id /\ ~r.action
    /\ Enqueue(r)
    /\ topUp' = "none"

TopUpAddsNothing == topUp # "none" /\ topUp' = "none" /\ UNCHANGED queue

Schedule(c) ==
    /\ ~Holds(queue, c)
    /\ queue' = Enter(queue, End(queue),
                      [id |-> c, source |-> c, origin |-> "none",
                       automatic |-> FALSE, action |-> FALSE])
    /\ UNCHANGED topUp

--------------------------------------------------------------------------------
(* Who takes rows out. *)

RowsOf(P(_)) == {p \in Positions(queue) : P(queue[p])}

(* The claim, the drop and the cancel of a ticket's row. *)
RemoveWorkItem(t) ==
    /\ Holds(queue, t)
    /\ queue' = TakeOut(queue, RowsOf(LAMBDA r : r.id = t))
    /\ UNCHANGED topUp

(* The operator closed the decided turn: the routes from it and onto it go. *)
RemoveWorkflowRouteItem(t) ==
    /\ RowsOf(LAMBDA r : Route(r) /\ (r.id = t \/ r.source = t)) # {}
    /\ queue' = TakeOut(queue, RowsOf(LAMBDA r : Route(r) /\ (r.id = t \/ r.source = t)))
    /\ UNCHANGED topUp

(* A source is muted: the waiting handoffs of its tickets go, the actions stay. *)
RemoveHandoffItemsForTickets(T) ==
    /\ RowsOf(LAMBDA r : r.id \in T /\ ~r.action) # {}
    /\ queue' = TakeOut(queue, RowsOf(LAMBDA r : r.id \in T /\ ~r.action))
    /\ UNCHANGED topUp

DropConsultation(c) ==
    /\ Holds(queue, c)
    /\ queue' = TakeOut(queue, RowsOf(LAMBDA r : r.id = c))
    /\ UNCHANGED topUp

(* The row and its neighbour swap places, through a spare position. *)
MoveWorkItem(id, direction) ==
    \E p, o \in Positions(queue) :
        /\ queue[p].id = id
        /\ IF direction = "up" THEN o < p ELSE p < o
        /\ ~\E n \in Positions(queue) : (o < n /\ n < p) \/ (p < n /\ n < o)
        /\ queue' = [queue EXCEPT ![p] = queue[o], ![o] = queue[p]]
        /\ UNCHANGED topUp

(* The process ends and boots: the table stands, the walk is memory. *)
Restart == topUp' = "none" /\ UNCHANGED queue

--------------------------------------------------------------------------------
Joins ==
    \/ \E r \in WorkRow :
          \/ OperatorEnqueue(r)
          \/ TopUpContinuation(r)
          \/ TopUpOpen(r)
          \/ TopUpRestart(r)
    \/ \E c \in Consultations : Schedule(c)

Leaves ==
    \/ \E t \in Tickets : RemoveWorkItem(t) \/ RemoveWorkflowRouteItem(t)
    \/ \E T \in SUBSET Tickets : RemoveHandoffItemsForTickets(T)
    \/ \E c \in Consultations : DropConsultation(c)

Next ==
    \/ Joins
    \/ Leaves
    \/ \E id \in Tickets \cup Consultations, d \in {"up", "down"} : MoveWorkItem(id, d)
    \/ \E reading \in Readings \ {"none"} : TopUpReads(reading)
    \/ TopUpAddsNothing
    \/ Restart

Spec == Init /\ [][Next]_vars

--------------------------------------------------------------------------------
(* Safety. *)

(* Nothing waits twice: a ticket or a Consultation has one row, and though the    *)
(* walk's reading may be stale when its row enters, no second continuation stands *)
(* beside the one the factory owes, nor a second automatic open start.            *)
NothingWaitsTwice ==
    \A p, o \in Positions(queue) :
        \/ queue[p].id = queue[o].id
        \/ /\ queue[p].automatic /\ queue[o].automatic
           /\ queue[p].origin = queue[o].origin /\ queue[p].origin # "restart"
        => p = o

(* The table implements the line: a row joins where its origin lets it, leaving   *)
(* moves nobody, and only the operator's key makes two neighbours change places.  *)
Line == INSTANCE WaitingLine WITH
    Rows <- Row,
    waiting <- {queue[p] : p \in Positions(queue)},
    ahead <- {<<queue[pp[1]].id, queue[pp[2]].id>> :
                pp \in {po \in Positions(queue) \X Positions(queue) : po[1] < po[2]}}
ImplementsWaitingLine == Line!Spec
================================================================================
