------------------------------ MODULE TicketCycle ------------------------------
(***************************************************************************)
(* The work cycle of a ticket, over the tables the state layer writes and  *)
(* the three actors that write them: the dispatch (claims and starts), the *)
(* observation loop (settles, resumes, closes, reclaims) and the operator. *)
(*                                                                         *)
(* Source: state/ticket-work-cycle.ts and state/handoff.ts for the writes, *)
(* handoff-dispatch.ts for the start, observation.ts for the walks,        *)
(* components/app.ts for the operator, startup.ts for the boot.            *)
(*                                                                         *)
(* Every state-layer call is one SQLite write transaction, hence one step. *)
(* The observation loop awaits between the rows of a walk, so a walk is a  *)
(* snapshot (walk.rows) whose rows are handled one by one while the other  *)
(* actors go on: a row may be stale when the loop reaches it.              *)
(*                                                                         *)
(* Abstracted: messages, turn logs and agent settings; the two words of a  *)
(* decision that differ only in who took it (closed and auto-closed,       *)
(* handed-off, merged and their auto- forms) are one value; a settled turn *)
(* is completed or failed, and a turn abandoned before it settled carries  *)
(* no cause. The ticket's pane and name are taken as read correctly, the   *)
(* source that lists it as healthy, and the clock of the starts as one     *)
(* that never steps back; the clock of the settles may.                    *)
(***************************************************************************)
EXTENDS Integers, Sequences, FiniteSets

CONSTANTS
    Tickets,      \* the tickets the sources list
    Stamps,       \* the wall-clock times a trace may carry, in any order
    HandoffLimit, \* maxHandoffsPerTicket: attempts after which a missing agent is abandoned
    MaxAttempts,  \* bound: rows of handoff_attempts
    MaxTraces     \* bound: rows of completion_traces

ASSUME StampsAssumption == Stamps \subseteq Int
ASSUME LimitAssumption == HandoffLimit \in Nat
ASSUME BoundsAssumption == MaxAttempts \in Nat /\ MaxTraces \in Nat

VARIABLES
    state,    \* tickets.state
    cycle,    \* tickets.work_cycle
    attempts, \* handoff_attempts in row order; the started ones are the handoffs rows
    traces,   \* completion_traces in row order
    seat,     \* the attempt whose start runs on the herdr seat, 0 when none does
    walk      \* the observation loop: its walk, the rows still to handle in it, and
              \* the tickets it wrote that the operator's screen did not read yet

vars == <<state, cycle, attempts, traces, seat, walk>>

States == {"open", "handed-off", "running", "awaiting"}
InFlight == {"handed-off", "running"}
Origins == {"open", "workflow", "restart"}
Stages == {"claimed", "agent-started", "failed", "reclaimed"}
Causes == {"completed", "failed"}
Decisions == {"closed", "abandoned", "handed-off", "superseded"}
CycleEnds == {"closed", "abandoned"}
Walks == {"idle", "in-flight", "resumed", "awaiting"}

NoWalk == [kind |-> "idle", rows |-> {}, unread |-> {}]

Attempt == [ticket : Tickets, cycle : Nat \ {0}, origin : Origins,
            claimedState : States, stage : Stages]
Trace == [handoff : Nat \ {0}, ticket : Tickets, cycle : Nat \ {0}, at : Stamps,
          cause : Causes \cup {"none"}, decision : Decisions \cup {"none"},
          reread : BOOLEAN]

TypeOK ==
    /\ state \in [Tickets -> States]
    /\ cycle \in [Tickets -> Nat \ {0}]
    /\ attempts \in Seq(Attempt)
    /\ traces \in Seq(Trace)
    /\ seat \in 0..Len(attempts)
    /\ walk \in [kind : Walks, rows : SUBSET (1..Len(attempts)), unread : SUBSET Tickets]

Init ==
    /\ state = [t \in Tickets |-> "open"]
    /\ cycle = [t \in Tickets |-> 1]
    /\ attempts = <<>>
    /\ traces = <<>>
    /\ seat = 0
    /\ walk = NoWalk

--------------------------------------------------------------------------------
(* What the tables say. *)

Unresolved(a) == attempts[a].stage = "claimed"
HasUnresolvedAttempt(t) ==
    \E a \in DOMAIN attempts : attempts[a].ticket = t /\ Unresolved(a)
HandoffCount(t) == Cardinality({a \in DOMAIN attempts : attempts[a].ticket = t})

(* The claims that wait behind the seat: handoffQueue. *)
Parked == {a \in DOMAIN attempts : Unresolved(a) /\ a # seat}

IsHandoff(h) == attempts[h].stage \in {"agent-started", "reclaimed"}
IsNewestHandoff(h) ==
    /\ IsHandoff(h)
    /\ \A g \in DOMAIN attempts :
          IsHandoff(g) /\ attempts[g].ticket = attempts[h].ticket => g <= h
NewestHandoffs(S) == {h \in DOMAIN attempts : IsNewestHandoff(h) /\ attempts[h].ticket \in S}

Undecided(i) == traces[i].decision = "none"

(* Fault: the decision's update without its decision IS NULL. *)
TracesOf(h) == {i \in DOMAIN traces : traces[i].handoff = h}

Pending(h) == {i \in DOMAIN traces : traces[i].handoff = h /\ Undecided(i)}

(* completed_at, then the row: the one order every read of a newest trace takes. *)
Before(tr, i, j) == tr[i].at < tr[j].at \/ (tr[i].at = tr[j].at /\ i < j)
IsNewest(tr, i) ==
    \A j \in DOMAIN tr : tr[j].ticket = tr[i].ticket /\ j # i => Before(tr, j, i)

(* Every source of the ticket was read since the decision that ended the last *)
(* cycle; a cycle that left no such trace asks for nothing.                    *)
ReverifiedSinceCycleEnd(t) ==
    \A i \in DOMAIN traces :
        /\ traces[i].ticket = t
        /\ traces[i].decision \in CycleEnds
        /\ traces[i].cycle = cycle[t] - 1
        => traces[i].reread

StateAllows(o, s) ==
    CASE o = "open" -> s = "open"
      [] o = "workflow" -> s \in {"open", "awaiting"}
      [] o = "restart" -> s \in InFlight

(* Fault: a claim that does not look for an attempt under way. *)
GatesWithoutAttempt(t, o) ==
    StateAllows(o, state[t]) /\ (o = "open" => ReverifiedSinceCycleEnd(t))

HandoffGates(t, o) ==
    /\ StateAllows(o, state[t])
    /\ o = "open" => ReverifiedSinceCycleEnd(t)
    /\ ~HasUnresolvedAttempt(t)

--------------------------------------------------------------------------------
(* The writes the actors share. *)

(* Faults: an end that restarts the count, and an end that forgets it. *)
EndAndRestartCount(t) ==
    state' = [state EXCEPT ![t] = "open"] /\ cycle' = [cycle EXCEPT ![t] = 0]
EndWithoutCount(t) ==
    state' = [state EXCEPT ![t] = "open"] /\ UNCHANGED cycle

EndCycle(t) ==
    /\ state' = [state EXCEPT ![t] = "open"]
    /\ cycle' = [cycle EXCEPT ![t] = @ + 1]

(* Fault: the move's update without its state guard. *)
MoveAnyState(t, from, s) == state' = [state EXCEPT ![t] = s]

MoveTo(t, from, s) ==
    state' = [state EXCEPT ![t] = IF @ \in from THEN s ELSE @]

Resolve(a, stage) == attempts' = [attempts EXCEPT ![a].stage = stage]

(* The write of a settled turn: the pending trace of the handoff refreshed, or *)
(* a new one in the cycle the handoff was claimed in.                          *)
SettledTraces(t, h, cause, at) ==
    IF Pending(h) # {}
    THEN [i \in DOMAIN traces |->
            IF i \in Pending(h) THEN [traces[i] EXCEPT !.at = at, !.cause = cause]
                                ELSE traces[i]]
    ELSE Append(traces, [handoff |-> h, ticket |-> t, cycle |-> attempts[h].cycle,
                         at |-> at, cause |-> cause, decision |-> "none",
                         reread |-> TRUE])

(* Fault: the settle leaves the turns it supersedes undecided. *)
KeepUndecided(tr, t) == tr

(* decideSupersededTraces: the settle decides what is no longer the newest. *)
Supersede(tr, t) ==
    [i \in DOMAIN tr |->
        IF tr[i].ticket = t /\ tr[i].decision = "none" /\ ~IsNewest(tr, i)
        THEN [tr[i] EXCEPT !.decision = "superseded"]
        ELSE tr[i]]

SettleTurn(t, h, cause, at) ==
    /\ Pending(h) # {} \/ Len(traces) < MaxTraces
    /\ MoveTo(t, InFlight, "awaiting")
    /\ traces' = Supersede(SettledTraces(t, h, cause, at), t)

DecidePending(t, h, d) ==
    /\ Pending(h) # {}
    /\ traces' = [i \in DOMAIN traces |->
                    IF i \in Pending(h)
                    THEN [traces[i] EXCEPT !.decision = d, !.reread = d \notin CycleEnds]
                    ELSE traces[i]]
    /\ IF d \in CycleEnds \/ state[t] = "awaiting"
       THEN EndCycle(t)
       ELSE UNCHANGED <<state, cycle>>

(* A close on a turn that already decided: the cycle ends, the decision stands. *)
CloseDecided(t, h) ==
    /\ Pending(h) = {}
    /\ state[t] = "awaiting"
    /\ EndCycle(t)
    /\ UNCHANGED traces

(* An abandon over a turn that never settled, once per handoff. *)
AbandonUnsettled(t, h, at) ==
    /\ Pending(h) = {}
    /\ ~\E i \in DOMAIN traces : traces[i].handoff = h /\ traces[i].decision = "abandoned"
    /\ Len(traces) < MaxTraces
    /\ traces' = Append(traces, [handoff |-> h, ticket |-> t, cycle |-> attempts[h].cycle,
                                 at |-> at, cause |-> "none", decision |-> "abandoned",
                                 reread |-> FALSE])
    /\ EndCycle(t)

ApplyClose(t, h) == DecidePending(t, h, "closed") \/ CloseDecided(t, h)
ApplyAbandon(t, h, at) == DecidePending(t, h, "abandoned") \/ AbandonUnsettled(t, h, at)

--------------------------------------------------------------------------------
(* The screen of the operator. *)

Row(h) == attempts[h].ticket

(* The screen is read again when the loop's walks end and at each operation: in *)
(* between, a ticket the loop wrote still shows the state it had.               *)
Shows(t, h, S) == IsNewestHandoff(h) /\ Row(h) = t /\ (state[t] \in S \/ t \in walk.unread)
ScreenRead == walk' = [walk EXCEPT !.unread = {}]

--------------------------------------------------------------------------------
(* The dispatch: claim, the seat, the start. *)

Claim(t, o) ==
    /\ Len(attempts) < MaxAttempts
    /\ HandoffGates(t, o)
    /\ attempts' = Append(attempts, [ticket |-> t, cycle |-> cycle[t], origin |-> o,
                                     claimedState |-> state[t], stage |-> "claimed"])
    /\ UNCHANGED <<state, cycle, traces, seat, walk>>

(* The seat's re-check of a parked claim: the ticket's state, and for a route *)
(* the very state the claim was made on.                                      *)
StillWaits(a) ==
    /\ StateAllows(attempts[a].origin, state[attempts[a].ticket])
    /\ attempts[a].origin = "workflow"
          => state[attempts[a].ticket] = attempts[a].claimedState

FirstParked(a) == a \in Parked /\ \A b \in Parked : a <= b

TakeSeat(a) ==
    /\ seat = 0
    /\ FirstParked(a)
    /\ StillWaits(a)
    /\ seat' = a
    /\ UNCHANGED <<state, cycle, attempts, traces, walk>>

DropMovedOn(a) ==
    /\ seat = 0
    /\ FirstParked(a)
    /\ ~StillWaits(a)
    /\ Resolve(a, "failed")
    /\ UNCHANGED <<state, cycle, traces, seat, walk>>

CancelParked(a) ==
    /\ a \in Parked
    /\ Resolve(a, "failed")
    /\ UNCHANGED <<state, cycle, traces, seat, walk>>

StartLands(a) ==
    /\ seat = a
    /\ Unresolved(a)
    /\ Resolve(a, "agent-started")
    /\ MoveTo(attempts[a].ticket, {"open", "awaiting"}, "handed-off")
    /\ seat' = 0
    /\ ScreenRead
    /\ UNCHANGED <<cycle, traces>>

StartFails(a) ==
    /\ seat = a
    /\ Unresolved(a)
    /\ Resolve(a, "failed")
    /\ seat' = 0
    /\ ScreenRead
    /\ UNCHANGED <<state, cycle, traces>>

(* The route's ask lands its decision on the source's newest handoff at once. *)
RouteAsk(src, tgt) ==
    /\ state[src] \in {"open", "awaiting"}
    /\ state[tgt] \in {"open", "awaiting"}
    /\ \E h \in NewestHandoffs({src}) : DecidePending(src, h, "handed-off")
    /\ UNCHANGED <<attempts, seat, walk>>

--------------------------------------------------------------------------------
(* The observation loop. *)

InState(S) == {t \in Tickets : state[t] \in S}
Begin(kind, S) ==
    walk' = [walk EXCEPT !.kind = kind, !.rows = NewestHandoffs(InState(S))]
Passed(h) == walk' = [walk EXCEPT !.rows = @ \ {h}]
Handled(h) == walk' = [walk EXCEPT !.rows = @ \ {h}, !.unread = @ \cup {Row(h)}]

BeginInFlightWalk ==
    /\ walk.kind = "idle"
    /\ Begin("in-flight", InFlight)
    /\ UNCHANGED <<state, cycle, attempts, traces, seat>>

InWalk(kind, h) == walk.kind = kind /\ h \in walk.rows

MarkRunning(h) ==
    /\ InWalk("in-flight", h)
    /\ MoveTo(Row(h), {"handed-off"}, "running")
    /\ Handled(h)
    /\ UNCHANGED <<cycle, attempts, traces, seat>>

ObserveSettle(h, cause, at) ==
    /\ InWalk("in-flight", h)
    /\ SettleTurn(Row(h), h, cause, at)
    /\ Handled(h)
    /\ UNCHANGED <<cycle, attempts, seat>>

(* A missing agent at the handoff limit is abandoned by the auto mode. *)
ObserveAbandon(h, at) ==
    /\ InWalk("in-flight", h)
    /\ HandoffCount(Row(h)) >= HandoffLimit
    /\ ApplyAbandon(Row(h), h, at)
    /\ Handled(h)
    /\ UNCHANGED <<attempts, seat>>

LeaveRow(h) ==
    /\ h \in walk.rows
    /\ Passed(h)
    /\ UNCHANGED <<state, cycle, attempts, traces, seat>>

(* The agents that work again on a pending turn: one walk, no await in it. *)
ResumeAwaitingTurns(W) ==
    /\ walk.kind = "in-flight" /\ walk.rows = {}
    /\ \A t \in W : state[t] = "awaiting" /\ \E h \in NewestHandoffs({t}) : Pending(h) # {}
    /\ state' = [t \in Tickets |-> IF t \in W THEN "running" ELSE state[t]]
    /\ walk' = [walk EXCEPT !.kind = "resumed", !.unread = @ \cup W]
    /\ UNCHANGED <<cycle, attempts, traces, seat>>

BeginAwaitingWalk ==
    /\ walk.kind = "resumed"
    /\ Begin("awaiting", {"awaiting"})
    /\ UNCHANGED <<state, cycle, attempts, traces, seat>>

(* The automatic rule reads the newest trace now and decides the snapshot's handoff. *)
AutoClose(h) ==
    /\ InWalk("awaiting", h)
    /\ \A i \in DOMAIN traces :
          traces[i].ticket = Row(h) /\ IsNewest(traces, i)
             => Undecided(i) /\ traces[i].cause # "failed"
    /\ ApplyClose(Row(h), h)
    /\ Handled(h)
    /\ UNCHANGED <<attempts, seat>>

(* A routed ticket keeps its pane: its newest trace wears the route's decision. *)
Routed(t) ==
    \E i \in DOMAIN traces :
        traces[i].ticket = t /\ IsNewest(traces, i) /\ traces[i].decision = "handed-off"

Reclaim(t) ==
    /\ walk.kind = "idle"
    /\ Len(attempts) < MaxAttempts
    /\ state[t] = "open"
    /\ NewestHandoffs({t}) # {}
    /\ ~Routed(t)
    /\ ~HasUnresolvedAttempt(t)
    /\ MoveTo(t, {"open"}, "running")
    /\ attempts' = Append(attempts, [ticket |-> t, cycle |-> cycle[t], origin |-> "open",
                                     claimedState |-> "open", stage |-> "reclaimed"])
    /\ walk' = [walk EXCEPT !.unread = @ \cup {t}]
    /\ UNCHANGED <<cycle, traces, seat>>

EndWalks ==
    /\ walk.kind = "awaiting" /\ walk.rows = {}
    /\ walk' = NoWalk
    /\ UNCHANGED <<state, cycle, attempts, traces, seat>>

--------------------------------------------------------------------------------
(* The operator, the sources and the process. *)

OperatorClose(t) ==
    /\ \E h \in DOMAIN attempts : Shows(t, h, {"awaiting"}) /\ ApplyClose(t, h)
    /\ ScreenRead
    /\ UNCHANGED <<attempts, seat>>

OperatorAbandon(t, at) ==
    /\ \E h \in DOMAIN attempts : Shows(t, h, InFlight) /\ ApplyAbandon(t, h, at)
    /\ ScreenRead
    /\ UNCHANGED <<attempts, seat>>

(* The close of a turn that never settled waits for the seat, then looks again. *)
CloseWorkCycle(t) ==
    /\ seat = 0
    /\ state[t] \in InFlight
    /\ EndCycle(t)
    /\ ScreenRead
    /\ UNCHANGED <<attempts, traces, seat>>

RereadSources(t) ==
    /\ \E i \in DOMAIN traces : traces[i].ticket = t /\ ~traces[i].reread
    /\ traces' = [i \in DOMAIN traces |->
                    IF traces[i].ticket = t THEN [traces[i] EXCEPT !.reread = TRUE]
                                            ELSE traces[i]]
    /\ UNCHANGED <<state, cycle, attempts, seat, walk>>

(* Fault: the recovery settles every claim, the settled ones too. *)
RestartFailsAll ==
    /\ attempts' = [a \in DOMAIN attempts |-> [attempts[a] EXCEPT !.stage = "failed"]]
    /\ seat' = 0
    /\ walk' = NoWalk
    /\ UNCHANGED <<state, cycle, traces>>

(* The process ends anywhere and boots: the seat, the parked claims and the   *)
(* walk are memory, and every claim left unsettled settles failed at the boot. *)
Restart ==
    /\ attempts' = [a \in DOMAIN attempts |->
                      IF Unresolved(a) THEN [attempts[a] EXCEPT !.stage = "failed"]
                                       ELSE attempts[a]]
    /\ seat' = 0
    /\ walk' = NoWalk
    /\ UNCHANGED <<state, cycle, traces>>

--------------------------------------------------------------------------------
Dispatch ==
    \/ \E t \in Tickets, o \in Origins : Claim(t, o)
    \/ \E a \in DOMAIN attempts :
          TakeSeat(a) \/ DropMovedOn(a) \/ CancelParked(a) \/ StartLands(a) \/ StartFails(a)
    \/ \E src, tgt \in Tickets : RouteAsk(src, tgt)

Observation ==
    \/ BeginInFlightWalk \/ BeginAwaitingWalk \/ EndWalks
    \/ \E h \in walk.rows : MarkRunning(h) \/ LeaveRow(h) \/ AutoClose(h)
    \/ \E h \in walk.rows, cause \in Causes, at \in Stamps : ObserveSettle(h, cause, at)
    \/ \E h \in walk.rows, at \in Stamps : ObserveAbandon(h, at)
    \/ \E W \in SUBSET Tickets : ResumeAwaitingTurns(W)
    \/ \E t \in Tickets : Reclaim(t)

Operator ==
    \/ \E t \in Tickets : OperatorClose(t) \/ CloseWorkCycle(t) \/ RereadSources(t)
    \/ \E t \in Tickets, at \in Stamps : OperatorAbandon(t, at)

Next == Dispatch \/ Observation \/ Operator \/ Restart

Spec == Init /\ [][Next]_vars

--------------------------------------------------------------------------------
(* Safety. *)

(* A ticket has at most one start under way, whatever the dispatch, the reclaim *)
(* walk and a restart interleave: hasUnresolvedAttempt gates both writers.      *)
OneUnresolvedAttempt ==
    \A a, b \in DOMAIN attempts :
        Unresolved(a) /\ Unresolved(b) /\ attempts[a].ticket = attempts[b].ticket => a = b

(* A ticket holds at most one undecided trace, although a settle may be late,   *)
(* land on a handoff another one replaced, or carry a clock that stepped back.  *)
OneUndecidedTrace ==
    \A i, j \in DOMAIN traces :
        Undecided(i) /\ Undecided(j) /\ traces[i].ticket = traces[j].ticket => i = j

(* A trace whose decision ended a cycle lies in a cycle the ticket has left, so *)
(* the cycle-end gates never read the cycle the ticket is in as already ended.  *)
CycleEndIsPast ==
    \A i \in DOMAIN traces :
        traces[i].decision \in CycleEnds => traces[i].cycle < cycle[traces[i].ticket]

(* A landed decision and the cause it was taken on are facts: no settle, close, *)
(* abandon or supersede of a later step rewrites them.                          *)
DecidedTraceStands ==
    [][\A i \in DOMAIN traces :
          ~Undecided(i) => /\ traces'[i].decision = traces[i].decision
                           /\ traces'[i].cause = traces[i].cause]_vars

(* A start settles once: an attempt that ended keeps its outcome through late   *)
(* settles, cancels, drains and the boot's recovery.                            *)
AttemptSettlesOnce ==
    [][\A a \in DOMAIN attempts : ~Unresolved(a) => attempts'[a] = attempts[a]]_vars

(* The tables implement the ticket's line: every write of every actor is a move *)
(* of the domain's table TRANSITIONS, or one of the two steps TicketLine names  *)
(* beside it, the reclaim of an open ticket and the second end of a cycle, each *)
(* of a ticket past its first cycle; or it leaves the ticket where it is.       *)
Line == INSTANCE TicketLine
ImplementsLine == Line!Spec
================================================================================
