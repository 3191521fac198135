------------------------------- MODULE TicketLine -------------------------------
(***************************************************************************)
(* What a ticket promises every reader of its row: the line of its states  *)
(* and the number of the work cycle it is in.  A ticket moves along the    *)
(* table of the domain; a move to open ends its cycle, and nothing else    *)
(* moves the number.                                                       *)
(*                                                                         *)
(* Two steps the state layer takes are not in the table, and the domain's  *)
(* tests say of both that they are no transition: a reclaim moves an open  *)
(* ticket straight to running, and a decision that lands on a ticket which *)
(* already rests open counts one more cycle.  Each is a step of its own    *)
(* here, and is promised only of a ticket that left its first cycle.       *)
(***************************************************************************)
EXTENDS Integers

CONSTANT Tickets \* the tickets the sources list

VARIABLES state, cycle

lineVars == <<state, cycle>>

Init ==
    /\ state = [t \in Tickets |-> "open"]
    /\ cycle = [t \in Tickets |-> 1]

(* TRANSITIONS, row by row. *)
Moves ==
    {<<"open", "handed-off">>,       \* the start of a handoff landed
     <<"handed-off", "running">>,    \* the agent reports work
     <<"handed-off", "awaiting">>, <<"running", "awaiting">>, \* the turn settled
     <<"handed-off", "open">>, <<"running", "open">>, <<"awaiting", "open">>, \* the end
     <<"awaiting", "handed-off">>,   \* another start in the same cycle
     <<"awaiting", "running">>}      \* the turn reopened

Listed(t) == <<state[t], state'[t]>> \in Moves

Rests(t) == state'[t] = state[t] /\ cycle'[t] = cycle[t]
Moved(t) == Listed(t) /\ state'[t] # "open" /\ cycle'[t] = cycle[t]
Ended(t) == Listed(t) /\ state'[t] = "open" /\ cycle'[t] = cycle[t] + 1

(* Beside the table: canTransition(open, running) and (open, open) are false. *)
Reclaimed(t) ==
    /\ state[t] = "open" /\ cycle[t] > 1
    /\ state'[t] = "running" /\ cycle'[t] = cycle[t]
EndedOpen(t) ==
    /\ state[t] = "open" /\ cycle[t] > 1
    /\ state'[t] = "open" /\ cycle'[t] = cycle[t] + 1

Next ==
    /\ DOMAIN state' = Tickets /\ DOMAIN cycle' = Tickets
    /\ \A t \in Tickets :
          Rests(t) \/ Moved(t) \/ Ended(t) \/ Reclaimed(t) \/ EndedOpen(t)

Spec == Init /\ [][Next]_lineVars
================================================================================
