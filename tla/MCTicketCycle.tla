----------------------------- MODULE MCTicketCycle -----------------------------
(* A small instance of TicketCycle: two interchangeable tickets. *)
EXTENDS TicketCycle, TLC
CONSTANTS t1, t2
MCTickets == {t1, t2}
MCSymmetry == Permutations(MCTickets)
================================================================================
