------------------------------ MODULE MCWorkQueue -------------------------------
(* A small instance of WorkQueue: interchangeable tickets, one Consultation. *)
EXTENDS WorkQueue, TLC
CONSTANTS t1, t2, t3, c1
MCTickets == {t1, t2, t3}
MCConsultations == {c1}
MCSymmetry == Permutations(MCTickets)
================================================================================
