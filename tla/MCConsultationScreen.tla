-------------------------- MODULE MCConsultationScreen --------------------------
(* One Consultation in one repository, against itself: its own jobs queue up, its *)
(* own walk is stale, its agent changes state up to the bound, and the operator   *)
(* answers every panel at every moment.                                           *)
EXTENDS ConsultationScreen
CONSTANTS c1, r1
MCRepositoryOf == [c \in {c1} |-> r1]
================================================================================
