----------------------------- MODULE MCConsultation -----------------------------
(* One Consultation in one repository, against itself: its own jobs queue up, its *)
(* own walk is stale, its agent changes state up to the bound.                    *)
EXTENDS Consultation
CONSTANTS c1, r1
MCRepositoryOf == [c \in {c1} |-> r1]
================================================================================
