--------------------------- MODULE MCHandoffDispatch ----------------------------
(* An instance of HandoffDispatch: two tickets and a Consultation of one Repository. *)
EXTENDS HandoffDispatch

CONSTANTS a, b, c, here

TicketsDef == {a, b}
ConsultationsDef == {c}
RepositoriesDef == {here}
RepoDef == [i \in {a, b, c} |-> here]

Handoff(t, source, origin, automatic, worktree) ==
    [id |-> t, source |-> source, origin |-> origin, automatic |-> automatic,
     action |-> FALSE, worktree |-> worktree]

Merge == [id |-> b, source |-> b, origin |-> "workflow", automatic |-> TRUE,
          action |-> TRUE, worktree |-> FALSE]

StartsDef ==
    {Handoff(a, a, "open", TRUE, TRUE),
     Handoff(a, b, "workflow", FALSE, FALSE),
     Handoff(b, b, "open", FALSE, TRUE),
     Handoff(b, b, "restart", TRUE, TRUE),
     Merge}

BootsDef == {<<>>, <<Merge, Handoff(a, a, "open", TRUE, TRUE)>>}
================================================================================
