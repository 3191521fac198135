------------------------------ MODULE MCAgentStart ------------------------------
(* An instance of AgentStart: a Ticket and a Consultation of one Repository. *)
EXTENDS AgentStart

CONSTANTS ticket, consultation

TicketsDef == {ticket}
ConsultationsDef == {consultation}
MaxStartsDef == [a \in {ticket, consultation} |-> IF a = ticket THEN 2 ELSE 1]
================================================================================
