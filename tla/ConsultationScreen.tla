---------------------------- MODULE ConsultationScreen ----------------------------
(***************************************************************************)
(* The operator's screen over the Consultations: the list it drew last,    *)
(* the panel that holds the keys, and what the keys do to the records.     *)
(*                                                                         *)
(* Source: components/app.ts, with the panels' copy and the controls'      *)
(* availability.  A key acts on the list the screen read last; each answer *)
(* of an operation and each walk that changed a record reads it again      *)
(* (onConsultationsChanged, onChanged).  The panel follows its record on   *)
(* every render.                                                           *)
(*                                                                         *)
(* Abstracted: the cursor, which may stand on any listed Consultation; the *)
(* launcher and the Response editor, each with its send one step; the      *)
(* Ticket panels; the await between the safety's confirm and its launch.   *)
(***************************************************************************)
EXTENDS Consultation

VARIABLES
    filter, \* historyFilter
    shown,  \* consultationsRef: the state each Consultation was listed in, or "none"
    panel   \* the panel that holds the keys

screen == <<filter, shown, panel>>

Filters == {"open", "closed", "all"}
Panels == [kind : {"close", "recovery", "force", "delete", "safety"}, id : Ids]
NoPanel == [kind |-> "none"]

ScreenTypeOK ==
    /\ TypeOK
    /\ filter \in Filters
    /\ shown \in [Ids -> States \cup {"none"}]
    /\ panel \in Panels \cup {NoPanel}

Panel(kind, c) == [kind |-> kind, id |-> c]

Lists(f, state) ==
    /\ state \notin {"unborn", "deleted"}
    /\ f = "all" \/ ((f = "closed") <=> (state = "closed"))

Listing(records, f) ==
    [c \in Ids |-> IF Lists(f, records[c].state) THEN records[c].state ELSE "none"]

CloseRows == Observed \cup {"closing"}
RecoveryRows == {"opening", "missing", "failed"}

(* The close and the recovery panel are drawn from the record's state, the others *)
(* from the record's being listed.                                                *)
DrawnFrom(p, list) ==
    CASE p.kind = "close" -> list[p.id] \in CloseRows
      [] p.kind = "recovery" -> list[p.id] \in RecoveryRows
      [] OTHER -> list[p.id] # "none"

Releases(p, list) == p.kind \in {"close", "recovery"} /\ ~DrawnFrom(p, list)

(* replaceConsultations, and the guard that drops a panel with nothing to show. *)
RedrawWith(p) ==
    /\ shown' = Listing(rec', filter')
    /\ panel' = IF Releases(p, shown') THEN NoPanel ELSE p

Redraw == UNCHANGED filter /\ RedrawWith(panel)

(* An act that was answered leaves no panel. *)
Answered == UNCHANGED filter /\ RedrawWith(NoPanel)

Opens(p) == panel' = p /\ UNCHANGED <<filter, shown, vars>>

Boots ==
    /\ filter' = "open" /\ panel' = NoPanel
    /\ shown' = Listing(rec', "open")

ScreenInit ==
    /\ Init
    /\ filter = "open" /\ panel = NoPanel
    /\ shown = Listing(rec, "open")

--------------------------------------------------------------------------------
(* The keys of the list, when no panel holds them. *)

On(c) == panel = NoPanel /\ shown[c] # "none"

(* The launcher's submit, behind its check: a conflict may have raised its panel. *)
Ask(c) ==
    /\ panel.kind \in {"none", "safety"}
    /\ Create(c)
    /\ filter' = "open" /\ RedrawWith(panel)

CycleHistory ==
    /\ panel = NoPanel
    /\ filter' = CASE filter = "open" -> "closed"
                   [] filter = "closed" -> "all"
                   [] OTHER -> "open"
    /\ UNCHANGED vars
    /\ RedrawWith(NoPanel)

RecoveryKey(c) ==
    /\ On(c)
    /\ shown[c] \in RecoveryRows \cup {"closing"}
    /\ Opens(Panel(IF shown[c] = "closing" THEN "close" ELSE "recovery", c))

RecoverKey(c) ==
    /\ On(c) /\ shown[c] = "opening"
    /\ Recover(c) /\ UNCHANGED screen

RespondKey(c) ==
    /\ On(c) /\ shown[c] = "awaiting-response"
    /\ Respond(c) /\ UNCHANGED screen

(* Fault: an opening that is not through counts as one that holds no agent. *)
HasNoAgentYet(c) == shown[c] \in {"opening", "missing", "failed"}

HasNoAgent(c) == shown[c] \in {"missing", "failed"}

(* A record with no agent closes on the key, any other behind its panel. *)
RunClose(c) ==
    \/ HasNoAgent(c) /\ Close(c) /\ Answered
    \/ ~HasNoAgent(c) /\ Opens(Panel("close", c))

CloseKey(c) == On(c) /\ shown[c] \in Closable /\ RunClose(c)

DeleteKey(c) ==
    /\ On(c) /\ shown[c] \in {"closed", "unscheduled"}
    /\ Opens(Panel("delete", c))

Keys(c) ==
    \/ Ask(c) \/ RecoveryKey(c) \/ RecoverKey(c) \/ RespondKey(c)
    \/ CloseKey(c) \/ DeleteKey(c)

--------------------------------------------------------------------------------
(* The rows of a panel, which answers only while it is drawn. *)

Drawn == panel # NoPanel /\ DrawnFrom(panel, shown)

(* Cancel, the replacement's launcher, or an act the record refuses. *)
Dismiss == Drawn /\ Opens(NoPanel)

Chooses(c, kind) == Drawn /\ panel = Panel(kind, c)

ChooseClose(c) == Chooses(c, "close") /\ Close(c) /\ Answered

ChooseForce(c) ==
    /\ Chooses(c, "close") /\ shown[c] = "closing"
    /\ Opens(Panel("force", c))

(* A record that closed under the panel refuses the act, and nothing is read again. *)
ConfirmForce(c) ==
    /\ Chooses(c, "force") /\ ForceClose(c)
    /\ IF rec[c].state = "closed" THEN panel' = NoPanel /\ UNCHANGED <<filter, shown>>
       ELSE Answered

ChooseRecover(c) ==
    /\ Chooses(c, "recovery") /\ shown[c] = "opening"
    /\ Recover(c) /\ panel' = NoPanel /\ UNCHANGED <<filter, shown>>

RecoveryCloses(c) == Chooses(c, "recovery") /\ RunClose(c)

ConfirmDelete(c) == Chooses(c, "delete") /\ Delete(c) /\ Answered

ConfirmSafety(c) ==
    /\ Chooses(c, "safety")
    /\ ConfirmConflict(c) /\ panel' = NoPanel /\ UNCHANGED <<filter, shown>>

Rows(c) ==
    \/ ChooseClose(c) \/ ChooseForce(c) \/ ConfirmForce(c) \/ ChooseRecover(c)
    \/ RecoveryCloses(c) \/ ConfirmDelete(c) \/ ConfirmSafety(c)

--------------------------------------------------------------------------------
(* What happens under the screen. *)

(* The schedule behind its await, the queue's removal, the pickup, and the start now *)
(* of an unscheduled record, which is a key of the list.                             *)
Dispatches(c) ==
    /\ \/ Schedule(c) \/ RemoveWorkItem(c)
       \/ /\ rec[c].state = "queued" \/ On(c)
          /\ BeginStart(c) \/ PickupFails(c)
    /\ Redraw

OperationAnswers(c) == (Answers(c) \/ OpeningSettles(c)) /\ Redraw

(* onSafetyConflict: the panel takes the keys from whatever held them. *)
ConflictRaised(c) ==
    /\ OpeningConflicts(c)
    /\ UNCHANGED filter /\ RedrawWith(Panel("safety", c))

(* A walk tells of a settle at once and of all else when it ends. *)
WalkObserves(c) ==
    /\ Observes(c)
    /\ IF walk'.phase = "idle" \/ (walk.settling # {} /\ rec' # rec)
       THEN Redraw ELSE UNCHANGED screen

Unseen(c) == (Works(c) \/ AgentMoves(c)) /\ UNCHANGED screen

--------------------------------------------------------------------------------
ScreenNext ==
    \/ \E c \in Ids :
          \/ Keys(c) \/ Rows(c) \/ Dispatches(c) \/ OperationAnswers(c)
          \/ ConflictRaised(c) \/ WalkObserves(c) \/ Unseen(c)
          \/ PickupDiesBeforeTheRow(c) /\ Boots
    \/ CycleHistory \/ Dismiss
    \/ (ObserveAgents \/ ObserveRecords \/ ObserveNothing) /\ UNCHANGED screen
    \/ Restart /\ Boots

ScreenSpec == ScreenInit /\ [][ScreenNext]_<<vars, screen>>

(* The fairness of the operations; nothing is assumed of the operator's keys. *)
FairScreenSpec == ScreenSpec /\ Fairness

--------------------------------------------------------------------------------
(* Safety. *)

(* What the operator cannot take back was asked for: an environment the record holds *)
(* for live is closed, a cleanup is forced to an end and a history is removed only   *)
(* from that Consultation's own panel, though the list the keys act on is older than *)
(* the record and the panel changed its rows under the operator's hand.              *)
ActsAreConfirmed ==
    [][\A c \in Ids :
          LET from == rec[c].state
              to == rec'[c].state
          IN /\ from \in Observed /\ to = "closing" => panel = Panel("close", c)
             /\ /\ from # "closed" /\ to = "closed"
                /\ cleanup[c] = "none" \/ cleanup'[c] = "cancelled"
                => panel = Panel("force", c)
             /\ from # "deleted" /\ to = "deleted" => panel = Panel("delete", c)]_<<vars, screen>>
================================================================================
