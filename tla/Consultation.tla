------------------------------ MODULE Consultation ------------------------------
(***************************************************************************)
(* A Consultation: an exchange of the operator with an agent, from the ask *)
(* that waits in the Work queue to the close of its environment.           *)
(*                                                                         *)
(* Source: state/consultation-record.ts for the record and the turns;      *)
(* consultation-operations.ts for the opening, the recovery, the response  *)
(* and the close, one at a time per repository (operation-serializer.ts);  *)
(* observation.ts for the walk that reads herdr's list first and the       *)
(* records later, with awaits between two records, so a row may be acted   *)
(* on long after it was read.                                              *)
(*                                                                         *)
(* A write of the record is one step.  An operation is a job of its        *)
(* repository's queue and runs in steps, one per external command it waits *)
(* for.  herdr's side is the agent: up or not, its state-change sequence,  *)
(* busy or resting.                                                        *)
(*                                                                         *)
(* Abstracted: texts, drafts, warnings and captured output; the identity   *)
(* checks that tell this agent's pane from a foreign one; a workspace, its *)
(* tab and its worktree are one environment; a row whose agent reports an  *)
(* unknown status is left alone, as a busy one is.  The shared checkout's  *)
(* gate only keeps a start waiting, so it is a start not taken here.       *)
(***************************************************************************)
EXTENDS Naturals, Sequences, FiniteSets

CONSTANTS
    Ids,          \* the Consultations
    Repositories, \* one queue of operations each
    RepositoryOf, \* the repository a Consultation works in
    MaxSequence,  \* bound: state changes of one agent, its start the first
    MaxJobs       \* bound: operations that wait in one queue

ASSUME HomeAssumption == RepositoryOf \in [Ids -> Repositories]
ASSUME BoundAssumption == MaxSequence \in Nat \ {0} /\ MaxJobs \in Nat

VARIABLES
    rec,     \* consultations, consultation_turns, consultation_resources
    row,     \* the Consultations a row of work_queue points at
    agent,   \* herdr: the agent of each Consultation
    jobs,    \* operationQueues: per repository, the running job first
    opening, \* openingOperations, and the outcome a finished start has to settle
    cleanup, \* closeOperations
    walk     \* the observation's walk: the list, the records it read, where it awaits

vars == <<rec, row, agent, jobs, opening, cleanup, walk>>

States == {"unborn", "queued", "unscheduled", "opening", "working",
           "awaiting-response", "missing", "failed", "closing", "closed", "deleted"}
Observed == {"opening", "working", "awaiting-response"}
Closable == Observed \cup {"missing", "failed", "closing"}

Sequence == 0..MaxSequence \* 0 is no sequence known
Resource == {"none", "owned", "shared", "confirmed"}
Record == [state : States, handles : BOOLEAN, turns : Seq(Sequence), latest : Sequence,
           pending : SUBSET Sequence, environment : Resource, pane : Resource,
           remaining : BOOLEAN]
Agent == [up : BOOLEAN, busy : BOOLEAN, sequence : Sequence]
Steps == {"waiting", "building", "starting", "prompting", "sending", "sent",
          "reading", "commanding"}
Job == [kind : {"open", "verify", "respond", "close"}, id : Ids, step : Steps,
        opened : BOOLEAN]
Snapshot == [state : Observed \cup {"none"}, handles : BOOLEAN, latest : Sequence]
Walk == [phase : {"idle", "listed", "walking"}, list : [Ids -> Agent],
         rows : [Ids -> Snapshot], settling : SUBSET Ids]

TypeOK ==
    /\ rec \in [Ids -> Record]
    /\ row \subseteq Ids
    /\ agent \in [Ids -> Agent]
    /\ jobs \in [Repositories -> Seq(Job)]
    /\ opening \in [Ids -> {"none", "claimed", "started", "failed"}]
    /\ cleanup \in [Ids -> {"none", "live", "cancelled"}]
    /\ walk \in Walk

Blank == [state |-> "unborn", handles |-> FALSE, turns |-> <<>>, latest |-> 0,
          pending |-> {}, environment |-> "none", pane |-> "none", remaining |-> FALSE]
Down == [up |-> FALSE, busy |-> FALSE, sequence |-> 0]
NoRow == [state |-> "none", handles |-> FALSE, latest |-> 0]
NoWalk == [phase |-> "idle", list |-> [c \in Ids |-> Down],
           rows |-> [c \in Ids |-> NoRow], settling |-> {}]

Init ==
    /\ rec = [c \in Ids |-> Blank]
    /\ row = {}
    /\ agent = [c \in Ids |-> Down]
    /\ jobs = [r \in Repositories |-> <<>>]
    /\ opening = [c \in Ids |-> "none"]
    /\ cleanup = [c \in Ids |-> "none"]
    /\ walk = NoWalk

--------------------------------------------------------------------------------
(* The writes of the record: each answers the record it leaves. *)

FailOpening(r) == IF r.state = "opening" THEN [r EXCEPT !.state = "failed"] ELSE r

SetAgent(r) ==
    IF r.state = "opening" THEN [r EXCEPT !.state = "working", !.handles = TRUE] ELSE r

RecordHandles(r) == IF r.state = "opening" THEN [r EXCEPT !.handles = TRUE] ELSE r

SetMissing(r) ==
    IF r.state \in {"failed", "deleted"} THEN r ELSE [r EXCEPT !.state = "missing"]

BeginResponse(r) == [r EXCEPT !.pending = {r.latest}]

(* Fault: a turn is added whatever the record has become. *)
ExternalTurnOnSnapshot(r, sequence) ==
    IF sequence > r.latest /\ r.state # "deleted"
    THEN [r EXCEPT !.state = "working", !.latest = sequence, !.pending = {},
                   !.turns = Append(@, r.latest)]
    ELSE r

(* recordExternalConsultationTurn: a pending response is the input it stands for. *)
ExternalTurn(r, sequence) ==
    IF r.state = "awaiting-response" /\ sequence > r.latest
    THEN [r EXCEPT !.state = "working", !.latest = sequence, !.pending = {},
                   !.turns = Append(@, IF r.pending = {} THEN r.latest
                                       ELSE CHOOSE b \in r.pending : TRUE)]
    ELSE r

AcceptResponse(r) ==
    IF r.state = "awaiting-response" /\ r.pending # {}
    THEN [r EXCEPT !.state = "working", !.pending = {},
                   !.turns = Append(@, CHOOSE b \in r.pending : TRUE)]
    ELSE r

CancelResponse(r) == [r EXCEPT !.pending = {}]

(* A turn of no known baseline settles on any sequence, any other on a newer one. *)
SettleTurn(r, sequence) ==
    IF /\ r.state \in {"working", "opening"}
       /\ r.turns # <<>>
       /\ LET baseline == r.turns[Len(r.turns)]
          IN baseline = 0 \/ sequence > baseline
    THEN [r EXCEPT !.state = "awaiting-response", !.latest = sequence,
                   !.turns = SubSeq(@, 1, Len(@) - 1)]
    ELSE r

Owns(r) == r.environment = "owned" \/ r.pane = "owned"

FinishClose(r, forced) ==
    [r EXCEPT !.state = IF @ = "closing" THEN "closed" ELSE @,
              !.remaining = @ \/ (forced /\ Owns(r))]

Confirmed(r) ==
    [r EXCEPT !.environment = IF @ = "owned" THEN "confirmed" ELSE @,
              !.pane = "confirmed"]

--------------------------------------------------------------------------------
(* The queues. *)

Put(c, r) == rec' = [rec EXCEPT ![c] = r]

NewJob(kind, c, opened) == [kind |-> kind, id |-> c, step |-> "waiting", opened |-> opened]

Serialize(c, job) ==
    /\ Len(jobs[RepositoryOf[c]]) < MaxJobs
    /\ jobs' = [jobs EXCEPT ![RepositoryOf[c]] = Append(@, job)]

AtHead(c, kind, step) ==
    LET q == jobs[RepositoryOf[c]]
    IN q # <<>> /\ q[1].id = c /\ q[1].kind = kind /\ q[1].step = step

HeadGoes(c, step) == jobs' = [jobs EXCEPT ![RepositoryOf[c]][1].step = step]

(* Fault: the queue waits for the job that failed. *)
HeadStaysBehind(c) == UNCHANGED jobs

(* A job that ends, with an answer or an error, gives way to the next. *)
HeadEnds(c) == jobs' = [jobs EXCEPT ![RepositoryOf[c]] = Tail(@)]

--------------------------------------------------------------------------------
(* The ask and its wait. *)

Create(c) ==
    /\ rec[c].state = "unborn"
    /\ Put(c, [Blank EXCEPT !.state = "queued", !.turns = <<0>>])
    /\ row' = row \cup {c}
    /\ UNCHANGED <<agent, jobs, opening, cleanup, walk>>

Schedule(c) ==
    /\ c \notin row /\ rec[c].state = "unscheduled"
    /\ Put(c, [rec[c] EXCEPT !.state = "queued"])
    /\ row' = row \cup {c}
    /\ UNCHANGED <<agent, jobs, opening, cleanup, walk>>

(* removeConsultationWorkItem: the operator's removal, or a pickup's moved record. *)
RemoveWorkItem(c) ==
    /\ c \in row
    /\ row' = row \ {c}
    /\ Put(c, [rec[c] EXCEPT !.state = IF @ = "queued" THEN "unscheduled" ELSE @])
    /\ UNCHANGED <<agent, jobs, opening, cleanup, walk>>

(* The claim of the seat; the opening is queued in the same step. *)
BeginStart(c) ==
    /\ rec[c].state \in {"queued", "unscheduled"}
    /\ opening[c] = "none"
    /\ Put(c, [rec[c] EXCEPT !.state = "opening"])
    /\ row' = row \ {c}
    /\ opening' = [opening EXCEPT ![c] = "claimed"]
    /\ Serialize(c, NewJob("open", c, FALSE))
    /\ UNCHANGED <<agent, cleanup, walk>>

(* The type is gone from the config, or the checkout's budget is spent: the record *)
(* fails, and the row goes in a write of its own.                                  *)
PickupFails(c) ==
    /\ rec[c].state \in {"queued", "unscheduled"}
    /\ Put(c, [rec[c] EXCEPT !.state = "failed"])
    /\ row' = row \ {c}
    /\ UNCHANGED <<agent, jobs, opening, cleanup, walk>>

Boot ==
    /\ jobs' = [r \in Repositories |-> <<>>]
    /\ opening' = [c \in Ids |-> "none"]
    /\ cleanup' = [c \in Ids |-> "none"]
    /\ walk' = NoWalk
    /\ UNCHANGED agent

PickupDiesBeforeTheRow(c) ==
    /\ rec[c].state = "queued"
    /\ Put(c, [rec[c] EXCEPT !.state = "failed"])
    /\ Boot
    /\ UNCHANGED row

Delete(c) ==
    /\ rec[c].state \in {"closed", "unscheduled"}
    /\ Put(c, [Blank EXCEPT !.state = "deleted"])
    /\ row' = row \ {c}
    /\ UNCHANGED <<agent, jobs, opening, cleanup, walk>>

--------------------------------------------------------------------------------
(* The opening. *)

OpensAgain(c, kind) ==
    /\ rec[c].state = "opening" /\ opening[c] = "none"
    /\ opening' = [opening EXCEPT ![c] = "claimed"]
    /\ Serialize(c, NewJob(kind, c, FALSE))
    /\ UNCHANGED <<rec, row, agent, cleanup, walk>>

(* The operator's recovery: a re-run of an opening that holds no agent, or a look *)
(* for the agent it holds.                                                        *)
Recover(c) == OpensAgain(c, IF rec[c].handles THEN "verify" ELSE "open")

(* The operator shares the live checkout in spite of its conflicts. *)
ConfirmConflict(c) == OpensAgain(c, "open")

EndOpening(c) == opening' = [opening EXCEPT ![c] = "none"]

VerifyAgent(c) ==
    /\ AtHead(c, "verify", "waiting")
    /\ \/ UNCHANGED rec
       \/ Put(c, FailOpening(rec[c]))
       \/ agent[c].up /\ Put(c, SetAgent(rec[c]))
    /\ HeadEnds(c) /\ EndOpening(c)
    /\ UNCHANGED <<row, agent, cleanup, walk>>

(* The one look at the record; one that was deleted is taken for what it was. *)
OpeningBegins(c) ==
    /\ AtHead(c, "open", "waiting")
    /\ IF rec[c].state \in {"opening", "deleted"}
       THEN HeadGoes(c, "building") /\ UNCHANGED opening
       ELSE HeadEnds(c) /\ EndOpening(c)
    /\ UNCHANGED <<rec, row, agent, cleanup, walk>>

(* The live checkout's conflict waits for the operator: the record stays opening. *)
OpeningConflicts(c) ==
    /\ AtHead(c, "open", "building")
    /\ rec[c].environment # "owned"
    /\ HeadEnds(c) /\ EndOpening(c)
    /\ UNCHANGED <<rec, row, agent, cleanup, walk>>

OpeningBuilds(c) ==
    /\ AtHead(c, "open", "building")
    /\ rec[c].state # "deleted"
    /\ Put(c, [rec[c] EXCEPT !.environment = "owned"])
    /\ HeadGoes(c, "starting")
    /\ UNCHANGED <<row, agent, opening, cleanup, walk>>

(* herdr refuses a name a live agent holds. *)
AgentStarts(c) ==
    /\ AtHead(c, "open", "starting")
    /\ ~agent[c].up
    /\ agent' = [agent EXCEPT ![c] = [up |-> TRUE, busy |-> FALSE, sequence |-> 1]]
    /\ HeadGoes(c, "prompting")
    /\ UNCHANGED <<rec, row, opening, cleanup, walk>>

(* onAgentStarted: the handles and the resources, before the prompt goes out. *)
AgentRecorded(c) ==
    /\ AtHead(c, "open", "prompting")
    /\ Put(c, IF rec[c].state = "deleted" THEN rec[c]
              ELSE [RecordHandles(rec[c]) EXCEPT !.pane = "owned"])
    /\ HeadGoes(c, "sending")
    /\ UNCHANGED <<row, agent, opening, cleanup, walk>>

(* The prompt lands or fails: the agent runs, so the opening landed either way. *)
OpeningPrompts(c) ==
    /\ AtHead(c, "open", "sending")
    /\ \/ UNCHANGED agent
       \/ /\ agent[c].up /\ agent[c].sequence < MaxSequence
          /\ agent' = [agent EXCEPT ![c].busy = TRUE, ![c].sequence = @ + 1]
    /\ opening' = [opening EXCEPT ![c] = "started"]
    /\ HeadEnds(c)
    /\ UNCHANGED <<rec, row, cleanup, walk>>

(* A failed start takes down what it built, as far as herdr answers. *)
OpeningFails(c) ==
    /\ \E step \in {"building", "starting"} : AtHead(c, "open", step)
    /\ opening' = [opening EXCEPT ![c] = "failed"]
    /\ HeadEnds(c)
    /\ \/ UNCHANGED <<rec, agent>>
       \/ /\ AtHead(c, "open", "starting") /\ rec[c].environment = "owned"
          /\ Put(c, [rec[c] EXCEPT !.environment = "confirmed"])
          /\ UNCHANGED agent
    /\ UNCHANGED <<row, cleanup, walk>>

(* finishOpening runs outside the repository's queue. *)
OpeningSettles(c) ==
    /\ opening[c] \in {"started", "failed"}
    /\ Put(c, IF opening[c] = "started" THEN SetAgent(rec[c]) ELSE FailOpening(rec[c]))
    /\ EndOpening(c)
    /\ UNCHANGED <<row, agent, jobs, cleanup, walk>>

--------------------------------------------------------------------------------
(* The response. *)

Respond(c) ==
    /\ rec[c].state = "awaiting-response"
    /\ Serialize(c, NewJob("respond", c, FALSE))
    /\ UNCHANGED <<rec, row, agent, opening, cleanup, walk>>

ResponseBegins(c) ==
    /\ AtHead(c, "respond", "waiting")
    /\ IF rec[c].state = "awaiting-response" /\ rec[c].pending = {}
       THEN Put(c, BeginResponse(rec[c])) /\ HeadGoes(c, "sending")
       ELSE HeadEnds(c) /\ UNCHANGED rec
    /\ UNCHANGED <<row, agent, opening, cleanup, walk>>

ResponseArrives(c) ==
    /\ AtHead(c, "respond", "sending")
    /\ agent[c].up /\ agent[c].sequence < MaxSequence
    /\ agent' = [agent EXCEPT ![c].busy = TRUE, ![c].sequence = @ + 1]
    /\ HeadGoes(c, "sent")
    /\ UNCHANGED <<rec, row, opening, cleanup, walk>>

ResponseSettles(c) ==
    /\ \/ AtHead(c, "respond", "sent") /\ Put(c, AcceptResponse(rec[c]))
       \/ /\ AtHead(c, "respond", "sending") \/ AtHead(c, "respond", "sent")
          /\ Put(c, CancelResponse(rec[c]))
    /\ HeadEnds(c)
    /\ UNCHANGED <<row, agent, opening, cleanup, walk>>

--------------------------------------------------------------------------------
(* The close. *)

(* beginConsultationClose drops the pointer in the write that begins the close. *)
RowAfterClose(c) == row \ {c}

Close(c) ==
    /\ rec[c].state \in Closable /\ cleanup[c] = "none"
    /\ Put(c, [rec[c] EXCEPT !.state = "closing",
                             !.pane = IF @ = "none" /\ rec[c].handles THEN "owned" ELSE @])
    /\ row' = IF rec[c].state = "closing" THEN row ELSE RowAfterClose(c)
    /\ cleanup' = [cleanup EXCEPT ![c] = "live"]
    /\ Serialize(c, NewJob("close", c, rec[c].state = "opening"))
    /\ UNCHANGED <<agent, opening, walk>>

(* A record that is not closing any more (a late walk found it missing) is begun and *)
(* finished in the one call; a closed one only loses the cleanup that still runs.    *)
ForceClose(c) ==
    /\ rec[c].state # "unborn"
    /\ IF rec[c].state \in {"closed", "deleted"} THEN UNCHANGED rec
       ELSE Put(c, FinishClose([rec[c] EXCEPT !.state = "closing"], TRUE))
    /\ row' = IF rec[c].state \in {"closing", "closed", "deleted"} THEN row ELSE RowAfterClose(c)
    /\ cleanup' = [cleanup EXCEPT ![c] = IF @ = "live" THEN "cancelled" ELSE @]
    /\ UNCHANGED <<agent, jobs, opening, walk>>

EndCleanup(c) == HeadEnds(c) /\ cleanup' = [cleanup EXCEPT ![c] = "none"]

(* The guard before every external call of the cleanup. *)
CloseStops(c) ==
    /\ \E step \in {"waiting", "reading"} : AtHead(c, "close", step)
    /\ cleanup[c] = "cancelled"
    /\ EndCleanup(c)
    /\ UNCHANGED <<rec, row, agent, opening, walk>>

CloseNeedsNoCommand(c) ==
    /\ AtHead(c, "close", "waiting") /\ cleanup[c] = "live"
    /\ rec[c].pane # "owned"
    /\ Put(c, FinishClose(rec[c], FALSE))
    /\ EndCleanup(c)
    /\ UNCHANGED <<row, agent, opening, walk>>

(* Its agent is gone: nothing to stop.  An opening's agent may still be starting. *)
CloseFindsNoAgent(c) ==
    /\ AtHead(c, "close", "waiting") /\ cleanup[c] = "live"
    /\ rec[c].pane = "owned" /\ ~agent[c].up
    /\ IF jobs[RepositoryOf[c]][1].opened THEN UNCHANGED rec
       ELSE Put(c, FinishClose(rec[c], TRUE))
    /\ EndCleanup(c)
    /\ UNCHANGED <<row, agent, opening, walk>>

CloseFindsAgent(c) ==
    /\ AtHead(c, "close", "waiting") /\ cleanup[c] = "live"
    /\ rec[c].pane = "owned" /\ agent[c].up
    /\ HeadGoes(c, "reading")
    /\ UNCHANGED <<rec, row, agent, opening, cleanup, walk>>

(* Fault: the last look at the operator's decision is missing. *)
CleanupStands(c) == TRUE

MayCommand(c) == cleanup[c] = "live"

(* What is not the Consultation's alone is kept; then the one command goes out. *)
CloseCommands(c) ==
    /\ AtHead(c, "close", "reading") /\ MayCommand(c)
    /\ \/ Put(c, [rec[c] EXCEPT !.environment = IF @ = "owned" THEN "shared" ELSE @])
       \/ UNCHANGED rec
    /\ HeadGoes(c, "commanding")
    /\ UNCHANGED <<row, agent, opening, cleanup, walk>>

CloseConfirmed(c) ==
    /\ AtHead(c, "close", "commanding")
    /\ agent' = [agent EXCEPT ![c] = Down]
    /\ Put(c, IF cleanup[c] = "live" THEN FinishClose(Confirmed(rec[c]), FALSE) ELSE rec[c])
    /\ EndCleanup(c)
    /\ UNCHANGED <<row, opening, walk>>

(* A list, a topology or the command failed: the record waits for Retry or Force. *)
CloseFails(c) ==
    /\ \E step \in {"waiting", "reading", "commanding"} : AtHead(c, "close", step)
    /\ EndCleanup(c)
    /\ UNCHANGED <<rec, row, agent, opening, walk>>

--------------------------------------------------------------------------------
(* The observation. *)

ObserveAgents ==
    /\ walk.phase = "idle"
    /\ walk' = [NoWalk EXCEPT !.phase = "listed", !.list = agent]
    /\ UNCHANGED <<rec, row, agent, jobs, opening, cleanup>>

(* Fault: the walk's query lost its filter. *)
ReadsEvery(c) == rec[c].state \notin {"unborn", "deleted"}

Reads(c) == rec[c].state \in Observed

ObserveRecords ==
    /\ walk.phase = "listed"
    /\ \E c \in Ids : Reads(c)
    /\ walk' = [walk EXCEPT !.phase = "walking",
                  !.rows = [c \in Ids |->
                     IF Reads(c)
                     THEN [state |-> rec[c].state, handles |-> rec[c].handles,
                           latest |-> rec[c].latest]
                     ELSE NoRow]]
    /\ UNCHANGED <<rec, row, agent, jobs, opening, cleanup>>

Listed(c) == walk.list[c].up /\ walk.rows[c].handles
AtRow(c) == walk.phase = "walking" /\ walk.rows[c].state # "none" /\ walk.settling = {}

RowDone(c) ==
    LET left == [walk.rows EXCEPT ![c] = NoRow]
    IN walk' = IF \A o \in Ids : left[o] = NoRow THEN NoWalk
               ELSE [walk EXCEPT !.rows = left, !.settling = {}]

(* No agent, or not one this row can be told to hold: an opening is left alone. *)
ObserveUnmatched(c) ==
    /\ AtRow(c) /\ ~Listed(c)
    /\ Put(c, IF walk.rows[c].state = "opening" THEN rec[c] ELSE SetMissing(rec[c]))
    /\ RowDone(c)
    /\ UNCHANGED <<row, agent, jobs, opening, cleanup>>

ObserveOpening(c) ==
    /\ AtRow(c) /\ Listed(c) /\ walk.rows[c].state = "opening"
    /\ Put(c, RecordHandles(rec[c]))
    /\ RowDone(c)
    /\ UNCHANGED <<row, agent, jobs, opening, cleanup>>

(* The external turn of an awaiting row; a resting agent's turn is read next. *)
ObserveTurn(c) ==
    /\ AtRow(c) /\ Listed(c) /\ walk.rows[c].state # "opening"
    /\ Put(c, IF /\ walk.rows[c].state = "awaiting-response"
                 /\ walk.list[c].sequence > walk.rows[c].latest
              THEN ExternalTurn(rec[c], walk.list[c].sequence) ELSE rec[c])
    /\ IF walk.list[c].busy THEN RowDone(c) ELSE walk' = [walk EXCEPT !.settling = {c}]
    /\ UNCHANGED <<row, agent, jobs, opening, cleanup>>

(* The session record and the pane were read: the turn settles if it still can. *)
ObserveSettles(c) ==
    /\ walk.settling = {c}
    /\ Put(c, IF rec[c].state = "working"
              THEN SettleTurn(rec[c], walk.list[c].sequence) ELSE rec[c])
    /\ RowDone(c)
    /\ UNCHANGED <<row, agent, jobs, opening, cleanup>>

ObserveNothing ==
    /\ walk.phase = "listed" /\ ~\E c \in Ids : Reads(c)
    /\ walk' = NoWalk
    /\ UNCHANGED <<rec, row, agent, jobs, opening, cleanup>>

--------------------------------------------------------------------------------
(* herdr, its user, and the process's end. *)

AgentMoves(c) ==
    /\ agent[c].up
    /\ \/ agent' = [agent EXCEPT ![c] = Down]
       \/ /\ agent[c].sequence < MaxSequence
          /\ agent' = [agent EXCEPT ![c].busy = ~@, ![c].sequence = @ + 1]
    /\ UNCHANGED <<rec, row, jobs, opening, cleanup, walk>>

Restart == Boot /\ UNCHANGED <<rec, row>>

--------------------------------------------------------------------------------
Operator(c) ==
    \/ Create(c) \/ Schedule(c) \/ RemoveWorkItem(c) \/ Delete(c)
    \/ BeginStart(c) \/ PickupFails(c)
    \/ Recover(c) \/ ConfirmConflict(c) \/ Respond(c) \/ Close(c) \/ ForceClose(c)

(* The steps of a job that tell nobody, and those that tell the callers' screen. *)
Works(c) ==
    \/ OpeningBegins(c) \/ OpeningBuilds(c) \/ AgentStarts(c) \/ AgentRecorded(c)
    \/ OpeningPrompts(c) \/ OpeningFails(c)
    \/ ResponseBegins(c) \/ ResponseArrives(c)
    \/ CloseStops(c) \/ CloseFindsAgent(c) \/ CloseCommands(c)

Answers(c) ==
    \/ VerifyAgent(c) \/ ResponseSettles(c)
    \/ CloseNeedsNoCommand(c) \/ CloseFindsNoAgent(c) \/ CloseConfirmed(c) \/ CloseFails(c)

(* The step of the job that runs in the Consultation's repository. *)
Runs(c) == Works(c) \/ Answers(c) \/ OpeningConflicts(c)

Observes(c) ==
    ObserveUnmatched(c) \/ ObserveOpening(c) \/ ObserveTurn(c) \/ ObserveSettles(c)

Next ==
    \/ \E c \in Ids :
          \/ Operator(c) \/ Runs(c) \/ OpeningSettles(c) \/ Observes(c)
          \/ AgentMoves(c) \/ PickupDiesBeforeTheRow(c)
    \/ ObserveAgents \/ ObserveRecords \/ ObserveNothing
    \/ Restart

Spec == Init /\ [][Next]_vars

(* Every external command answers: the runner ends one that runs past its time. *)
Fairness ==
    \A c \in Ids : WF_vars(Runs(c)) /\ WF_vars(OpeningSettles(c))

FairSpec == Spec /\ Fairness

--------------------------------------------------------------------------------
(* Safety. *)

(* The record agrees with the tables beside it.  One input is under way while the *)
(* agent works and none while it waits, though the walk's external turn, its      *)
(* settle and the accepted response race; a record that waits has its row, and a  *)
(* row's record waits or has failed (the pickup that died between two writes).    *)
RecordAgrees ==
    \A c \in Ids :
        /\ rec[c].state = "working" => Len(rec[c].turns) = 1
        /\ rec[c].state = "awaiting-response" => rec[c].turns = <<>>
        /\ rec[c].state = "queued" => c \in row
        /\ c \in row => rec[c].state \in {"queued", "failed"}

(* What the close of a record holds back, over the awaits between.  The cleanup of a *)
(* record the operator forced closed sends no command after the decision, and an      *)
(* opening that waited in the queue meanwhile does not begin; an opening that began   *)
(* before is not stopped by the code, and nothing is said of it.  A close that is not *)
(* forced ends only when the agent is down, or was never recorded to be up, or what   *)
(* the record holds stays recorded as remaining; so does a forced one.                *)
ClosedHolds ==
    [][\A c \in Ids :
          /\ rec[c].state = "closed" /\ AtHead(c, "close", "reading")
             => ~AtHead(c, "close", "commanding")'
          /\ rec[c].state \in {"closing", "closed"} /\ AtHead(c, "open", "waiting")
             => ~AtHead(c, "open", "building")'
          /\ /\ rec[c].state # "closed" /\ rec'[c].state = "closed"
             /\ rec[c].pane = "owned" \/ rec'[c].pane = "owned"
             => ~agent'[c].up \/ rec'[c].remaining]_vars

(* Every opening and every cleanup that was taken on answers, whatever runs in    *)
(* front of it in the repository's queue and however it ends.                     *)
OperationsAnswer ==
    \A c \in Ids :
        /\ opening[c] # "none" ~> opening[c] = "none"
        /\ cleanup[c] # "none" ~> cleanup[c] = "none"

--------------------------------------------------------------------------------
(* What the glossary states and the code does not hold. *)

(* GLOSSARY.md, Missing agent: the stored pane is gone.  observeConsultations reads *)
(* the records after the list: an opening that settled between has its agent up.    *)
MissingIsGone ==
    [][\A c \in Ids :
          rec[c].state = "working" /\ rec'[c].state = "missing" => ~agent[c].up]_vars
================================================================================
