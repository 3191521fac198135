----------------------------- MODULE WorkflowRoutes -----------------------------
(***************************************************************************)
(* How the machine routes work: an issue is implemented, its pull request  *)
(* is reviewed, reworked and merged, and each settled turn writes the      *)
(* label facts the next position is derived from.                          *)
(*                                                                         *)
(* Source: workflow.ts (the transition fire, the Next step, the covered    *)
(* rule), the automatic walks of observation.ts, the merge of              *)
(* handoff-dispatch.ts, and the facts state/source-fact.ts keeps; the      *)
(* positions and transitions are those of the shipped config/default.toml. *)
(*                                                                         *)
(* The source and the plane's projection of it are two states: a fetch     *)
(* carries a snapshot from one to the other and may land late, a fire      *)
(* writes to the source from labels it read in the projection.  Three      *)
(* fires may be at work at once: the observation loop's, the operator's    *)
(* re-fire, and the one of a merge.                                        *)
(*                                                                         *)
(* Abstracted: one issue and the one pull request that fixes it, each on a *)
(* source of its own; the agent, which ends its turn when it likes; seats, *)
(* pauses, restarts and the start's commands (HandoffDispatch, AgentStart).*)
(***************************************************************************)
EXTENDS Integers, FiniteSets

CONSTANTS
    Issue, Pull,  \* the two tickets
    Limit,        \* maxHandoffsPerTicket
    HandLabels,   \* bound: the labels the operator touches
    Attended,     \* an operator acts beside the machine
    MaxTroubles   \* bound: the operator's acts, and the fetches, writes, starts that fail

Tickets == {Issue, Pull}

ASSUME RoutesAssumption ==
    /\ Issue # Pull /\ "elsewhere" \notin Tickets
    /\ Limit \in Nat \ {0} /\ HandLabels \subseteq {"needs-work", "ready-for-review", "ready-to-ship"}
    /\ Attended \in BOOLEAN /\ MaxTroubles \in Nat

VARIABLES
    \* the host
    pull,     \* the pull request: none, a draft without or with work, ready, merged
    labels,   \* the machine's labels on it
    closing,  \* the close of a cycle-end draft is on its way
    \* the state file
    seen,     \* the membership: listed, its labels, its last read failed,
              \* a read landed since the last cycle end
    ticket,   \* state, work cycle, the newest handoff's task, handoffs that started,
              \* attempts that did not, whether the newest attempt failed unread
    trace,    \* the newest completion trace
    row,      \* the ticket's row of the Work queue
    attempt,  \* the pull request's newest merge attempt
    auto,     \* Auto-handoff mode
    \* the memory of the process
    fetch,    \* the fetch in flight: its snapshot
    fires,    \* the transition fires at work
    phase,    \* the step of the observation cycle
    autoOn,   \* the mode as the cycle read it at its start
    spent     \* the bound's counter

host == <<pull, labels, closing>>
cycle == <<phase, autoOn>>
vars == <<host, seen, ticket, trace, row, attempt, auto, fetch, fires, cycle, spent>>

Facts == {"needs-work", "ready-for-review", "ready-to-ship"}
Tasks == {"implement", "rework", "review", "merge"}

\* The first State whose match holds; a pull request under none of them is parked.
TaskOf(ls) == IF "needs-work" \in ls THEN "rework"
              ELSE IF "ready-for-review" \in ls THEN "review"
              ELSE IF "ready-to-ship" \in ls THEN "merge"
              ELSE "none"

\* The label facts each task's transition may choose.
Verdicts(task) == CASE task \in {"implement", "rework"} -> {{"ready-for-review"}}
                    [] task = "review" -> {{"ready-to-ship"}, {"needs-work"}}
                    [] task = "merge" -> {IF pull = "merged" THEN {} ELSE {"needs-work"}}

Outcome(kind, to, at) ==
    [kind |-> kind, to |-> to, at |-> at, refired |-> FALSE, removed |-> FALSE]
NoOutcome == Outcome("none", "none", Issue)
Unfired == Outcome("unfired", "none", Issue)
\* Fault: a skip derives a position, on the ticket itself.
SkipOnTicket == Outcome("skip", "implement", Issue)
Skip == Outcome("skip", "none", Issue)
Failed == Outcome("failed", "none", Issue)

NoTrace == [task |-> "none", cause |-> "unknown", out |-> NoOutcome, cycle |-> 0,
            hand |-> 0, decision |-> "none"]
NoRow == [task |-> "none", origin |-> "open", automatic |-> FALSE, from |-> Issue]
NoFire == [pc |-> "idle", id |-> Issue, task |-> "none", why |-> "settle", facts |-> {},
           base |-> {}, hand |-> 0, cycle |-> 0, was |-> NoOutcome]

\* Which fires may be at work: one each.
Fires == {"loop", "hand", "merge"}

TypeOK ==
    /\ pull \in {"none", "empty", "work", "ready", "merged"}
    /\ labels \subseteq Facts
    /\ seen \in [Tickets -> [on : BOOLEAN, labels : SUBSET Facts,
                             stale : BOOLEAN, reread : BOOLEAN]]
    /\ \A t \in Tickets :
        /\ ticket[t].state \in {"open", "working", "awaiting"}
        /\ ticket[t].task \in Tasks \cup {"none"}
        /\ trace[t].task \in Tasks \cup {"none"} /\ trace[t].cycle <= ticket[t].cycle
        /\ trace[t].hand <= ticket[t].starts
        /\ row[t].task \in Tasks \cup {"none"} /\ row[t].from \in Tickets
        /\ trace[t].out.to # "none" => trace[t].out.kind = "done"
    /\ attempt \in {"none", "blocked", "reread", "merged"}
    /\ \A f \in Fires :
        fires[f].pc \in {"idle", "refresh", "list", "write", "second", "place", "run"}
    /\ phase \in {"turns", "decide", "open"}
    /\ {auto, autoOn, closing} \subseteq BOOLEAN
    /\ spent \in 0..MaxTroubles

\* The plane has read the issue and knows no pull request.
Init ==
    /\ pull = "none" /\ labels = {} /\ closing = FALSE
    /\ seen = [t \in Tickets |-> [on |-> t = Issue, labels |-> {},
                                  stale |-> FALSE, reread |-> TRUE]]
    /\ ticket = [t \in Tickets |-> [state |-> "open", cycle |-> 1, task |-> "none",
                                    starts |-> 0, tries |-> 0, failed |-> FALSE]]
    /\ trace = [t \in Tickets |-> NoTrace]
    /\ row = [t \in Tickets |-> NoRow]
    /\ attempt = "none"
    /\ auto = TRUE
    /\ fetch = [t \in Tickets |-> {}]
    /\ fires = [f \in Fires |-> NoFire]
    /\ phase = "turns" /\ autoOn = auto
    /\ spent = 0

--------------------------------------------------------------------------------
(* What the plane derives. *)

\* What the source lists: the issue until its pull request merges, a pull request
\* that is ready or wears the label that calls for rework.
Shown(t) == IF t = Issue THEN pull # "merged"
            ELSE \/ pull = "ready"
                 \/ pull \in {"empty", "work"} /\ "needs-work" \in labels

Snapshot(t) == [on |-> Shown(t), labels |-> IF t = Pull THEN labels ELSE {}]

\* A ticket at rest stands in the projection while a source lists it; one that
\* works or waits for a decision stands whatever the source says.
Projected(t) == seen[t].on \/ ticket[t].state # "open"

Covered(t) == t = Issue /\ ticket[Issue].state = "open" /\ Projected(Pull)

Actionable(t) == ticket[t].state = "open" /\ seen[t].on /\ ~seen[t].stale

\* The fallback task is the default one: also that of a ticket no source lists.
Suggested(t) == IF t = Pull /\ seen[t].on THEN TaskOf(seen[t].labels) ELSE "implement"

Count(t) == ticket[t].starts + ticket[t].tries
AtLimit(t) == Count(t) >= Limit

\* Fault: the hold ends with the cycle.
HoldInCycle(t, task) ==
    trace[t].task = task /\ trace[t].cause = "completed" /\ trace[t].cycle = ticket[t].cycle

\* The newest turn of this cycle, or of the closed one behind it, ran that task.
SameTypeHold(t, task) ==
    /\ trace[t].task = task /\ trace[t].cause = "completed"
    /\ \/ trace[t].cycle = ticket[t].cycle
       \/ trace[t].cycle = ticket[t].cycle - 1 /\ trace[t].decision = "closed"

Reverified(t) ==
    trace[t].cycle = ticket[t].cycle - 1 /\ trace[t].decision = "closed" => seen[t].reread

\* The Next step of an outcome, and no gate but the limit holds it.
Stands(out) ==
    /\ out.kind = "done" /\ out.at \in Tickets
    /\ Projected(out.at) /\ Suggested(out.at) = out.to
    /\ ticket[out.at].state = "awaiting" \/ Actionable(out.at)
    /\ ~SameTypeHold(out.at, out.to)

Undecided(t) == trace[t].task # "none" /\ trace[t].decision = "none"
Held(t) == Undecided(t) /\ trace[t].cause = "aborted"

\* The automatic Completion rule: a step at the limit degrades to a close, a step
\* another gate holds rests, and so does a turn whose label write failed.
Rule(t) ==
    LET out == trace[t].out
        standing == out.kind = "done" /\ Stands(out)
    IN  CASE Held(t) \/ out.kind = "failed" -> "park"
          [] ~Held(t) /\ out.kind \in {"none", "unfired", "skip"} -> "close"
          [] ~Held(t) /\ out.kind = "done" /\ ~standing -> "hold"
          [] ~Held(t) /\ standing ->
               IF AtLimit(out.at) THEN "close" ELSE "route"

--------------------------------------------------------------------------------
(* Fetches and what a fire waits for. *)

\* refreshAndWait: a source that fetches already keeps its fetch, and the caller
\* joins it however long ago it began.
Refreshing(t) == [fetch EXCEPT ![t] = IF @ = {} THEN {Snapshot(t)} ELSE @]

Woken(t) == [f \in Fires |->
    IF t = Issue THEN fires[f]
    ELSE CASE fires[f].pc = "refresh" -> [fires[f] EXCEPT !.pc = "list"]
           [] fires[f].pc = "second" -> [fires[f] EXCEPT !.pc = "place"]
           [] OTHER -> fires[f]]

BeginFetch(t) ==
    /\ fetch[t] = {} /\ fetch' = Refreshing(t)
    /\ UNCHANGED <<host, seen, ticket, trace, row, attempt, auto, fires, cycle, spent>>

\* Fault: a read does not answer the cycle end that waits for it.
LandedUnverified(t, s) == [on |-> s.on, stale |-> FALSE, reread |-> seen[t].reread,
                           labels |-> IF s.on THEN s.labels ELSE seen[t].labels]

\* applyFetch: what the snapshot lists stands again with its labels, what it leaves
\* out is dropped, and every hold that waits for a read of this source is lifted.
Landed(t, s) == [on |-> s.on, stale |-> FALSE, reread |-> TRUE,
                 labels |-> IF s.on THEN s.labels ELSE seen[t].labels]

LandFetch(t) == \E s \in fetch[t] :
    /\ seen' = [seen EXCEPT ![t] = Landed(t, s)]
    /\ ticket' = [ticket EXCEPT ![t].failed = FALSE]
    /\ attempt' = IF t = Pull /\ attempt = "blocked" THEN "reread" ELSE attempt
    /\ fetch' = [fetch EXCEPT ![t] = {}] /\ fires' = Woken(t)
    /\ UNCHANGED <<host, trace, row, auto, cycle, spent>>

FailFetch(t) ==
    /\ fetch[t] # {} /\ spent < MaxTroubles
    /\ seen' = [seen EXCEPT ![t].stale = TRUE]
    /\ fetch' = [fetch EXCEPT ![t] = {}] /\ fires' = Woken(t)
    /\ spent' = spent + 1
    /\ UNCHANGED <<host, ticket, trace, row, attempt, auto, cycle>>

\* The agent pushes its work on the draft.
Push ==
    /\ pull = "empty" /\ pull' = "work"
    /\ UNCHANGED <<labels, closing, seen, ticket, trace, row, attempt, auto, fetch, fires,
                   cycle, spent>>

\* The cycle-end close of the draft: a pull request that was published is left alone.
CloseDraft ==
    /\ closing /\ closing' = FALSE
    /\ pull' = IF pull \in {"empty", "work"} THEN "none" ELSE pull
    /\ labels' = IF pull \in {"empty", "work"} THEN {} ELSE labels
    /\ UNCHANGED <<seen, ticket, trace, row, attempt, auto, fetch, fires, cycle, spent>>

--------------------------------------------------------------------------------
(* The transition fire. *)

Idle(f) == fires[f].pc = "idle"

\* A fire of the task of t's turn.  Its first act is the forced refresh of the
\* pull request source.
Launch(f, t, why, task) ==
    /\ Idle(f) /\ fetch' = Refreshing(Pull)
    /\ fires' = [fires EXCEPT ![f] =
          [NoFire EXCEPT !.pc = "refresh", !.id = t, !.task = task, !.why = why,
              !.hand = IF why = "settle" THEN ticket[t].starts ELSE 0,
              !.cycle = IF why = "settle" THEN ticket[t].cycle ELSE 0,
              !.was = IF why = "hand" THEN trace[t].out ELSE NoOutcome]]

\* What the fire's owner does with the outcome.
\*   A settle writes the trace of the handoff it began with and rests the ticket.
\*   A sweep swaps the outcome in while the newest trace still records a skip.
\*   A re-fire swaps it in while the newest trace records what the operator saw.
Record(f, out) == LET r == fires[f] IN
    CASE r.why = "settle" ->
           /\ trace' = [trace EXCEPT ![r.id] =
                 [task |-> r.task, cause |-> "completed", out |-> out, cycle |-> r.cycle,
                  hand |-> r.hand, decision |-> "none"]]
           /\ ticket' = [ticket EXCEPT ![r.id].state = IF @ = "open" THEN @ ELSE "awaiting"]
           /\ UNCHANGED seen
      [] r.why = "sweep" ->
           /\ trace' = IF trace[r.id].out.kind = "skip" /\ out.kind # "none"
                       THEN [trace EXCEPT ![r.id].out = [out EXCEPT !.refired = TRUE]]
                       ELSE trace
           /\ UNCHANGED <<ticket, seen>>
      [] r.why = "hand" ->
           /\ trace' = IF trace[r.id].out = r.was /\ out.kind # "none"
                       THEN [trace EXCEPT ![r.id].out = out] ELSE trace
           /\ UNCHANGED <<ticket, seen>>
      [] r.why = "merge" ->   \* retireMergedTicket: both leave the projection
           /\ seen' = IF attempt = "merged"
                      THEN [t \in Tickets |-> [seen[t] EXCEPT !.on = FALSE]] ELSE seen
           /\ UNCHANGED <<ticket, trace>>

Ends(f, out) == fires' = [fires EXCEPT ![f] = NoFire] /\ Record(f, out)

\* The fire reads the projection: a ticket that left it ends the fire.  The turn of
\* an implement reads its pull request from the host, and a missing one or one
\* without work is a skip; the others find no branch or the facts they will write.
Evaluate(f) == LET r == fires[f] IN
    /\ r.pc = "list"
    /\ \/ /\ ~Projected(r.id) /\ Ends(f, NoOutcome)
       \/ /\ Projected(r.id) /\ r.task = "implement" /\ pull \in {"none", "empty", "merged"}
          /\ Ends(f, Skip)
       \/ /\ Projected(r.id) /\ r.task = "review" /\ Ends(f, Unfired)
       \/ /\ Projected(r.id) /\ (r.task = "implement" => pull \in {"work", "ready"})
          /\ \E facts \in Verdicts(r.task) :
               fires' = [fires EXCEPT ![f].pc = "write", ![f].facts = facts,
                   ![f].base = IF r.task = "implement" THEN labels ELSE seen[Pull].labels]
          /\ UNCHANGED <<seen, ticket, trace>>
    /\ UNCHANGED <<host, row, attempt, auto, fetch, cycle, spent>>

\* The write adds the facts the surface did not wear when it was read and removes the
\* machine's other labels it wore then.  It is folded into the projection at once,
\* unless the pull request was read from the host under a name of its own.  The
\* implement's draft is marked ready first.
Publishes(r) == r.task = "implement" /\ pull = "work"

Write(f) == LET r == fires[f] IN
    /\ r.pc = "write"
    /\ labels' = (labels \ (r.base \ r.facts)) \cup (r.facts \ r.base)
    /\ pull' = IF Publishes(r) THEN "ready" ELSE pull
    /\ IF r.task = "implement"
       THEN /\ fires' = [fires EXCEPT ![f].pc = "second", ![f].base = {}]
            /\ fetch' = [fetch EXCEPT ![Pull] = IF @ = {} THEN {Snapshot(Pull)'} ELSE @]
            /\ UNCHANGED <<seen, ticket, trace>>
       ELSE /\ UNCHANGED fetch
            /\ fires' = [fires EXCEPT ![f] = [r EXCEPT !.pc = "place", !.base = {}]]
            /\ seen' = IF seen[Pull].on /\ r.facts # r.base
                       THEN [seen EXCEPT ![Pull].labels = r.facts] ELSE seen
            /\ UNCHANGED <<ticket, trace>>
    /\ UNCHANGED <<closing, row, attempt, auto, cycle, spent>>

\* The ready mark or the label write fails: the outcome is the failure.
FailWrite(f) == LET r == fires[f] IN
    /\ r.pc = "write" /\ spent < MaxTroubles
    /\ pull' \in {pull, IF Publishes(r) THEN "ready" ELSE pull}
    /\ spent' = spent + 1
    /\ Ends(f, Failed)
    /\ UNCHANGED <<labels, closing, row, attempt, auto, fetch, cycle>>

\* The position the facts put the pull request on, under the name the projection
\* has for it; one the source does not list yet keeps a name nobody knows.
Place(f) == LET r == fires[f]
                known == r.task # "implement" \/ Projected(Pull)
            IN
    /\ r.pc = "place"
    /\ Ends(f, IF r.facts = {} THEN NoOutcome
               ELSE Outcome("done", TaskOf(r.facts), IF known THEN Pull ELSE "elsewhere"))
    /\ UNCHANGED <<host, row, attempt, auto, fetch, cycle, spent>>

FireStep(f) == Evaluate(f) \/ Write(f) \/ Place(f)

--------------------------------------------------------------------------------
(* The merge. *)

\* The run reads the pull request and merges it; a draft, and whatever the host has
\* against it, blocks it.  The attempt is recorded, then its transition fires.
Merge == LET r == fires["merge"] IN
    /\ r.pc = "run"
    /\ \E answer \in {"merged", "blocked"} :
        /\ pull = "merged" => answer = "merged"
        /\ pull \in {"none", "empty", "work"} => answer = "blocked"
        /\ attempt' = answer
        /\ pull' = IF answer = "merged" THEN "merged" ELSE pull
    /\ ticket' = [ticket EXCEPT ![Pull].tries = @ + 1]
    /\ fires' = [fires EXCEPT !["merge"].pc = "list"]
    /\ UNCHANGED <<labels, closing, seen, trace, row, auto, fetch, cycle, spent>>

--------------------------------------------------------------------------------
(* The ends of a cycle. *)

Mine(t) == Undecided(t) /\ trace[t].hand = ticket[t].starts

\* applyCompletionDecision with a close: it decides the newest handoff's turn, or ends
\* the cycle of an awaiting ticket all the same.
CloseEnds(t) ==
    /\ trace' = IF Mine(t) THEN [trace EXCEPT ![t].decision = "closed"] ELSE trace
    /\ seen' = IF Mine(t) THEN [seen EXCEPT ![t].reread = FALSE] ELSE seen
    /\ ticket' = [ticket EXCEPT ![t].state = "open", ![t].cycle = @ + 1]
    /\ closing' = (closing \/ t = Issue)
    /\ fetch' = Refreshing(t)

\* A route's decision ends the cycle of the awaiting ticket it continues.
Decides(t, word) ==
    /\ trace' = IF Mine(t) THEN [trace EXCEPT ![t].decision = word] ELSE trace
    /\ ticket' = IF Mine(t) /\ ticket[t].state = "awaiting"
                 THEN [ticket EXCEPT ![t].state = "open", ![t].cycle = @ + 1] ELSE ticket

--------------------------------------------------------------------------------
(* The observation cycle. *)

\* The cycle's next step, when its fire is done.
Step(from, to) == phase = from /\ Idle("loop") /\ phase' = to

\* The in-flight walk settles a turn: a completed one fires its transition first.
Settle(t) ==
    /\ Step("turns", "turns") /\ ticket[t].state = "working"
    /\ \/ /\ Launch("loop", t, "settle", ticket[t].task)
          /\ UNCHANGED <<ticket, trace>>
       \/ /\ \E cause \in {"aborted", "unknown"} :
               trace' = [trace EXCEPT ![t] =
                   [task |-> ticket[t].task, cause |-> cause, out |-> NoOutcome,
                    cycle |-> ticket[t].cycle, hand |-> ticket[t].starts,
                    decision |-> "none"]]
          /\ ticket' = [ticket EXCEPT ![t].state = "awaiting"]
          /\ UNCHANGED <<fetch, fires>>
    /\ UNCHANGED <<host, seen, row, attempt, auto, autoOn, spent>>

\* Fault: the sweep reads only turns that still wait for a decision.
SweepableAwaiting ==
    /\ trace[Issue].out.kind = "skip" /\ ticket[Issue].state = "awaiting" /\ seen[Issue].on
    /\ pull \in {"empty", "work", "ready"}

\* The sweep fires again the skip the newest trace records, while the issue is listed
\* and its branch carries a pull request.
Sweepable ==
    /\ trace[Issue].out.kind = "skip" /\ seen[Issue].on
    /\ pull \in {"empty", "work", "ready"}

EndTurns ==
    /\ Step("turns", "decide")
    /\ IF Sweepable THEN Launch("loop", Issue, "sweep", "implement")
       ELSE UNCHANGED <<fetch, fires>>
    /\ UNCHANGED <<host, seen, ticket, trace, row, attempt, auto, autoOn, spent>>

Closable(t) == ticket[t].state = "awaiting" /\ Undecided(t) /\ Rule(t) = "close"

AutoClose(t) ==
    /\ Step("decide", "decide") /\ autoOn /\ Closable(t)
    /\ CloseEnds(t)
    /\ UNCHANGED <<pull, labels, row, attempt, auto, fires, autoOn, spent>>

\* The awaiting walk is over: what it left owed is asked with no wait between.
Decided == ~(autoOn /\ \E t \in Tickets : Closable(t))

\* topUpAsk and topUpPlaneActionAsk: the standing work and the failed attempt that
\* hold an automatic ask, and the state the claim demands.
Accepts(t, task) ==
    /\ row[t].task = "none"
    /\ IF task = "merge" THEN Idle("merge") /\ attempt # "blocked" ELSE ~ticket[t].failed

Row(task, origin, automatic, from) ==
    [task |-> task, origin |-> origin, automatic |-> automatic, from |-> from]

\* A settled turn's route, and the route of a turn the sweep fired again.  The walk
\* takes the rows the covered rule leaves.
Continues(t) ==
    /\ trace[t].task # "none" /\ ticket[t].state \in {"open", "awaiting"}
    /\ trace[t].decision \in {"none", "auto"}
    /\ trace[t].decision = "auto" => ~trace[t].out.removed
    /\ Rule(t) = "route"
Refires(t) ==
    /\ ticket[t].state = "open" /\ trace[t].out.refired
    /\ Stands(trace[t].out) /\ ~AtLimit(trace[t].out.at)
Owed(t) ==
    /\ Projected(t) /\ ~Covered(t) /\ (Continues(t) \/ Refires(t))
    /\ Accepts(trace[t].out.at, trace[t].out.to)

Continuations ==
    IF auto /\ \A t \in Tickets : row[t].task = "none" \/ row[t].origin # "workflow"
    THEN {t \in Tickets : Owed(t)} ELSE {}

\* The continuation ask: its decision lands with the row, and the cycle that asked one
\* asks no fresh work.
AskContinuation(t) == LET out == trace[t].out IN
    /\ Step("decide", "turns") /\ Decided /\ autoOn' = auto /\ t \in Continuations
    /\ row' = [row EXCEPT ![out.at] = Row(out.to, "workflow", TRUE, t)]
    /\ Decides(t, "auto")
    /\ UNCHANGED <<host, seen, attempt, auto, fetch, fires, spent>>

EndAsk ==
    /\ Step("decide", "open") /\ Decided /\ Continuations = {}
    /\ UNCHANGED <<host, seen, ticket, trace, row, attempt, auto, fetch, fires, autoOn, spent>>

\* The open-ticket walk adds into an empty queue: the pull request before the issue.
Fresh(t) ==
    /\ auto /\ \A u \in Tickets : row[u].task = "none"
    /\ ~Covered(t) /\ Actionable(t) /\ ~AtLimit(t)
    /\ Suggested(t) # "none" /\ Reverified(t) /\ ~SameTypeHold(t, Suggested(t))
    /\ Accepts(t, Suggested(t))

AskOpen ==
    /\ Step("open", "turns") /\ autoOn' = auto
    /\ row' = IF Fresh(Pull) THEN [row EXCEPT ![Pull] = Row(Suggested(Pull), "open", TRUE, Pull)]
              ELSE IF Fresh(Issue)
              THEN [row EXCEPT ![Issue] = Row("implement", "open", TRUE, Issue)]
              ELSE row
    /\ UNCHANGED <<host, seen, ticket, trace, attempt, auto, fetch, fires, spent>>

Loop ==
    \/ \E t \in Tickets : AutoClose(t) \/ AskContinuation(t)
    \/ EndTurns \/ EndAsk \/ AskOpen

--------------------------------------------------------------------------------
(* The pickup. *)

Leaves(t) == row' = [row EXCEPT ![t] = NoRow]

\* The claim's gates: an open start needs what the ask needed of the sources, and an
\* issue that gained its pull request while it waited is taken out.
Claimable(t) ==
    IF row[t].origin = "workflow" THEN ticket[t].state \in {"open", "awaiting"}
    ELSE Actionable(t) /\ Reverified(t) /\ ~Covered(t)

Start(t) ==
    /\ ticket' = [ticket EXCEPT ![t].state = "working", ![t].task = row[t].task,
                                ![t].starts = @ + 1, ![t].failed = FALSE]
    /\ pull' = IF row[t].task = "implement" /\ pull = "none" THEN "empty" ELSE pull
    /\ UNCHANGED <<fires, spent>>

FailStart(t) ==
    /\ spent < MaxTroubles /\ spent' = spent + 1
    /\ ticket' = [ticket EXCEPT ![t].tries = @ + 1, ![t].failed = TRUE]
    /\ UNCHANGED <<pull, fires>>

\* Fault: a start looks at no checkout.
CheckoutIgnored == TRUE

\* A worktree start waits for the checkout a merge of its Repository holds.
CheckoutFree == Idle("merge")

Pickup(t) ==
    /\ row[t].task \notin {"none", "merge"} /\ CheckoutFree /\ Leaves(t)
    /\ \/ /\ Claimable(t) /\ Projected(t) /\ (Start(t) \/ FailStart(t))
       \/ /\ ~Claimable(t) \/ ~Projected(t)
          /\ UNCHANGED <<ticket, pull, fires, spent>>
    /\ UNCHANGED <<labels, closing, seen, trace, attempt, auto, fetch, cycle>>

\* The merge's claim is its row, and its run stands under a mark of its own.
PickupMerge ==
    /\ row[Pull].task = "merge" /\ Idle("merge") /\ Leaves(Pull)
    /\ fires' = IF ticket[Pull].state \in {"open", "awaiting"} /\ Projected(Pull)
                THEN [fires EXCEPT !["merge"] = [NoFire EXCEPT !.pc = "run", !.id = Pull,
                                                    !.task = "merge", !.why = "merge"]]
                ELSE fires
    /\ UNCHANGED <<host, seen, ticket, trace, attempt, auto, fetch, cycle, spent>>

--------------------------------------------------------------------------------
(* The operator. *)

Act == Attended /\ spent < MaxTroubles /\ spent' = spent + 1

\* The operator puts a label on the pull request or takes it off.
Relabel(l) ==
    /\ Act /\ pull # "none"
    /\ labels' = IF l \in labels THEN labels \ {l} ELSE labels \cup {l}
    /\ UNCHANGED <<pull, closing, seen, ticket, trace, row, attempt, auto, fetch, fires, cycle>>

ToggleAuto ==
    /\ Act /\ auto' = ~auto
    /\ UNCHANGED <<host, seen, ticket, trace, row, attempt, fetch, fires, cycle>>

\* A start by hand: past the limit and past the holds, not past the claim's gates.
HandStart(t) ==
    /\ Act /\ row[t].task = "none" /\ Suggested(t) # "none" /\ ~Covered(t)
    /\ IF Suggested(t) = "merge" THEN seen[t].on /\ ticket[t].state = "open" /\ Idle("merge")
       ELSE Actionable(t) /\ Reverified(t)
    /\ row' = [row EXCEPT ![t] = Row(Suggested(t), "open", FALSE, t)]
    /\ UNCHANGED <<host, seen, ticket, trace, attempt, auto, fetch, fires, cycle>>

\* The Decision screen's route, on a step whose position offers the task.
HandRoute(t) == LET out == trace[t].out IN
    /\ Act /\ ticket[t].state = "awaiting" /\ Undecided(t) /\ out.kind = "done"
    /\ out.at \in Tickets /\ Projected(out.at) /\ Suggested(out.at) = out.to
    /\ ticket[out.at].state \in {"open", "awaiting"} /\ row[out.at].task = "none"
    /\ out.to = "merge" => Idle("merge")
    /\ row' = [row EXCEPT ![out.at] = Row(out.to, "workflow", FALSE, t)]
    /\ Decides(t, "routed")
    /\ UNCHANGED <<host, seen, attempt, auto, fetch, fires, cycle>>

\* The Close of an awaiting ticket takes the route rows of that ticket with it.
Close(t) ==
    /\ Act /\ ticket[t].state = "awaiting" /\ CloseEnds(t)
    /\ row' = [u \in Tickets |-> IF row[u].task # "none" /\ row[u].origin = "workflow"
                                    /\ (u = t \/ row[u].from = t)
                                 THEN NoRow ELSE row[u]]
    /\ UNCHANGED <<pull, labels, attempt, auto, fires, cycle>>

\* The Close of a ticket whose agent works: its turn never settled.
CloseInFlight(t) ==
    /\ Act /\ ticket[t].state = "working"
    /\ ticket' = [ticket EXCEPT ![t].state = "open", ![t].cycle = @ + 1]
    /\ fetch' = Refreshing(t)
    /\ UNCHANGED <<host, seen, trace, row, attempt, auto, fires, cycle>>

\* The cancel of a row marks the turn that asked it, when the turn records that ask.
Cancel(t) == LET from == row[t].from
                 word == IF row[t].automatic THEN "auto" ELSE "routed"
             IN
    /\ Act /\ row[t].task # "none" /\ Leaves(t)
    /\ trace' = IF row[t].origin = "workflow" /\ trace[from].decision = word
                THEN [trace EXCEPT ![from].out.removed = TRUE] ELSE trace
    /\ UNCHANGED <<host, seen, ticket, attempt, auto, fetch, fires, cycle>>

\* The re-fire of a turn whose transition found no branch or whose write failed.
Refire(t) ==
    /\ Act /\ ticket[t].state = "awaiting" /\ trace[t].out.kind \in {"unfired", "failed"}
    /\ Launch("hand", t, "hand", trace[t].task)
    /\ UNCHANGED <<host, seen, ticket, trace, row, attempt, auto, cycle>>

Operator ==
    \/ \E l \in HandLabels : Relabel(l)
    \/ ToggleAuto
    \/ \E t \in Tickets : HandStart(t) \/ HandRoute(t) \/ Close(t) \/ CloseInFlight(t)
                          \/ Cancel(t) \/ Refire(t)

--------------------------------------------------------------------------------
Next ==
    \/ \E t \in Tickets : BeginFetch(t) \/ LandFetch(t) \/ FailFetch(t)
                          \/ Settle(t) \/ Pickup(t)
    \/ \E f \in Fires : FireStep(f) \/ FailWrite(f)
    \/ Loop \/ Merge \/ PickupMerge \/ Push \/ CloseDraft \/ Operator

Spec == Init /\ [][Next]_vars

\* The cycle runs on its interval, every fetch and every command answers within its
\* timeout, sources are read again on their interval, a pickup follows every ask.
FairSpec ==
    /\ Spec /\ WF_vars(Loop) /\ WF_vars(Merge) /\ WF_vars(PickupMerge)
    /\ \A t \in Tickets : /\ WF_vars(BeginFetch(t)) /\ WF_vars(LandFetch(t))
                          /\ WF_vars(Pickup(t))
    /\ \A f \in Fires : WF_vars(FireStep(f))

--------------------------------------------------------------------------------
(* Properties. *)

\* An agent starts on t, by an ask of the machine.
StartsByItself(t) == row[t].automatic /\ ticket'[t].starts > ticket[t].starts

\* The machine holds itself back.  The Handoff limit caps the agents it starts on a
\* ticket, though the pickup reads no limit: nothing that happens while a row waits adds
\* an agent of its own.  (A merge that is blocked meanwhile counts, so attempts together
\* may pass it by one.)  And it repeats no task: the turn it starts by itself is never
\* the task the ticket's last handoff completed and a close ended.
MachineHoldsBack == [][\A t \in Tickets :
    StartsByItself(t) =>
        /\ ticket'[t].starts <= Limit
        /\ ~(/\ trace[t].hand = ticket[t].starts
             /\ trace[t].cause = "completed" /\ trace[t].decision = "closed"
             /\ trace[t].task = ticket'[t].task)]_vars

\* One hand on one work: the machine starts no implement while the issue's pull request
\* is listed or another agent works on it; no merge lands under an agent at work on the
\* pull request, whatever the operator does and whatever fails; and undisturbed, the
\* first merge lands over no verdict that asked for rework, though fires and fetches
\* overwrite each other's labels.  (A merge asked again after a block may: a reading
\* older than the labels of the block ends its hold.)
OneHandPerWork ==
    /\ [][StartsByItself(Issue) => ~seen[Pull].on /\ ticket[Pull].state = "open"]_vars
    /\ [][pull # "merged" /\ pull' = "merged" =>
            /\ ticket[Pull].state # "working"
            /\ spent = 0 /\ attempt = "none" => "needs-work" \notin labels]_vars

Skipped == trace[Issue].out.kind = "skip" /\ pull = "work"

Takes(t) ==
    /\ auto /\ Actionable(t) /\ ~Covered(t) /\ ~AtLimit(t)
    /\ Suggested(t) # "none" /\ ~SameTypeHold(t, Suggested(t))

\* Nothing lies idle in a factory left alone: once the branch carries the work, the
\* recorded skip heals, and work the machine may take is taken or ceases to be its to take.
NothingLiesIdle ==
    /\ Skipped ~> ~Skipped
    /\ \A t \in Tickets : Takes(t) ~> ~Takes(t)
================================================================================
