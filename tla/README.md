# The factory's boot, tickets, sources, starts, routes, Consultations and inits, checked and proved

This directory holds the formal model of My Little Software Factory: TLA+ modules translated from
`src/src/`, TLC configurations that check them on small instances, and proofs checked by TLAPS.
Run anything from this directory: `tlc -workers 2 -config TicketCycle.cfg MCTicketCycle`,
`tlapm StateFileProofs.tla`. `PROJECT.json` maps every definition to the source lines it stands for
and lists the hazards, the runs, the mutants and the theorems.

## 1. The system

The factory reads tickets from forges, starts coding agents on them in terminal panes (herdr), watches
the agents, and moves each ticket along a line: open, handed-off, running, awaiting, and open again
when its work cycle ends. A turn that completes may fire a transition that relabels the ticket, and the
labels choose the next task type. Beside the tickets it keeps Consultations: exchanges the operator
starts and answers by hand. One process owns one state directory (SQLite). Inside the process everything
runs on one event loop: a state-layer call is one write transaction and is atomic, and every `await`
lets another actor run.

| part | state it keeps | operations | hard behaviour | what makes it correct |
|---|---|---|---|---|
| ticket work cycle (`state/ticket-work-cycle.ts`) | ticket state, cycle number, completion traces | settle, supersede, decide, close, abandon, cycle-end gate | late and repeated calls, wall clocks | one undecided turn; decisions are facts; a cycle ends once |
| handoff attempts (`state/handoff.ts`) | attempts, handoffs | claim, settle, reclaim, recover | two claimers, a crash between claim and settle | one start under way; an attempt settles once |
| dispatch (`handoff-dispatch.ts`) | the herdr seat, parked claims, cleanup queue, asks | pickup pass, claim, park, start, merge, cancel, force, close | laps that await over a list read once, parked claims whose ticket moved on, two queues with two flags | no start is lost or run twice; the limit holds; the seat is always given back |
| checkout hold (`checkout-hold.ts`) | holds and waits | cross, take, release, sweep | a release of a start that lost its hold, rows that wait | one start per checkout, no lost wait |
| start of an agent (`handoff.ts`) | workspaces, tabs, worktree, branch, pull request, the record of a start | the commands of a start, its cleanup, a cycle's close | any command fails, is lost or is half answered; retries; two starts in one checkout | a failure leaves nothing it does not remember, a retry goes through, no earlier start's work is taken down |
| workflow routes (`workflow.ts`, `task-selection.ts`) | labels, position, pull request, fires | fire, publish, converge, sweep, re-fire, Next step | a projection older than the forge, a skip nobody remembers | no round repeats, automatic starts stay within the limit, work is taken, no merge over work |
| work queue (`state/work-queue.ts`) | ordered rows, pause | enqueue, move, cancel, drop, repack | rows of four origins with different entry places; the top-up's reading is older than its write | a total order without holes; nobody waits twice; what the factory owes goes first |
| observation (`observation.ts`) | snapshots of one poll | in-flight, resume, awaiting and Consultation walks, reclaim, top-ups | stale rows across awaits, skipped ticks | no row is handled on a state it left |
| source facts (`state/source-fact.ts`) | health, mute, memberships, read times | apply, retire, mute, initialise | several sources of one ticket, a fetch that overlaps a cycle's end or a write | no start on facts older than the cycle; what the plane lists becomes what the hosts list |
| source refresh (`refresh.ts`, `ticket-source.ts`, `security-source.ts`) | timers, reads in flight, waiters, of one coordinator per config | schedule, read now, wait, stop | a coordinator replaced with reads in flight, failed reads | no older read lands last, no source is forgotten, nobody waits for good |
| Consultations (`state/consultation-record.ts`, `consultation-operations.ts`) | record, turns, resources, queue row, running operations | open, recover, respond, close, force-close, delete | operations of many awaits against a walk with an old list; partial failure between herdr and the record | one open input; a closed record's cleanup sends nothing and no queued opening begins on it; every operation answers |
| operation serializer (`operation-serializer.ts`) | one promise chain per repository | serialize | a failing job | first in, first out, nobody waits forever |
| repository init (`repo-init.ts`, `repo-init-flow.ts`) | labels, the default branch, the init fact, the queue of inits | plan, confirm, the act's commands, fact, write-back | lost answers, pushes in between, two acts at once | the fact tells the truth, a retry goes through |
| config write-back (`config-write.ts`) | the config file, the queue of writes | read, patch, check, rewrite | two writers of one file | neither loses the other's lines |
| top-up, parallel limits (`domain/top-up.ts`, `parallel.ts`) | reserves | count seats, reserve | counts read before an await | never above the limit |
| plane actions (`plane-actions.ts`) | claimed action, its decision | ask, claim, run, settle | a merge that leaves the queue before it runs | an action runs once and is decided once |
| boot and lease (`startup.ts`, `factory.ts`, `state/lease.ts`, `state/store.ts`, `state/schema.ts`) | lease row, schema version, claims a dead run left | load, open, acquire, recover, install, close | boots that race, deaths anywhere, pids used again, two builds and two hosts | one run owns the file; a dead run's row does not stay |
| config load (`config.ts`, `config-migration.ts`) | the config, its backup and report | seed, migrate in three writes | a death between two writes, two loads at once | the operator's text is never lost |
| screen over the Consultations (`components/app.ts`, `components/controls.ts`) | the list it read last, the filter, the open panel | keys, panel rows, release of a panel | a list older than the records, panels whose record moves under the operator's hand | no act without its confirmation |
| the rest (what a config says, forges, herdr client, turn log, the rest of the UI, stub) | | | parsing and I/O | not modelled, see `PROJECT.json` |

How they interact. The observation's cycle asks herdr for its agents once and then walks the in-flight
tickets, the awaiting tickets and the Consultations over that one list, awaiting between rows. A settled
turn fires its transition, which reads the sources again, writes labels and lands in the projection
later. The top-up reads the projection and writes rows to the work queue; the dispatch's pickup pass
takes them out, claims a handoff in the state layer, parks it behind the herdr seat and starts the agent
by a dozen herdr and git commands. The operator's keys call the dispatch, the Consultation operations,
the init and the state layer directly, on a screen that may be old. Consultation operations of one
repository run one after another. Everything but the SQLite file and the config file is memory: a
restart forgets seats, parked claims, walks, fires and running operations.

## 2. Modules

| module | models | state |
|---|---|---|
| `TicketLine` | abstract: the line of a ticket's states and the number of its cycle, with the two steps the code takes beside its table | `state`, `cycle` |
| `TicketCycle` | the ticket tables with every writer: dispatch, observation, operator, boot | `state`, `cycle`, `attempts`, `traces`, `seat`, `walk` |
| `WaitingLine` | abstract: a line of waiting starts in which only the operator's key overtakes | `waiting`, `ahead` |
| `WorkQueue` | the `work_queue` table, positions and all, with every writer | `queue`, `topUp` |
| `HandoffDispatch` | the dispatch's passes, seat, parked claims, merges and cleanups over the queue and the checkout hold; instantiates `WorkQueue`'s table | `queue`, `passes`, `calls`, `inFlight`, `parked`, `runs`, `merges`, `holds`, `waits`, ... |
| `AgentStart` | the commands of a start, its cleanup, the close of a cycle, on a world of herdr and git | `spaces`, `tabs`, `tree`, `local`, `remote`, `drafts`, `rows`, `run` |
| `WorkflowRoutes` | fires, routes, sweep and top-up between the forge and its projection | `pull`, `labels`, `seen`, `ticket`, `trace`, `fires`, ... |
| `SourceFacts` | the refresh coordinators, the reads, the facts they write and what waits on them | `list`, `plan`, `read`, `late`, `timer`, `fact`, `ticket` |
| `Consultation` | the record, its row, the repository's job queue, herdr's agent and the walk | `rec`, `row`, `agent`, `jobs`, `opening`, `cleanup`, `walk` |
| `ConsultationScreen` | the operator's screen over `Consultation`: list, panels, keys | `filter`, `shown`, `panel` |
| `RepositoryInit` | the init's act, the screen's queue of inits, the fact, the config write queue | `branch`, `labels`, `fact`, `file`, `config`, `screen`, `acts`, `jobs` |
| `Boot` | boots, ends and the lease of the runs on two hosts, with the config's migration | `config`, `backup`, `report`, `version`, `lease`, `claims`, `run`, `others`, `watching` |
| `StateFileProofs` | theorems about `Boot` and `TicketCycle`: who writes the state file, and what its tables hold | |
| `WorkflowRoutesProofs` | theorems about `WorkflowRoutes` | |
| `SourceFactsProofs` | theorems about `SourceFacts` | |
| `ConsultationProofs` | theorems about `Consultation` and `ConsultationScreen` | |
| `WorkQueueProofs` | theorems about `WorkQueue` | |
| `RepositoryInitProofs` | theorems about `RepositoryInit` | |
| `HandoffDispatchProofs` | theorems about `HandoffDispatch`, with `WorkQueueProofs` for its table | |
| `AgentStartProofs` | theorems about `AgentStart` | |
| `MC*` | the small instances TLC runs | |

The modules cut the system where it cuts itself. `TicketCycle` sees a start as one step between claim
and settle; `HandoffDispatch` opens the passes, the queue and the seat around that step and keeps of the
tables only what a claim reads; `AgentStart` opens the step itself; `WorkflowRoutes` keeps one pull
request's tour through tickets, forge and top-up and sees start and walk as single steps.

### TicketCycle
`attempts` is the table `handoff_attempts` in row order; the attempts whose stage is `agent-started` or
`reclaimed` are the rows of `handoffs`. `traces` is `completion_traces`. Neither table loses a row.
`seat` is the start that runs on herdr (`inFlight`); every other unresolved claim is parked. `walk` is
the observation loop: the kind of walk, the rows it read and has not handled, and the tickets it wrote
that the operator's screen has not read again. An action is one write transaction with the in-memory
assignments around it: `Claim` is `claimHandoff`, `TakeSeat`/`DropMovedOn` the drain of the parked
claims, `StartLands`/`StartFails` the settle of a start, `ObserveSettle`, `ObserveAbandon`, `AutoClose`,
`ResumeAwaitingTurns`, `Reclaim` the walks, `OperatorClose`, `OperatorAbandon`, `CloseWorkCycle` the
operator, `Restart` the boot's recovery. `at` is a wall clock that may step back between two settles.

`TicketLine` is what the tables implement: `Moves` is the domain's table `TRANSITIONS`, row by row, and a
move to open ends the cycle. The state layer takes two steps that the table does not list, and the line
has each as a step with its own name: `Reclaimed` (an open ticket straight to running) and `EndedOpen` (a
decision that ends the cycle of a ticket that rests open already). Both stand only for a ticket that left
its first cycle (section 7).

### WorkQueue
`queue` is a function from the positions in use to the rows they hold, because the position is the
table's primary key and the code shifts, swaps and repacks it. `topUp` is what the top-up's walk read
before it awaits: that no route waits, or that nothing waits. `Enqueue` is the one entry with its place
by origin (`workQueuePosition`), `TakeOut` every removal with its repack.

### HandoffDispatch
JavaScript runs one handler at a time up to its next `await`; the module takes that as it is. `calls` is
what the running handler has still to do before it yields: the claim, the drain, the end of a start each
push their calls there, and no other action is enabled until it is empty. What awaits is state: a pass
with the rows it read at its lap's head, the merge it waits for, the start on the seat, the cleanup in
its queue. `parked` holds claims that wait behind the seat or behind a cleanup (`inFlight` and
`cleanupQueued` are two flags of two queues, as in the code). `held` and `waits` are the two maps of
`checkout-hold.ts` with their budgets; `atWork` and `lapsed` are history: the starts that may still write
in a checkout, and those whose hold ran out of its budget. They are pairs of a side and an id, because a
release gives back the holds of its own side only: a ticket's merge and its start are two writers. A
cancelled row takes one parked claim of its ticket out of the drain's list (`splice`), and that there is
but one is a part of `OneHand`. A row an ask enters (`Starts`) is of a ticket, and a boot finds a queue
of such rows (`Boots`): the assumptions say no more than the types of `work-queue.ts` do. `ComesToRest`
is stated of the fair specification.

### AgentStart
One action is one awaited command of `handoff.ts` with the code up to the next one. A command is
answered, refused without effect, or lost: it had its effect and its answer is a failure; a creation may
also answer without one of its parts. `run` is the start's memory (what it created, what it was told of),
`rows` the Consultation's resource rows, the state-file side by which a later Close reaches what stands.
`tree` may hold a leftover directory of an earlier start, `local` and `remote` the branch and its copy on
origin by the number of commits. Agents, a crash and the operator's own closes come from outside.

### WorkflowRoutes
An issue and its pull request on the routes of `config/default.toml`. The host has the pull request's
state and the labels; the projection has what the last landed fetch saw (`seen`); a fetch is taken in one
step and lands in another, and a write to the host is converged into the projection. A fire
(`runTransition`) is a record that steps from its refresh to its label write; a fire may overlap another.
Judgments (what the agent concludes) are choices among the outcomes the position offers. The sweep is
the walk's re-fire of skipped and refused fires. `Loop` is one observation cycle with its top-up.

### SourceFacts
`list` is the hosts: what a source would list if read now, and how often that changed, which orders the
lists in time. `read` is the coordinator's fetch of a source: asked, answered with the list of that
moment, or failed, until `Settle` applies it (`applyFetch`) and stands the next timer. A coordinator that
a new config replaced keeps its fetches as `late`, beside the next one's. `timer` has the timer that the
coordinator remembers and those it forgot: its map holds one handle per source, and the refresh key leaves
the timer it does not cancel to be forgotten when the read settles. `fact` is `source_health` with
`memberships`; `ticket` keeps of a ticket its state, its waiting automatic start, and the sources without
a success since its last cycle or start ended. `Await` is a fire's `refreshAndWait`, `CycleEnds` a close
with its `appRefreshTicketSources`, `Mute` the mute key, `Rebind` a config in memory that a mapping or an
init changed.

### Consultation
A write of the record is an operator on it (`SetAgent`, `SettleTurn`, ...), in the states in which the
SQL's WHERE lets it land. A job is an operation of the repository's queue; it advances by one step per
external command, and its record is re-read exactly where the code re-reads it. `opening` stays claimed
after its job ended until the outcome settles, because `finishOpening` runs outside the queue.
`cleanup` is the close operation's shared cancellation flag. `agent` is herdr's side, external to the
repository: it starts, dies, works and rests by itself, numbering its changes. `walk` holds the list
of agents (`ObserveAgents`), the rows read later (`ObserveRecords`), and the row that awaits its turn's
session record (`settling`). Other Consultations do not appear: between two records the walk awaits,
and those awaits are the steps any other action may take in between.

### ConsultationScreen
Extends `Consultation` and composes each of its actions with what the screen does in the same step.
`shown` is the list the screen read last (`consultationsRef`): a key acts on that copy and the operation
it calls on the record. `RedrawWith` is `replaceConsultations` with the guard of `useAppPanelRelease`;
it runs after each answer of an operation (`OperationAnswers`) and when a walk ends or settles a turn
(`WalkObserves`), so in the middle of a walk the list is older than the record. The keys of the list are
enabled while no panel stands, the rows of a panel while it is drawn. The cursor may stand on any listed
Consultation; the launcher's submit and the Response editor's send are each one step.

### RepositoryInit
`branch` says of every commit of a default branch whether its tree is the generated one, so that "nothing
is staged" is a fact of a commit. An act is a record whose `pc` is the command it awaits; what it holds
(labels listed, the commit its worktree stands on) was read earlier, and others push in between. `screen`
is the panel, `repositoryInitInFlight`, `repositoryInitQueue` and the plans at work, each plan with the
key it came from. `jobs` is `configWriteQueue`: a write updates the config in memory and reads the file
when its turn begins, and renames the patched text over it when it ends. `file` has the plane's sources,
its mappings and, for all the operator's own lines, the workflow settings.

### Boot
A run is an entry of `run`: where its boot stands (`phase`), the process it has, and the old text it is
migrating. Nothing but the lease keeps two runs apart, so every phase of one may meet every phase of
another. `config`, `backup` and `report` say which text a file holds; a load may take a text, migrate it
or refuse it. `lease` is the row: the token, which is the run that took it, and the process, which stands
for its host and pid. A process outlives its run only under the development watch (`watching`), which
boots the next run in the same pid; `others` are strangers that got a dead run's pid. `IsDeadLocalOwner`
asks whether anybody answers to the pid on the owner's own host. `claims` stands for every handoff claim
that is not settled, named by the run that made it. `Install` is `installStateShutdown`: only from there
on does an end of the run (`Close`) free its row; before, it is `Dies`. `touched` tells apart an edit of
the operator under a load, which the code does not see.

## 3. What the runs check

| run | instance | states | shows |
|---|---|---|---|
| `ticket_cycle` | 2 tickets, 2 attempts, 2 traces, 2 stamps, limit 1 | 774,392 | types, one start, one undecided turn, ends lie behind, decisions and outcomes stand, implements `TicketLine`, the table's moves and the two named steps beside it |
| `work_queue` | 3 tickets, 1 Consultation | 42,872 | places stay packed, nobody waits twice and one owed row at a time, implements `WaitingLine` |
| `consultation` | 1 Consultation and its screen, 4 changes of its agent, 3 queued jobs | 214,553 | the row follows the ask, one open input, no cleanup command behind a forced close and no queued opening behind a close, a close leaves nothing unremembered, what cannot be taken back was confirmed, every operation answers |
| `dispatch` | 2 tickets, 1 Consultation, 1 repository, limit 1, 2 passes, 2 asks, 1 event, boots with an empty queue and with a merge ahead of a row | 996,351 | one hand on herdr, no claim without an owner, one start per checkout, pickups within the limit, and rest |
| `agent_start` | a ticket's 2 starts and a Consultation's 1, 2 faulty commands, 1 event, 3 commits | 2.9 M | a failed start leaves nothing it does not remember, rows name the rest, retries heal and leave what earlier starts left, one's own name never stops a start |
| `workflow` | limit 2, one label by hand, one act or failure | 3,067,141 | automatic starts within the limit, no round repeats, one hand on one work |
| `source_facts` | 2 sources of 1 ticket, 1 of them of pull requests, 2 events | 292,481 | no older list lands last, the plane catches up with the hosts, every wait on a source ends, a mute leaves no start waiting |
| `workflow_live` | the same factory left alone | 127,802 | a skip heals, work is taken |
| `boot` | 3 runs, 2 processes of one host, one of them watched, 1 of another host with the same pid and an older build, 2 events | 567,449 | one run owns the state file, no load loses the config's text, a dead run's row does not keep the plane from booting |
| `repository_init` | 2 repositories, 2 acts, 2 settings, 3 commits, 2 asks, 1 fault, 1 event | 2,247,478 | the fact holds, a retry goes through, writers of the config lose nothing |

Why these bounds are enough. Two tickets tell "this ticket" from "another" everywhere and let a route go
from one to the other; two attempts make an older and a newer handoff of one ticket, two traces an older
and a newer turn, two stamps a clock that stands still or steps back. Three tickets and a Consultation
make a queue with a first, a middle and a last row of different origins. Four agent changes are a start, a
prompt, a rest and another turn; three jobs are a running one, a close behind it and another behind that.
In the dispatch, two passes are a walk and the one that starts while it awaits; limit 1 makes every seat
contested; two asks and one event put a cancel, a force, a close, a budget or a restart at every step.
In a start, two faults make a command fail and its cleanup fail; the ticket's second start meets what the
first left, and the Consultation's is in the same checkout meanwhile. One-off runs at two events with one
fault (4.77 million states) passed. In the routes, the limit 2 lets a round come back once; three fires
overlap; one-off runs of `workflow_live` with one failure (694,867 states) passed. In the init, two
repositories give a queue its second entry, two acts may be of one repository or of two, two settings
give a label that the first init did not make; a one-off run at two faults (4.79 million states) passed.
In the sources, two that list one ticket make one lift its share of a hold before the other; the two
events are shared by changes of a list, failed reads, merges, keys, config edits and restarts, so that a
change meets each of the others once, at any moment of a read; answers, timers, waits and the factory's
own steps are not counted. In the boot, three runs are a live one, one that boots beside it and one whose
row or claim outlives it; two events are two deaths, or a death and its pid used again, or an edit;
clean ends are not counted. `Policies` is the policy that reads again: under a held plane a source is read
once and nothing is promised of it.

Every property has a mutant in `PROJECT.json`: a plausible slip in the code, written next to the
definition it would change and marked `Fault`, under which TLC finds the property violated.

The runs below state what a comment of the repository says, and TLC finds the code do otherwise:

* `consultation_missing`: a Consultation whose opening settles between the walk's list and its read of
  the records becomes missing while its agent runs.
* `agent_takes`: a failed start takes down another start's Agent (`TakesOnlyItsOwn`). One start makes a
  workspace at the live checkout and fails; meanwhile another finds that workspace, opens its tab there
  and puts its Agent to work; the first one's cleanup closes the workspace. One faulty command is enough,
  so the run has one.

## 4. Fairness

Every external command ends: the runner gives one `COMMAND_TIMEOUT_MS` (`runner.ts:96`) and answers a
late one as failed. So a step that waits for a command is always taken, the failing one if no other.
Nothing is assumed of the operator, of crashes or of herdr's agents.

* `consultation`: weak fairness of the running job's step and of the settle of an ended opening, which is
  the continuation of a promise that has resolved. A restart empties the operations, which also answers
  them.
* `source_facts`: weak fairness of an answer of the host, of a settle (late or not), which is the
  continuation of a promise that has resolved, and of a timer. The factory's own steps need not happen.
* `boot`: weak fairness of the steps of a boot, which are code or an answer of the file system, and of the
  end of a stranger's process or of a watch that boots nothing; the operator repairs a config no load
  takes; and strong fairness of a boot on each host of the newest build in a pid that is not the dead
  run's. Without the last nothing is promised: a plane nobody starts does not boot, an older build is
  refused by the newer file, and a boot in the dead run's own pid meets itself.
* `dispatch`: weak fairness of `Progress`: the running handler, the passes, the end of a start, a merge or
  a cleanup. The operator's asks and the events are bounded and need not happen.
* `workflow_live`: weak fairness of the observation cycle and of the source's fetches (both are timers),
  of the steps of a fire, of a merge asked for, and of the pickup behind every ask. Agents need not end
  their turns: what waits behind one that never does is not promised.

`CHECK_DEADLOCK FALSE` stands where a bounded system may stop: `consultation` (a deleted one is never
asked again), `source_facts` (a config without sources reads nothing), `agent_start` and `repository_init` (starts, asks and events are used up), and the two
workflow runs (a merged pull request leaves a factory with nothing to do).

## 5. What is proved

`StateFileProofs` extends the two modules of the state file. Of `TicketCycle` it proves, for every set of tickets, any integer stamps, any handoff limit and any
number of attempts and traces, from the module's three named assumptions alone:

* `TypeCorrect`, `AtMostOneStart`, `AtMostOneUndecided`, `EndsLieBehind`: the type invariant and the
  three invariants of the run;
* `DecisionsStand`, `AttemptsSettleOnce`: the action properties;
* `TablesImplementLine`: the tables with all their writers implement `TicketLine`: each of their steps is
  a move of the domain's table, one of the two named steps beside it, or moves no ticket.

The argument. The inductive invariant joins the type invariant, the three safety invariants and
`RowsRefer`: a trace names an attempt of its own ticket, and neither an attempt nor a trace carries a
cycle ahead of its ticket's. It is needed because a settle writes its trace in the cycle of the handoff
it lands on: that a decision which ends the cycle leaves that trace behind follows only from the
reference. One undecided turn per ticket is inductive because the settle's supersede decides all
but the newest in the order (time, row), which is total on any stamps. `StartsEnded` (a ticket that ever started rests open only past its first
cycle) and `WalksStarts` (the walk's rows are started attempts) keep the two steps beside the table to
tickets that left their first cycle. Each action is shown to be one of
four kinds of step on its table (`TicketStep`, `AttemptStep`, `TraceStep` and what they keep), each kind
keeps the invariant, and the properties follow from the kinds.

Of `Boot` it proves (its own names carry the prefix `Boot` where `TicketCycle` has the same), for every set
of runs, processes, hosts, pids and builds and any bound:

* `BootTypeCorrect`: the type invariant, with which two runs never share a process;
* `OneRunOwns`: `OneOwner`, its invariant and its action part;
* `OldTextKept`: `TextKept`, no load loses the operator's text.

The argument. That the row carries a run's token does not say that nobody takes it. The inductive
invariant adds that the row names the process of the run past its acquire (`Owner`): then a boot which
finds nobody at that pid on that host has found that no such run is left. `ClaimsUp`, that an unsettled
claim is of a run that is up or gone, turns that into the second half: the run that recovers holds the
row, so no run that is up does, and every claim it fails is a dead run's. For the text, `LoadsSaw` ties
each load to what it read: as long as the config still is an old text that nobody edited under a load, it
is the text that load migrates, and what the load has already written beside it. Loads that race can only
make the text new, so an old text leaves by the rewrite of a load whose backup and report hold it.

`SourceFactsProofs` proves, for every set of sources and tickets and any policies and bound:

* `TypeCorrect`: the type invariant;
* `NewestStands`: `NewestReadStands`, no older list takes the place of a newer one;
* `StartsStayUnmuted`: `StartsWaitUnmuted`, a mute leaves no start waiting.

The argument. A read has its version from the moment of its answer, and until its own turn comes other
reads may settle. That its settle is no step back follows from `Ordered`: the host is never behind an
answered read of the live coordinator, nor that read behind the facts. It is inductive because a source
has one such read at a time and its settle is the only writer of the version; a stopped coordinator's
late read is dropped. The mute needs the types alone: a mute empties the row of every ticket its sources
know, only the top-up adds one, and no settle, merge or start of a coordinator sets a mute.

`ConsultationProofs` proves, for every set of Consultations and repositories and any bounds:

* `TypeCorrect`: the type invariant of the records and of the screen;
* `RecordsAgree`, `ClosesHold`: `RecordAgrees` and the three parts of `ClosedHolds`;
* `ActsConfirmed`: `ActsAreConfirmed`, no act that cannot be taken back but from its own panel.

The argument. The walk writes to a record it read long ago, so what a write finds there must be bounded
without the walk's own view: `WalkIsPast` says that a record the walk holds a row of has started, and no
write returns it to the wait. `Fits` counts the turns in every state, not only in the two `RecordAgrees`
names, since a record works or answers from any of them. A cleanup's command behind a forced close is ruled out by
`LiveCloses`, a cleanup nobody forced works on a record that closes or that the walk took for missing,
and `TailWaits`, only a queue's head has begun, so the job that follows cannot be past its last look.
For the screen it is enough that nothing leads from a record without an agent back to a live one
(`ShownIsDone`): the key that closes unasked may act on an old list. Each step is shown to be a drift
(`Drifts`: a write that neither asks, starts, closes nor deletes) or one of the nine that are not, and a
step under the screen to be a step of the Consultations.

`WorkQueueProofs` proves, for every set of tickets and Consultations:

* `TypeCorrect`: the places in use are 0 to n - 1;
* `NothingTwice`: `NothingWaitsTwice`;
* `TableImplementsLine`: the table implements `WaitingLine`.

The argument. The lemmas say what `EntryPlace`, `Enter` and `TakeOut` make of a table of n rows. A repack
keeps the rows' order because the ranks of the m that stay are m distinct numbers below m, hence all of
them (`RankOrders`, by the library's facts on finite sets and no induction). With one row of each id the
order of the ids is the order of the places (`BeforeIs`), and each writer becomes a `Join`, a `Leave` or
a `Swap` of the line. `NothingWaitsTwice` needs `ReadingHolds`: what the walk read before its await stays
true of the rows only the walk adds.

`RepositoryInitProofs` proves, for every set of repositories and acts and any number of settings and
commits:

* `InitTypes`: the type invariant, with its bounds on the config's rows and on the queue of writes;
* `InitsEndWell`: `InitEndsWell`;
* `NoWriteLost`: `WritesLoseNothing`.

The argument. The host only grows, so what an act saw of it stays true whoever writes beside it (`Saw`,
`Keeps`): the fact it leaves is true. That it saw all there is (`SawAll`), and so cannot be refused,
holds for an act that nothing disturbed; it is inductive because two acts on one repository both count as
disturbed from the second one's confirm (`Beside`). For the files, only the queue's first write may be
under way, what it took of the config is the config until it ends, and what it read of the file are the
plane's lines until then (`Queued`, `Synced`), so whatever it may write holds all the config says. The
type invariant's bounds are counts, and `Bounded` carries them beside the rest: the rows a repository has
in the config and the acts that will still add one are together no more than the acts, since an act adds
only where none stood when it was confirmed; the queue is no longer than the acts that wait for a write
and the mappings there were.

`HandoffDispatchProofs` proves, for every set of tickets, Consultations and checkouts, any limit, any
number of passes at once, any list of rows a boot may find and any bounds:

* `DispatchTypes`: the type invariant;
* `DispatchOneHand`: `OneHand`, one hand on herdr and no claim without its one owner;
* `DispatchAlone`: `CheckoutAlone`, one writer per checkout;
* `DispatchWithinLimit`: `PickupWithinLimit`, no pass claims past the limit.

The argument. Between two events the tables agree; in the middle of a handler they do not, for what will
make them agree is still a call away. The inductive invariant therefore speaks of the tables and of the
rest of the handler together. A claim has one owner: a parked start, the start at work, or the one settle
that is still to be called (`Owned`); a call that frees the seat is the last thing standing between the
seat's flag and a drain, and it is called once (`Seat`); who works in a checkout and holds it no more has
its release ahead of it (`Served`, `Held`); a call that starts a pass finds a free one (`Laps`). Each kind
of call is counted (what of it is still to come), and a step is a call taken from the front with those it
pushes, so that its part in every count is one subtraction and one addition. `PickupWithinLimit` needs no
strengthening of its own: a pass that claims has counted the seats in the same call. What the table makes
of an entry or a removal is `WorkQueueProofs`', whose lemmas are of any rows.

`AgentStartProofs` proves, for every set of tickets and Consultations and any number of starts, faults,
events and commits:

* `StartTypes`: the type invariant;
* `StartFailedLeavesNothing`: `FailedLeavesNothing`, all that a failed start leaves it was never told of,
  could not take down or is on record;
* `StartKeepsEarlierWork`: `KeepsEarlierWork`, a start's commands take down only what it made itself and
  the tab it replaces; tabs of others in a workspace it made in the live checkout are excepted;
* `StartRetriesHeal`: `RetriesHeal`, no failed start stands in the way of its retry.

The argument. That a start leaves nothing shows at the end of its cleanup, and is decided by what its
record says at every command before. `Tracked` is the heart of the invariant: of all that stands in the
world and carries the number of a start at work, each part is on the start's record and still ahead of
its cleanup (`Stepped` says which parts those are at each step), or its answer never came. For this to
last, no number may be met twice (`Aged`), what the record names must be the start's own and not a leftover
that another one made (`Placed`, `Held`), a branch that went to the pull request must be off the record
(`Handed`), and a Consultation, which has one start, must reopen nothing and leave its rows in the state
file (`Alone`, `Listed`). The steps of one actor are shown to tell its start of all it makes and to leave
every other start's parts alone; the operator's and the agents' steps add nothing with a start's number.

`KeepsEarlierWork` is about the cleanup of a start in a worktree, which goes with its workspace and all
tabs in it. That no tab of an earlier start goes along needs `Lodged`: the workspaces the live checkout
knows (those that stand there, that a start at work or a latest record names) are never those of a
worktree, so a start that looks for a place in the checkout cannot end up in one, and the workspace of a
worktree holds only tabs of its own actor and of no earlier start than the one that made it.

`RetriesHeal` counts: one fault or event never leaves a branch behind its copy on origin, two may. Its
invariant (`HInv`, beside the one above) is therefore in two stages. Before any trouble a ticket is `Calm`:
nothing is left over, the worktree that the next start would reopen stands, the copy on origin has its
branch, and every agent of the ticket runs in the tab that its record names. From there one trouble leads to
`Whole` at worst: the branch is as far as its copy, or it is gone and the next start must fetch it before it
plants a worktree. `Bound`, `Older` and `Homed` say what a start at work chose and which earlier starts'
tabs it may meet; `Unnamed`, that the name which carries a start's own number is asked for by no other, is
what makes a refused name a foreign one. TLC checked each part first, on one and two tickets, up to
three starts and up to two faults and two events.

`WorkflowRoutesProofs` proves, for any two tickets, any Handoff limit, any labels the operator touches and
any number of his acts and of failures:

* `RoutesTypes`: the type invariant;
* `HoldsBack`: `MachineHoldsBack`, no start by itself past the limit and none that repeats a task;
* `OneHand`: `OneHandPerWork`.

The argument. The pickup reads neither the limit nor the hold on a task, so the ask's reading must last
until the row's turn comes, through closes, routes, fires and starts by hand. For a ticket whose row the
machine asked the invariant says that no agent is at work (`Rested`), that the limit has room (`Capped`)
and that its last turn is not of the row's task with a completion that a close ended or may end
(`Varied`). The last is a fact of cycles and handoffs: a close marks the turn of its own cycle, a settle
writes its turn in the cycle its handoff began in, so `Rested` relates the cycle of the ticket, of its
newest turn and of the settle that is under way. `Alone` (no agent on a pull request whose merge runs, no
route into an implement) gives the first two halves of `OneHandPerWork`. Its last half is a fact of the
undisturbed machine only, and `Calmly` carries it: before any trouble and any merge attempt, only the loop
fires (`Quiet`), the issue rests once its implement completed (`Implemented`), the pull request is listed
for good (`Listed`), a reading without the verdict of rework is the last such one (`Late`), and nothing is
said after the verdict that ships (`Shipped`). The proof found the half to need "no merge attempt yet":
at limit 2 TLC never met the second attempt that breaks it (section 7).

Only model-checked: `BootsAgain`, `OperationsAnswer`, `ComesToRest`, `NothingLiesIdle`, `CatchesUp` and
`WaitsEnd`, for liveness under fairness is out of the prover's reach.

## 6. Plan

1. `Boot`: the stub gate and the answers of the model check.

## 7. Open questions

Behaviour met while the models were written that a maintainer may want to look at. The first group is
what a model reaches, the second what its abstraction leaves to the reader of the code.

* A fetch begun before a merge lands after `retireMergedTicket` (`handoff-dispatch.ts:1102`) and
  `applyFetch` (`source-fact.ts:146`) lists the pull request and its issue again until the next read,
  though ADR 0068 and ADR 0089 say a retired one stays retired. For the same reason a fetch begun before
  a cycle ended can lift `sourceReverifiedSinceCycleEnd`.
* A source already muted may take a ticket in while an automatic start of it waits under another source.
  The pickup reads no mute (`handoff-dispatch.ts:1972-2045`), so the machine starts it. ADR 0070 says
  "Every ticket of a muted source" takes no automatic start (its lines 52-54). `StartsWaitUnmuted` allows exactly this.
* The cleanup of a failed start closes the workspace the start created (`removeResidueCheckout`,
  `handoff.ts:1513`). In the live checkout another start may have opened its tab there and put its Agent to
  work meanwhile (`workspaceAtCheckout`, 3214), and loses it, though the comments at 1066-1067 and 1487
  say a failure removes what its start created and only that. The run `agent_takes` shows it;
  `KeepsEarlierWork` says nothing of tabs in such a workspace.
* The domain's table of moves is not what the state layer does. `TRANSITIONS` (`domain/ticket.ts:749-789`)
  has no move from open to running and none from a state to itself, and `test/domain.test.ts:111-123`
  asserts that `canTransition` refuses both, but nothing under `src/` calls `canTransition`.
  `reclaimHandoff` (`state/handoff.ts:498-543`) moves an open ticket straight to running, and a close or an
  abandon decided on a turn of a ticket that already rests open ends its cycle once more
  (`applyDecisionStateChange`, `state/ticket-work-cycle.ts:1007-1018`): the number grows though the state
  does not move. `TicketLine` has the two as `Reclaimed` and `EndedOpen`.
* A panel whose Consultation leaves the screen's list is not drawn and holds every key but Ctrl+C: a
  force-close's confirmation when a cleanup in the background closes the record first, or a checkout
  conflict raised while the history filter shows the closed ones (`app.ts:3074-3077`, 3232-3234). The guard
  that lets a panel go looks only at the close and the recovery panel (1864-1886; the keys, 5342-5351),
  though its comment says "A panel that is not drawn must not keep holding the keys the panels swallow."
* A lap takes the queue's rows once and awaits each merge it meets (`handoff-dispatch.ts:1527`). A row
  behind the merge that the operator cancels meanwhile is still ahead of the walk, and no gate of its claim
  looks whether the row stands: the cancelled start runs, though the comment at 1669-1676 says the cancel
  ends the row, the parked claim and the held intent together.
* A Consultation set missing while its agent runs (`consultation_missing`) closes on the key, unasked, for
  it counts as one without an agent (`app.ts:6954`): the cleanup then finds the agent and stops it.
* The refresh key (`refreshAll`, `refresh.ts:89`) does not cancel the pending timer as `refreshNow` does.
  The settled read then overwrites the timer's handle, and both schedules run for the coordinator's life.
* The mute key on a working ticket reaches the row of a source the config no longer names; a re-add right
  after comes back muted, though ADR 0070 says clean.
* A fire computes its label write from the projection; on old labels it may leave two of the machine's.
* `autoOn` is read once at the cycle's start (`observation.ts:968`), so turning Auto-handoff off in the
  middle of a cycle still closes turns automatically in it.
* A blocked merge asks for rework, and its hold ends with the first read that lands after it
  (`hasUnrefreshedActiveMembershipSince`, `source-fact.ts:333`). A read begun before the fire wrote
  `needs-work` and stamped after the attempt (`ticket-source.ts:196`) ends it too, with the old labels: the
  merge is asked again, and lands over `needs-work` if nothing blocks it now. The comment at
  `observation.ts:2839-2842` says the re-ask waits for the refresh that carries the written labels. TLC
  shows it at limit 3 with no operator and no failure; `OneHandPerWork` speaks of the first attempt.
* A merge attempt that was blocked while an automatic row waited counts as an attempt: the row's start
  may pass the limit by one. `MachineHoldsBack` allows exactly this.
* `i` on a Group header never asks `repositoryInitInFlight` (`app.ts:4117`), although ADR 0083 says it is
  refused while an init plans, and no marker stands while an act runs. Two confirmed acts of one
  repository both choose their sources before either registers: memory then holds a source twice
  (`repo-init-flow.ts:197` says it gains no duplicate), and a full rewrite writes a file whose next boot
  refuses the duplicate name (`config.ts:1714`). A second queue overwrites the first.
* The init's fact is written before its sources are registered: a crash or a failed write between leaves
  an initialised repository without sources and without a marker.
* A worktree whose `git worktree add` had its effect but no answer stays; a label made without an answer
  refuses the next act only if the list is unreadable too.
* The header of `config-write.ts` says an edit lost between read and rename is of a line the plane
  writes; the whole patched text is renamed over the file, so any edit of that moment is lost.
* A seat reserved for restarts is read at the head of a lap (`handoff-dispatch.ts:1661`); answers held
  for asks outlive rows that are removed below the dispatch; `setConsultationState` reopens a closed
  record as missing (`consultation-record.ts:629`); the removed mark is written after the row is gone
  (`work-queue.ts:425`); a pass in the gap of `finishHandoff` drops a row as not run (2056).

* A force-close during an opening's own steps does not stop it: `runOpeningStart` reads the state once
  (`consultation-operations.ts:1332`), before the fit check, the repository, the worktree and the pane, and
  the agent starts on a closed record. Its comment (1330-1331) says not to start one after the operator has
  settled the record. `ClosedHolds` speaks only of the opening that still waits in the queue.
* A newer build migrates the state file before it asks for the lease (`state/store.ts:76`), under a live
  run of an older build, and only then is refused.
* A watch reset between the acquire and `installStateShutdown` leaves a row whose pid lives: the next boot
  in that process is refused, though `factory.ts:85-87` says the pid is gone. `BootsAgain` promises only a
  boot in another pid.
* A second migration (an old key pasted back into the config) overwrites the backup of the first: the one
  of the operator's earlier text. A load's rename of a seed or of a migrated config also takes an edit, or
  a write-back of a run that is up, that came after its read (`config.ts:571`, 590).
* `loadStartupConfig` (`startup.ts:202-212`) passes on only the seed's note: the migration's note, which
  `config.ts:423-426` says the operator must see, is dropped.

Not in a model:

* The Response editor writes and sends with the Consultation under the cursor (`app.ts:7014`, 7047), and a
  failed send opens it again whatever the cursor stands on by then: one record's draft may be stored on,
  or sent to, another; over a Ticket or a queue row it is not drawn and takes the keys.
* `mainFactsListCanMove` (`app.ts:4588`) leaves the Work queue out of its count: a step down that is
  possible is refused.
* A start that reopens the branch of a stored worktree (`reuseBranch`, `handoff.ts:1723-1777`) does not put
  the branch on its record, for "The branch pre-dates the start either way". When the worktree was cleared
  as a leftover and its branch pruned in between, herdr builds the branch anew and no record names it: the
  failed start leaves it. `FailedLeavesNothing` speaks of the branches of starts that build one.
* The Work queue's cursor is an index: a row that leaves puts another under the key.
* `heldFailureTrace` (`ticket-work-cycle.ts:644`) asks for the ticket's own cycle, the held badge
  (`domain/ticket.ts:84`) does not: a late failed settle of an earlier handoff shows a badge that the
  Dispatch pause does not read. A late settle of a replaced handoff also parks a ticket whose newest
  handoff still works.
* `refreshAndWait` joins an older fetch in flight, so a position may keep its synthetic identity; a
  Close of a routed agent in flight leaves its trace unmarked and the route is offered again; issues
  that a pull request covers are never reached by a continuation walk (`observation.ts:1959`); an own
  draft without work is fired again each cycle; a re-fire compares outcomes by their bytes; the close of
  a draft at a cycle's end is not awaited and may meet the next cycle's draft.
* A leftover directory is not moved when no worktree is linked (`handoff.ts:2006`); the path for a stored
  workspace that is gone (1640) skips the branch checks; an agent that a crash left unrecorded holds the
  stable name; a Close after a route's close answers `workspace_not_found` and its checkout stays (2871).
* `gh label list` is called without a limit (`repo-init.ts:558`): in a repository with more labels than
  one page the standing ones past it are created again and refused, on every retry.
* `fetchedAt` is stamped when the last page is read (`ticket-source.ts:196`): a page read before a cycle's
  end counts as read after it. A pull-request source reads two queries one after the other; an item that
  moves between them is missed for one round.
* `ticketsWithMutedSource` and `ticketHasMutedSource` (`source-fact.ts:343-363`) also count memberships a
  source dropped, though the comment says active; a resting ticket's row counts the active ones.
* A mute leaves a waiting merge in the queue (`work-queue.ts:503`), though ADR 0070 says every item leaves.
* If `changed` throws in the refresh's `finally` (`refresh.ts:182`), no next timer stands. A stopped
  coordinator never calls `settled`, so a `refreshing` message may stand.
* The plan refuses a file whose section the block would swallow; the act does not look again.
* A lost response before a restart refuses new responses until the agent's own turn takes it over.

## 8. Not modelled

Rendering and, but for the Consultations' and the init's, the keys (`components/`), parsing of the configuration, the forges' and herdr's
wire formats, git command lines, turn logs, naming, notices and the stub world: data and I/O without
concurrency of their own. SQLite is taken as what it
promises: a transaction is atomic and survives the process. Each module's header names what it leaves
out; beyond that:

* `AgentStart`: the checks before the first command, prompts, settings, the base commit of a worktree, a
  pull request's own branch (`resolvePullRequestBranch`); herdr always names the holder of a name.
* `WorkflowRoutes`: the queue's and the Dispatch's pause, restart walks and missing agents, seats, ignored
  and muted tickets, name collisions and the park of failed starts, the reopened turn, several pull
  requests or sources of one issue, traces but the newest.
* `Boot`: what a migration makes of a text or of the rows, the arguments, the stub gate, log lines; a busy
  or damaged file and a refused model are an end of the run.
* `RepositoryInit`: a plan's reads are one step; the instruction file's choice, panels of other features,
  a fact that cannot be written. An exception thrown inside a plan leaves its marker standing.
* `SourceFacts`: the queries and pages of a read, which see the list at one moment; labels and all other
  facts of a ticket; time; the waiting rows that are no automatic start; the operator's own asks.
* `HandoffDispatch`: the report lines, the gate of a fixing pull request, and the choice of agent.
