------------------------------ MODULE SourceFacts ------------------------------
(***************************************************************************)
(* The ticket sources: who reads them when, what the state file keeps of a *)
(* read, and the two things that wait on it - the holds of the automatic   *)
(* starts and the fires that ask for a fresh read.  Several sources may    *)
(* list one ticket, and the operator may mute a source.                    *)
(*                                                                         *)
(* Source: refresh.ts (the coordinator), state/source-fact.ts (the facts), *)
(* ticket-source.ts and security-source.ts (a read), components/app.ts     *)
(* (who starts a coordinator and who asks it).                             *)
(*                                                                         *)
(* One action is one callback: a timer, an answer of the host, a read that *)
(* settles, a key.  A coordinator that was stopped may still have reads in *)
(* flight; they settle beside those of the next one.                       *)
(*                                                                         *)
(* Abstracted: a read's queries and pages, which see the list at one       *)
(* moment; labels and all facts of a ticket but who lists it; time, so a   *)
(* timer may fire at any moment; of the work queue, the one row of a start *)
(* per ticket; of a turn, that it runs and ends.                           *)
(***************************************************************************)
EXTENDS Naturals, FiniteSets

CONSTANTS
    Sources, Tickets,
    Policies,    \* whether a settled read stands the next: TRUE, or FALSE for a held plane
    PullSources, \* the sources a fire waits for: those that list pull requests
    FirstPlans,  \* bound: the configs of the first boot
    FirstLists,  \* bound: what a source may list at the first boot
    MaxEvents    \* bound: changes of a list, failed reads, keys, config edits, restarts

ASSUME SourceAssumption ==
    /\ IsFiniteSet(Sources) /\ IsFiniteSet(Tickets) /\ PullSources \subseteq Sources
    /\ Policies \subseteq BOOLEAN /\ FirstPlans \subseteq SUBSET Sources
    /\ FirstLists \subseteq SUBSET Tickets
    /\ MaxEvents \in Nat

VARIABLES
    \* the hosts
    list,     \* what a source lists, and how often that changed
    \* the process
    plan,     \* the config's sources, and whether the policy reads them again
    read,     \* the coordinator's read of each source, in flight or not
    late,     \* the reads of a coordinator that was stopped
    timer,    \* the timers that stand for a source
    \* the state file
    fact,     \* a source's health, its mute, its memberships
    ticket,   \* the state, the waiting start, the sources unread since the last end
    spent     \* the bound's counter

process == <<plan, read, late, timer>>
vars == <<list, process, fact, ticket, spent>>

Phases == {"idle", "asked", "answered", "failed"}
NoRead == [phase |-> "idle", got |-> {}, version |-> 0, waited |-> FALSE]
Asked == [NoRead EXCEPT !.phase = "asked"]
NoTimer == [named |-> FALSE, loose |-> 0]

Versions == 0..MaxEvents
Reads == [phase : Phases, got : SUBSET Tickets, version : Versions, waited : BOOLEAN]
Healths == {"unknown", "loading", "healthy", "stale", "removed"}
Facts == [health : Healths, muted : BOOLEAN, version : Versions,
          member : [Tickets -> {"never", "gone", "listed"}]]

Listed(s) == {t \in Tickets : fact[s].member[t] = "listed"}
ListedBy(t) == {s \in Sources : fact[s].member[t] = "listed"}
Known(t) == {s \in Sources : fact[s].member[t] # "never"}

--------------------------------------------------------------------------------
(* The coordinator. *)

InFlight(s) == read[s].phase # "idle"

\* Fault: only a read that succeeded is read again.
RescheduledIfRead(s) ==
    IF ~plan.again \/ read[s].phase = "failed" THEN timer
    ELSE [timer EXCEPT ![s] =
            [named |-> TRUE, loose |-> @.loose + (IF @.named THEN 1 ELSE 0)]]

\* A settled read lets go of its place, answers its waiters and stands the next timer,
\* whose handle takes the place of any other the coordinator remembered.
Rescheduled(s) ==
    IF ~plan.again THEN timer
    ELSE [timer EXCEPT ![s] =
            [named |-> TRUE, loose |-> @.loose + (IF @.named THEN 1 ELSE 0)]]

Begun(S) == [s \in Sources |-> IF s \in S /\ ~InFlight(s) THEN Asked ELSE read[s]]

\* refreshNow: the remembered timer is cancelled, a read in flight is left alone.
RefreshNow(S) == LET idle == {s \in S \cap plan.sources : ~InFlight(s)} IN
    /\ read' = Begun(idle)
    /\ timer' = [s \in Sources |-> IF s \in idle THEN [timer[s] EXCEPT !.named = FALSE]
                                   ELSE timer[s]]

--------------------------------------------------------------------------------
(* The facts. *)

\* A success replaces the source's list; a failure keeps it and marks it stale.
Applied(s, r) ==
    IF r.phase = "failed" THEN [fact[s] EXCEPT !.health = "stale"]
    ELSE [fact[s] EXCEPT
            !.health = "healthy", !.version = r.version,
            !.member = [t \in Tickets |-> IF t \in r.got THEN "listed"
                                          ELSE IF @[t] = "listed" THEN "gone" ELSE @[t]]]

\* Fault: the read lists tickets the table does not know.
OpenedNone(s, r) ==
    IF r.phase = "failed" THEN ticket
    ELSE [t \in Tickets |-> [ticket[t] EXCEPT !.unread = @ \ {s}]]

\* The read opens the tickets nobody listed before, and lifts its share of the holds.
Opened(s, r) ==
    IF r.phase = "failed" THEN ticket
    ELSE [t \in Tickets |->
            [ticket[t] EXCEPT !.state = IF @ = "none" /\ t \in r.got THEN "open" ELSE @,
                              !.unread = @ \ {s}]]

\* Fault: the removed source keeps its memberships.
LeftMarked(f) == [f EXCEPT !.health = "removed", !.muted = FALSE]

\* The start of a coordinator: a source the config no longer names is removed, with its
\* mute and its memberships; every other one loads.
Left(f) == [f EXCEPT !.health = "removed", !.muted = FALSE,
                     !.member = [t \in Tickets |-> IF @[t] = "listed" THEN "gone" ELSE @[t]]]

Initialized(S) == [s \in Sources |->
    IF s \in S THEN [fact[s] EXCEPT !.health = "loading"]
    ELSE IF fact[s].health = "unknown" THEN fact[s]
    ELSE Left(fact[s])]

\* The plane waits with an automatic start while a source that lists the ticket has no
\* success since its last cycle or its last start ended.
Holds(s, t) == s \in ListedBy(t) /\ s \in ticket[t].unread
Held(t) == \E s \in Sources : Holds(s, t)

\* The memberships a row shows: a resting ticket's active ones, and those a source
\* dropped too while an agent works.
Shown(t) == IF ticket[t].state = "working" THEN Known(t) ELSE ListedBy(t)
Muted(t) == \E s \in Shown(t) : fact[s].muted

--------------------------------------------------------------------------------
Init ==
    /\ list \in [Sources -> [on : FirstLists, version : {0}]]
    /\ plan \in [sources : FirstPlans, again : Policies]
    /\ read = [s \in Sources |-> IF s \in plan.sources THEN Asked ELSE NoRead]
    /\ late = [s \in Sources |-> NoRead]
    /\ timer = [s \in Sources |-> NoTimer]
    /\ fact = [s \in Sources |->
                [health |-> IF s \in plan.sources THEN "loading" ELSE "unknown",
                 muted |-> FALSE, version |-> 0, member |-> [t \in Tickets |-> "never"]]]
    /\ ticket = [t \in Tickets |-> [state |-> "none", row |-> FALSE, unread |-> {}]]
    /\ spent = 0

Event == spent < MaxEvents /\ spent' = spent + 1

(* The hosts. *)

\* A ticket enters or leaves what a source lists.
Change(s, t) ==
    /\ Event
    /\ list' = [list EXCEPT ![s] =
                  [on |-> IF t \in @.on THEN @.on \ {t} ELSE @.on \cup {t},
                   version |-> @.version + 1]]
    /\ UNCHANGED <<process, fact, ticket>>

\* A merge the plane ran: the host lists the pull request no more, and the plane
\* retires it.
Merge(t) ==
    /\ Event /\ ListedBy(t) # {}
    /\ list' = [s \in Sources |-> IF t \notin list[s].on THEN list[s]
                                  ELSE [on |-> list[s].on \ {t}, version |-> list[s].version + 1]]
    /\ fact' = [s \in Sources |-> IF s \in ListedBy(t)
                                  THEN [fact[s] EXCEPT !.member[t] = "gone"] ELSE fact[s]]
    /\ UNCHANGED <<process, ticket>>

\* The host answers a read.
Answer(s) ==
    /\ read[s].phase = "asked"
    /\ read' = [read EXCEPT ![s] = [phase |-> "answered", got |-> list[s].on,
                                    version |-> list[s].version, waited |-> @.waited]]
    /\ UNCHANGED <<list, plan, late, timer, fact, ticket, spent>>

\* A command of the read fails or times out: what it read so far is dropped.
FailRead(s) ==
    /\ Event /\ read[s].phase = "asked"
    /\ read' = [read EXCEPT ![s].phase = "failed"]
    /\ UNCHANGED <<list, plan, late, timer, fact, ticket>>

(* The coordinator. *)

\* A timer fires: the source is read unless it is being read.
Fire(s) ==
    /\ \/ timer[s].named /\ timer' = [timer EXCEPT ![s].named = FALSE]
       \/ timer[s].loose > 0 /\ timer' = [timer EXCEPT ![s].loose = @ - 1]
    /\ read' = Begun({s})
    /\ UNCHANGED <<list, plan, late, fact, ticket, spent>>

\* A read settles.
Settle(s) ==
    /\ read[s].phase \in {"answered", "failed"}
    /\ fact' = [fact EXCEPT ![s] = Applied(s, read[s])]
    /\ ticket' = Opened(s, read[s])
    /\ read' = [read EXCEPT ![s] = NoRead]
    /\ timer' = Rescheduled(s)
    /\ UNCHANGED <<list, plan, late, spent>>

\* Fault: it is not asked whether the coordinator was stopped.
SettleLateToo(s) ==
    /\ late[s].phase \in {"answered", "failed"}
    /\ fact' = [fact EXCEPT ![s] = Applied(s, late[s])]
    /\ ticket' = Opened(s, late[s])
    /\ late' = [late EXCEPT ![s] = NoRead]
    /\ UNCHANGED <<list, plan, read, timer, spent>>

\* A read of a stopped coordinator settles: it answers its waiters and touches nothing.
SettleLate(s) ==
    /\ late[s].phase # "idle"
    /\ late' = [late EXCEPT ![s] = NoRead]
    /\ UNCHANGED <<list, plan, read, timer, fact, ticket, spent>>

\* refreshAndWait: a fire asks for a fresh read, or joins the one in flight.
Await(s) ==
    /\ s \in plan.sources \cap PullSources /\ ~read[s].waited
    /\ read' = [read EXCEPT ![s] = [(IF InFlight(s) THEN @ ELSE Asked) EXCEPT !.waited = TRUE]]
    /\ timer' = IF InFlight(s) THEN timer ELSE [timer EXCEPT ![s].named = FALSE]
    /\ UNCHANGED <<list, plan, late, fact, ticket, spent>>

\* A coordinator starts over the sources S.
Starts(S, again) ==
    /\ plan' = [sources |-> S, again |-> again]
    /\ fact' = Initialized(S)
    /\ read' = [s \in Sources |-> IF s \in S THEN Asked ELSE NoRead]
    /\ timer' = [s \in Sources |-> NoTimer]

\* The config in memory gains a source, or is read anew: the coordinator is replaced.
\* Its timers go; those it forgot find it stopped.  (Bound: one stopped coordinator
\* with reads in flight at a time.)
Rebind(S) ==
    /\ Event /\ \A s \in Sources : late[s] = NoRead
    /\ Starts(plan.sources \cup S, plan.again)
    /\ late' = read
    /\ UNCHANGED <<list, ticket>>

\* The process ends at any moment; the next one may have another config and policy.
Restart(S, again) ==
    /\ Event
    /\ Starts(S, again)
    /\ late' = [s \in Sources |-> NoRead]
    /\ UNCHANGED <<list, ticket>>

(* The operator. *)

\* The refresh key starts every idle source and leaves the timers.
Refresh ==
    /\ Event
    /\ read' = Begun(plan.sources)
    /\ UNCHANGED <<list, plan, late, timer, fact, ticket>>

\* Fault: the waiting starts stay.
StillQueued(S) == ticket

\* A mute takes the waiting starts of all tickets of the sources out of the queue.
Unqueued(S) == [u \in Tickets |-> IF S \cap Known(u) # {} THEN [ticket[u] EXCEPT !.row = FALSE]
                                  ELSE ticket[u]]

\* The mute key flips every source the row names.
Mute(t) == LET flag == ~Muted(t) IN
    /\ Event /\ ticket[t].state # "none" /\ Shown(t) # {}
    /\ fact' = [s \in Sources |-> IF s \in Shown(t) THEN [fact[s] EXCEPT !.muted = flag]
                                  ELSE fact[s]]
    /\ ticket' = IF flag THEN Unqueued(Shown(t)) ELSE ticket
    /\ UNCHANGED <<list, process>>

(* The factory. *)

\* The top-up adds one start into the empty queue.
TopUp(t) ==
    /\ \A u \in Tickets : ~ticket[u].row
    /\ ticket[t].state = "open" /\ ~Muted(t) /\ ~Held(t)
    /\ \E s \in ListedBy(t) : fact[s].health = "healthy"
    /\ ticket' = [ticket EXCEPT ![t].row = TRUE]
    /\ UNCHANGED <<list, process, fact, spent>>

\* The pickup starts the row's agent; neither the mute nor the holds are read again.
Pickup(t) ==
    /\ ticket[t].row /\ Shown(t) # {}
    /\ ticket' = [ticket EXCEPT ![t].row = FALSE, ![t].state = "working"]
    /\ UNCHANGED <<list, process, fact, spent>>

\* The start fails, or nobody lists the ticket any more: the row leaves, and the failed
\* attempt waits for newer reads.
StartFails(t) ==
    /\ ticket[t].row
    /\ ticket' = [ticket EXCEPT ![t].row = FALSE, ![t].unread = Sources]
    /\ UNCHANGED <<list, process, fact, spent>>

\* The cycle ends: the plane asks all the ticket's sources for a read now.
CycleEnds(t) ==
    /\ ticket[t].state = "working"
    /\ ticket' = [ticket EXCEPT ![t].state = "open", ![t].unread = Sources]
    /\ RefreshNow(Known(t))
    /\ UNCHANGED <<list, plan, late, fact, spent>>

--------------------------------------------------------------------------------
Next ==
    \/ \E s \in Sources : Answer(s) \/ FailRead(s) \/ Fire(s) \/ Settle(s)
                          \/ SettleLate(s) \/ Await(s)
    \/ \E s \in Sources, t \in Tickets : Change(s, t)
    \/ \E t \in Tickets : Merge(t) \/ Mute(t) \/ TopUp(t) \/ Pickup(t)
                          \/ StartFails(t) \/ CycleEnds(t)
    \/ Refresh
    \/ \E S \in SUBSET Sources : Rebind(S) \/ \E again \in Policies : Restart(S, again)

Spec == Init /\ [][Next]_vars

\* A command answers within its timeout, a promise that resolved goes on, a timer fires.
FairSpec ==
    /\ Spec
    /\ \A s \in Sources : /\ WF_vars(Answer(s)) /\ WF_vars(Settle(s))
                          /\ WF_vars(SettleLate(s)) /\ WF_vars(Fire(s))

--------------------------------------------------------------------------------
(* Properties. *)

\* Every record has its shape, and the table knows each ticket a membership names.
TypeOK ==
    /\ \A t \in Tickets : Known(t) # {} => ticket[t].state # "none"
    /\ list \in [Sources -> [on : SUBSET Tickets, version : Versions]]
    /\ plan \in [sources : SUBSET Sources, again : BOOLEAN]
    /\ read \in [Sources -> Reads] /\ late \in [Sources -> Reads]
    /\ timer \in [Sources -> [named : BOOLEAN, loose : Nat]]
    /\ fact \in [Sources -> Facts]
    /\ ticket \in [Tickets -> [state : {"none", "open", "working"},
                               row : BOOLEAN, unread : SUBSET Sources]]
    /\ spent \in 0..MaxEvents

\* A source's memberships never go back in time: whatever coordinators come and go with
\* reads in flight, an older list never takes the place of a newer one.
NewestReadStands == [][\A s \in Sources : fact'[s].version >= fact[s].version]_vars

\* Under a policy that reads again, no source is ever forgotten: once the hosts are
\* quiet, what the plane lists is what they list, and a removed source lists nothing.
\* A merged ticket that an older read brought back is gone again too.
CatchesUp == <>[](plan.again => \A s \in Sources :
    Listed(s) = IF s \in plan.sources THEN list[s].on ELSE {})

\* Nothing waits on a source for good: a fire's wait for a read ends, the coordinator's
\* stop and failures included, and each source's share of a hold is lifted, though the
\* source may leave the config.
WaitsEnd ==
    /\ \A s \in Sources : read[s].waited ~> ~read[s].waited
    /\ \A s \in Sources : late[s].waited ~> ~late[s].waited
    /\ \A s \in Sources, t \in Tickets : (plan.again /\ Holds(s, t)) ~> ~(plan.again /\ Holds(s, t))

\* An automatic start waits under a mute in one way only: a source that is muted takes
\* the ticket in while the start waits.  The mute itself leaves none behind, neither of
\* tickets a source once brought and dropped, and the top-up adds none.
StartsWaitUnmuted == [][\A t \in Tickets :
    ticket'[t].row /\ Muted(t)' =>
        /\ ticket[t].row
        /\ Muted(t) \/ \E s \in ListedBy(t)' \ ListedBy(t) : fact[s].muted]_vars
================================================================================
