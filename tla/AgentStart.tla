------------------------------- MODULE AgentStart -------------------------------
(***************************************************************************)
(* The start of an Agent: the herdr and git commands one start runs, what  *)
(* it remembers of what it made, and the cleanup of a start that failed.   *)
(* Starts of Tickets and of Consultations meet at one Repository's         *)
(* checkout, in the herdr workspaces that stand there.                     *)
(*                                                                         *)
(* Source: handoff.ts; its callers are handoff-dispatch.ts for a Ticket    *)
(* and consultation-operations.ts for a Consultation.                      *)
(*                                                                         *)
(* One action is one awaited command with the code up to the next one.  A  *)
(* command is answered "ok", is "refused" without effect, is "lost" (it    *)
(* had its effect and its answer is a failure: a timeout, an unreadable    *)
(* answer), or is "partial" (the answer names what was made and not its    *)
(* pane).  What herdr and git hold is the world the commands change.       *)
(*                                                                         *)
(* Abstracted: the agent's settings, the prompt's text, the notes, the     *)
(* base commit of a worktree; a branch is the number of commits it is      *)
(* ahead of nothing, its copy on origin likewise.                          *)
(***************************************************************************)
EXTENDS Integers, Sequences

CONSTANTS
    Tickets, Consultations, \* whose starts meet at the checkout
    MaxStarts,              \* bound: starts of one actor
    MaxFaults,              \* bound: commands that are not answered "ok"
    MaxEvents,              \* bound: acts of the operator and the agents, crashes
    MaxTip                  \* bound: commits of one branch

Actors == Tickets \cup Consultations

ASSUME StartAssumption ==
    /\ Tickets \cap Consultations = {} /\ "checkout" \notin Actors
    /\ MaxStarts \in [Actors -> Nat] /\ MaxFaults \in Nat /\ MaxEvents \in Nat
    /\ MaxTip \in Nat \ {0, 1}

VARIABLES
    \* the world
    spaces,    \* the herdr workspaces: who made it, and the directory it is at
    tabs,      \* the tabs: who made it, its workspace, the agent it runs
    tree,      \* what stands at the path of an actor's worktree
    local,     \* the actor's branch in the checkout, 0 for none
    remote,    \* its copy on origin, 0 for none
    drafts,    \* the open pull requests on it
    \* the state file
    recorded,  \* the handles of the actor's starts that reached an Agent
    latest,    \* the newest of them
    live,      \* whether the work cycle of that start is still open
    cycle,     \* the ticket's work cycle
    leftover,  \* of the recorded: those the ticket knows as left alive
    rows,      \* the Consultations' resource rows
    \* the process
    run,       \* the start at work, or how the last one ended
    spent      \* the bounds' counters

herdr == <<spaces, tabs>>
branches == <<local, remote, drafts>>
world == <<herdr, tree, branches>>
memory == <<recorded, latest, live, cycle, leftover>>
vars == <<world, memory, rows, run, spent>>

Parts == {"tab", "root", "space", "tree", "branch"}
Nothing == <<>>
Steps == {"route", "list", "tab", "space", "branch", "remote", "fetch", "open",
          "find", "reopen", "create", "aside", "again", "listed", "hold", "push",
          "pulls", "draft", "agent", "prompt", "clean tab", "clean checkout",
          "clean branch", "rest"}

(* A handle names the start that made the thing, <<actor, number>>. *)
NoTab == [by |-> Nothing, root |-> FALSE]
NoEntry == [worktree |-> FALSE, space |-> Nothing, tab |-> NoTab]
NoRun == [step |-> "rest", n |-> 0, worktree |-> FALSE, opens |-> FALSE,
          stored |-> FALSE, continues |-> FALSE, builds |-> FALSE,
          space |-> Nothing, tab |-> NoTab, ask |-> 1, met |-> NoTab,
          made |-> {}, unseen |-> {}, handed |-> FALSE, accepted |-> FALSE,
          failed |-> FALSE, disturbed |-> FALSE]

(* What names a workspace, a tab and a recorded start. *)
Starts == Actors \X Nat
Operator == <<"operator">>
Makers == Starts \cup {Operator}
Handles == [by : Starts \cup {Nothing}, root : BOOLEAN]
Entries == [worktree : BOOLEAN, space : Makers \cup {Nothing}, tab : Handles]
Runs == [step : Steps, n : Nat, worktree : BOOLEAN, opens : BOOLEAN,
         stored : BOOLEAN, continues : BOOLEAN, builds : BOOLEAN,
         space : Makers \cup {Nothing}, tab : Handles, ask : 1..3, met : Handles,
         made : SUBSET Parts, unseen : SUBSET Parts, handed : BOOLEAN,
         accepted : BOOLEAN, failed : BOOLEAN, disturbed : BOOLEAN]

(* The types; and a tab stands in a workspace that stands, a ticket's      *)
(* leftovers are of the starts it recorded, and an open cycle has one.     *)
TypeOK ==
    /\ spaces \subseteq [by : Makers, at : Actors \cup {"checkout"}]
    /\ tabs \subseteq [by : Starts, root : BOOLEAN, space : Makers,
                       agent : Seq(Actors \cup Nat)]
    /\ \A t \in tabs : t.space \in {s.by : s \in spaces}
    /\ tree \in [Actors -> [is : {"none", "stands", "other", "leftover"}, by : Nat]]
    /\ local \in [Actors -> [tip : 0..MaxTip, by : Nat]]
    /\ remote \in [Actors -> 0..MaxTip] /\ drafts \in [Actors -> 0..2]
    /\ recorded \in [Tickets -> SUBSET Entries] /\ latest \in [Tickets -> Entries]
    /\ live \in [Tickets -> BOOLEAN] /\ cycle \in [Tickets -> Nat]
    /\ leftover \in [Tickets -> SUBSET Entries]
    /\ \A t \in Tickets : leftover[t] \subseteq recorded[t]
    /\ \A t \in Tickets : live[t] => latest[t] \in recorded[t]
    /\ rows \subseteq (Consultations \X Nat) \X Parts
    /\ run \in [Actors -> Runs] /\ \A a \in Actors : run[a].n <= MaxStarts[a]
    /\ spent \in [faults : 0..MaxFaults, events : 0..MaxEvents]

(* The operator may have a workspace of their own at the checkout. *)
Operators == [by |-> Operator, at |-> "checkout"]

Init ==
    /\ spaces \in {{}, {Operators}}
    /\ tabs = {}
    /\ tree = [a \in Actors |-> [is |-> "none", by |-> 0]]
    /\ local = [a \in Actors |-> [tip |-> 0, by |-> 0]]
    /\ remote = [a \in Actors |-> 0]
    /\ drafts = [a \in Actors |-> 0]
    /\ recorded = [t \in Tickets |-> {}]
    /\ latest = [t \in Tickets |-> NoEntry]
    /\ live = [t \in Tickets |-> FALSE]
    /\ cycle = [t \in Tickets |-> 1]
    /\ leftover = [t \in Tickets |-> {}]
    /\ rows = {}
    /\ run = [a \in Actors |-> NoRun]
    /\ spent = [faults |-> 0, events |-> 0]

--------------------------------------------------------------------------------
(* A start, its steps and its answers. *)

At(a, step) == run[a].step = step
Resting(a) == At(a, "rest")
Id(a) == <<a, run[a].n>>
Lower(m, n) == IF m < n THEN m ELSE n

(* The command of the step is answered o: anything but "ok" is a fault. *)
Answered(o) ==
    IF o = "ok" THEN UNCHANGED spent
    ELSE spent.faults < MaxFaults /\ spent' = [spent EXCEPT !.faults = @ + 1]

Takes(o) == o \in {"ok", "lost", "partial"}

CleaningNoSpace(made) ==
    IF "tab" \in made THEN "clean tab"
    ELSE IF "tree" \in made THEN "clean checkout"
    ELSE IF "branch" \in made THEN "clean branch" ELSE "rest"

(* What is left to remove of what the start made, the tab first. *)
Cleaning(made) ==
    IF "tab" \in made THEN "clean tab"
    ELSE IF made \cap {"space", "tree"} # {} THEN "clean checkout"
    ELSE IF "branch" \in made THEN "clean branch" ELSE "rest"

Fails(r) == [r EXCEPT !.step = Cleaning(r.made), !.failed = TRUE]
Becomes(a, r) == run' = [run EXCEPT ![a] = r]

(* After the Environment: the Pull request open, where the task has one. *)
Stands(r) == [r EXCEPT !.step = IF r.opens THEN "listed" ELSE "agent"]

FirstStep(r) == IF r.worktree /\ ~r.stored THEN "branch" ELSE "list"

Row(a, parts) ==
    rows' = IF a \in Consultations THEN rows \cup {<<Id(a), p>> : p \in parts} ELSE rows
Unrow(a, parts) == rows' = rows \ {<<Id(a), p>> : p \in parts}

SpaceIds == {s.by : s \in spaces}
Standing(at) == {s \in spaces : s.at = at}
Root(a) == [by |-> Id(a), root |-> TRUE]
Fresh(a) == [by |-> Id(a), root |-> FALSE]

(* What the start has on its record of what it made, and what it was never told. *)
Makes(r, o, known, parts) ==
    [r EXCEPT !.made = @ \cup known,
              !.unseen = @ \cup (IF Takes(o) THEN parts \ known ELSE {})]
NewTab(a, root, space) == [by |-> Id(a), root |-> root, space |-> space, agent |-> Nothing]
Without(space) == /\ spaces' = {s \in spaces : s.by # space}
                  /\ tabs' = {t \in tabs : t.space # space}
Handle(t) == [by |-> t.by, root |-> t.root]
TabOf(h) == {t \in tabs : Handle(t) = h}

(* A start begins.  Ticket starts share one seat; the starts that work a   *)
(* worktree hold the checkout against each other.  A continuation states   *)
(* the Environment of the newest start, and a route closes it first.       *)
Begin(a) ==
    /\ Resting(a) /\ run[a].n < MaxStarts[a]
    /\ a \in Tickets => \A t \in Tickets : Resting(t)
    /\ a \in Consultations => ~run[a].accepted
    /\ \E worktree, opens, continues, route \in BOOLEAN :
          /\ opens => worktree /\ a \in Tickets
          /\ worktree => \A b \in Actors : run[b].worktree => Resting(b)
          /\ continues <=> a \in Tickets /\ live[a]
          /\ route => continues
          /\ LET r == [NoRun EXCEPT !.n = run[a].n + 1, !.worktree = worktree,
                        !.opens = opens, !.continues = continues,
                        !.stored = continues /\ latest[a].worktree = worktree]
             IN Becomes(a, [r EXCEPT !.step = IF route THEN "route" ELSE FirstStep(r)])
    /\ UNCHANGED <<world, memory, rows, spent>>

(* closeStoredEnvironment: a route closes the workspace, or the tab alone, *)
(* and whatever herdr answers the start runs.                              *)
RouteClose(a) ==
    /\ At(a, "route")
    /\ \E o \in {"ok", "refused", "lost"} :
          /\ Answered(o)
          /\ IF o = "refused" THEN UNCHANGED herdr
             ELSE IF latest[a].worktree THEN Without(latest[a].space)
             ELSE tabs' = tabs \ TabOf(latest[a].tab) /\ UNCHANGED spaces
    /\ Becomes(a, [run[a] EXCEPT !.step = FirstStep(run[a])])
    /\ UNCHANGED <<tree, branches, memory, rows>>

(* readStartWorkspaces, with the choice each Environment makes of the list. *)
ReadWorkspaces(a) ==
    /\ At(a, "list")
    /\ \E o \in {"ok", "refused"} :
          /\ Answered(o)
          /\ LET held == run[a].stored /\ latest[a].space \in SpaceIds IN
             IF o = "refused" THEN Becomes(a, Fails(run[a]))
             ELSE IF held
             THEN Becomes(a, [run[a] EXCEPT !.step = "tab", !.space = latest[a].space])
             ELSE IF run[a].worktree THEN Becomes(a, [run[a] EXCEPT !.step = "open"])
             ELSE IF Standing("checkout") = {}
             THEN Becomes(a, [run[a] EXCEPT !.step = "space"])
             ELSE \E s \in Standing("checkout") :
                    Becomes(a, [run[a] EXCEPT !.step = "tab", !.space = s.by])
    /\ UNCHANGED <<world, memory, rows>>

(* A workspace of the start's own.  A Consultation works in its root pane, *)
(* a Ticket in a tab beside it.                                            *)
CreateSpace(a) ==
    /\ At(a, "space")
    /\ \E o \in {"ok", "refused", "lost", "partial"} :
          /\ Answered(o)
          /\ IF ~Takes(o) THEN UNCHANGED herdr
             ELSE /\ spaces' = spaces \cup {[by |-> Id(a), at |-> "checkout"]}
                  /\ tabs' = tabs \cup {NewTab(a, TRUE, Id(a))}
          /\ LET known == IF o \in {"ok", "partial"} THEN {"space", "root"} ELSE {}
                 r == Makes(run[a], o, known, {"space", "root"})
             IN /\ Row(a, known)
                /\ IF known = {} THEN Becomes(a, Fails(r))
                   ELSE IF a \in Tickets
                   THEN Becomes(a, [r EXCEPT !.step = "tab", !.space = Id(a)])
                   ELSE IF o = "partial" THEN Becomes(a, Fails(r))
                   ELSE Becomes(a, Stands([r EXCEPT !.space = Id(a), !.tab = Root(a)]))
    /\ UNCHANGED <<tree, branches, memory>>

(* openFreshTab: herdr refuses it when the workspace went since the list. *)
OpenFreshTab(a) ==
    /\ At(a, "tab")
    /\ \E o \in {"ok", "refused", "lost", "partial"} :
          LET stands == run[a].space \in SpaceIds
              known == IF o \in {"ok", "partial"} THEN {"tab"} ELSE {}
              r == Makes(run[a], o, known, {"tab"})
          IN IF ~stands
             THEN /\ o = "ok" /\ Becomes(a, Fails(run[a]))
                  /\ UNCHANGED <<herdr, rows, spent>>
             ELSE /\ Answered(o)
                  /\ tabs' = IF Takes(o) THEN tabs \cup {NewTab(a, FALSE, run[a].space)} ELSE tabs
                  /\ Row(a, known)
                  /\ Becomes(a, IF o = "ok" THEN Stands([r EXCEPT !.tab = Fresh(a)]) ELSE Fails(r))
                  /\ UNCHANGED spaces
    /\ UNCHANGED <<tree, branches, memory>>

--------------------------------------------------------------------------------
(* The worktree Environment: the branch, and the worktree that holds it. *)

(* The local branch: a Ticket's is reused, a Consultation's is refused. *)
CheckBranch(a) ==
    /\ At(a, "branch")
    /\ \E o \in {"ok", "refused"} :
          /\ Answered(o)
          /\ Becomes(a,
               IF o = "refused" \/ (local[a].tip > 0 /\ a \in Consultations) THEN Fails(run[a])
               ELSE IF local[a].tip > 0 THEN [run[a] EXCEPT !.step = "open"]
               ELSE IF a \in Tickets THEN [run[a] EXCEPT !.step = "remote"]
               ELSE [run[a] EXCEPT !.step = "create", !.builds = TRUE])
    /\ UNCHANGED <<world, memory, rows>>

CheckNoRemote(a) ==
    /\ At(a, "remote")
    /\ Becomes(a, [run[a] EXCEPT !.step = "create", !.builds = TRUE])
    /\ UNCHANGED <<world, memory, rows, spent>>

(* remoteBranchStands: a read that does not answer says nothing. *)
CheckRemote(a) ==
    /\ At(a, "remote")
    /\ \E o \in {"ok", "refused"} :
          /\ Answered(o)
          /\ Becomes(a, IF o = "ok" /\ remote[a] > 0 THEN [run[a] EXCEPT !.step = "fetch"]
                        ELSE [run[a] EXCEPT !.step = "create", !.builds = TRUE])
    /\ UNCHANGED <<world, memory, rows>>

FetchBranch(a) ==
    /\ At(a, "fetch")
    /\ \E o \in {"ok", "refused", "lost"} :
          /\ Answered(o)
          /\ local' = IF Takes(o) THEN [local EXCEPT ![a] = [tip |-> remote[a], by |-> 0]] ELSE local
          /\ Becomes(a, IF o = "ok" THEN [run[a] EXCEPT !.step = "open"] ELSE Fails(run[a]))
    /\ UNCHANGED <<herdr, tree, remote, drafts, memory, rows>>

(* startInOpenedWorktree: a workspace that is open on the worktree takes a *)
(* fresh tab; the one herdr attaches gives its root tab, and is on the     *)
(* start's record without a row.                                           *)
OpenedWorktree(a) ==
    \E o \in {"ok", "refused", "lost", "partial"} :
      /\ Answered(o)
      /\ IF Standing(a) # {}
         THEN /\ UNCHANGED herdr
              /\ IF o = "ok"
                 THEN \E s \in Standing(a) :
                        Becomes(a, [run[a] EXCEPT !.step = "tab", !.space = s.by])
                 ELSE Becomes(a, Fails(run[a]))
         ELSE LET known == IF o \in {"ok", "partial"} THEN {"space"} ELSE {}
                  r == Makes(run[a], o, known, {"space"})
              IN /\ IF ~Takes(o) THEN UNCHANGED herdr
                    ELSE /\ spaces' = spaces \cup {[by |-> Id(a), at |-> a]}
                         /\ tabs' = tabs \cup {NewTab(a, TRUE, Id(a))}
                 /\ Becomes(a, IF o = "ok"
                               THEN Stands([r EXCEPT !.space = Id(a), !.tab = Root(a)])
                               ELSE Fails(r))

(* reuseBranch: the worktree is opened by its branch; when none stands on  *)
(* it, the path its name gives is asked for, and opened by path.           *)
OpenWorktree(a) ==
    /\ run[a].step \in {"open", "reopen"}
    /\ LET there == tree[a].is \in (IF At(a, "open") THEN {"stands"} ELSE {"stands", "other"})
           other == IF At(a, "open") THEN "find" ELSE "create"
       IN IF ~there
          THEN /\ Becomes(a, [run[a] EXCEPT !.step = other])
               /\ UNCHANGED <<herdr, spent>>
          ELSE OpenedWorktree(a)
    /\ UNCHANGED <<tree, branches, memory, rows>>

FindWorktree(a) ==
    /\ At(a, "find")
    /\ \E o \in {"ok", "refused"} :
          /\ Answered(o)
          /\ Becomes(a, IF o = "ok" /\ tree[a].is \in {"stands", "other"}
                        THEN [run[a] EXCEPT !.step = "reopen"]
                        ELSE [run[a] EXCEPT !.step = "create"])
    /\ UNCHANGED <<world, memory, rows>>

(* Only a branch the start builds goes on its record. *)
WorktreePartsAll(a) == {"space", "root", "tree", "branch"}
WorktreeParts(a) ==
    {"space", "root", "tree"} \cup (IF run[a].builds THEN {"branch"} ELSE {})

(* createWorktree with createdWorktreeAnswer: git refuses a path that is   *)
(* not free, and a branch that stands when the start means to build it.    *)
CreateWorktree(a) ==
    /\ run[a].step \in {"create", "again"}
    /\ LET free == tree[a].is = "none" /\ (run[a].builds => local[a].tip = 0)
           refused == IF At(a, "create") THEN [run[a] EXCEPT !.step = "aside"] ELSE Fails(run[a])
           parts == WorktreeParts(a)
       IN IF ~free
          THEN Becomes(a, refused) /\ UNCHANGED <<herdr, tree, local, rows, spent>>
          ELSE \E o \in {"ok", "refused", "lost", "partial"} :
            LET known == IF o \in {"ok", "partial"} THEN parts ELSE {}
                r == Makes(run[a], o, known, parts)
            IN /\ Answered(o)
               /\ Row(a, known \ {"branch"})
               /\ IF ~Takes(o) THEN UNCHANGED <<herdr, tree, local>>
                  ELSE /\ spaces' = spaces \cup {[by |-> Id(a), at |-> a]}
                       /\ tabs' = tabs \cup {NewTab(a, TRUE, Id(a))}
                       /\ tree' = [tree EXCEPT ![a] = [is |-> "stands", by |-> run[a].n]]
                       /\ local' = IF local[a].tip > 0 THEN local
                                   ELSE [local EXCEPT ![a] = [tip |-> 1, by |-> run[a].n]]
               /\ Becomes(a, CASE o = "ok" -> Stands([r EXCEPT !.space = Id(a), !.tab = Root(a)])
                               [] o = "partial" -> Fails(r)
                               [] OTHER -> [r EXCEPT !.step = refused.step, !.failed = refused.failed])
    /\ UNCHANGED <<remote, drafts, memory>>

(* moveLeftoverWorktreeDirectory: the list must name the directory the     *)
(* worktrees stand in, git must hold no record of the path, and a          *)
(* directory that is no checkout must block it.                            *)
MoveLeftover(a) ==
    /\ At(a, "aside")
    /\ \E o \in {"ok", "refused"} :
          /\ Answered(o)
          /\ LET moves == /\ o = "ok" /\ tree[a].is = "leftover"
                          /\ \E b \in Actors : tree[b].is \in {"stands", "other"}
             IN IF moves
                THEN /\ tree' = [tree EXCEPT ![a].is = "none"]
                     /\ Becomes(a, [run[a] EXCEPT !.step = "again"])
                ELSE Becomes(a, Fails(run[a])) /\ UNCHANGED tree
    /\ UNCHANGED <<herdr, branches, memory, rows>>

--------------------------------------------------------------------------------
(* The Pull request open of a task that opens one. *)

CheckListed(a) ==
    /\ At(a, "listed")
    /\ \E o \in {"ok", "refused"} :
          /\ Answered(o)
          /\ Becomes(a, IF o = "refused" THEN Fails(run[a])
                        ELSE [run[a] EXCEPT !.step = IF remote[a] > 0 THEN "push" ELSE "hold"])
    /\ UNCHANGED <<world, memory, rows>>

(* holdFreshBranch: an empty commit, so that the source takes the draft. *)
HoldBranch(a) ==
    /\ At(a, "hold")
    /\ \E o \in {"ok", "refused", "lost"} :
          IF local[a].tip = 0
          THEN o = "ok" /\ Becomes(a, Fails(run[a])) /\ UNCHANGED <<local, spent>>
          ELSE /\ Answered(o)
               /\ local' = IF Takes(o) THEN [local EXCEPT ![a].tip = Lower(@ + 1, MaxTip)] ELSE local
               /\ Becomes(a, IF o = "ok" THEN [run[a] EXCEPT !.step = "push"] ELSE Fails(run[a]))
    /\ UNCHANGED <<herdr, tree, remote, drafts, memory, rows>>

HandsOver(r) == [r EXCEPT !.made = @ \ {"branch"}, !.handed = TRUE]

(* pushFactoryBranch: a push that lands hands the branch to the ticket's   *)
(* pull request; one that raises may have landed, and hands it over too.   *)
PushBranch(a) ==
    /\ At(a, "push")
    /\ LET lands == local[a].tip > 0 /\ local[a].tip >= remote[a]
       IN IF ~lands THEN Becomes(a, Fails(run[a])) /\ UNCHANGED <<remote, spent>>
          ELSE \E o \in {"ok", "refused", "lost"}, raised \in BOOLEAN :
            /\ raised => o # "ok"
            /\ Answered(o)
            /\ remote' = IF Takes(o) THEN [remote EXCEPT ![a] = local[a].tip] ELSE remote
            /\ Becomes(a, IF o = "ok" THEN [HandsOver(run[a]) EXCEPT !.step = "pulls"]
                          ELSE Fails(IF raised THEN HandsOver(run[a]) ELSE run[a]))
    /\ UNCHANGED <<herdr, tree, local, drafts, memory, rows>>

(* openedPullRequestForBranch: the standing pull request, or a draft. *)
ListPullRequests(a) ==
    /\ At(a, "pulls")
    /\ \E o \in {"ok", "refused"} :
          /\ Answered(o)
          /\ Becomes(a, IF o = "refused" THEN Fails(run[a])
                        ELSE [run[a] EXCEPT !.step = IF drafts[a] > 0 THEN "agent" ELSE "draft"])
    /\ UNCHANGED <<world, memory, rows>>

OpenDraft(a) ==
    /\ At(a, "draft")
    /\ \E o \in {"ok", "refused", "lost"} :
          /\ Answered(o)
          /\ drafts' = IF Takes(o) THEN [drafts EXCEPT ![a] = Lower(@ + 1, 2)] ELSE drafts
          /\ Becomes(a, IF o = "ok" THEN [run[a] EXCEPT !.step = "agent"] ELSE Fails(run[a]))
    /\ UNCHANGED <<herdr, tree, local, remote, memory, rows>>

--------------------------------------------------------------------------------
(* The Agent, the prompt, and the end of a start that landed. *)

(* ticketNamePlan: the stable name, the cycle's, and the start's own. *)
Names(a) == IF a \in Consultations THEN << <<a>> >>
            ELSE << <<a>>, <<a, cycle[a]>>, <<a, cycle[a], run[a].n>> >>

(* nameIsOwnLeftover: a holder a start of the ticket recorded, by pane or  *)
(* by workspace, or any holder once the ticket knows of a leftover.        *)
OwnHolder(a, t) ==
    /\ a \in Tickets
    /\ \/ \E e \in recorded[a] : e.tab = Handle(t) \/ e.space = t.space
       \/ leftover[a] # {}

Entry(a) == [worktree |-> run[a].worktree, space |-> run[a].space, tab |-> run[a].tab]
EntriesOf(a, h) == {e \in recorded[a] : e.tab = h}

RemembersAny(a, h) ==
    leftover' = IF a \in Tickets /\ h # NoTab
                THEN [leftover EXCEPT ![a] = @ \cup {[NoEntry EXCEPT !.tab = h]}] ELSE leftover

(* recordNameCollisions: the ticket's own holder becomes a leftover. *)
Remembers(a, h) ==
    leftover' = IF a \in Tickets THEN [leftover EXCEPT ![a] = @ \cup EntriesOf(a, h)] ELSE leftover

(* startAgentUnderAvailableName: one ask for one name. *)
StartAgent(a) ==
    /\ At(a, "agent")
    /\ LET name == Names(a)[run[a].ask]
           holders == {t \in tabs : t.agent = name}
           own == \E t \in holders : OwnHolder(a, t)
           met == IF own THEN Handle(CHOOSE t \in holders : OwnHolder(a, t)) ELSE run[a].met
           r == [run[a] EXCEPT !.met = met]
       IN CASE TabOf(run[a].tab) = {} ->
                 Becomes(a, Fails(run[a])) /\ UNCHANGED <<tabs, spent, leftover>>
            [] TabOf(run[a].tab) # {} /\ holders # {} ->
                 /\ UNCHANGED <<tabs, spent>>
                 /\ IF own /\ run[a].ask < Len(Names(a))
                    THEN Becomes(a, [r EXCEPT !.ask = @ + 1]) /\ UNCHANGED leftover
                    ELSE Becomes(a, Fails(r)) /\ Remembers(a, met)
            [] OTHER ->
                 \E o \in {"ok", "refused", "lost"} :
                   /\ Answered(o)
                   /\ tabs' = IF Takes(o)
                              THEN {IF Handle(t) = run[a].tab THEN [t EXCEPT !.agent = name] ELSE t
                                      : t \in tabs}
                              ELSE tabs
                   /\ IF o = "ok"
                      THEN Becomes(a, [run[a] EXCEPT !.step = "prompt", !.accepted = TRUE])
                           /\ UNCHANGED leftover
                      ELSE Becomes(a, Fails(run[a])) /\ Remembers(a, run[a].met)
    /\ UNCHANGED <<spaces, tree, branches, recorded, latest, live, cycle, rows>>

(* The prompt, whose failure leaves the Agent running, the close of the    *)
(* previous start's tab, and the record of the start that landed.          *)
PromptAgent(a) ==
    /\ At(a, "prompt")
    /\ \E o \in {"ok", "refused", "lost"} :
          LET previous == IF a \in Tickets /\ run[a].continues THEN latest[a].tab ELSE NoTab
              closes == previous # NoTab /\ previous # run[a].tab
              gone == closes /\ (o = "ok" \/ TabOf(previous) = {})
              met == IF gone /\ run[a].met = previous THEN NoTab ELSE run[a].met
          IN /\ IF closes /\ TabOf(previous) # {}
                THEN Answered(o) /\ tabs' = (IF Takes(o) THEN tabs \ TabOf(previous) ELSE tabs)
                ELSE o = "ok" /\ UNCHANGED <<tabs, spent>>
             /\ IF a \in Tickets
                THEN /\ recorded' = [recorded EXCEPT ![a] = @ \cup {Entry(a)}]
                     /\ latest' = [latest EXCEPT ![a] = Entry(a)]
                     /\ live' = [live EXCEPT ![a] = TRUE]
                     /\ Remembers(a, met)
                ELSE UNCHANGED <<recorded, latest, live, leftover>>
    /\ Becomes(a, [run[a] EXCEPT !.step = "rest"])
    /\ UNCHANGED <<spaces, tree, branches, cycle, rows>>

--------------------------------------------------------------------------------
(* removeResidue: the cleanup of a start that failed, best effort.  A row  *)
(* is confirmed only for what herdr said it took down.                     *)

Cleaned(a, parts, o) ==
    Becomes(a, [run[a] EXCEPT !.made = @ \ parts, !.step = Cleaning(run[a].made \ parts),
                              !.disturbed = @ \/ o # "ok"])

CleanTab(a) ==
    /\ At(a, "clean tab")
    /\ \E o \in {"ok", "refused", "lost"} :
          LET stands == TabOf(Fresh(a)) # {} IN
          /\ IF stands THEN Answered(o) ELSE o = "ok" /\ UNCHANGED spent
          /\ tabs' = IF Takes(o) THEN tabs \ TabOf(Fresh(a)) ELSE tabs
          /\ IF stands /\ o = "ok" THEN Unrow(a, {"tab"}) ELSE UNCHANGED rows
          /\ Cleaned(a, {"tab"}, o)
    /\ UNCHANGED <<spaces, tree, branches, memory>>

(* The worktree with the workspace on it, or the workspace alone. *)
CleanCheckout(a) ==
    /\ At(a, "clean checkout")
    /\ \E o \in {"ok", "refused", "lost"} :
          LET stands == Id(a) \in SpaceIds
              parts == {"tree", "space", "root"}
          IN /\ IF stands THEN Answered(o) ELSE o = "ok" /\ UNCHANGED spent
             /\ IF stands /\ Takes(o) THEN Without(Id(a)) ELSE UNCHANGED herdr
             /\ tree' = IF stands /\ Takes(o) /\ "tree" \in run[a].made
                        THEN [tree EXCEPT ![a] = [is |-> "none", by |-> 0]] ELSE tree
             /\ IF stands /\ o = "ok" THEN Unrow(a, parts) ELSE UNCHANGED rows
             /\ Cleaned(a, parts, o)
    /\ UNCHANGED <<branches, memory>>

(* git deletes no branch that a worktree holds. *)
CleanBranch(a) ==
    /\ At(a, "clean branch")
    /\ \E o \in {"ok", "refused", "lost"} :
          LET stands == local[a].tip > 0 /\ tree[a].is # "stands" IN
          /\ IF stands THEN Answered(o) ELSE o = "ok" /\ UNCHANGED spent
          /\ local' = IF stands /\ Takes(o) THEN [local EXCEPT ![a] = [tip |-> 0, by |-> 0]] ELSE local
          /\ Cleaned(a, {"branch"}, o)
    /\ UNCHANGED <<herdr, tree, remote, drafts, memory, rows>>

--------------------------------------------------------------------------------
(* What else touches the same herdr: the cleanups, the operator, the agents. *)

(* closeHandoffEnvironment: a worktree goes with its workspace, and the    *)
(* workspace alone when the checkout is gone; a live start loses its tab.  *)
(* What herdr no longer holds is already cleaned up.                       *)
Cleanup(t, e, o) ==
    LET there == IF e.worktree THEN e.space \in SpaceIds ELSE TabOf(e.tab) # {}
        ends == {x \in recorded[t] : IF e.worktree THEN x.space = e.space ELSE x.tab = e.tab}
        Tabs(entries) == {x.tab : x \in entries}
    IN /\ IF there THEN Answered(o) ELSE o = "ok" /\ UNCHANGED spent
       /\ IF ~there \/ ~Takes(o) THEN UNCHANGED <<herdr, tree>>
          ELSE IF e.worktree
          THEN /\ Without(e.space)
               /\ tree' = IF tree[t].is \in {"stands", "other"}
                          THEN [tree EXCEPT ![t] = [is |-> "none", by |-> 0]] ELSE tree
          ELSE tabs' = tabs \ TabOf(e.tab) /\ UNCHANGED <<spaces, tree>>
       /\ leftover' = [leftover EXCEPT ![t] = IF o = "ok" THEN @ \ ends ELSE @ \cup {e}]

Outcomes == {"ok", "refused", "lost"}

(* closeWorkCycle, and the close of a decided turn. *)
CloseCycle(t) ==
    /\ live[t] /\ \A u \in Tickets : Resting(u)
    /\ live' = [live EXCEPT ![t] = FALSE]
    /\ cycle' = [cycle EXCEPT ![t] = @ + 1]
    /\ \E o \in Outcomes : Cleanup(t, latest[t], o)
    /\ UNCHANGED <<branches, recorded, latest, rows, run>>

(* The operator clears a leftover. *)
ClearLeftover(t) ==
    /\ \A u \in Tickets : Resting(u)
    /\ \E e \in leftover[t], o \in Outcomes : Cleanup(t, e, o)
    /\ UNCHANGED <<branches, recorded, latest, live, cycle, rows, run>>

Event == spent.events < MaxEvents /\ spent' = [spent EXCEPT !.events = @ + 1]
Disturbs == run' = [a \in Actors |-> [run[a] EXCEPT !.disturbed = @ \/ ~Resting(a)]]

OperatorCloses ==
    /\ Event /\ Disturbs
    /\ \/ \E s \in spaces : Without(s.by)
       \/ \E t \in tabs : tabs' = tabs \ {t} /\ UNCHANGED spaces
    /\ UNCHANGED <<tree, branches, memory, rows>>

AgentEnds ==
    /\ Event /\ Disturbs
    /\ \E t \in tabs :
          /\ t.agent # Nothing
          /\ tabs' = (tabs \ {t}) \cup {[t EXCEPT !.agent = Nothing]}
    /\ UNCHANGED <<spaces, tree, branches, memory, rows>>

(* An agent in a ticket's worktree commits and pushes, or leaves it on     *)
(* another branch.                                                         *)
AgentWorks ==
    /\ Event /\ Disturbs
    /\ \E a \in Tickets :
          /\ tree[a].is = "stands"
          /\ \E t \in tabs : t.agent # Nothing /\ \E s \in Standing(a) : s.by = t.space
          /\ \/ /\ local' = [local EXCEPT ![a].tip = Lower(@ + 1, MaxTip)]
                /\ remote' = [remote EXCEPT ![a] = local'[a].tip]
                /\ UNCHANGED <<tree, drafts>>
             \/ tree' = [tree EXCEPT ![a].is = "other"] /\ UNCHANGED branches
    /\ UNCHANGED <<herdr, memory, rows>>

(* A program of an agent writes in the path of a worktree that is gone. *)
LeftoverAppears ==
    /\ Event /\ Disturbs
    /\ \E a \in Tickets :
          /\ tree[a].is = "none" /\ recorded[a] # {}
          /\ tree' = [tree EXCEPT ![a].is = "leftover"]
    /\ UNCHANGED <<herdr, branches, memory, rows>>

(* The operator prunes a branch between the starts. *)
OperatorPrunes ==
    /\ Event
    /\ \E a \in Tickets :
          /\ Becomes(a, [run[a] EXCEPT !.disturbed = TRUE])
          /\ Resting(a) /\ local[a].tip > 0 /\ tree[a].is # "stands"
          /\ local' = [local EXCEPT ![a] = [tip |-> 0, by |-> 0]]
    /\ UNCHANGED <<herdr, tree, remote, drafts, memory, rows>>

(* The process dies: the starts at work end where they are, uncleaned, and *)
(* the next boot settles their attempts as failed.                         *)
Crash ==
    /\ Event
    /\ \E a \in Actors : ~Resting(a)
    /\ run' = [a \in Actors |->
                 IF Resting(a) THEN run[a]
                 ELSE [run[a] EXCEPT !.step = "rest", !.failed = TRUE, !.disturbed = TRUE,
                                     !.made = {}, !.unseen = Parts]]
    /\ UNCHANGED <<world, memory, rows>>

Step(a) ==
    \/ RouteClose(a) \/ ReadWorkspaces(a) \/ CreateSpace(a) \/ OpenFreshTab(a)
    \/ CheckBranch(a) \/ CheckRemote(a) \/ FetchBranch(a) \/ OpenWorktree(a)
    \/ FindWorktree(a) \/ CreateWorktree(a) \/ MoveLeftover(a)
    \/ CheckListed(a) \/ HoldBranch(a) \/ PushBranch(a)
    \/ ListPullRequests(a) \/ OpenDraft(a) \/ StartAgent(a) \/ PromptAgent(a)
    \/ CleanTab(a) \/ CleanCheckout(a) \/ CleanBranch(a)

Next ==
    \/ \E a \in Actors : Begin(a)
    \/ \E a \in Actors : Step(a)
    \/ \E t \in Tickets : CloseCycle(t)
    \/ \E t \in Tickets : ClearLeftover(t)
    \/ OperatorCloses \/ AgentEnds \/ AgentWorks \/ LeftoverAppears
    \/ OperatorPrunes \/ Crash

Spec == Init /\ [][Next]_vars

--------------------------------------------------------------------------------
Commands(a) == /\ run'[a] # run[a] /\ spent'.events = spent.events
               /\ run[a].step \notin {"rest", "route"}
Vanishes(t) == \A u \in tabs' : Handle(u) # Handle(t)
(* The tab of the start that this one continues, once its own Agent runs. *)
Replaces(a, t) == run[a].accepted /\ run[a].continues /\ Handle(t) = latest[a].tab

(* What earlier starts left is not a start's to remove.  A retry works in  *)
(* the workspace, the worktree and the branch that it finds, and its own   *)
(* commands, the cleanup's included, take down only what this start made   *)
(* and the tab it replaces.  A workspace of a worktree holds no tab but    *)
(* its own; one that a start made in the live checkout goes with every tab *)
(* in it, and of those nothing is said here (TakesOnlyItsOwn).             *)
KeepsEarlierWork ==
    [][\A a \in Actors : Commands(a) =>
         /\ \A s \in spaces \ spaces' : s.by = Id(a)
         /\ \A t \in tabs : Vanishes(t) =>
              \/ t.by = Id(a) \/ Replaces(a, t)
              \/ t.space = Id(a) /\ ~run[a].worktree
         /\ \A b \in Actors : tree[b].is # "leftover" /\ tree'[b].is = "none" =>
              tree[b].is = "none" \/ (b = a /\ tree[b].by = run[a].n)
         /\ \A b \in Actors : local[b].tip > 0 /\ local'[b].tip = 0 =>
              b = a /\ local[b].by = run[a].n]_vars

(* A start that failed, and whose cleanup met no refusal, leaves nothing   *)
(* of its own standing but what herdr never told it of and the branch it   *)
(* handed to the pull request, which keeps its local copy.  (The branch of *)
(* a start that reopens a worktree is not its own to remove, even where    *)
(* the operator had pruned it and herdr made it anew.)  And whatever the   *)
(* cleanup met, the resource rows of a Consultation name all that still    *)
(* stands of its start, so that its Close can reach it.                    *)
FailedLeavesNothing ==
    /\ \A a \in Actors : Resting(a) /\ run[a].failed /\ ~run[a].disturbed =>
        LET n == run[a].n  Known(part) == part \notin run[a].unseen IN
        /\ Known("space") => \A s \in spaces : s.by # Id(a)
        /\ Known("tab") => TabOf(Fresh(a)) = {}
        /\ Known("tree") => tree[a].by # n
        /\ Known("branch") /\ run[a].builds /\ ~run[a].handed => local[a].by # n
        /\ a \in Tickets /\ run[a].handed => local[a].tip > 0
    /\ \A c \in Consultations :
        LET Told(part) == <<Id(c), part>> \in rows \/ part \in run[c].unseen IN
        /\ (\E s \in spaces : s.by = Id(c)) => Told("space")
        /\ \A t \in tabs : t.by = Id(c) => Told(IF t.root THEN "root" ELSE "tab")
        /\ tree[c].is # "none" /\ tree[c].by = run[c].n => Told("tree")

(* What a failed start leaves never stands in the way of the retry: a      *)
(* branch behind its copy on origin takes no push, and one failed command, *)
(* one crash or one act of an agent never leaves a ticket there; no retry  *)
(* opens a second pull request on the ticket's branch; and a name the      *)
(* ticket's own recorded starts still hold never ends a start.             *)
RetriesHeal ==
    /\ [](/\ \A a \in Tickets : Resting(a) /\ 0 < local[a].tip /\ local[a].tip < remote[a]
                => spent.faults + spent.events > 1
          /\ \A a \in Actors : drafts[a] <= 1)
    /\ [][\A a \in Tickets :
         At(a, "agent") /\ ~At(a, "agent")' /\ ~run'[a].accepted
            /\ TabOf(run[a].tab) # {} /\ spent' = spent
         => \E t \in tabs : t.agent = Names(a)[run[a].ask] /\ ~OwnHolder(a, t)]_vars
--------------------------------------------------------------------------------
(* What the comments of the cleanup state and the code does not hold. *)

(* Residue and removeResidue (handoff.ts:1066, 1487): a failed start       *)
(* removes what it created and only that.  No command of a start takes the *)
(* tab of another start's Agent but that of the start it continues.        *)
TakesOnlyItsOwn ==
    [][\A a \in Actors : Commands(a) =>
         \A t \in tabs : t.agent # Nothing /\ Vanishes(t) =>
            t.by = Id(a) \/ Replaces(a, t)]_vars
================================================================================
