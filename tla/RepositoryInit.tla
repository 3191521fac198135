----------------------------- MODULE RepositoryInit -----------------------------
(***************************************************************************)
(* The Repository init: the confirmed act that makes a repository factory- *)
(* ready, the screen's queue of such acts, and the config write queue it   *)
(* shares with the repository mappings of a start.                         *)
(*                                                                         *)
(* Source: repo-init.ts (the act's commands), repo-init-flow.ts (the act   *)
(* between its checks and its fact), the acts of components/app.ts, and    *)
(* config-write.ts.                                                        *)
(*                                                                         *)
(* One action is one awaited command, or one key of the operator.  A       *)
(* command is answered "ok", is "refused" without effect, or is "lost": it *)
(* had its effect and its answer is a failure.                             *)
(*                                                                         *)
(* Abstracted: a plan, whose reads are one step and whose facts the panel  *)
(* only shows; the instruction file's choice; the two sources of a         *)
(* repository, which are one; the generated files, which a commit's tree   *)
(* carries or does not; the plane's other panels.                          *)
(***************************************************************************)
EXTENDS Integers, Sequences, FiniteSets

CONSTANTS
    Repositories,
    Acts,        \* bound: the acts that may run at once
    MaxSettings, \* bound: versions of the workflow settings
    MaxCommits,  \* bound: commits of a default branch
    MaxAsks,     \* bound: keys that open a plan
    MaxFaults,   \* bound: commands that are not answered "ok", writes that fail
    MaxEvents    \* bound: pushes and edits by others, mappings, restarts

NoRepo == "none"

ASSUME InitAssumption ==
    /\ IsFiniteSet(Repositories) /\ NoRepo \notin Repositories /\ "select" \notin Repositories
    /\ IsFiniteSet(Acts) /\ 0 \notin Acts  \* the act of a mapping's write is 0
    /\ MaxSettings \in Nat \ {0} /\ MaxCommits \in Nat \ {0}
    /\ MaxAsks \in Nat /\ MaxFaults \in Nat /\ MaxEvents \in Nat

VARIABLES
    \* the host
    branch,  \* the default branch: for each commit, whether its tree is the generated one
    labels,  \* the machine's labels that stand
    \* the checkout
    origin,  \* the branch as the last fetch left it
    \* the state file and the config file
    fact,    \* the init fact: the settings it was made under and the commit
    file,    \* the config the file says
    \* the process
    config,  \* the config in memory
    screen,  \* the panel, the init that plans, the queue behind it, the plans at work
    acts,    \* the acts at work, or how they ended
    jobs,    \* the config write queue
    unsaved, \* history: the last write to the config file failed
    spent    \* the bounds' counters

host == <<branch, labels>>
vars == <<host, origin, fact, file, config, screen, acts, jobs, unsaved, spent>>

Settings == 1..MaxSettings
Needs(s) == 1..s  \* the labels the settings ask for: a later version asks for one more
Vias == {"group", "list"}
Steps == {"idle", "fetch", "list", "create", "tree", "stage", "push", "clean", "write"}

Lone == [on |-> FALSE, left |-> <<>>]
NoFact == [settings |-> 0, commit |-> 0]
NoAct == [pc |-> "idle", repo |-> NoRepo, new |-> FALSE, known |-> {}, base |-> 0,
          commit |-> 0, failed |-> FALSE, tree |-> FALSE, disturbed |-> FALSE,
          loose |-> FALSE]
BlankScreen == [panel |-> NoRepo, marker |-> NoRepo, queue |-> Lone,
                plans |-> [r \in Repositories |-> [v \in Vias |-> 0]]]

(* A config: the settings, the plane's own source of a repository (how many rows *)
(* carry its name), the operator's, and the repositories with a mapping.         *)
Configs == [settings : Settings, plane : [Repositories -> 0..Cardinality(Acts)],
            own : [Repositories -> {"none", "covers", "taken"}],
            mapped : SUBSET Repositories]

TypeOK ==
    /\ \A r \in Repositories :
        /\ Len(branch[r]) \in 1..MaxCommits /\ labels[r] \subseteq Settings
        /\ origin[r] \in 1..Len(branch[r])
        /\ fact[r] \in [settings : 0..MaxSettings, commit : 0..MaxCommits]
    /\ config \in Configs /\ file \in Configs
    /\ {screen.panel, screen.marker} \subseteq Repositories \cup {NoRepo, "select"}
    /\ \A a \in Acts : acts[a].pc \in Steps /\ acts[a].base <= MaxCommits
    /\ \A a \in Acts : acts[a].pc = "write" <=>
                         \E i \in DOMAIN jobs : jobs[i].act = a
    /\ Len(jobs) <= Cardinality(Acts) + MaxEvents

Init ==
    /\ branch = [r \in Repositories |-> <<FALSE>>]
    /\ labels = [r \in Repositories |-> {}]
    /\ origin = [r \in Repositories |-> 1]
    /\ fact = [r \in Repositories |-> NoFact]
    /\ \E own \in [Repositories -> {"none", "covers", "taken"}] :
        config = [settings |-> 1, plane |-> [r \in Repositories |-> 0], own |-> own,
                  mapped |-> {}]
    /\ file = config
    /\ screen = BlankScreen
    /\ acts = [a \in Acts |-> NoAct]
    /\ jobs = <<>> /\ unsaved = FALSE
    /\ spent = [asks |-> 0, faults |-> 0, events |-> 0]

Spend(what, bound) ==
    /\ spent[what] < bound
    /\ spent' = [spent EXCEPT ![what] = @ + 1]
Answers(answer) ==
    IF answer = "ok" THEN UNCHANGED spent ELSE Spend("faults", MaxFaults)

--------------------------------------------------------------------------------
(* The screen: the plan, its panel, and the queue of the entries behind it.       *)

Planning(s, r, via) == [s EXCEPT !.marker = r, !.plans[r][via] = @ + 1]

(* An entry of the queue settled: a failed act ends the queue, a drained one      *)
(* closes the panel, and otherwise the next entry is planned.                     *)
Advanced(s, outcome) ==
    IF ~s.queue.on THEN s
    ELSE IF outcome = "failed" THEN [s EXCEPT !.queue = Lone]
    ELSE IF s.queue.left = <<>> THEN [s EXCEPT !.queue = Lone, !.panel = NoRepo]
    ELSE Planning([s EXCEPT !.queue.left = Tail(@)], Head(s.queue.left), "list")

Covered(c, r) == c.plane[r] > 0 \/ c.own[r] = "covers"

(* "i" on a Group header: it does not ask whether an init plans. *)
OpenGroup(r) ==
    /\ screen.panel = NoRepo
    /\ Covered(config, r) \/ config.own[r] = "taken"
    /\ Spend("asks", MaxAsks)
    /\ screen' = Planning(screen, r, "group")
    /\ UNCHANGED <<host, origin, fact, file, config, acts, jobs, unsaved>>

OpenSelect ==
    /\ screen.panel = NoRepo /\ screen.marker = NoRepo
    /\ Spend("asks", MaxAsks)
    /\ screen' = [screen EXCEPT !.panel = "select"]
    /\ UNCHANGED <<host, origin, fact, file, config, acts, jobs, unsaved>>

(* Enter in the select list: one row, or the rows marked for the queue. *)
StartQueue(rows) ==
    /\ screen.panel = "select"
    /\ LET closed == [screen EXCEPT !.panel = NoRepo] IN
       screen' = IF screen.marker # NoRepo THEN closed
                 ELSE Planning([closed EXCEPT !.queue = [on |-> Len(rows) > 1, left |-> Tail(rows)]],
                               Head(rows), "list")
    /\ UNCHANGED <<host, origin, fact, file, config, acts, jobs, unsaved, spent>>

(* A plan fetches and reads the branch and the labels, and opens its panel over   *)
(* whatever stands there.                                                         *)
PlanLands(r, via) ==
    /\ screen.plans[r][via] > 0
    /\ screen' = [screen EXCEPT !.plans[r][via] = @ - 1, !.marker = NoRepo, !.panel = r]
    /\ origin' = [origin EXCEPT ![r] = Len(branch[r])]
    /\ UNCHANGED <<host, fact, file, config, acts, jobs, unsaved, spent>>

\* Refused before the fetch or after it: no checkout, no branch, no labels.
PlanRefused(r, via) ==
    /\ screen.plans[r][via] > 0
    /\ LET over == [screen EXCEPT !.plans[r][via] = @ - 1, !.marker = NoRepo] IN
       screen' = IF via = "list" THEN Advanced(over, "refused") ELSE over
    /\ origin' \in {origin, [origin EXCEPT ![r] = Len(branch[r])]}
    /\ UNCHANGED <<host, fact, file, config, acts, jobs, unsaved, spent>>

Cancel ==
    /\ screen.panel # NoRepo
    /\ LET closed == [screen EXCEPT !.panel = NoRepo] IN
       screen' = IF screen.panel = "select" THEN closed ELSE Advanced(closed, "skipped")
    /\ UNCHANGED <<host, origin, fact, file, config, acts, jobs, unsaved, spent>>

(* A source of the operator's under one of the act's names refuses the act before *)
(* its first command; the sources it will register are chosen here.               *)
Confirm(a) ==
    LET r == screen.panel
        closed == [screen EXCEPT !.panel = NoRepo]
        beside == {b \in Acts : acts[b].pc # "idle" /\ acts[b].repo = r} IN
    /\ r \in Repositories /\ acts[a].pc = "idle"
    /\ IF config.own[r] = "taken"
       THEN screen' = Advanced(closed, "failed") /\ UNCHANGED acts
       ELSE /\ screen' = closed
            /\ acts' = [b \in Acts |->
                 IF b = a THEN [NoAct EXCEPT !.pc = "fetch", !.repo = r,
                                  !.new = ~Covered(config, r), !.disturbed = beside # {}]
                 ELSE [acts[b] EXCEPT !.disturbed = @ \/ b \in beside]]
    /\ UNCHANGED <<host, origin, fact, file, config, jobs, unsaved, spent>>

--------------------------------------------------------------------------------
(* The act, command by command.                                                   *)

At(a, step) == acts[a].pc = step
Goes(a, rec, answer) ==
    acts' = [acts EXCEPT ![a] = [rec EXCEPT !.disturbed = @ \/ answer # "ok"]]
Fails(a, rec) == [rec EXCEPT !.failed = TRUE, !.pc = "idle"]
\* A failure past the worktree goes by the cleanup.
Cleans(rec, failed) == [rec EXCEPT !.failed = failed, !.pc = "clean"]
After(rec) == IF rec.pc = "idle" THEN Advanced(screen, "failed") ELSE screen

Fetch(a) ==
    /\ At(a, "fetch")
    /\ \E answer \in {"ok", "refused", "lost"} :
        LET r == acts[a].repo
            rec == IF answer = "ok" THEN [acts[a] EXCEPT !.pc = "list"] ELSE Fails(a, acts[a]) IN
        /\ Answers(answer) /\ Goes(a, rec, answer) /\ screen' = After(rec)
        /\ origin' = IF answer = "refused" THEN origin
                     ELSE [origin EXCEPT ![r] = Len(branch[r])]
    /\ UNCHANGED <<host, fact, file, config, jobs, unsaved>>

\* The labels to create are those a list read once does not name.
Missing(rec) == Needs(config.settings) \ rec.known
ToLabels(rec) == [rec EXCEPT !.pc = IF Missing(rec) = {} THEN "tree" ELSE "create"]

(* A list whose text cannot be read is a list without labels. *)
ListLabels(a) ==
    /\ At(a, "list")
    /\ \E answer \in {"ok", "unreadable", "refused"} :
        LET names == IF answer = "ok" THEN labels[acts[a].repo] ELSE {}
            rec == IF answer = "refused" THEN Fails(a, acts[a])
                   ELSE ToLabels([acts[a] EXCEPT !.known = names]) IN
        Answers(answer) /\ Goes(a, rec, answer) /\ screen' = After(rec)
    /\ UNCHANGED <<host, origin, fact, file, config, jobs, unsaved>>

(* The host refuses a label that stands. *)
CreateLabel(a) ==
    /\ At(a, "create")
    /\ LET r == acts[a].repo
           l == CHOOSE l \in Missing(acts[a]) : \A k \in Missing(acts[a]) : l <= k IN
       \E answer \in {"ok", "refused", "lost"} :
        LET made == l \notin labels[r] /\ answer # "refused"
            rec == IF made /\ answer = "ok"
                   THEN ToLabels([acts[a] EXCEPT !.known = @ \cup {l}])
                   ELSE Fails(a, acts[a]) IN
        /\ Answers(answer) /\ Goes(a, rec, answer) /\ screen' = After(rec)
        /\ labels' = IF made THEN [labels EXCEPT ![r] = @ \cup {l}] ELSE labels
    /\ UNCHANGED <<branch, origin, fact, file, config, jobs, unsaved>>

(* A worktree whose answer is lost is left behind: nothing names it to a cleanup. *)
OpenTree(a) ==
    /\ At(a, "tree")
    /\ \E answer \in {"ok", "refused", "lost"} :
        LET stands == [acts[a] EXCEPT !.base = origin[acts[a].repo],
                                      !.tree = answer # "refused", !.loose = answer = "lost"]
            rec == IF answer = "ok" THEN [stands EXCEPT !.pc = "stage"] ELSE Fails(a, stands) IN
        Answers(answer) /\ Goes(a, rec, answer) /\ screen' = After(rec)
    /\ UNCHANGED <<host, origin, fact, file, config, jobs, unsaved>>

Generated(rec) == branch[rec.repo][rec.base]
\* Nothing is staged: the act answers the branch's head without a commit.
NothingStaged(rec) == Generated(rec)

(* The files are written and staged; git refuses a commit that changes nothing. *)
Stage(a) ==
    /\ At(a, "stage")
    /\ \E answer \in {"ok", "refused"} :
        LET x == acts[a]
            rec == IF answer # "ok" \/ (Generated(x) /\ ~NothingStaged(x)) THEN Cleans(x, TRUE)
                   ELSE IF NothingStaged(x) THEN Cleans([x EXCEPT !.commit = x.base], FALSE)
                   ELSE [x EXCEPT !.pc = "push"] IN
        Answers(answer) /\ Goes(a, rec, answer)
    /\ UNCHANGED <<host, origin, fact, file, config, screen, jobs, unsaved>>

\* Fault: the push's exit code is not read.
PushUnread(arrived, answer) == TRUE
\* What the act makes of the push's answer.
PushStands(arrived, answer) == arrived /\ answer = "ok"

(* The push lands only on the commit the worktree was opened on. *)
Push(a) ==
    /\ At(a, "push")
    /\ LET r == acts[a].repo  fits == Len(branch[r]) = acts[a].base IN
       \E answer \in {"ok", "refused", "lost"} :
        LET arrived == fits /\ answer # "refused"
            commit == [acts[a] EXCEPT !.commit = acts[a].base + 1] IN
        /\ fits => Len(branch[r]) < MaxCommits
        /\ Answers(answer)
        /\ Goes(a, Cleans(commit, ~PushStands(arrived, answer)), answer)
        /\ branch' = IF arrived THEN [branch EXCEPT ![r] = Append(@, TRUE)] ELSE branch
    /\ UNCHANGED <<labels, origin, fact, file, config, screen, jobs, unsaved>>

Unread == [settings |-> 0]
Job(kind, r, act) ==
    [kind |-> kind, repo |-> r, act |-> act, begun |-> FALSE, updated |-> Unread, text |-> Unread]

\* Fault: a failed act registers its sources too.
RegistersAnyway(rec) == TRUE
\* The sources are registered for an act that went through.
Registers(rec) == ~rec.failed

(* The cleanup's answer is not read.  An act that went through writes its fact    *)
(* and takes its place in the config write queue.                                 *)
Clean(a) ==
    /\ At(a, "clean")
    /\ LET r == acts[a].repo IN
       \E answer \in {"ok", "refused", "lost"} :
        LET swept == [acts[a] EXCEPT !.tree = answer = "refused", !.loose = answer = "refused"]
            rec == IF swept.failed THEN Fails(a, swept) ELSE [swept EXCEPT !.pc = "write"] IN
        /\ Answers(answer) /\ Goes(a, rec, answer) /\ screen' = After(rec)
        /\ fact' = IF rec.failed THEN fact
                   ELSE [fact EXCEPT ![r] = [settings |-> config.settings, commit |-> rec.commit]]
        /\ jobs' = IF Registers(rec) THEN Append(jobs, Job("init", r, a)) ELSE jobs
    /\ UNCHANGED <<host, origin, file, config, unsaved>>

--------------------------------------------------------------------------------
(* The config write queue.                                                        *)

\* Fault: a write begins when it is asked for.
TurnAtOnce(i) == TRUE
\* A write waits for the one before it.
Turn(i) == i = 1

(* The write's turn: it updates the config as it is now, and reads the file. *)
WriteBegins(i) ==
    /\ i \in DOMAIN jobs /\ Turn(i) /\ ~jobs[i].begun
    /\ LET j == jobs[i]
           adds == j.kind = "init" /\ acts[j.act].new
           updated == IF j.kind = "mapping" THEN [config EXCEPT !.mapped = @ \cup {j.repo}]
                      ELSE IF adds THEN [config EXCEPT !.plane[j.repo] = @ + 1] ELSE config IN
       /\ config' = updated
       /\ jobs' = [jobs EXCEPT ![i] = [j EXCEPT !.begun = TRUE, !.updated = updated, !.text = file]]
    /\ UNCHANGED <<host, origin, fact, file, screen, acts, unsaved, spent>>

(* The text with the plane's own lines in place: the sources no block names are   *)
(* appended, a mapping is written; every other line is the operator's.            *)
Patched(text, updated) ==
    [text EXCEPT !.plane = [r \in Repositories |->
                              IF text.plane[r] = 0 THEN updated.plane[r] ELSE text.plane[r]],
                 !.mapped = @ \cup updated.mapped]

(* The file takes the patch, or a full rewrite where the patch cannot be trusted; *)
(* a patch in which a name stands twice is refused, and one that changes nothing  *)
(* writes nothing.                                                                *)
Written(text, updated) ==
    LET patched == Patched(text, updated) IN
    {updated} \cup
    IF \E r \in Repositories : patched.plane[r] > 1 THEN {}
    ELSE IF patched = text THEN {file} ELSE {patched}

(* The write ends, and with it the act that asked for it. *)
WriteEnds(i) ==
    /\ i \in DOMAIN jobs /\ jobs[i].begun
    /\ LET j == jobs[i] IN
       /\ \/ file' \in Written(j.text, j.updated) /\ unsaved' = FALSE /\ UNCHANGED spent
          \/ Spend("faults", MaxFaults) /\ unsaved' = TRUE /\ UNCHANGED file
       /\ IF j.kind = "mapping" THEN UNCHANGED <<acts, screen>>
          ELSE /\ acts' = [acts EXCEPT ![j.act].pc = "idle"]
               /\ screen' = Advanced(IF screen.queue.on THEN [screen EXCEPT !.panel = NoRepo]
                                     ELSE screen, "ran")
       /\ jobs' = SubSeq(jobs, 1, i - 1) \o SubSeq(jobs, i + 1, Len(jobs))
    /\ UNCHANGED <<host, origin, fact, config>>

--------------------------------------------------------------------------------
(* The others.                                                                    *)

(* A start that cloned beside the convention has its mapping written. *)
Map(r) ==
    /\ r \notin config.mapped
    /\ Spend("events", MaxEvents)
    /\ jobs' = Append(jobs, Job("mapping", r, 0))
    /\ UNCHANGED <<host, origin, fact, file, config, screen, acts, unsaved>>

(* Somebody pushes, on the generated files or over them. *)
OthersPush(r) ==
    /\ Len(branch[r]) < MaxCommits
    /\ Spend("events", MaxEvents)
    /\ \E kept \in {FALSE, branch[r][Len(branch[r])]} :
        branch' = [branch EXCEPT ![r] = Append(@, kept)]
    /\ acts' = [a \in Acts |-> [acts[a] EXCEPT
                !.disturbed = @ \/ (acts[a].repo = r /\ acts[a].pc # "idle")]]
    /\ UNCHANGED <<labels, origin, fact, file, config, screen, jobs, unsaved>>

(* The operator edits the workflow settings in the file; they hold from the next start. *)
EditSettings ==
    /\ Spend("events", MaxEvents)
    /\ \E s \in Settings \ {file.settings} : file' = [file EXCEPT !.settings = s]
    /\ UNCHANGED <<host, origin, fact, config, screen, acts, jobs, unsaved>>

(* The process ends anywhere and starts again: a file in which a name stands twice *)
(* is refused.                                                                     *)
Restart ==
    /\ \A r \in Repositories : file.plane[r] <= 1
    /\ Spend("events", MaxEvents)
    /\ config' = file
    /\ screen' = BlankScreen /\ acts' = [a \in Acts |-> NoAct]
    /\ jobs' = <<>> /\ unsaved' = FALSE
    /\ UNCHANGED <<host, origin, fact, file>>

Rows == {<<r>> : r \in Repositories} \cup
        {rs \in Repositories \X Repositories : rs[1] # rs[2]}

Next ==
    \/ OpenSelect \/ Cancel \/ EditSettings \/ Restart
    \/ \E rows \in Rows : StartQueue(rows)
    \/ \E r \in Repositories :
        \/ OpenGroup(r) \/ Map(r) \/ OthersPush(r)
        \/ \E via \in Vias : PlanLands(r, via) \/ PlanRefused(r, via)
    \/ \E a \in Acts :
        \/ Confirm(a) \/ Fetch(a) \/ ListLabels(a) \/ CreateLabel(a) \/ OpenTree(a)
        \/ Stage(a) \/ Push(a) \/ Clean(a)
    \/ \E i \in 1..Len(jobs) : WriteBegins(i)
    \/ \E i \in 1..Len(jobs) : WriteEnds(i)

Spec == Init /\ [][Next]_vars

--------------------------------------------------------------------------------
(* Safety. *)

(* The fact of an init tells what the repository holds: its commit is on the branch *)
(* with the generated tree, and the labels of its settings stand, whichever command *)
(* of whichever act failed and whoever pushed in between.  An act that nothing      *)
(* disturbs goes through, whatever the acts before it left on the host; and an act  *)
(* that ends leaves no worktree but one whose own command was not answered.         *)
InitEndsWell ==
    /\ \A r \in Repositories : fact[r] # NoFact =>
         /\ fact[r].commit \in DOMAIN branch[r] /\ branch[r][fact[r].commit]
         /\ Needs(fact[r].settings) \subseteq labels[r]
    /\ \A a \in Acts : acts[a].pc = "idle" =>
         /\ acts[a].failed => acts[a].disturbed
         /\ acts[a].tree => acts[a].loose

(* An act that went through has its repository listed, and once the writes are done *)
(* the file says all the plane added, unless the last write failed: two writers     *)
(* lose none of each other's lines.                                                 *)
WritesLoseNothing ==
    /\ \A a \in Acts : acts[a].pc = "idle" /\ acts[a].repo # NoRepo /\ ~acts[a].failed =>
        Covered(config, acts[a].repo)
    /\ jobs = <<>> /\ ~unsaved =>
        /\ \A r \in Repositories : config.plane[r] > 0 => file.plane[r] > 0
        /\ config.mapped \subseteq file.mapped
================================================================================
