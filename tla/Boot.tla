---------------------------------- MODULE Boot ----------------------------------
(***************************************************************************)
(* The boot of the control plane: the load that seeds or migrates the      *)
(* config, the open that migrates the state file, the one-process lease,   *)
(* the recovery of the claims a dead run left, and the ends of a run.      *)
(*                                                                         *)
(* Source: factory.ts, startup.ts, config.ts (loadConfigFile),             *)
(* config-migration.ts (what an old config is), state.ts, state/store.ts,  *)
(* state/schema.ts (migrate), state/lease.ts.                              *)
(*                                                                         *)
(* Runs race: nothing but the lease keeps one from another.  One action is *)
(* one rename of a file, one transaction, or one await; a run may end      *)
(* before any of them.  A process is a host and a pid; under the           *)
(* development watch it outlives its run and boots the next one.           *)
(*                                                                         *)
(* Abstracted: the config's text (which text it is, and whether a load     *)
(* takes, rewrites or refuses it); the schema (its version); the work of a *)
(* run (one claim that waits for its settlement); the screen.              *)
(***************************************************************************)
EXTENDS Naturals, FiniteSets

CONSTANTS
    Runs,       \* bound: the runs at work or remembered at once
    Processes,  \* the processes a run may have
    HostOf, PidOf, BuildOf, \* of a process: its host, its pid, its plane's schema version
    Watched,    \* the processes under the development watch
    OldTexts,   \* the config texts that carry a retired key
    MaxEvents   \* bound: deaths, pids used again, and edits of the config

NoText == "missing"
NewText == "new"
BadText == "bad"     \* no load takes it, and no migration can express it
Texts == OldTexts \cup {NoText, NewText, BadText}

NoRun == "none"
NoLease == [token |-> NoRun, process |-> NoRun]
Gone == [phase |-> "gone", process |-> NoRun, text |-> NoText]

ASSUME BootAssumption ==
    /\ IsFiniteSet(Runs) /\ NoRun \notin Runs
    /\ Watched \subseteq Processes /\ NoRun \notin Processes
    /\ BuildOf \in [Processes -> Nat \ {0}]
    /\ OldTexts \cap {NoText, NewText, BadText} = {}
    /\ MaxEvents \in Nat

VARIABLES
    \* the files
    config,   \* the text at the config's path
    backup,   \* the text a migration left beside it
    report,   \* the text the migration's report speaks of
    version,  \* the state file's schema
    lease,    \* the lease row
    claims,   \* the runs whose claim is not settled
    \* the machines
    run,      \* each run: where its boot stands, its process, the text it migrates
    others,   \* processes that are alive and no plane
    watching, \* watched processes between two runs
    touched,  \* history: the operator edited the config under a load
    spent     \* the bound's counter

bootVars == <<config, backup, report, version, lease, claims, run, others, watching,
          touched, spent>>

Loads == {"check", "seed", "read", "backup", "report", "rewrite"}
Holds == {"recover", "render", "up"}
Phases == Loads \cup Holds \cup {"gone", "open", "acquire"}

BootTypeOK ==
    /\ {config, backup, report} \subseteq Texts
    /\ \A r \in Runs : /\ run[r].phase \in Phases /\ run[r].text \in Texts
                       /\ (run[r].phase = "gone") <=> (run[r] = Gone)
    /\ lease.token \in Runs \cup {NoRun} /\ claims \subseteq Runs
    /\ \A r, s \in Runs : run[r].process = run[s].process /\ r # s => run[r] = Gone
    /\ watching \subseteq Watched /\ others \subseteq Processes
    /\ \A q \in others \cup watching : q \notin {run[r].process : r \in Runs}
    /\ others \cap watching = {}
    /\ \A r \in Runs : IF run[r].phase \in {"backup", "report", "rewrite"}
                        THEN run[r].text \in OldTexts ELSE run[r].text = NoText

BootInit ==
    /\ config \in Texts /\ backup = NoText /\ report = NoText
    /\ version \in {0} \cup {BuildOf[q] : q \in Processes}
    /\ lease = NoLease /\ claims = {}
    /\ run = [r \in Runs |-> Gone]
    /\ others = {} /\ watching = {} /\ touched = FALSE
    /\ spent = 0

Event == spent < MaxEvents /\ spent' = spent + 1

At(r, phase) == run[r].phase = phase
Loading == \E r \in Runs : run[r].phase \in Loads
Goes(r, phase, text) ==
    run' = [run EXCEPT ![r] = [phase |-> phase, process |-> run[r].process, text |-> text]]

(* The end of a run: under the watch its process may live on. *)
Ends(r) ==
    /\ run' = [run EXCEPT ![r] = Gone]
    /\ watching' \in {watching, watching \cup ({run[r].process} \cap Watched)}
    /\ UNCHANGED <<config, backup, report, version, claims, others>>

\* An edit under a load is told apart until the last load ends.
Forgets == touched' = (touched /\ \E r \in Runs : run'[r].phase \in Loads)

--------------------------------------------------------------------------------
(* The load.                                                                      *)

Alive(q) == q \in others \cup watching \/ \E r \in Runs : run[r].process = q

(* A boot: by the operator, or by the watch in the process it kept.  A boot that  *)
(* meets the pid of the dead run whose row stands is told apart: it meets itself. *)
Start(r, q) ==
    /\ run[r] = Gone /\ lease.token # r /\ r \notin claims
    /\ q \in watching \/ ~Alive(q)
    /\ run' = [run EXCEPT ![r] = [phase |-> "check", process |-> q, text |-> NoText]]
    /\ watching' = watching \ {q}
    /\ IF q = lease.process THEN Event ELSE UNCHANGED spent
    /\ UNCHANGED <<config, backup, report, version, lease, claims, others, touched>>

Check(r) ==
    /\ At(r, "check")
    /\ Goes(r, IF config = NoText THEN "seed" ELSE "read", NoText)
    /\ UNCHANGED <<config, backup, report, version, lease, claims, others, watching,
                   touched, spent>>

(* The seed is renamed into place, whatever stands there by now. *)
Seed(r) ==
    /\ At(r, "seed")
    /\ config' = NewText
    /\ Goes(r, "read", NoText)
    /\ UNCHANGED <<backup, report, version, lease, claims, others, watching, touched, spent>>

\* Fault: the text a migration leaves counts as old.
OldForever(text) == text \in OldTexts \cup {NewText}
\* A text carries a retired key.
IsOld(text) == text \in OldTexts

\* Fault: the config is rewritten before its backup lands.
BackupLast(step) ==
    [read |-> "rewrite", rewrite |-> "backup", backup |-> "report", report |-> "open"][step]
\* The writes of a migration: the backup, the report, the config.
WriteAfter(step) ==
    [read |-> "backup", backup |-> "report", report |-> "rewrite", rewrite |-> "open"][step]

(* What is read decides the load: an old text is migrated, and a text no load     *)
(* takes, or whose migration would not validate, ends the boot.                   *)
Read(r) ==
    /\ At(r, "read")
    /\ IF config \in {NoText, BadText} THEN Ends(r)
       ELSE /\ IF IsOld(config) THEN Goes(r, WriteAfter("read"), config)
               ELSE Goes(r, "open", NoText)
            /\ UNCHANGED <<config, backup, report, version, claims, others, watching>>
    /\ Forgets /\ UNCHANGED <<lease, spent>>

Write(r, file) ==
    LET next == WriteAfter(file) IN
    /\ At(r, file)
    /\ Goes(r, next, IF next = "open" THEN NoText ELSE run[r].text)
    /\ Forgets
WriteBackup(r) ==
    /\ Write(r, "backup") /\ backup' = run[r].text
    /\ UNCHANGED <<config, report, version, lease, claims, others, watching, spent>>
WriteReport(r) ==
    /\ Write(r, "report") /\ report' = run[r].text
    /\ UNCHANGED <<config, backup, version, lease, claims, others, watching, spent>>
Rewrite(r) ==
    /\ Write(r, "rewrite") /\ config' = NewText
    /\ UNCHANGED <<backup, report, version, lease, claims, others, watching, spent>>

--------------------------------------------------------------------------------
(* The state file and its lease.                                                  *)

Files == <<config, backup, report>>
Elsewhere == <<others, touched, spent>>

(* The open migrates the file, whoever holds the lease; a newer file is refused. *)
Open(r) ==
    LET build == BuildOf[run[r].process] IN
    /\ At(r, "open")
    /\ IF version > build THEN Ends(r)
       ELSE /\ version' = build /\ Goes(r, "acquire", NoText)
            /\ UNCHANGED <<Files, claims, others, watching>>
    /\ UNCHANGED <<lease, touched, spent>>

\* Somebody answers to the pid on the host of q.
Answers(q, pid) == \E p \in Processes : HostOf[p] = HostOf[q] /\ PidOf[p] = pid /\ Alive(p)

\* Fault: the host of the owner is not compared.
DeadOwner(owner, q) == ~Answers(q, PidOf[owner])
\* Fault: a row is freed by its own close only.
NeverDead(owner, q) == FALSE
\* The owner is known dead only on its own host.
IsDeadLocalOwner(owner, q) ==
    /\ HostOf[owner] = HostOf[q]
    /\ ~Answers(q, PidOf[owner])

\* A close frees the row that carries the run's token.
Freed(r) == IF lease.token = r THEN NoLease ELSE lease

\* A refused boot closes the state it opened.
AcquireLease(r) ==
    /\ At(r, "acquire")
    /\ IF lease # NoLease /\ ~IsDeadLocalOwner(lease.process, run[r].process)
       THEN Ends(r) /\ lease' = Freed(r)
       ELSE /\ lease' = [token |-> r, process |-> run[r].process]
            /\ Goes(r, "recover", NoText)
            /\ UNCHANGED <<Files, version, claims, others, watching>>
    /\ UNCHANGED <<touched, spent>>

(* Every claim that is not settled belongs to a dead run, and fails. *)
Recover(r) ==
    /\ At(r, "recover") /\ Goes(r, "render", NoText)
    /\ claims' = {}
    /\ UNCHANGED <<Files, version, lease, watching, Elsewhere>>

(* The renderer is there, and the endings of the run are installed. *)
Install(r) ==
    /\ At(r, "render") /\ Goes(r, "up", NoText)
    /\ UNCHANGED <<Files, version, lease, claims, watching, Elsewhere>>

(* A run's work: it writes without another look at the lease. *)
ClaimWork(r) ==
    /\ At(r, "up") /\ r \notin claims
    /\ claims' = claims \cup {r}
    /\ UNCHANGED <<Files, version, lease, run, watching, Elsewhere>>
Settle(r) ==
    /\ At(r, "up") /\ r \in claims
    /\ claims' = claims \ {r}
    /\ UNCHANGED <<Files, version, lease, run, watching, Elsewhere>>

(* A quit, an exception nobody caught, a signal of the operator or of the watch:  *)
(* the installed ending closes the state.  A claim in flight stays unsettled.     *)
Close(r) ==
    /\ At(r, "up") /\ Ends(r)
    /\ lease' = Freed(r)
    /\ UNCHANGED <<touched, spent>>

(* A run ends with no close: it is killed, a write of its boot or its recovery    *)
(* fails, a model is refused, the state file is busy or damaged, a signal comes   *)
(* before the endings are installed.                                              *)
Dies(r) ==
    /\ run[r] # Gone /\ Event /\ Ends(r)
    /\ Forgets /\ UNCHANGED lease

--------------------------------------------------------------------------------
(* The others.                                                                    *)

Edit(text) ==
    /\ text # config /\ Event
    /\ config' = text
    /\ touched' = (touched \/ Loading)
    /\ UNCHANGED <<backup, report, version, lease, claims, run, others, watching>>

(* The operator repairs a config no load takes. *)
Repair ==
    /\ config = BadText /\ config' = NewText
    /\ touched' = (touched \/ Loading)
    /\ UNCHANGED <<backup, report, version, lease, claims, run, others, watching, spent>>

(* Another program gets the pid of a run that is gone. *)
Reuse(q) ==
    /\ ~Alive(q) /\ q = lease.process /\ Event
    /\ others' = others \cup {q}
    /\ UNCHANGED <<Files, version, lease, claims, run, watching, touched>>

(* Another program ends, or a watch that boots nothing. *)
Stops(q) ==
    /\ q \in others \cup watching
    /\ others' = others \ {q} /\ watching' = watching \ {q}
    /\ UNCHANGED <<Files, version, lease, claims, run, touched, spent>>

Boots(r) ==
    \/ Check(r) \/ Seed(r) \/ Read(r) \/ WriteBackup(r) \/ WriteReport(r) \/ Rewrite(r)
    \/ Open(r) \/ AcquireLease(r) \/ Recover(r) \/ Install(r)

BootNext ==
    \/ \E r \in Runs : Boots(r) \/ ClaimWork(r) \/ Settle(r) \/ Close(r) \/ Dies(r)
    \/ \E r \in Runs, q \in Processes : Start(r, q)
    \/ \E text \in Texts : Edit(text)
    \/ Repair
    \/ \E q \in Processes : Reuse(q) \/ Stops(q)

BootSpec == BootInit /\ [][BootNext]_bootVars

(* The newest build is started again and again on every host, in a process that   *)
(* is not the dead one.                                                           *)
Newest(q) == \A p \in Processes : BuildOf[p] <= BuildOf[q]
StartsOn(h) == \E r \in Runs, q \in Processes :
    HostOf[q] = h /\ Newest(q) /\ q # lease.process /\ Start(r, q)

BootFairSpec ==
    /\ BootSpec /\ WF_bootVars(Repair)
    /\ \A r \in Runs : WF_bootVars(Boots(r))
    /\ \A q \in Processes : WF_bootVars(Stops(q))
    /\ \A h \in {HostOf[q] : q \in Processes} : SF_bootVars(StartsOn(h))

--------------------------------------------------------------------------------
(* Properties. *)

(* One run works on the state file, whatever dies, whichever pid is used again and *)
(* from whichever host a boot comes: a run past its boot's acquire holds the row,  *)
(* and a claim is settled by its own run or after that run is gone.                *)
OneOwner ==
    /\ [](\A r \in Runs : run[r].phase \in Holds => lease.token = r)
    /\ [][\A r \in claims \ claims' : run[r] = Gone \/ run' = run]_bootVars

(* No load loses the operator's text, however many loads race and wherever they    *)
(* die: the old text that leaves the config's path is in the backup by then, and   *)
(* the report speaks of it.  (Not so for an edit under a load: see touched.)       *)
TextKept ==
    [][IsOld(config) /\ config' # config /\ spent' = spent /\ ~touched =>
         backup' = config /\ report' = config]_bootVars

(* The row of a dead run does not keep the plane from booting again, as long as its *)
(* host has another pid to boot in.                                                *)
LeftRow == /\ lease # NoLease /\ run[lease.token] = Gone
           /\ \E q \in Processes : /\ HostOf[q] = HostOf[lease.process]
                                   /\ Newest(q) /\ q # lease.process
BootsAgain == LeftRow ~> ~LeftRow
================================================================================
