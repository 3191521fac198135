----------------------------- MODULE StateFileProofs -----------------------------
(***************************************************************************)
(* The state file, for every value of the constants: who writes it, and    *)
(* what its tables hold.                                                   *)
(*                                                                         *)
(* First Boot.  One run works on the state file, and no load loses the     *)
(* operator's text, for every number of runs, processes, hosts and pids.   *)
(* The lease alone does not say it: a boot takes the row of an owner whose *)
(* pid answers to nobody on its host.  That such an owner is gone needs    *)
(* that the row names the process of the run that holds it (Owner), and    *)
(* that two runs never share a process (BootTypeOK).  That a recovery      *)
(* settles no live run's claim needs that only a run that is up has one    *)
(* (ClaimsUp).                                                             *)
(*                                                                         *)
(* Then TicketCycle, what the one run that owns the file does to a ticket, *)
(* its attempts and its traces: for every set of tickets, every clock and  *)
(* any number of attempts and traces.  The safety properties need each     *)
(* other and that a row names rows of its own ticket (RowsRefer); the two  *)
(* action properties and the refinement follow from what one step may do   *)
(* to each table (EveryStep).  The line's two steps beside the domain's    *)
(* table need that they meet no ticket in its first cycle (StartsEnded).   *)
(***************************************************************************)
EXTENDS Boot, TicketCycle, SequenceTheorems, TLAPS

(* The lease and the config: Boot. *)

(* The records of the two tables have their fields. *)
Typed ==
    /\ run \in [Runs -> [phase : Phases, process : Processes \cup {NoRun}, text : Texts]]
    /\ \A r \in Runs : run[r] # Gone => run[r].process \in Processes
    /\ lease \in [token : Runs \cup {NoRun}, process : Processes \cup {NoRun}]

(* The row carries the token and the process of every run past its acquire. *)
Owner == \A r \in Runs : run[r].phase \in Holds =>
            lease = [token |-> r, process |-> run[r].process]

(* A claim that is not settled is of a run that is up, or gone. *)
ClaimsUp == \A r \in claims : run[r] = Gone \/ run[r].phase = "up"

BootIInv == BootTypeOK /\ Typed /\ Owner /\ ClaimsUp

LEMMA InitIInv == BootInit => BootIInv
  <1> SUFFICES ASSUME BootInit PROVE BootIInv
    OBVIOUS
  <1> USE DEF BootInit, Gone, NoLease, NoRun, NoText, NewText, BadText, Texts
  <1>1. BootTypeOK
    BY BootAssumption DEF BootTypeOK, Phases, Holds, Loads, BootAssumption
  <1>2. Typed
    BY DEF Typed, Phases
  <1>3. Owner /\ ClaimsUp
    BY DEF Owner, ClaimsUp, Holds
  <1>4. QED
    BY <1>1, <1>2, <1>3 DEF BootIInv

(* A step that leaves a run in its process keeps the records: only the phase and  *)
(* the text it migrates change.                                                   *)
LEMMA Moves ==
    ASSUME BootIInv, NEW r \in Runs, NEW phase \in Phases, NEW text \in Texts,
           run[r] # Gone, phase # "gone",
           IF phase \in {"backup", "report", "rewrite"} THEN text \in OldTexts ELSE text = NoText,
           run' = [run EXCEPT ![r] = [phase |-> phase, process |-> run[r].process,
                                      text |-> text]],
           lease' \in [token : Runs \cup {NoRun}, process : Processes \cup {NoRun}],
           {config', backup', report'} \subseteq Texts, claims' \subseteq Runs,
           UNCHANGED <<others, watching>>
    PROVE  BootTypeOK' /\ Typed'
  <1> USE DEF BootIInv, Typed, BootTypeOK
  <1>1. run'[r] = [phase |-> phase, process |-> run[r].process, text |-> text]
    OBVIOUS
  <1>2. \A s \in Runs : s # r => run'[s] = run[s]
    OBVIOUS
  <1>3. \A s \in Runs : run'[s].process = run[s].process
    BY <1>1, <1>2
  <1>4. run'[r] # Gone /\ run'[r].phase # "gone"
    BY <1>1 DEF Gone
  <1>5. Typed'
    BY <1>1, <1>2, <1>4
  <1>6. \A s \in Runs : /\ run'[s].phase \in Phases /\ run'[s].text \in Texts
                        /\ (run'[s].phase = "gone") <=> (run'[s] = Gone)
    BY <1>1, <1>2, <1>4
  <1>7. \A s, u \in Runs : run'[s].process = run'[u].process /\ s # u => run'[s] = Gone
    BY <1>2, <1>3
  <1>8. \A q \in others' \cup watching' : q \notin {run'[s].process : s \in Runs}
    BY <1>3
  <1>9. \A s \in Runs : IF run'[s].phase \in {"backup", "report", "rewrite"}
                        THEN run'[s].text \in OldTexts ELSE run'[s].text = NoText
    BY <1>1, <1>2
  <1>10. QED
    BY <1>5, <1>6, <1>7, <1>8, <1>9

(* The end of a run keeps them too: its process is free, or the watch has it. *)
LEMMA Endings ==
    ASSUME BootIInv, NEW r \in Runs, run[r] # Gone, Ends(r),
           lease' \in [token : Runs \cup {NoRun}, process : Processes \cup {NoRun}]
    PROVE  BootTypeOK' /\ Typed'
  <1> USE DEF BootIInv, Typed, BootTypeOK, Ends
  <1>1. run'[r] = Gone /\ \A s \in Runs : s # r => run'[s] = run[s]
    OBVIOUS
  <1>2. Typed'
    BY <1>1 DEF Gone, Phases, Texts
  <1>3. \A s \in Runs : /\ run'[s].phase \in Phases /\ run'[s].text \in Texts
                        /\ (run'[s].phase = "gone") <=> (run'[s] = Gone)
    BY <1>1 DEF Gone, Phases, Texts
  <1>4. \A s, u \in Runs : run'[s].process = run'[u].process /\ s # u => run'[s] = Gone
    <2> SUFFICES ASSUME NEW s \in Runs, NEW u \in Runs, s # u, s # r,
                        run'[s].process = run'[u].process
                 PROVE  run'[s] = Gone
      BY <1>1
    <2>1. CASE u # r
      BY <1>1, <2>1
    <2>2. CASE u = r
      BY <1>1, <2>2, BootAssumption DEF Gone, BootAssumption
    <2>3. QED
      BY <2>1, <2>2
  <1>5. NoRun \notin others \cup watching'
    BY BootAssumption DEF BootAssumption
  <1>6. \A q \in others' \cup watching' : q \notin {run'[s].process : s \in Runs}
    BY <1>1, <1>5 DEF Gone
  <1>7. \A s \in Runs : IF run'[s].phase \in {"backup", "report", "rewrite"}
                        THEN run'[s].text \in OldTexts ELSE run'[s].text = NoText
    BY <1>1 DEF Gone
  <1>8. others' \cap watching' = {} /\ watching' \subseteq Watched
    OBVIOUS
  <1>9. QED
    BY <1>2, <1>3, <1>4, <1>6, <1>7, <1>8

(* A boot before its acquire leaves the row and the claims as they are; neither   *)
(* it nor where it goes to is a run past the acquire.                             *)
LEMMA BeforeAcquire ==
    ASSUME BootIInv, NEW r \in Runs, UNCHANGED <<lease, claims>>,
           run[r].phase \notin Holds, run[r] # Gone,
           \A s \in Runs : s # r => run'[s] = run[s],
           run'[r].phase \notin Holds
    PROVE  Owner' /\ ClaimsUp'
  <1>1. r \notin claims
    BY DEF BootIInv, ClaimsUp, Holds
  <1>2. QED
    BY <1>1 DEF BootIInv, BootTypeOK, Owner, ClaimsUp

LEMMA StartIInv ==
    ASSUME BootIInv, NEW r \in Runs, NEW q \in Processes, Start(r, q)
    PROVE  BootIInv'
  <1> USE DEF BootIInv, Typed, BootTypeOK, Start
  <1>1. /\ run'[r] = [phase |-> "check", process |-> q, text |-> NoText]
        /\ \A s \in Runs : s # r => run'[s] = run[s]
    OBVIOUS
  <1>2. \A s \in Runs : run[s].process # q
    BY DEF Alive
  <1>3. Typed'
    BY <1>1 DEF Phases, Loads, Texts, NoText
  <1>4. \A s, u \in Runs : run'[s].process = run'[u].process /\ s # u => run'[s] = Gone
    BY <1>1, <1>2
  <1>5. \A p \in others' \cup watching' : p \notin {run'[s].process : s \in Runs}
    <2>1. q \notin others /\ q \notin watching'
      BY DEF Alive
    <2>2. QED
      BY <1>1, <2>1
  <1>6. \A s \in Runs : /\ run'[s].phase \in Phases /\ run'[s].text \in Texts
                        /\ (run'[s].phase = "gone") <=> (run'[s] = Gone)
    BY <1>1 DEF Gone, Phases, Loads, Texts, NoText
  <1>7. \A s \in Runs : IF run'[s].phase \in {"backup", "report", "rewrite"}
                        THEN run'[s].text \in OldTexts ELSE run'[s].text = NoText
    BY <1>1
  <1>8. BootTypeOK'
    BY <1>4, <1>5, <1>6, <1>7
  <1>9. Owner' /\ ClaimsUp'
    BY <1>1 DEF Owner, ClaimsUp, Holds
  <1>10. QED
    BY <1>3, <1>8, <1>9

LEMMA LoadIInv ==
    ASSUME BootIInv, NEW r \in Runs,
           \/ Check(r) \/ Seed(r) \/ Read(r) \/ WriteBackup(r) \/ WriteReport(r) \/ Rewrite(r)
    PROVE  BootIInv'
  <1> USE DEF At, Goes, Write, WriteAfter, IsOld, NoText
  <1>1. run[r].phase \in Loads /\ run[r] # Gone
    BY DEF Check, Seed, Read, WriteBackup, WriteReport, Rewrite, Loads, Gone
  <1>2. /\ lease \in [token : Runs \cup {NoRun}, process : Processes \cup {NoRun}]
        /\ {config, backup, report} \subseteq Texts /\ claims \subseteq Runs
        /\ run[r].phase \in {"backup", "report", "rewrite"} => run[r].text \in OldTexts
        /\ run[r].phase \notin {"backup", "report", "rewrite"} => run[r].text = NoText
        /\ run \in [Runs -> [phase : Phases, process : Processes \cup {NoRun}, text : Texts]]
    BY DEF BootIInv, Typed, BootTypeOK
  <1>3. OldTexts \subseteq Texts /\ NoText \in Texts /\ NewText \in Texts
    BY DEF Texts
  <1>4. CASE Read(r) /\ config \in {NoText, BadText}
    <2>1. Ends(r) /\ UNCHANGED lease /\ run[r].phase = "read"
      BY <1>4 DEF Read
    <2>2. BootTypeOK' /\ Typed'
      BY <1>1, <1>2, <2>1, Endings
    <2>3. Owner' /\ ClaimsUp'
      BY <1>1, <1>2, <2>1, BeforeAcquire DEF Ends, Gone, Holds
    <2>4. QED
      BY <2>2, <2>3 DEF BootIInv
  <1>5. CASE ~(Read(r) /\ config \in {NoText, BadText})
    <2>1. PICK phase \in Loads \cup {"open"}, text \in Texts :
             /\ IF phase \in {"backup", "report", "rewrite"} THEN text \in OldTexts
                                                            ELSE text = NoText
             /\ run' = [run EXCEPT ![r] = [phase |-> phase, process |-> run[r].process,
                                          text |-> text]]
      <3>1. CASE Check(r)
        BY <1>1, <1>2, <1>3, <3>1 DEF Check, Loads
      <3>2. CASE Seed(r)
        BY <1>1, <1>2, <1>3, <3>2 DEF Seed, Loads
      <3>3. CASE Read(r)
        BY <1>1, <1>2, <1>3, <1>5, <3>3 DEF Read, Loads
      <3>4. CASE WriteBackup(r)
        BY <1>1, <1>2, <1>3, <3>4 DEF WriteBackup, Loads
      <3>5. CASE WriteReport(r)
        BY <1>1, <1>2, <1>3, <3>5 DEF WriteReport, Loads
      <3>6. CASE Rewrite(r)
        BY <1>1, <1>2, <1>3, <3>6 DEF Rewrite, Loads
      <3>7. QED
        BY <1>5, <3>1, <3>2, <3>3, <3>4, <3>5, <3>6
    <2>2. /\ UNCHANGED <<lease, claims, others, watching>>
          /\ {config', backup', report'} \subseteq Texts
      BY <1>2, <1>3, <1>5 DEF Check, Seed, Read, WriteBackup, WriteReport, Rewrite
    <2>3. phase \in Phases /\ phase # "gone" /\ phase \notin Holds
      BY DEF Phases, Loads, Holds
    <2>4. BootTypeOK' /\ Typed'
      BY <1>1, <1>2, <2>1, <2>2, <2>3, Moves
    <2>5. /\ run'[r].phase = phase /\ \A s \in Runs : s # r => run'[s] = run[s]
          /\ run[r].phase \notin Holds
      BY <1>1, <1>2, <2>1 DEF Loads, Holds
    <2>6. Owner' /\ ClaimsUp'
      BY <1>1, <2>2, <2>3, <2>5, BeforeAcquire
    <2>7. QED
      BY <2>4, <2>6 DEF BootIInv
  <1>6. QED
    BY <1>4, <1>5

LEMMA OpenIInv ==
    ASSUME BootIInv, NEW r \in Runs, Open(r)
    PROVE  BootIInv'
  <1> USE DEF At, Goes
  <1>1. /\ run[r] # Gone /\ run[r].phase = "open" /\ run[r].phase \notin Holds
        /\ UNCHANGED <<lease, claims>>
    BY DEF Open, Ends, Gone, Holds, Files
  <1>2. /\ run \in [Runs -> [phase : Phases, process : Processes \cup {NoRun}, text : Texts]]
        /\ lease \in [token : Runs \cup {NoRun}, process : Processes \cup {NoRun}]
        /\ {config, backup, report} \subseteq Texts /\ claims \subseteq Runs
        /\ run[r].text = NoText
    BY <1>1 DEF BootIInv, Typed, BootTypeOK
  <1>3. CASE version > BuildOf[run[r].process]
    <2>1. Ends(r)
      BY <1>3 DEF Open
    <2>2. BootTypeOK' /\ Typed'
      BY <1>1, <1>2, <2>1, Endings
    <2>3. Owner' /\ ClaimsUp'
      BY <1>1, <1>2, <2>1, BeforeAcquire DEF Ends, Gone, Holds
    <2>4. QED
      BY <2>2, <2>3 DEF BootIInv
  <1>4. CASE ~(version > BuildOf[run[r].process])
    <2>1. /\ run' = [run EXCEPT ![r] = [phase |-> "acquire", process |-> run[r].process,
                                        text |-> NoText]]
          /\ UNCHANGED <<config, backup, report, others, watching>>
      BY <1>2, <1>4 DEF Open, Files
    <2>2. BootTypeOK' /\ Typed'
      BY <1>1, <1>2, <2>1, Moves, ZenonT(60) DEF Phases, Texts
    <2>3. Owner' /\ ClaimsUp'
      BY <1>1, <1>2, <2>1, BeforeAcquire DEF Holds
    <2>4. QED
      BY <2>2, <2>3 DEF BootIInv
  <1>5. QED
    BY <1>3, <1>4

(* The boot that takes a dead owner's row: nobody answers to the owner's pid on   *)
(* the owner's host, so no run is in the owner's process, and none holds the row. *)
LEMMA AcquireIInv ==
    ASSUME BootIInv, NEW r \in Runs, AcquireLease(r)
    PROVE  BootIInv'
  <1> USE DEF At, Goes
  <1>1. /\ run[r] # Gone /\ run[r].phase = "acquire" /\ run[r].phase \notin Holds
        /\ UNCHANGED claims
    BY DEF AcquireLease, Ends, Gone, Holds
  <1>2. /\ run \in [Runs -> [phase : Phases, process : Processes \cup {NoRun}, text : Texts]]
        /\ lease \in [token : Runs \cup {NoRun}, process : Processes \cup {NoRun}]
        /\ {config, backup, report} \subseteq Texts /\ claims \subseteq Runs
        /\ run[r].text = NoText /\ run[r].process \in Processes
    BY <1>1 DEF BootIInv, Typed, BootTypeOK
  <1>3. r \notin claims
    BY <1>1, <1>2 DEF BootIInv, ClaimsUp
  <1>4. CASE lease # NoLease /\ ~IsDeadLocalOwner(lease.process, run[r].process)
    <2>1. /\ Ends(r) /\ run' = [run EXCEPT ![r] = Gone]
          /\ lease' = lease \/ (lease' = NoLease /\ lease.token = r)
      BY <1>4 DEF AcquireLease, Freed, Ends
    <2>2. lease' \in [token : Runs \cup {NoRun}, process : Processes \cup {NoRun}]
      BY <1>2, <2>1 DEF NoLease
    <2>3. BootTypeOK' /\ Typed'
      BY <1>1, <2>1, <2>2, Endings
    <2>4. Owner'
      BY <1>2, <2>1 DEF BootIInv, Owner, Gone, Holds
    <2>5. ClaimsUp'
      BY <1>1, <1>2, <2>1 DEF BootIInv, ClaimsUp
    <2>6. QED
      BY <2>3, <2>4, <2>5 DEF BootIInv
  <1>5. CASE lease = NoLease \/ IsDeadLocalOwner(lease.process, run[r].process)
    <2>1. /\ run' = [run EXCEPT ![r] = [phase |-> "recover", process |-> run[r].process,
                                        text |-> NoText]]
          /\ lease' = [token |-> r, process |-> run[r].process]
          /\ UNCHANGED <<config, backup, report, others, watching>>
      BY <1>5 DEF AcquireLease, Files
    <2>2. BootTypeOK' /\ Typed'
      BY <1>1, <1>2, <2>1, Moves, ZenonT(60) DEF Phases, Holds, Texts
    <2>3. \A s \in Runs : run[s].phase \notin Holds
      <3> SUFFICES ASSUME NEW s \in Runs, run[s].phase \in Holds PROVE FALSE
        OBVIOUS
      <3>1. lease = [token |-> s, process |-> run[s].process] /\ run[s].process \in Processes
        BY DEF BootIInv, Owner, Typed, Gone, Holds
      <3>2. lease # NoLease
        BY <3>1, BootAssumption DEF NoLease, BootAssumption
      <3>3. /\ HostOf[run[s].process] = HostOf[run[r].process]
            /\ ~Answers(run[r].process, PidOf[run[s].process])
        BY <1>5, <3>1, <3>2 DEF IsDeadLocalOwner
      <3>4. Alive(run[s].process)
        BY DEF Alive
      <3>5. QED
        BY <3>1, <3>3, <3>4 DEF Answers
    <2>4. Owner'
      BY <1>2, <2>1, <2>3 DEF Owner
    <2>5. ClaimsUp'
      BY <1>1, <1>2, <1>3, <2>1 DEF BootIInv, ClaimsUp
    <2>6. QED
      BY <2>2, <2>4, <2>5 DEF BootIInv
  <1>6. QED
    BY <1>4, <1>5

(* The recovery and the install of a run that holds the row. *)
LEMMA HoldIInv ==
    ASSUME BootIInv, NEW r \in Runs, Recover(r) \/ Install(r)
    PROVE  BootIInv'
  <1> USE DEF At, Goes
  <1>1. PICK phase \in {"render", "up"} :
           run' = [run EXCEPT ![r] = [phase |-> phase, process |-> run[r].process,
                                      text |-> NoText]]
    BY DEF Recover, Install
  <1>2. /\ run[r] # Gone /\ run[r].phase \in {"recover", "render"} /\ run[r].phase \in Holds
        /\ UNCHANGED <<lease, config, backup, report, others, watching>>
    BY DEF Recover, Install, Gone, Holds, Files, Elsewhere
  <1>3. claims' \subseteq claims
    BY DEF Recover, Install
  <1>4. /\ run \in [Runs -> [phase : Phases, process : Processes \cup {NoRun}, text : Texts]]
        /\ lease \in [token : Runs \cup {NoRun}, process : Processes \cup {NoRun}]
        /\ {config, backup, report} \subseteq Texts /\ claims \subseteq Runs
    BY DEF BootIInv, Typed, BootTypeOK
  <1>5. BootTypeOK' /\ Typed'
    BY <1>1, <1>2, <1>3, <1>4, Moves DEF Phases, Holds, Texts
  <1>6. Owner'
    BY <1>1, <1>2, <1>4 DEF BootIInv, Owner
  <1>7. r \notin claims
    BY <1>2, <1>4 DEF BootIInv, ClaimsUp
  <1>8. ClaimsUp'
    BY <1>1, <1>3, <1>4, <1>7 DEF BootIInv, ClaimsUp
  <1>9. QED
    BY <1>5, <1>6, <1>8 DEF BootIInv

(* The end of a run: its row goes with it, or stays and names a run that is gone. *)
LEMMA EndIInv ==
    ASSUME BootIInv, NEW r \in Runs, Close(r) \/ Dies(r)
    PROVE  BootIInv'
  <1>1. /\ run[r] # Gone /\ Ends(r) /\ UNCHANGED claims
        /\ run' = [run EXCEPT ![r] = Gone]
        /\ lease' = lease \/ (lease' = NoLease /\ lease.token = r)
    BY DEF Close, Dies, Ends, Freed, At, Gone
  <1>2. /\ run \in [Runs -> [phase : Phases, process : Processes \cup {NoRun}, text : Texts]]
        /\ lease' \in [token : Runs \cup {NoRun}, process : Processes \cup {NoRun}]
        /\ claims \subseteq Runs
    BY <1>1 DEF BootIInv, Typed, BootTypeOK, NoLease
  <1>3. BootTypeOK' /\ Typed'
    BY <1>1, <1>2, Endings
  <1>4. Owner'
    BY <1>1, <1>2 DEF BootIInv, Owner, Gone, Holds
  <1>5. ClaimsUp'
    BY <1>1, <1>2 DEF BootIInv, ClaimsUp
  <1>6. QED
    BY <1>3, <1>4, <1>5 DEF BootIInv

(* The work of a run and what the others do. *)
LEMMA WorkIInv ==
    ASSUME BootIInv, NEW r \in Runs, ClaimWork(r) \/ Settle(r)
    PROVE  BootIInv'
  <1>1. BootTypeOK' /\ Typed'
    BY DEF BootIInv, BootTypeOK, Typed, ClaimWork, Settle, Files, Elsewhere, Alive
  <1>2. Owner' /\ ClaimsUp'
    BY DEF BootIInv, Owner, ClaimsUp, ClaimWork, Settle, At
  <1>3. QED
    BY <1>1, <1>2 DEF BootIInv

LEMMA OthersIInv ==
    ASSUME BootIInv,
           \/ \E text \in Texts : Edit(text)
           \/ Repair
           \/ \E q \in Processes : Reuse(q) \/ Stops(q)
    PROVE  BootIInv'
  <1>1. UNCHANGED <<lease, claims, run>>
    BY DEF Edit, Repair, Reuse, Stops
  <1>2. Typed' /\ Owner' /\ ClaimsUp'
    BY <1>1 DEF BootIInv, Typed, Owner, ClaimsUp
  <1>3. {config', backup', report'} \subseteq Texts
    BY DEF BootIInv, BootTypeOK, Edit, Repair, Reuse, Stops, Files, Texts
  <1>4. /\ watching' \subseteq Watched /\ others' \subseteq Processes
        /\ \A q \in others' \cup watching' : q \notin {run[s].process : s \in Runs}
        /\ others' \cap watching' = {}
    BY DEF BootIInv, BootTypeOK, Edit, Repair, Reuse, Stops, Alive
  <1>5. BootTypeOK'
    BY <1>1, <1>3, <1>4 DEF BootIInv, BootTypeOK
  <1>6. QED
    BY <1>2, <1>5 DEF BootIInv

LEMMA NextIInv == BootIInv /\ [BootNext]_bootVars => BootIInv'
  <1> SUFFICES ASSUME BootIInv, [BootNext]_bootVars PROVE BootIInv'
    OBVIOUS
  <1>1. ASSUME NEW r \in Runs, Boots(r) PROVE BootIInv'
    BY <1>1, LoadIInv, OpenIInv, AcquireIInv, HoldIInv DEF Boots
  <1>2. ASSUME NEW r \in Runs, ClaimWork(r) \/ Settle(r) \/ Close(r) \/ Dies(r) PROVE BootIInv'
    BY <1>2, WorkIInv, EndIInv
  <1>3. ASSUME NEW r \in Runs, NEW q \in Processes, Start(r, q) PROVE BootIInv'
    BY <1>3, StartIInv
  <1>4. CASE UNCHANGED bootVars
    BY <1>4 DEF BootIInv, BootTypeOK, Typed, Owner, ClaimsUp, bootVars
  <1>5. QED
    BY <1>1, <1>2, <1>3, <1>4, OthersIInv DEF BootNext

THEOREM BootInvariant == BootSpec => []BootIInv
  <1> QED
    BY InitIInv, NextIInv, PTL DEF BootSpec

(* The type invariant: a run's phase and the text it migrates belong together, and *)
(* no two runs, other programs or waiting watches share a process (factory.ts,     *)
(* startup.ts).                                                                    *)
THEOREM BootTypeCorrect == BootSpec => []BootTypeOK
  <1>1. BootIInv => BootTypeOK
    BY DEF BootIInv
  <1> QED
    BY <1>1, BootInvariant, PTL

(* A run past its acquire holds the row. *)
LEMMA HoldersHold == BootIInv => \A r \in Runs : run[r].phase \in Holds => lease.token = r
  BY DEF BootIInv, Owner

(* A claim leaves the claims only by its own run's settlement, or after that run   *)
(* is gone: the run that recovers holds the row, and no run that is up does then.  *)
LEMMA ClaimsLeave ==
    BootIInv /\ [BootNext]_bootVars => [\A r \in claims \ claims' : run[r] = Gone \/ run' = run]_bootVars
  <1> SUFFICES ASSUME BootIInv, [BootNext]_bootVars, NEW r \in claims, r \notin claims',
                      run[r] # Gone, run' # run
               PROVE  FALSE
    OBVIOUS
  <1>1. r \in Runs /\ run[r].phase = "up" /\ lease.token = r
    BY HoldersHold DEF BootIInv, BootTypeOK, ClaimsUp, Holds
  <1>2. PICK s \in Runs : Recover(s)
    BY DEF BootNext, Boots, Start, Check, Seed, Read, Write, WriteBackup, WriteReport, Rewrite,
           Open, AcquireLease, Recover, Install, ClaimWork, Settle, Close, Dies, Ends, Edit,
           Repair, Reuse, Stops, Files, Elsewhere, bootVars
  <1>3. run[s].phase = "recover" /\ lease.token = s
    BY <1>2, HoldersHold DEF Recover, At, Holds
  <1>4. QED
    BY <1>1, <1>3

(* One run works on the state file, whatever dies, whichever pid is used again and *)
(* from whichever host a boot comes (lease.ts, startup.ts).                        *)
THEOREM OneRunOwns == BootSpec => OneOwner
  <1>1. BootIInv /\ [BootNext]_bootVars => [\A r \in claims \ claims' : run[r] = Gone \/ run' = run]_bootVars
    BY ClaimsLeave
  <1> QED
    BY <1>1, BootInvariant, HoldersHold, PTL DEF BootSpec, OneOwner

--------------------------------------------------------------------------------
(* The operator's text.  A load that found an old text writes by what it read     *)
(* then; that the file still says it needs that nobody edited since, and that the *)
(* loads beside it can only have made the text new.                               *)

(* What a load at a phase may rely on while the config still is an old text. *)
Seen(r) == IsOld(config) =>
    /\ run[r].phase # "seed"
    /\ run[r].phase \in {"backup", "report", "rewrite"} => run[r].text = config
    /\ run[r].phase \in {"report", "rewrite"} => backup = config
    /\ run[r].phase = "rewrite" => report = config

LoadsSaw == ~touched => \A r \in Runs : Seen(r)

TInv == BootIInv /\ LoadsSaw /\ spent \in Nat /\ touched \in BOOLEAN

LEMMA InitTInv == BootInit => TInv
  <1> SUFFICES ASSUME BootInit PROVE TInv
    OBVIOUS
  <1>1. LoadsSaw /\ spent \in Nat /\ touched \in BOOLEAN
    BY DEF BootInit, LoadsSaw, Seen, Gone
  <1>2. QED
    BY <1>1, InitIInv DEF TInv

(* A step of a load. *)
LEMMA LoadTInv ==
    ASSUME TInv, NEW r \in Runs,
           \/ Check(r) \/ Seed(r) \/ Read(r) \/ WriteBackup(r) \/ WriteReport(r) \/ Rewrite(r)
    PROVE  LoadsSaw'
  <1> USE DEF At, Goes, Write, WriteAfter, IsOld
  <1>1. /\ run[r].phase \in Loads /\ touched \in BOOLEAN
        /\ run \in [Runs -> [phase : Phases, process : Processes \cup {NoRun}, text : Texts]]
        /\ \A s \in Runs : s # r => run'[s] = run[s]
    BY DEF TInv, BootIInv, Typed, Check, Seed, Read, WriteBackup, WriteReport, Rewrite, Loads, Ends
  <1>2. CASE touched
    <2>1. touched' \/ \A s \in Runs : run'[s].phase \notin Loads
      <3>1. CASE Check(r) \/ Seed(r)
        BY <1>2, <3>1 DEF Check, Seed
      <3>2. CASE Forgets
        BY <1>2, <3>2 DEF Forgets
      <3>3. QED
        BY <3>1, <3>2 DEF Read, WriteBackup, WriteReport, Rewrite
    <2>2. QED
      BY <2>1 DEF LoadsSaw, Seen, Loads
  <1>3. CASE ~touched
    <2>1. \A s \in Runs : Seen(s)
      BY <1>3 DEF TInv, LoadsSaw
    <2>2. NewText \notin OldTexts /\ NoText \notin OldTexts
      BY BootAssumption DEF BootAssumption
    <2>3. CASE Check(r)
      BY <1>1, <2>1, <2>2, <2>3 DEF Check, Seen, LoadsSaw
    <2>4. CASE Seed(r) \/ Rewrite(r)
      BY <2>2, <2>4 DEF Seed, Rewrite, Seen, LoadsSaw
    <2>5. CASE Read(r)
      <3>1. UNCHANGED <<config, backup, report>>
        BY <2>5 DEF Read, Ends
      <3>2. Seen(r)'
        BY <1>1, <2>2, <2>5, <3>1 DEF Read, Ends, Seen, Gone
      <3>3. QED
        BY <1>1, <2>1, <3>1, <3>2 DEF Seen, LoadsSaw
    <2>6. CASE WriteBackup(r)
      <3>1. IsOld(config) => run[r].text = config
        BY <2>1, <2>6 DEF WriteBackup, Seen
      <3>2. QED
        BY <1>1, <2>1, <2>6, <3>1 DEF WriteBackup, Seen, LoadsSaw
    <2>7. CASE WriteReport(r)
      <3>1. IsOld(config) => run[r].text = config
        BY <2>1, <2>7 DEF WriteReport, Seen
      <3>2. QED
        BY <1>1, <2>1, <2>7, <3>1 DEF WriteReport, Seen, LoadsSaw
    <2>8. QED
      BY <2>3, <2>4, <2>5, <2>6, <2>7
  <1>4. QED
    BY <1>1, <1>2, <1>3

(* The end of a run, and a step past the load, leave the loads that are under way *)
(* as they are.                                                                   *)
LEMMA PastLoads ==
    ASSUME TInv, NEW r \in Runs,
           UNCHANGED <<config, backup, report>>,
           \A s \in Runs : s # r => run'[s] = run[s],
           run'[r].phase \notin Loads \ {"check"},
           touched' = touched \/ Forgets
    PROVE  LoadsSaw'
  <1>1. touched' \/ ~touched \/ \A s \in Runs : run'[s].phase \notin Loads
    BY DEF Forgets
  <1>2. CASE \A s \in Runs : run'[s].phase \notin Loads
    BY <1>2 DEF LoadsSaw, Seen, Loads
  <1>3. CASE ~touched
    BY <1>3 DEF TInv, LoadsSaw, Seen, IsOld, Loads
  <1>4. QED
    BY <1>1, <1>2, <1>3 DEF LoadsSaw

LEMMA RunTInv ==
    ASSUME TInv, NEW r \in Runs,
           \/ Open(r) \/ AcquireLease(r) \/ Recover(r) \/ Install(r)
           \/ ClaimWork(r) \/ Settle(r) \/ Close(r) \/ Dies(r)
           \/ \E q \in Processes : Start(r, q)
    PROVE  LoadsSaw'
  <1>1. run \in [Runs -> [phase : Phases, process : Processes \cup {NoRun}, text : Texts]]
    BY DEF TInv, BootIInv, Typed
  <1>2. /\ UNCHANGED <<config, backup, report>>
        /\ \A s \in Runs : s # r => run'[s] = run[s]
    BY <1>1 DEF Open, AcquireLease, Recover, Install, ClaimWork, Settle, Close, Dies, Start,
                Ends, Goes, Files, Elsewhere
  <1>3. run'[r].phase \notin Loads \ {"check"}
    BY <1>1 DEF Open, AcquireLease, Recover, Install, ClaimWork, Settle, Close, Dies, Start,
                Ends, Goes, At, Loads, Gone
  <1>4. touched' = touched \/ Forgets
    BY DEF Open, AcquireLease, Recover, Install, ClaimWork, Settle, Close, Dies, Start, Elsewhere
  <1>5. QED
    BY <1>2, <1>3, <1>4, PastLoads

(* What the others do: an edit that no load is told of meets no load. *)
LEMMA OthersTInv ==
    ASSUME TInv,
           \/ \E text \in Texts : Edit(text)
           \/ Repair
           \/ \E q \in Processes : Reuse(q) \/ Stops(q)
    PROVE  LoadsSaw'
  <1>1. UNCHANGED <<run, backup, report>>
    BY DEF Edit, Repair, Reuse, Stops, Files
  <1>2. \/ UNCHANGED <<config, touched>>
        \/ touched' = (touched \/ Loading)
    BY DEF Edit, Repair, Reuse, Stops, Files
  <1>3. CASE UNCHANGED <<config, touched>>
    BY <1>1, <1>3 DEF TInv, LoadsSaw, Seen, IsOld
  <1>4. CASE touched' = (touched \/ Loading)
    <2>1. touched' \/ \A r \in Runs : run'[r].phase \notin Loads
      BY <1>1, <1>4 DEF TInv, Loading
    <2>2. QED
      BY <2>1 DEF LoadsSaw, Seen, Loads
  <1>5. QED
    BY <1>2, <1>3, <1>4

LEMMA CountersTInv ==
    ASSUME TInv, BootNext PROVE spent' \in Nat /\ touched' \in BOOLEAN
  <1> USE DEF TInv
  <1>1. spent' \in {spent, spent + 1}
    BY DEF BootNext, Boots, Start, Check, Seed, Read, Write, WriteBackup, WriteReport, Rewrite,
           Open, AcquireLease, Recover, Install, ClaimWork, Settle, Close, Dies, Edit,
           Repair, Reuse, Stops, Files, Elsewhere, Event
  <1>2. touched' = touched \/ Forgets \/ touched' = (touched \/ Loading)
    BY DEF BootNext, Boots, Start, Check, Seed, Read, Write, WriteBackup, WriteReport, Rewrite,
           Open, AcquireLease, Recover, Install, ClaimWork, Settle, Close, Dies, Edit,
           Repair, Reuse, Stops, Files, Elsewhere
  <1>3. touched' \in BOOLEAN
    BY <1>2 DEF Forgets
  <1>4. QED
    BY <1>1, <1>3

LEMMA NextTInv == TInv /\ [BootNext]_bootVars => TInv'
  <1> SUFFICES ASSUME TInv, [BootNext]_bootVars PROVE TInv'
    OBVIOUS
  <1>1. BootIInv'
    BY NextIInv DEF TInv
  <1>2. CASE BootNext
    <2>1. LoadsSaw'
      BY <1>2, LoadTInv, RunTInv, OthersTInv DEF BootNext, Boots
    <2>2. QED
      BY <1>1, <1>2, <2>1, CountersTInv DEF TInv
  <1>3. CASE UNCHANGED bootVars
    BY <1>1, <1>3 DEF TInv, LoadsSaw, Seen, bootVars
  <1>4. QED
    BY <1>2, <1>3

(* An old text leaves the path by the migration's own write, which came last. *)
LEMMA OldLeaves ==
    TInv /\ [BootNext]_bootVars =>
      [IsOld(config) /\ config' # config /\ spent' = spent /\ ~touched =>
         backup' = config /\ report' = config]_bootVars
  <1> SUFFICES ASSUME TInv, [BootNext]_bootVars, IsOld(config), config' # config,
                      spent' = spent, ~touched
               PROVE  backup' = config /\ report' = config
    OBVIOUS
  <1>1. \/ \E r \in Runs : Seed(r) \/ Rewrite(r)
        \/ \E text \in Texts : Edit(text)
        \/ Repair
    BY DEF BootNext, Boots, Start, Check, Read, Write, WriteBackup, WriteReport,
           Open, AcquireLease, Recover, Install, ClaimWork, Settle, Close, Dies, Ends,
           Reuse, Stops, Files, Elsewhere, bootVars
  <1>2. CASE \E text \in Texts : Edit(text)
    BY <1>2 DEF TInv, Edit, Event
  <1>3. CASE Repair
    BY <1>3, BootAssumption DEF Repair, IsOld, BootAssumption
  <1>4. CASE \E r \in Runs : Seed(r) \/ Rewrite(r)
    BY <1>4 DEF TInv, LoadsSaw, Seen, Seed, Rewrite, Write, At
  <1>5. QED
    BY <1>1, <1>2, <1>3, <1>4

(* No load loses the operator's text, however many loads race and wherever they    *)
(* die: when the old text leaves the config's path, backup and report have it      *)
(* (config.ts loadConfigFile).                                                     *)
THEOREM OldTextKept == BootSpec => TextKept
  <1>1. TInv /\ [BootNext]_bootVars =>
          [IsOld(config) /\ config' # config /\ spent' = spent /\ ~touched =>
             backup' = config /\ report' = config]_bootVars
    BY OldLeaves
  <1> QED
    BY <1>1, InitTInv, NextTInv, PTL DEF BootSpec, TextKept

--------------------------------------------------------------------------------
(* The ticket, its attempts and its traces: TicketCycle. *)

(* Rewriting every row of a table keeps it a table of as many rows. *)
LEMMA RewrittenRows ==
    ASSUME NEW S, NEW s \in Seq(S), NEW T, NEW f,
           f = [i \in DOMAIN s |-> f[i]],
           \A i \in DOMAIN s : f[i] \in T
    PROVE  /\ f \in Seq(T)
           /\ Len(f) = Len(s)
           /\ DOMAIN f = DOMAIN s
<1>1. DOMAIN s = 1..Len(s) /\ Len(s) \in Nat
  BY LenProperties
<1>2. f \in [1..Len(s) -> T]
  BY <1>1
<1>3. f \in Seq(T)
  BY <1>1, <1>2, SeqDef
<1>4. DOMAIN f = 1..Len(f)
  BY <1>3, LenProperties
<1>5. Len(f) = Len(s)
  BY <1>1, <1>2, <1>3, LenProperties
<1> QED
  BY <1>1, <1>3, <1>4, <1>5

(* Appending a row adds one row and leaves the others. *)
LEMMA AppendedRow ==
    ASSUME NEW S, NEW s \in Seq(S), NEW e \in S
    PROVE  /\ Append(s, e) \in Seq(S)
           /\ Len(Append(s, e)) = Len(s) + 1
           /\ DOMAIN Append(s, e) = DOMAIN s \cup {Len(s) + 1}
           /\ \A i \in DOMAIN s : Append(s, e)[i] = s[i]
           /\ Append(s, e)[Len(s) + 1] = e
<1>1. DOMAIN s = 1..Len(s) /\ Len(s) \in Nat
  BY LenProperties
<1>2. Append(s, e) \in Seq(S) /\ Len(Append(s, e)) = Len(s) + 1
  OBVIOUS
<1>3. DOMAIN Append(s, e) = 1..(Len(s) + 1)
  BY <1>2, LenProperties
<1>4. 1..(Len(s) + 1) = 1..Len(s) \cup {Len(s) + 1}
  BY <1>1
<1>5. \A i \in 1..Len(s) : Append(s, e)[i] = s[i]
  BY <1>1
<1>6. Append(s, e)[Len(s) + 1] = e
  OBVIOUS
<1> QED
  BY <1>1, <1>2, <1>3, <1>4, <1>5, <1>6

--------------------------------------------------------------------------------
(* What the shared writes leave behind. *)

LEMMA Rows ==
    ASSUME TypeOK
    PROVE  /\ DOMAIN attempts = 1..Len(attempts) /\ Len(attempts) \in Nat
           /\ \A a \in DOMAIN attempts : attempts[a] \in Attempt
           /\ DOMAIN traces = 1..Len(traces) /\ Len(traces) \in Nat
           /\ \A i \in DOMAIN traces : traces[i] \in Trace
  BY LenProperties, ElementOfSeq DEF TypeOK

LEMMA EndCycleWrites ==
    ASSUME TypeOK, NEW t \in Tickets, EndCycle(t)
    PROVE  /\ state' \in [Tickets -> States]
           /\ cycle' \in [Tickets -> Nat \ {0}]
           /\ \A u \in Tickets : cycle'[u] = IF u = t THEN cycle[u] + 1 ELSE cycle[u]
           /\ \A u \in Tickets : state'[u] = IF u = t THEN "open" ELSE state[u]
  BY DEF TypeOK, EndCycle, States

LEMMA MoveToWrites ==
    ASSUME TypeOK, NEW t \in Tickets, NEW from, NEW s \in States, MoveTo(t, from, s)
    PROVE  /\ state' \in [Tickets -> States]
           /\ \A u \in Tickets :
                state'[u] = IF u = t /\ state[t] \in from THEN s ELSE state[u]
  BY DEF TypeOK, MoveTo

LEMMA ResolveWrites ==
    ASSUME TypeOK, NEW a \in DOMAIN attempts, NEW stage \in Stages, Resolve(a, stage)
    PROVE  /\ attempts' \in Seq(Attempt)
           /\ Len(attempts') = Len(attempts)
           /\ DOMAIN attempts' = DOMAIN attempts
           /\ \A b \in DOMAIN attempts :
                attempts'[b] = IF b = a THEN [attempts[b] EXCEPT !.stage = stage]
                                        ELSE attempts[b]
<1> DEFINE row(b) == IF b = a THEN [attempts[b] EXCEPT !.stage = stage] ELSE attempts[b]
<1>1. attempts' = [b \in DOMAIN attempts |-> row(b)]
  BY DEF Resolve
<1>2. \A b \in DOMAIN attempts : row(b) \in Attempt
  BY Rows DEF Attempt
<1> HIDE DEF row
<1>3. \A b \in DOMAIN attempts : attempts'[b] = row(b)
  BY <1>1
<1>4. attempts' = [b \in DOMAIN attempts |-> attempts'[b]]
  BY <1>1
<1>5. attempts \in Seq(Attempt)
  BY DEF TypeOK
<1>6. /\ attempts' \in Seq(Attempt)
      /\ Len(attempts') = Len(attempts)
      /\ DOMAIN attempts' = DOMAIN attempts
  BY <1>2, <1>3, <1>4, <1>5, RewrittenRows
<1> QED
  BY <1>3, <1>6 DEF row

LEMMA AppendAttemptWrites ==
    ASSUME TypeOK, NEW e \in Attempt, attempts' = Append(attempts, e)
    PROVE  /\ attempts' \in Seq(Attempt)
           /\ Len(attempts') = Len(attempts) + 1
           /\ DOMAIN attempts' = DOMAIN attempts \cup {Len(attempts) + 1}
           /\ \A b \in DOMAIN attempts : attempts'[b] = attempts[b]
           /\ attempts'[Len(attempts) + 1] = e
  BY AppendedRow DEF TypeOK

(* A settle's write: every row keeps its handoff, ticket, cycle, decision and *)
(* reread; a row that is not there yet is the handoff's undecided trace.      *)
LEMMA SettledTracesWrites ==
    ASSUME TypeOK, NEW h \in DOMAIN attempts, NEW cause \in Causes, NEW at \in Stamps,
           NEW tr, tr = SettledTraces(attempts[h].ticket, h, cause, at)
    PROVE  /\ tr \in Seq(Trace)
           /\ DOMAIN traces \subseteq DOMAIN tr
           /\ \A i \in DOMAIN traces :
                /\ tr[i].handoff = traces[i].handoff
                /\ tr[i].ticket = traces[i].ticket
                /\ tr[i].cycle = traces[i].cycle
                /\ tr[i].decision = traces[i].decision
                /\ tr[i].decision # "none" => tr[i] = traces[i]
           /\ \A i \in DOMAIN tr \ DOMAIN traces :
                /\ tr[i].handoff = h
                /\ tr[i].ticket = attempts[h].ticket
                /\ tr[i].cycle = attempts[h].cycle
                /\ tr[i].decision = "none"
<1>0. traces \in Seq(Trace)
  BY DEF TypeOK
<1>1. CASE Pending(h) # {}
  <2> DEFINE row(i) == IF i \in Pending(h)
                       THEN [traces[i] EXCEPT !.at = at, !.cause = cause]
                       ELSE traces[i]
  <2>1. tr = [i \in DOMAIN traces |-> row(i)]
    BY <1>1 DEF SettledTraces
  <2>2. \A i \in DOMAIN traces : row(i) \in Trace
    BY Rows DEF Trace
  <2>3. \A i \in DOMAIN traces :
          /\ row(i).handoff = traces[i].handoff
          /\ row(i).ticket = traces[i].ticket
          /\ row(i).cycle = traces[i].cycle
          /\ row(i).decision = traces[i].decision
          /\ row(i).decision # "none" => row(i) = traces[i]
    BY Rows DEF Trace, Pending, Undecided
  <2> HIDE DEF row
  <2>4. \A i \in DOMAIN traces : tr[i] = row(i)
    BY <2>1
  <2>5. tr = [i \in DOMAIN traces |-> tr[i]]
    BY <2>1
  <2>6. tr \in Seq(Trace) /\ DOMAIN tr = DOMAIN traces
    BY <1>0, <2>2, <2>4, <2>5, RewrittenRows
  <2> QED
    BY <2>3, <2>4, <2>6
<1>2. CASE Pending(h) = {}
  <2> DEFINE e == [handoff |-> h, ticket |-> attempts[h].ticket,
                   cycle |-> attempts[h].cycle, at |-> at, cause |-> cause,
                   decision |-> "none", reread |-> TRUE]
  <2>1. tr = Append(traces, e)
    BY <1>2 DEF SettledTraces
  <2>2. e \in Trace
    BY Rows DEF Trace, Attempt
  <2>3. /\ e.handoff = h /\ e.ticket = attempts[h].ticket
        /\ e.cycle = attempts[h].cycle /\ e.decision = "none"
    OBVIOUS
  <2> HIDE DEF e
  <2>4. /\ tr \in Seq(Trace)
        /\ DOMAIN tr = DOMAIN traces \cup {Len(traces) + 1}
        /\ \A i \in DOMAIN traces : tr[i] = traces[i]
        /\ tr[Len(traces) + 1] = e
    BY <1>0, <2>1, <2>2, AppendedRow
  <2> QED
    BY <2>3, <2>4
<1> QED
  BY <1>1, <1>2

(* The supersede's write: rows keep everything but the decision, a decided row  *)
(* keeps its decision, and an undecided row of the ticket is the newest one.    *)
LEMMA SupersedeWrites ==
    ASSUME NEW tr \in Seq(Trace), NEW t, NEW new, new = Supersede(tr, t)
    PROVE  /\ new \in Seq(Trace)
           /\ DOMAIN new = DOMAIN tr
           /\ \A i \in DOMAIN tr :
                /\ new[i].handoff = tr[i].handoff
                /\ new[i].ticket = tr[i].ticket
                /\ new[i].cycle = tr[i].cycle
                /\ new[i].cause = tr[i].cause
                /\ tr[i].decision # "none" => new[i] = tr[i]
                /\ new[i].decision \in {tr[i].decision, "superseded"}
                /\ new[i].decision = "none" /\ tr[i].ticket = t => IsNewest(tr, i)
<1> DEFINE row(i) == IF tr[i].ticket = t /\ tr[i].decision = "none" /\ ~IsNewest(tr, i)
                     THEN [tr[i] EXCEPT !.decision = "superseded"]
                     ELSE tr[i]
<1>0. \A i \in DOMAIN tr : tr[i] \in Trace
  BY LenProperties, ElementOfSeq
<1>1. new = [i \in DOMAIN tr |-> row(i)]
  BY DEF Supersede
<1>2. \A i \in DOMAIN tr : row(i) \in Trace
  BY <1>0 DEF Trace, Decisions
<1>3. \A i \in DOMAIN tr :
        /\ row(i).handoff = tr[i].handoff
        /\ row(i).ticket = tr[i].ticket
        /\ row(i).cycle = tr[i].cycle
        /\ row(i).cause = tr[i].cause
        /\ tr[i].decision # "none" => row(i) = tr[i]
        /\ row(i).decision \in {tr[i].decision, "superseded"}
        /\ row(i).decision = "none" /\ tr[i].ticket = t => IsNewest(tr, i)
  BY <1>0 DEF Trace
<1> HIDE DEF row
<1>4. \A i \in DOMAIN tr : new[i] = row(i)
  BY <1>1
<1>5. new = [i \in DOMAIN tr |-> new[i]]
  BY <1>1
<1>6. new \in Seq(Trace) /\ DOMAIN new = DOMAIN tr
  BY <1>2, <1>4, <1>5, RewrittenRows
<1> QED
  BY <1>3, <1>4, <1>6

(* A decision's write: the handoff's undecided rows wear it, no other row moves. *)
LEMMA DecideWrites ==
    ASSUME TypeOK, NEW t, NEW h, NEW d \in Decisions, DecidePending(t, h, d)
    PROVE  /\ traces' \in Seq(Trace)
           /\ DOMAIN traces' = DOMAIN traces
           /\ \A i \in DOMAIN traces :
                /\ traces'[i].handoff = traces[i].handoff
                /\ traces'[i].ticket = traces[i].ticket
                /\ traces'[i].cycle = traces[i].cycle
                /\ traces'[i].cause = traces[i].cause
                /\ IF i \in Pending(h) THEN traces'[i].decision = d
                                        ELSE traces'[i] = traces[i]
<1> DEFINE row(i) == IF i \in Pending(h)
                     THEN [traces[i] EXCEPT !.decision = d, !.reread = d \notin CycleEnds]
                     ELSE traces[i]
<1>1. traces' = [i \in DOMAIN traces |-> row(i)]
  BY DEF DecidePending
<1>2. \A i \in DOMAIN traces : row(i) \in Trace
  BY Rows DEF Trace
<1>3. \A i \in DOMAIN traces :
        /\ row(i).handoff = traces[i].handoff
        /\ row(i).ticket = traces[i].ticket
        /\ row(i).cycle = traces[i].cycle
        /\ row(i).cause = traces[i].cause
        /\ IF i \in Pending(h) THEN row(i).decision = d ELSE row(i) = traces[i]
  BY Rows DEF Trace
<1> HIDE DEF row
<1>4. \A i \in DOMAIN traces : traces'[i] = row(i)
  BY <1>1
<1>5. traces' = [i \in DOMAIN traces |-> traces'[i]]
  BY <1>1
<1>6. traces' \in Seq(Trace) /\ DOMAIN traces' = DOMAIN traces
  BY <1>2, <1>4, <1>5, RewrittenRows DEF TypeOK
<1> QED
  BY <1>3, <1>4, <1>6

(* An abandon over an unsettled turn adds one decided row in the handoff's cycle. *)
LEMMA AbandonWrites ==
    ASSUME TypeOK, NEW h \in DOMAIN attempts, NEW at \in Stamps,
           AbandonUnsettled(attempts[h].ticket, h, at)
    PROVE  /\ traces' \in Seq(Trace)
           /\ DOMAIN traces' = DOMAIN traces \cup {Len(traces) + 1}
           /\ \A i \in DOMAIN traces : traces'[i] = traces[i]
           /\ traces'[Len(traces) + 1].handoff = h
           /\ traces'[Len(traces) + 1].ticket = attempts[h].ticket
           /\ traces'[Len(traces) + 1].cycle = attempts[h].cycle
           /\ traces'[Len(traces) + 1].decision = "abandoned"
<1> DEFINE e == [handoff |-> h, ticket |-> attempts[h].ticket, cycle |-> attempts[h].cycle,
                 at |-> at, cause |-> "none", decision |-> "abandoned", reread |-> FALSE]
<1>1. traces' = Append(traces, e)
  BY DEF AbandonUnsettled
<1>2. e \in Trace
  BY Rows DEF Trace, Attempt, Decisions
<1>3. /\ e.handoff = h /\ e.ticket = attempts[h].ticket
      /\ e.cycle = attempts[h].cycle /\ e.decision = "abandoned"
  OBVIOUS
<1> HIDE DEF e
<1>4. /\ traces' \in Seq(Trace)
      /\ DOMAIN traces' = DOMAIN traces \cup {Len(traces) + 1}
      /\ \A i \in DOMAIN traces : traces'[i] = traces[i]
      /\ traces'[Len(traces) + 1] = e
  BY <1>1, <1>2, AppendedRow DEF TypeOK
<1> QED
  BY <1>3, <1>4

(* A source's re-read marks rows read and changes nothing else. *)
LEMMA RereadWrites ==
    ASSUME TypeOK, NEW t, RereadSources(t)
    PROVE  /\ traces' \in Seq(Trace)
           /\ DOMAIN traces' = DOMAIN traces
           /\ \A i \in DOMAIN traces :
                /\ traces'[i].handoff = traces[i].handoff
                /\ traces'[i].ticket = traces[i].ticket
                /\ traces'[i].cycle = traces[i].cycle
                /\ traces'[i].cause = traces[i].cause
                /\ traces'[i].decision = traces[i].decision
<1> DEFINE row(i) == IF traces[i].ticket = t THEN [traces[i] EXCEPT !.reread = TRUE]
                                             ELSE traces[i]
<1>1. traces' = [i \in DOMAIN traces |-> row(i)]
  BY DEF RereadSources
<1>2. \A i \in DOMAIN traces : row(i) \in Trace
  BY Rows DEF Trace
<1>3. \A i \in DOMAIN traces :
        /\ row(i).handoff = traces[i].handoff
        /\ row(i).ticket = traces[i].ticket
        /\ row(i).cycle = traces[i].cycle
        /\ row(i).cause = traces[i].cause
        /\ row(i).decision = traces[i].decision
  BY Rows DEF Trace
<1> HIDE DEF row
<1>4. \A i \in DOMAIN traces : traces'[i] = row(i)
  BY <1>1
<1>5. traces' = [i \in DOMAIN traces |-> traces'[i]]
  BY <1>1
<1>6. traces' \in Seq(Trace) /\ DOMAIN traces' = DOMAIN traces
  BY <1>2, <1>4, <1>5, RewrittenRows DEF TypeOK
<1> QED
  BY <1>3, <1>4, <1>6

(* The boot settles what was under way and keeps every other attempt. *)
LEMMA RestartWrites ==
    ASSUME TypeOK, Restart
    PROVE  /\ attempts' \in Seq(Attempt)
           /\ Len(attempts') = Len(attempts)
           /\ DOMAIN attempts' = DOMAIN attempts
           /\ \A a \in DOMAIN attempts :
                /\ attempts'[a].ticket = attempts[a].ticket
                /\ attempts'[a].cycle = attempts[a].cycle
                /\ attempts'[a].stage # "claimed"
                /\ ~Unresolved(a) => attempts'[a] = attempts[a]
<1> DEFINE row(a) == IF Unresolved(a) THEN [attempts[a] EXCEPT !.stage = "failed"]
                                      ELSE attempts[a]
<1>1. attempts' = [a \in DOMAIN attempts |-> row(a)]
  BY DEF Restart
<1>2. \A a \in DOMAIN attempts : row(a) \in Attempt
  BY Rows DEF Attempt, Stages
<1>3. \A a \in DOMAIN attempts :
        /\ row(a).ticket = attempts[a].ticket
        /\ row(a).cycle = attempts[a].cycle
        /\ row(a).stage # "claimed"
        /\ ~Unresolved(a) => row(a) = attempts[a]
  BY Rows DEF Attempt, Unresolved
<1> HIDE DEF row
<1>4. \A a \in DOMAIN attempts : attempts'[a] = row(a)
  BY <1>1
<1>5. attempts' = [a \in DOMAIN attempts |-> attempts'[a]]
  BY <1>1
<1>6. /\ attempts' \in Seq(Attempt)
      /\ Len(attempts') = Len(attempts)
      /\ DOMAIN attempts' = DOMAIN attempts
  BY <1>2, <1>4, <1>5, RewrittenRows DEF TypeOK
<1> QED
  BY <1>3, <1>4, <1>6

--------------------------------------------------------------------------------
(* The inductive invariant: what the rows of the three tables say of each other. *)

RowsRefer ==
    /\ \A a \in DOMAIN attempts : attempts[a].cycle <= cycle[attempts[a].ticket]
    /\ \A i \in DOMAIN traces :
          /\ traces[i].handoff \in DOMAIN attempts
          /\ traces[i].ticket = attempts[traces[i].handoff].ticket
          /\ traces[i].cycle <= cycle[traces[i].ticket]

(* A ticket that ever started rests open only past its first cycle, and the loop *)
(* walks over started attempts: what is beside the domain's table meets no ticket *)
(* in its first cycle.                                                            *)
StartsEnded ==
    \A a \in DOMAIN attempts :
        IsHandoff(a) /\ state[attempts[a].ticket] = "open" => cycle[attempts[a].ticket] > 1
WalksStarts == \A h \in walk.rows : IsHandoff(h)

IInv == /\ TypeOK /\ RowsRefer /\ OneUnresolvedAttempt /\ OneUndecidedTrace
        /\ CycleEndIsPast /\ StartsEnded /\ WalksStarts

(* What any step may do to the attempts, to the traces and to the tickets. *)
AttemptStep ==
    /\ attempts' \in Seq(Attempt)
    /\ DOMAIN attempts \subseteq DOMAIN attempts'
    /\ \A a \in DOMAIN attempts :
          /\ attempts'[a].ticket = attempts[a].ticket
          /\ attempts'[a].cycle = attempts[a].cycle
          /\ attempts'[a].stage = "claimed" => Unresolved(a)
          /\ ~Unresolved(a) => attempts'[a] = attempts[a]
    /\ \A a \in DOMAIN attempts' \ DOMAIN attempts :
          /\ a = Len(attempts) + 1
          /\ attempts'[a].cycle = cycle[attempts'[a].ticket]
          /\ ~HasUnresolvedAttempt(attempts'[a].ticket)

TraceStep ==
    /\ traces' \in Seq(Trace)
    /\ DOMAIN traces \subseteq DOMAIN traces'
    /\ \A i \in DOMAIN traces :
          /\ traces'[i].handoff = traces[i].handoff
          /\ traces'[i].ticket = traces[i].ticket
          /\ traces'[i].cycle = traces[i].cycle
          /\ ~Undecided(i) => /\ traces'[i].decision = traces[i].decision
                              /\ traces'[i].cause = traces[i].cause
          /\ Undecided(i) /\ traces'[i].decision \in CycleEnds
                => cycle'[traces[i].ticket] = cycle[traces[i].ticket] + 1
    /\ \A i \in DOMAIN traces' \ DOMAIN traces :
          /\ traces'[i].handoff \in DOMAIN attempts
          /\ traces'[i].ticket = attempts[traces'[i].handoff].ticket
          /\ traces'[i].cycle = attempts[traces'[i].handoff].cycle
          /\ traces'[i].decision \in CycleEnds
                => cycle'[traces'[i].ticket] = cycle[traces'[i].ticket] + 1
    /\ OneUndecidedTrace'

TicketStep ==
    /\ state' \in [Tickets -> States]
    /\ cycle' \in [Tickets -> Nat \ {0}]
    /\ \A t \in Tickets :
          \/ Line!Rests(t) \/ Line!Moved(t) \/ Line!Ended(t)
          \/ Line!Reclaimed(t) \/ Line!EndedOpen(t)

Step == AttemptStep /\ TraceStep /\ TicketStep

--------------------------------------------------------------------------------
(* Each write, as a step. *)

LEMMA KeptAttempts ==
    ASSUME TypeOK, UNCHANGED attempts
    PROVE  AttemptStep
  BY DEF AttemptStep, TypeOK, Unresolved

LEMMA KeptTraces ==
    ASSUME TypeOK, OneUndecidedTrace, UNCHANGED traces
    PROVE  TraceStep
  BY DEF TraceStep, TypeOK, OneUndecidedTrace, Undecided, CycleEnds

LEMMA KeptTickets ==
    ASSUME TypeOK, UNCHANGED <<state, cycle>>
    PROVE  TicketStep
  BY DEF TicketStep, TypeOK, Line!Rests

LEMMA EndCycleStep ==
    ASSUME TypeOK, NEW t \in Tickets, EndCycle(t), state[t] = "open" => cycle[t] > 1
    PROVE  TicketStep
<1>1. state[t] # "open" => <<state[t], "open">> \in Line!Moves
  BY DEF TypeOK, States, Line!Moves
<1>2. Line!Ended(t) \/ Line!EndedOpen(t)
  BY <1>1, EndCycleWrites DEF Line!Ended, Line!EndedOpen, Line!Listed
<1>3. \A u \in Tickets \ {t} : Line!Rests(u)
  BY EndCycleWrites DEF Line!Rests
<1> QED
  BY <1>2, <1>3, EndCycleWrites DEF TicketStep

LEMMA MoveToStep ==
    ASSUME TypeOK, NEW t \in Tickets, NEW from, NEW s \in States, MoveTo(t, from, s),
           \A r \in from : <<r, s>> \in Line!Moves, s # "open", UNCHANGED cycle
    PROVE  TicketStep
  BY MoveToWrites DEF TicketStep, TypeOK, Line!Rests, Line!Moved, Line!Listed

LEMMA ResolveStep ==
    ASSUME TypeOK, NEW a \in DOMAIN attempts, Unresolved(a),
           NEW stage \in Stages \ {"claimed"}, Resolve(a, stage)
    PROVE  AttemptStep
<1>1. \A b \in DOMAIN attempts :
        attempts'[b] = IF b = a THEN [attempts[b] EXCEPT !.stage = stage] ELSE attempts[b]
  BY ResolveWrites
<1>2. attempts' \in Seq(Attempt) /\ DOMAIN attempts' = DOMAIN attempts
  BY ResolveWrites
<1>3. \A b \in DOMAIN attempts : attempts[b] \in Attempt
  BY Rows
<1> QED
  BY <1>1, <1>2, <1>3 DEF AttemptStep, Attempt, Unresolved

LEMMA NewAttemptStep ==
    ASSUME TypeOK, NEW e \in Attempt, e.cycle = cycle[e.ticket],
           ~HasUnresolvedAttempt(e.ticket), attempts' = Append(attempts, e)
    PROVE  AttemptStep
  BY AppendAttemptWrites DEF AttemptStep, Unresolved

LEMMA RestartStep ==
    ASSUME TypeOK, Restart
    PROVE  AttemptStep
  BY RestartWrites DEF AttemptStep

LEMMA RereadStep ==
    ASSUME TypeOK, OneUndecidedTrace, NEW t, RereadSources(t)
    PROVE  TraceStep
  BY RereadWrites DEF TraceStep, OneUndecidedTrace, Undecided, CycleEnds

LEMMA DecideStep ==
    ASSUME IInv, NEW h \in DOMAIN attempts, IsHandoff(h), NEW d \in Decisions,
           DecidePending(attempts[h].ticket, h, d)
    PROVE  TraceStep /\ TicketStep
<1> DEFINE t == attempts[h].ticket
<1>0. TypeOK /\ t \in Tickets /\ d # "none" /\ (state[t] = "open" => cycle[t] > 1)
  BY Rows DEF IInv, Attempt, Decisions, StartsEnded
<1>1. IF d \in CycleEnds \/ state[t] = "awaiting" THEN EndCycle(t)
                                                 ELSE UNCHANGED <<state, cycle>>
  BY DEF DecidePending
<1>2. \A i \in Pending(h) : traces[i].ticket = t /\ i \in DOMAIN traces /\ Undecided(i)
  BY DEF Pending, IInv, RowsRefer
<1>3. /\ traces' \in Seq(Trace)
      /\ DOMAIN traces' = DOMAIN traces
      /\ \A i \in DOMAIN traces :
           /\ traces'[i].handoff = traces[i].handoff
           /\ traces'[i].ticket = traces[i].ticket
           /\ traces'[i].cycle = traces[i].cycle
           /\ traces'[i].cause = traces[i].cause
           /\ IF i \in Pending(h) THEN traces'[i].decision = d
                                   ELSE traces'[i] = traces[i]
  BY <1>0, DecideWrites
<1> HIDE DEF t
<1>4. TicketStep
  BY <1>0, <1>1, EndCycleStep, KeptTickets
<1>5. d \in CycleEnds => cycle'[t] = cycle[t] + 1
  BY <1>0, <1>1, EndCycleWrites
<1>6. OneUndecidedTrace'
  BY <1>0, <1>3 DEF OneUndecidedTrace, Undecided, IInv
<1>7. TraceStep
  BY <1>0, <1>2, <1>3, <1>5, <1>6 DEF TraceStep, Undecided, CycleEnds
<1> QED
  BY <1>4, <1>7

LEMMA AbandonStep ==
    ASSUME IInv, NEW h \in DOMAIN attempts, IsHandoff(h), NEW at \in Stamps,
           AbandonUnsettled(attempts[h].ticket, h, at)
    PROVE  TraceStep /\ TicketStep
<1> DEFINE t == attempts[h].ticket
<1>0. TypeOK /\ t \in Tickets /\ (state[t] = "open" => cycle[t] > 1)
  BY Rows DEF IInv, Attempt, StartsEnded
<1>1. TicketStep
  BY <1>0, EndCycleStep DEF AbandonUnsettled
<1>2. cycle'[t] = cycle[t] + 1
  BY <1>0, EndCycleWrites DEF AbandonUnsettled
<1>3. TraceStep
  BY <1>0, <1>2, AbandonWrites
     DEF TraceStep, OneUndecidedTrace, Undecided, IInv, CycleEnds
<1> QED
  BY <1>1, <1>3

(* Two newest rows of one ticket are one row: the order is by time, then by row. *)
LEMMA NewestIsOne ==
    ASSUME NEW tr \in Seq(Trace), NEW i \in DOMAIN tr, NEW j \in DOMAIN tr,
           tr[i].ticket = tr[j].ticket, IsNewest(tr, i), IsNewest(tr, j)
    PROVE  i = j
<1> SUFFICES ASSUME i # j PROVE FALSE
  OBVIOUS
<1>0. tr[i] \in Trace /\ tr[j] \in Trace /\ i \in Nat /\ j \in Nat
  OBVIOUS
<1>1. tr[i].at \in Int /\ tr[j].at \in Int
  BY <1>0, StampsAssumption DEF Trace
<1>2. Before(tr, j, i) /\ Before(tr, i, j)
  BY DEF IsNewest
<1> QED
  BY <1>0, <1>1, <1>2 DEF Before

LEMMA SettleStep ==
    ASSUME IInv, NEW h \in DOMAIN attempts, NEW cause \in Causes, NEW at \in Stamps,
           SettleTurn(attempts[h].ticket, h, cause, at), UNCHANGED cycle
    PROVE  TraceStep /\ TicketStep
<1> DEFINE t == attempts[h].ticket
           tr == SettledTraces(t, h, cause, at)
<1>0. TypeOK /\ t \in Tickets
  BY Rows DEF IInv, Attempt
<1>1. TicketStep
  BY <1>0, MoveToStep DEF SettleTurn, Line!Moves, InFlight, States
<1>2. traces' = Supersede(tr, t)
  BY DEF SettleTurn
<1>3. /\ tr \in Seq(Trace)
      /\ DOMAIN traces \subseteq DOMAIN tr
      /\ \A i \in DOMAIN traces :
           /\ tr[i].handoff = traces[i].handoff
           /\ tr[i].ticket = traces[i].ticket
           /\ tr[i].cycle = traces[i].cycle
           /\ tr[i].decision = traces[i].decision
           /\ tr[i].decision # "none" => tr[i] = traces[i]
      /\ \A i \in DOMAIN tr \ DOMAIN traces :
           /\ tr[i].handoff = h
           /\ tr[i].ticket = t
           /\ tr[i].cycle = attempts[h].cycle
           /\ tr[i].decision = "none"
  BY <1>0, SettledTracesWrites
<1> HIDE DEF t, tr
<1>4. /\ traces' \in Seq(Trace)
      /\ DOMAIN traces' = DOMAIN tr
      /\ \A i \in DOMAIN tr :
           /\ traces'[i].handoff = tr[i].handoff
           /\ traces'[i].ticket = tr[i].ticket
           /\ traces'[i].cycle = tr[i].cycle
           /\ traces'[i].cause = tr[i].cause
           /\ tr[i].decision # "none" => traces'[i] = tr[i]
           /\ traces'[i].decision \in {tr[i].decision, "superseded"}
           /\ traces'[i].decision = "none" /\ tr[i].ticket = t => IsNewest(tr, i)
  BY <1>2, <1>3, SupersedeWrites
<1>5. ASSUME NEW i \in DOMAIN traces', NEW j \in DOMAIN traces',
             traces'[i].decision = "none", traces'[j].decision = "none",
             traces'[i].ticket = traces'[j].ticket
      PROVE  i = j
  <2>1. /\ i \in DOMAIN tr /\ j \in DOMAIN tr
        /\ tr[i].decision = "none" /\ tr[j].decision = "none"
        /\ tr[i].ticket = tr[j].ticket
    BY <1>4, <1>5
  <2>2. CASE tr[i].ticket = t
    <3>1. IsNewest(tr, i) /\ IsNewest(tr, j)
      BY <1>4, <1>5, <2>1, <2>2
    <3> QED
      BY <1>3, <2>1, <3>1, NewestIsOne
  <2>3. CASE tr[i].ticket # t
    <3>1. i \in DOMAIN traces /\ j \in DOMAIN traces
      BY <1>3, <2>1, <2>3
    <3> QED
      BY <1>3, <2>1, <3>1 DEF IInv, OneUndecidedTrace, Undecided
  <2> QED
    BY <2>2, <2>3
<1>6. OneUndecidedTrace'
  BY <1>5 DEF OneUndecidedTrace, Undecided
<1>7. /\ DOMAIN traces \subseteq DOMAIN traces'
      /\ \A i \in DOMAIN traces :
           /\ traces'[i].handoff = traces[i].handoff
           /\ traces'[i].ticket = traces[i].ticket
           /\ traces'[i].cycle = traces[i].cycle
           /\ ~Undecided(i) => traces'[i] = traces[i]
           /\ Undecided(i) => traces'[i].decision \notin CycleEnds
  BY <1>3, <1>4 DEF Undecided, CycleEnds
<1>8. \A i \in DOMAIN traces' \ DOMAIN traces :
        /\ traces'[i].handoff = h
        /\ traces'[i].ticket = t
        /\ traces'[i].cycle = attempts[h].cycle
        /\ traces'[i].decision \notin CycleEnds
  BY <1>3, <1>4 DEF CycleEnds
<1>9. TraceStep
  BY <1>4, <1>6, <1>7, <1>8 DEF TraceStep, t
<1> QED
  BY <1>1, <1>9

--------------------------------------------------------------------------------
(* Each action, as a step. *)

THEOREM EveryStep ==
    ASSUME IInv, [Next]_vars
    PROVE  Step
<1>0. TypeOK /\ OneUndecidedTrace
  BY DEF IInv
<1> USE <1>0
<1>1. ASSUME NEW t \in Tickets, NEW o \in Origins, Claim(t, o) PROVE Step
  <2> DEFINE e == [ticket |-> t, cycle |-> cycle[t], origin |-> o,
                   claimedState |-> state[t], stage |-> "claimed"]
  <2>1. /\ attempts' = Append(attempts, e) /\ ~HasUnresolvedAttempt(t)
        /\ UNCHANGED <<state, cycle, traces>>
    BY <1>1 DEF Claim, HandoffGates
  <2>2. e \in Attempt /\ e.ticket = t /\ e.cycle = cycle[t]
    BY DEF TypeOK, Attempt, Stages
  <2> HIDE DEF e
  <2> QED
    BY <2>1, <2>2, NewAttemptStep, KeptTraces, KeptTickets DEF Step
<1>2. ASSUME NEW a \in DOMAIN attempts,
             DropMovedOn(a) \/ CancelParked(a) \/ StartFails(a)
      PROVE  Step
  <2>1. Unresolved(a) /\ Resolve(a, "failed") /\ UNCHANGED <<state, cycle, traces>>
    BY <1>2 DEF DropMovedOn, CancelParked, StartFails, FirstParked, Parked
  <2> QED
    BY <2>1, ResolveStep, KeptTraces, KeptTickets DEF Step, Stages
<1>3. ASSUME NEW a \in DOMAIN attempts, TakeSeat(a) PROVE Step
  BY <1>3, KeptAttempts, KeptTraces, KeptTickets DEF Step, TakeSeat
<1>4. ASSUME NEW a \in DOMAIN attempts, StartLands(a) PROVE Step
  <2>1. AttemptStep
    BY <1>4, ResolveStep DEF StartLands, Stages
  <2>2. attempts[a].ticket \in Tickets
    BY Rows DEF Attempt
  <2>3. TicketStep
    BY <1>4, <2>2, MoveToStep DEF StartLands, Line!Moves, States
  <2> QED
    BY <1>4, <2>1, <2>3, KeptTraces DEF Step, StartLands
<1>5. ASSUME NEW src \in Tickets, NEW tgt \in Tickets, RouteAsk(src, tgt) PROVE Step
  <2>1. PICK h \in DOMAIN attempts :
          attempts[h].ticket = src /\ IsHandoff(h) /\ DecidePending(src, h, "handed-off")
    BY <1>5 DEF RouteAsk, NewestHandoffs, IsNewestHandoff
  <2> QED
    BY <1>5, <2>1, DecideStep, KeptAttempts DEF Step, RouteAsk, Decisions
<1>6. CASE BeginInFlightWalk \/ BeginAwaitingWalk \/ EndWalks
  BY <1>6, KeptAttempts, KeptTraces, KeptTickets
     DEF Step, BeginInFlightWalk, BeginAwaitingWalk, EndWalks
<1>w. walk.rows \subseteq DOMAIN attempts /\ \A h \in walk.rows : IsHandoff(h)
  BY Rows DEF TypeOK, IInv, WalksStarts
<1>7. ASSUME NEW h \in walk.rows, MarkRunning(h) PROVE Step
  <2>1. Row(h) \in Tickets
    BY <1>w, Rows DEF Row, Attempt
  <2>2. TicketStep
    BY <1>7, <2>1, MoveToStep DEF MarkRunning, Line!Moves, States
  <2> QED
    BY <1>7, <2>2, KeptAttempts, KeptTraces DEF Step, MarkRunning
<1>8. ASSUME NEW h \in walk.rows, LeaveRow(h) PROVE Step
  BY <1>8, KeptAttempts, KeptTraces, KeptTickets DEF Step, LeaveRow
<1>9. ASSUME NEW h \in DOMAIN attempts, IsHandoff(h), NEW t \in Tickets,
             t = attempts[h].ticket, ApplyClose(t, h), UNCHANGED attempts
      PROVE  Step
  <2>1. CASE DecidePending(t, h, "closed")
    BY <1>9, <2>1, DecideStep, KeptAttempts DEF Step, Decisions
  <2>2. CASE CloseDecided(t, h)
    BY <1>9, <2>2, EndCycleStep, KeptAttempts, KeptTraces DEF Step, CloseDecided
  <2> QED
    BY <1>9, <2>1, <2>2 DEF ApplyClose
<1>10. ASSUME NEW h \in DOMAIN attempts, IsHandoff(h), NEW t \in Tickets,
              t = attempts[h].ticket, NEW at \in Stamps, ApplyAbandon(t, h, at), UNCHANGED attempts
       PROVE  Step
  <2>1. CASE DecidePending(t, h, "abandoned")
    BY <1>10, <2>1, DecideStep, KeptAttempts DEF Step, Decisions
  <2>2. CASE AbandonUnsettled(t, h, at)
    BY <1>10, <2>2, AbandonStep, KeptAttempts DEF Step
  <2> QED
    BY <1>10, <2>1, <2>2 DEF ApplyAbandon
<1>11. ASSUME NEW h \in walk.rows, AutoClose(h) PROVE Step
  <2>1. Row(h) \in Tickets
    BY <1>w, Rows DEF Row, Attempt
  <2> QED
    BY <1>9, <1>11, <1>w, <2>1 DEF AutoClose, Row
<1>12. ASSUME NEW h \in walk.rows, NEW cause \in Causes, NEW at \in Stamps,
              ObserveSettle(h, cause, at)
       PROVE  Step
  BY <1>12, <1>w, SettleStep, KeptAttempts DEF Step, ObserveSettle, Row
<1>13. ASSUME NEW h \in walk.rows, NEW at \in Stamps, ObserveAbandon(h, at) PROVE Step
  <2>1. Row(h) \in Tickets
    BY <1>w, Rows DEF Row, Attempt
  <2> QED
    BY <1>10, <1>13, <1>w, <2>1 DEF ObserveAbandon, Row
<1>14. ASSUME NEW W \in SUBSET Tickets, ResumeAwaitingTurns(W) PROVE Step
  <2>1. TicketStep
    BY <1>14 DEF ResumeAwaitingTurns, TicketStep, TypeOK, States,
                 Line!Rests, Line!Moved, Line!Listed, Line!Moves
  <2> QED
    BY <1>14, <2>1, KeptAttempts, KeptTraces DEF Step, ResumeAwaitingTurns
<1>15. ASSUME NEW t \in Tickets, Reclaim(t) PROVE Step
  <2> DEFINE e == [ticket |-> t, cycle |-> cycle[t], origin |-> "open",
                   claimedState |-> "open", stage |-> "reclaimed"]
  <2>1. /\ attempts' = Append(attempts, e) /\ ~HasUnresolvedAttempt(t)
        /\ UNCHANGED <<cycle, traces>> /\ MoveTo(t, {"open"}, "running")
    BY <1>15 DEF Reclaim
  <2>2. e \in Attempt /\ e.ticket = t /\ e.cycle = cycle[t]
    BY DEF TypeOK, Attempt, Stages, States, Origins
  <2> HIDE DEF e
  <2>3. state[t] = "open" /\ cycle[t] > 1
    BY <1>15 DEF Reclaim, NewestHandoffs, IsNewestHandoff, IInv, StartsEnded
  <2>4. Line!Reclaimed(t) /\ \A u \in Tickets \ {t} : Line!Rests(u)
    BY <2>1, <2>3, MoveToWrites DEF Line!Reclaimed, Line!Rests, States
  <2>5. TicketStep
    BY <2>1, <2>4, MoveToWrites DEF TicketStep, TypeOK, States
  <2> QED
    BY <2>1, <2>2, <2>5, NewAttemptStep, KeptTraces DEF Step
<1>16. ASSUME NEW t \in Tickets, OperatorClose(t) PROVE Step
  <2>1. PICK h \in DOMAIN attempts :
          attempts[h].ticket = t /\ IsHandoff(h) /\ ApplyClose(t, h)
    BY <1>16 DEF OperatorClose, Shows, Row, IsNewestHandoff
  <2> QED
    BY <1>9, <1>16, <2>1 DEF OperatorClose
<1>17. ASSUME NEW t \in Tickets, CloseWorkCycle(t) PROVE Step
  BY <1>17, EndCycleStep, KeptAttempts, KeptTraces DEF Step, CloseWorkCycle, InFlight
<1>18. ASSUME NEW t \in Tickets, RereadSources(t) PROVE Step
  BY <1>18, RereadStep, KeptAttempts, KeptTickets DEF Step, RereadSources
<1>19. ASSUME NEW t \in Tickets, NEW at \in Stamps, OperatorAbandon(t, at) PROVE Step
  <2>1. PICK h \in DOMAIN attempts :
          attempts[h].ticket = t /\ IsHandoff(h) /\ ApplyAbandon(t, h, at)
    BY <1>19 DEF OperatorAbandon, Shows, Row, IsNewestHandoff
  <2> QED
    BY <1>10, <1>19, <2>1 DEF OperatorAbandon
<1>20. CASE Restart
  BY <1>20, RestartStep, KeptTraces, KeptTickets DEF Step, Restart
<1>21. CASE UNCHANGED vars
  BY <1>21, KeptAttempts, KeptTraces, KeptTickets DEF Step, vars
<1>22. CASE Dispatch
  BY <1>22, <1>1, <1>2, <1>3, <1>4, <1>5 DEF Dispatch
<1>23. CASE Observation
  BY <1>23, <1>6, <1>7, <1>8, <1>11, <1>12, <1>13, <1>14, <1>15 DEF Observation
<1>24. CASE Operator
  BY <1>24, <1>16, <1>17, <1>18, <1>19 DEF Operator
<1> QED
  BY <1>20, <1>21, <1>22, <1>23, <1>24 DEF Next

--------------------------------------------------------------------------------
(* The memory of the dispatch and of the loop points at rows the tables hold. *)
LEMMA MemoryStep ==
    ASSUME TypeOK, [Next]_vars, AttemptStep
    PROVE  /\ seat' \in 0..Len(attempts')
           /\ walk' \in [kind : Walks, rows : SUBSET (1..Len(attempts')),
                         unread : SUBSET Tickets]
<1> DEFINE seats == 0..Len(attempts')
           walks == [kind : Walks, rows : SUBSET (1..Len(attempts')),
                     unread : SUBSET Tickets]
<1>1. /\ DOMAIN attempts = 1..Len(attempts) /\ Len(attempts) \in Nat
      /\ DOMAIN attempts' = 1..Len(attempts') /\ Len(attempts') \in Nat
  BY LenProperties DEF TypeOK, AttemptStep
<1>2. DOMAIN attempts \subseteq DOMAIN attempts'
  BY DEF AttemptStep
<1>3. 0 \in seats /\ DOMAIN attempts \subseteq seats /\ seat \in seats
  BY <1>1, <1>2 DEF TypeOK
<1>4. /\ walk.kind \in Walks /\ walk.rows \subseteq 1..Len(attempts')
      /\ walk.unread \subseteq Tickets
      /\ walk = [kind |-> walk.kind, rows |-> walk.rows, unread |-> walk.unread]
  BY <1>1, <1>2 DEF TypeOK
<1>5. \A S : NewestHandoffs(S) \subseteq 1..Len(attempts')
  BY <1>1, <1>2 DEF NewestHandoffs
<1>6. \A k \in Walks, R \in SUBSET (1..Len(attempts')), U \in SUBSET Tickets :
        [kind |-> k, rows |-> R, unread |-> U] \in walks
  OBVIOUS
<1>7. walk \in walks /\ NoWalk \in walks
  BY <1>4, <1>6 DEF NoWalk, Walks
<1>8. \A h : Passed(h) => walk' \in walks
  BY <1>4, <1>6 DEF Passed
<1>9. ASSUME NEW h \in walk.rows, Handled(h) PROVE walk' \in walks
  <2>1. Row(h) \in Tickets
    BY Rows DEF TypeOK, Row, Attempt
  <2>2. walk' = [kind |-> walk.kind, rows |-> walk.rows \ {h},
                 unread |-> walk.unread \cup {Row(h)}]
    BY <1>4, <1>9 DEF Handled
  <2>3. walk.rows \ {h} \subseteq 1..Len(attempts') /\ walk.unread \cup {Row(h)} \subseteq Tickets
    BY <1>4, <2>1
  <2> QED
    BY <1>4, <1>6, <2>2, <2>3
<1>10. ScreenRead => walk' \in walks
  BY <1>4, <1>6 DEF ScreenRead
<1>11. ASSUME NEW k \in Walks, NEW S, Begin(k, S) PROVE walk' \in walks
  <2>1. walk' = [kind |-> k, rows |-> NewestHandoffs(InState(S)), unread |-> walk.unread]
    BY <1>4, <1>11 DEF Begin
  <2> QED
    BY <1>4, <1>5, <1>6, <2>1
<1>12. ASSUME NEW k \in Walks, NEW U \in SUBSET Tickets,
              walk' = [walk EXCEPT !.kind = k, !.unread = @ \cup U]
       PROVE  walk' \in walks
  <2>1. walk' = [kind |-> k, rows |-> walk.rows, unread |-> walk.unread \cup U]
    BY <1>4, <1>12
  <2> QED
    BY <1>4, <1>6, <2>1
<1>13. \A t \in Tickets : walk' = [walk EXCEPT !.unread = @ \cup {t}] => walk' \in walks
  BY <1>4, <1>6
<1>14. "in-flight" \in Walks /\ "resumed" \in Walks /\ "awaiting" \in Walks
  BY DEF Walks
<1> HIDE DEF seats, walks
<1>15. CASE Dispatch
  BY <1>3, <1>7, <1>10, <1>15
     DEF Dispatch, Claim, TakeSeat, DropMovedOn, CancelParked, StartLands, StartFails,
         RouteAsk, seats, walks
<1>16. CASE Observation
  <2>1. seat' = seat
    BY <1>16
       DEF Observation, BeginInFlightWalk, BeginAwaitingWalk, EndWalks, MarkRunning, LeaveRow,
           AutoClose, ObserveSettle, ObserveAbandon, ResumeAwaitingTurns, Reclaim
  <2> SUFFICES walk' \in walks
    BY <1>3, <2>1 DEF seats, walks
  <2>2. CASE BeginInFlightWalk
    BY <1>11, <1>14, <2>2 DEF BeginInFlightWalk
  <2>3. CASE BeginAwaitingWalk
    BY <1>11, <1>14, <2>3 DEF BeginAwaitingWalk
  <2>4. CASE EndWalks
    BY <1>7, <2>4 DEF EndWalks
  <2>5. ASSUME NEW h \in walk.rows, MarkRunning(h) \/ LeaveRow(h) \/ AutoClose(h)
        PROVE  walk' \in walks
    BY <1>8, <1>9, <2>5 DEF MarkRunning, LeaveRow, AutoClose
  <2>6. ASSUME NEW h \in walk.rows, NEW cause \in Causes, NEW at \in Stamps,
               ObserveSettle(h, cause, at) \/ ObserveAbandon(h, at)
        PROVE  walk' \in walks
    BY <1>9, <2>6 DEF ObserveSettle, ObserveAbandon
  <2>7. \E cause : cause \in Causes
    BY DEF Causes
  <2>8. ASSUME NEW W \in SUBSET Tickets, ResumeAwaitingTurns(W) PROVE walk' \in walks
    BY <1>12, <1>14, <2>8 DEF ResumeAwaitingTurns
  <2>9. ASSUME NEW t \in Tickets, Reclaim(t) PROVE walk' \in walks
    BY <1>13, <2>9 DEF Reclaim
  <2> QED
    BY <1>16, <2>2, <2>3, <2>4, <2>5, <2>6, <2>7, <2>8, <2>9 DEF Observation
<1>17. CASE Operator
  BY <1>3, <1>7, <1>10, <1>17
     DEF Operator, OperatorClose, OperatorAbandon, CloseWorkCycle, RereadSources, seats, walks
<1>18. CASE Restart
  BY <1>3, <1>7, <1>18 DEF Restart, seats, walks
<1>19. CASE UNCHANGED vars
  BY <1>3, <1>7, <1>19 DEF vars, seats, walks
<1> QED
  BY <1>15, <1>16, <1>17, <1>18, <1>19 DEF Next

(* A start that lands, or a reclaim, leaves its ticket in flight, and no other step *)
(* makes an attempt a started one.                                                  *)
LEMMA NewStarts ==
    ASSUME TypeOK, [Next]_vars, NEW b \in DOMAIN attempts',
           attempts'[b].stage \in {"agent-started", "reclaimed"}
    PROVE  \/ b \in DOMAIN attempts /\ IsHandoff(b)
           \/ attempts'[b].ticket \in Tickets /\ state'[attempts'[b].ticket] # "open"
<1> DEFINE Goal ==
             \/ b \in DOMAIN attempts /\ IsHandoff(b)
             \/ attempts'[b].ticket \in Tickets /\ state'[attempts'[b].ticket] # "open"
<1>1. CASE UNCHANGED attempts
  BY <1>1 DEF IsHandoff
<1>2. ASSUME NEW t \in Tickets, NEW o \in Origins, Claim(t, o) PROVE Goal
  <2> DEFINE e == [ticket |-> t, cycle |-> cycle[t], origin |-> o,
                   claimedState |-> state[t], stage |-> "claimed"]
  <2>1. e \in Attempt /\ e.stage = "claimed" /\ attempts' = Append(attempts, e)
    BY <1>2 DEF TypeOK, Attempt, Stages, Claim
  <2> HIDE DEF e
  <2> QED
    BY <2>1, AppendAttemptWrites DEF IsHandoff
<1>3. ASSUME NEW a \in DOMAIN attempts, Resolve(a, "failed") PROVE Goal
  <2>1. /\ b \in DOMAIN attempts
        /\ attempts'[b] = IF b = a THEN [attempts[b] EXCEPT !.stage = "failed"]
                                   ELSE attempts[b]
    BY <1>3, ResolveWrites DEF Stages
  <2>2. attempts[b] \in Attempt
    BY <2>1, Rows
  <2> QED
    BY <2>1, <2>2 DEF IsHandoff, Attempt
<1>4. ASSUME NEW a \in DOMAIN attempts, StartLands(a) PROVE Goal
  <2>0. /\ b \in DOMAIN attempts
        /\ attempts'[b] = IF b = a THEN [attempts[b] EXCEPT !.stage = "agent-started"]
                                   ELSE attempts[b]
    BY <1>4, ResolveWrites DEF Stages, StartLands
  <2>1. /\ b \in DOMAIN attempts /\ attempts'[b].ticket = attempts[b].ticket
        /\ b # a => attempts'[b] = attempts[b]
    BY <2>0, Rows DEF Attempt
  <2>2. CASE b = a
    <3>1. attempts[a].ticket \in Tickets
      BY Rows DEF Attempt
    <3>2. state'[attempts[a].ticket] # "open"
      <4> DEFINE t == attempts[a].ticket
      <4>1. MoveTo(t, {"open", "awaiting"}, "handed-off") /\ "handed-off" \in States
        BY <1>4 DEF StartLands, States
      <4> HIDE DEF t
      <4>2. t \in Tickets
        BY <3>1 DEF t
      <4>3. state'[t] = IF state[t] \in {"open", "awaiting"} THEN "handed-off" ELSE state[t]
        BY <4>1, <4>2, MoveToWrites
      <4>4. state'[t] # "open"
        BY <4>3
      <4> QED
        BY <4>4 DEF t
    <3> QED
      BY <2>1, <2>2, <3>1, <3>2
  <2> QED
    BY <2>1, <2>2 DEF IsHandoff
<1>5. ASSUME NEW t \in Tickets, Reclaim(t) PROVE Goal
  <2> DEFINE e == [ticket |-> t, cycle |-> cycle[t], origin |-> "open",
                   claimedState |-> "open", stage |-> "reclaimed"]
  <2>1. e \in Attempt /\ e.ticket = t /\ attempts' = Append(attempts, e)
    BY <1>5 DEF TypeOK, Attempt, Stages, States, Origins, Reclaim
  <2>2. state'[t] = "running"
    BY <1>5, MoveToWrites DEF Reclaim, States
  <2> HIDE DEF e
  <2> QED
    BY <2>1, <2>2, AppendAttemptWrites DEF IsHandoff
<1>6. CASE Restart
  <2>1. b \in DOMAIN attempts /\ attempts'[b] = IF Unresolved(b)
          THEN [attempts[b] EXCEPT !.stage = "failed"] ELSE attempts[b]
    BY <1>6, RestartWrites DEF Restart
  <2> QED
    BY <2>1, Rows DEF Attempt, IsHandoff
<1>7. \/ UNCHANGED attempts
      \/ \E t \in Tickets, o \in Origins : Claim(t, o)
      \/ \E a \in DOMAIN attempts : Resolve(a, "failed") \/ StartLands(a)
      \/ \E t \in Tickets : Reclaim(t)
      \/ Restart
  BY DEF Next, Dispatch, Observation, Operator, vars, TakeSeat, DropMovedOn, CancelParked,
         StartFails, RouteAsk, BeginInFlightWalk, BeginAwaitingWalk, EndWalks, MarkRunning,
         LeaveRow, AutoClose, ObserveSettle, ObserveAbandon, ResumeAwaitingTurns,
         OperatorClose, CloseWorkCycle, RereadSources, OperatorAbandon
<1> QED
  BY <1>1, <1>2, <1>3, <1>4, <1>5, <1>6, <1>7

(* A ticket comes to rest open by the end of a cycle alone. *)
LEMMA StartedStep ==
    ASSUME IInv, [Next]_vars, AttemptStep, TicketStep, TypeOK'
    PROVE  /\ StartsEnded'
           /\ \A h \in DOMAIN attempts : IsHandoff(h) => IsHandoff(h)'
<1>1. \A h \in DOMAIN attempts :
        IsHandoff(h) => attempts'[h] = attempts[h] /\ h \in DOMAIN attempts'
  BY DEF AttemptStep, IsHandoff, Unresolved
<1>2. ASSUME NEW a \in DOMAIN attempts', attempts'[a].stage \in {"agent-started", "reclaimed"},
             state'[attempts'[a].ticket] = "open"
      PROVE  cycle'[attempts'[a].ticket] > 1
  <2> DEFINE t == attempts'[a].ticket
  <2>1. a \in DOMAIN attempts /\ IsHandoff(a)
    BY <1>2, NewStarts DEF IInv
  <2>2. attempts[a].ticket = t /\ t \in Tickets
    BY <1>1, <2>1, Rows DEF IInv, Attempt
  <2> HIDE DEF t
  <2>3. state[t] = "open" => cycle[t] > 1
    BY <2>1, <2>2 DEF IInv, StartsEnded
  <2>4. \/ Line!Rests(t) \/ Line!Moved(t) \/ Line!Ended(t)
        \/ Line!Reclaimed(t) \/ Line!EndedOpen(t)
    BY <2>2 DEF TicketStep
  <2>5. cycle[t] \in Nat \ {0} /\ state'[t] = "open"
    BY <1>2, <2>2 DEF t, IInv, TypeOK
  <2>6. cycle'[t] > 1
    BY <2>3, <2>4, <2>5
       DEF Line!Rests, Line!Moved, Line!Ended, Line!Reclaimed, Line!EndedOpen
  <2> QED
    BY <2>6 DEF t
<1> QED
  BY <1>1, <1>2 DEF StartsEnded, IsHandoff

(* The walk drops rows, or reads the newest handoffs anew. *)
LEMMA WalkStep ==
    ASSUME TypeOK, [Next]_vars
    PROVE  \/ walk'.rows \subseteq walk.rows
           \/ \A h \in walk'.rows : h \in DOMAIN attempts /\ IsHandoff(h)
<1>1. walk = [kind |-> walk.kind, rows |-> walk.rows, unread |-> walk.unread]
  BY DEF TypeOK
<1>2. \A k, S : Begin(k, S) => \A h \in walk'.rows : h \in DOMAIN attempts /\ IsHandoff(h)
  BY <1>1 DEF Begin, NewestHandoffs, IsNewestHandoff
<1>3. \A h : Passed(h) \/ Handled(h) => walk'.rows \subseteq walk.rows
  BY <1>1 DEF Passed, Handled
<1>4. ScreenRead => walk'.rows = walk.rows
  BY <1>1 DEF ScreenRead
<1>5. walk' = NoWalk => walk'.rows = {}
  BY DEF NoWalk
<1>6. ASSUME NEW W,
             \/ walk' = [walk EXCEPT !.kind = "resumed", !.unread = @ \cup W]
             \/ walk' = [walk EXCEPT !.unread = @ \cup W]
      PROVE  walk'.rows = walk.rows
  BY <1>1, <1>6
<1>7. CASE Dispatch
  BY <1>4, <1>7 DEF Dispatch, Claim, TakeSeat, DropMovedOn, CancelParked, StartLands,
                    StartFails, RouteAsk
<1>8. CASE Observation
  BY <1>2, <1>3, <1>5, <1>6, <1>8
     DEF Observation, BeginInFlightWalk, BeginAwaitingWalk, EndWalks, MarkRunning, LeaveRow,
         AutoClose, ObserveSettle, ObserveAbandon, ResumeAwaitingTurns, Reclaim
<1>9. CASE Operator
  BY <1>4, <1>9 DEF Operator, OperatorClose, OperatorAbandon, CloseWorkCycle, RereadSources
<1>10. CASE Restart
  BY <1>5, <1>10 DEF Restart
<1>11. CASE UNCHANGED vars
  BY <1>11 DEF vars
<1> QED
  BY <1>7, <1>8, <1>9, <1>10, <1>11 DEF Next

LEMMA Inductive ==
    ASSUME IInv, [Next]_vars
    PROVE  IInv'
<1>1. AttemptStep /\ TraceStep /\ TicketStep
  BY EveryStep DEF Step
<1>2. TypeOK'
  BY <1>1, MemoryStep DEF IInv, TypeOK, AttemptStep, TraceStep, TicketStep
<1>3. \A t \in Tickets : cycle'[t] \in {cycle[t], cycle[t] + 1}
  BY <1>1 DEF TicketStep, Line!Rests, Line!Moved, Line!Ended, Line!Reclaimed, Line!EndedOpen
<1>4. \A t \in Tickets : cycle[t] \in Nat /\ cycle'[t] \in Nat
  BY <1>2 DEF IInv, TypeOK
<1>5. /\ \A a \in DOMAIN attempts : attempts[a].ticket \in Tickets /\ attempts[a].cycle \in Nat
      /\ \A i \in DOMAIN traces : traces[i].ticket \in Tickets /\ traces[i].cycle \in Nat
  BY Rows DEF IInv, Attempt, Trace
<1>6. /\ \A a \in DOMAIN attempts' :
           attempts'[a] \in Attempt /\ attempts'[a].ticket \in Tickets
      /\ \A i \in DOMAIN traces' : traces'[i] \in Trace /\ traces'[i].ticket \in Tickets
  <2>1. attempts' \in Seq(Attempt) /\ traces' \in Seq(Trace)
    BY <1>2 DEF TypeOK
  <2>2. /\ \A a \in DOMAIN attempts' : attempts'[a] \in Attempt
        /\ \A i \in DOMAIN traces' : traces'[i] \in Trace
    BY <2>1
  <2> QED
    BY <2>2 DEF Attempt, Trace
<1>7. RowsRefer'
  <2>1. ASSUME NEW a \in DOMAIN attempts'
        PROVE  attempts'[a].cycle <= cycle'[attempts'[a].ticket]
    BY <1>1, <1>3, <1>4, <1>5, <1>6, <2>1 DEF AttemptStep, IInv, RowsRefer
  <2>2. ASSUME NEW i \in DOMAIN traces'
        PROVE  /\ traces'[i].handoff \in DOMAIN attempts'
               /\ traces'[i].ticket = attempts'[traces'[i].handoff].ticket
               /\ traces'[i].cycle <= cycle'[traces'[i].ticket]
    <3>1. CASE i \in DOMAIN traces
      <4>1. /\ traces'[i].handoff = traces[i].handoff
            /\ traces'[i].ticket = traces[i].ticket
            /\ traces'[i].cycle = traces[i].cycle
        BY <1>1, <3>1 DEF TraceStep
      <4>2. /\ traces[i].handoff \in DOMAIN attempts
            /\ traces[i].ticket = attempts[traces[i].handoff].ticket
            /\ traces[i].cycle <= cycle[traces[i].ticket]
        BY <3>1 DEF IInv, RowsRefer
      <4>3. /\ traces[i].handoff \in DOMAIN attempts'
            /\ attempts'[traces[i].handoff].ticket = attempts[traces[i].handoff].ticket
        BY <1>1, <4>2 DEF AttemptStep
      <4> QED
        BY <1>3, <1>4, <1>5, <3>1, <4>1, <4>2, <4>3
    <3>2. CASE i \notin DOMAIN traces
      <4>1. /\ traces'[i].handoff \in DOMAIN attempts
            /\ traces'[i].ticket = attempts[traces'[i].handoff].ticket
            /\ traces'[i].cycle = attempts[traces'[i].handoff].cycle
        BY <1>1, <3>2 DEF TraceStep
      <4>2. /\ attempts[traces'[i].handoff].cycle <= cycle[traces'[i].ticket]
            /\ attempts[traces'[i].handoff].cycle \in Nat
        BY <1>5, <4>1 DEF IInv, RowsRefer
      <4>3. attempts'[traces'[i].handoff].ticket = attempts[traces'[i].handoff].ticket
        BY <1>1, <4>1 DEF AttemptStep
      <4> QED
        BY <1>1, <1>3, <1>4, <1>6, <4>1, <4>2, <4>3 DEF AttemptStep
    <3> QED
      BY <3>1, <3>2
  <2> QED
    BY <2>1, <2>2 DEF RowsRefer
<1>8. OneUnresolvedAttempt'
  <2> SUFFICES ASSUME NEW a \in DOMAIN attempts', NEW b \in DOMAIN attempts',
                      attempts'[a].stage = "claimed", attempts'[b].stage = "claimed",
                      attempts'[a].ticket = attempts'[b].ticket
               PROVE  a = b
    BY DEF OneUnresolvedAttempt, Unresolved
  <2>1. CASE a \in DOMAIN attempts /\ b \in DOMAIN attempts
    BY <1>1, <2>1 DEF AttemptStep, IInv, OneUnresolvedAttempt
  <2>2. CASE a \notin DOMAIN attempts /\ b \notin DOMAIN attempts
    BY <1>1, <2>2 DEF AttemptStep
  <2>3. CASE a \in DOMAIN attempts /\ b \notin DOMAIN attempts
    BY <1>1, <2>3 DEF AttemptStep, HasUnresolvedAttempt
  <2>4. CASE a \notin DOMAIN attempts /\ b \in DOMAIN attempts
    BY <1>1, <2>4 DEF AttemptStep, HasUnresolvedAttempt
  <2> QED
    BY <2>1, <2>2, <2>3, <2>4
<1>9. OneUndecidedTrace'
  BY <1>1 DEF TraceStep
<1>10. CycleEndIsPast'
  <2> SUFFICES ASSUME NEW i \in DOMAIN traces', traces'[i].decision \in CycleEnds
               PROVE  traces'[i].cycle < cycle'[traces'[i].ticket]
    BY DEF CycleEndIsPast
  <2>1. CASE i \in DOMAIN traces /\ ~Undecided(i)
    BY <1>1, <1>3, <1>4, <1>5, <2>1 DEF TraceStep, IInv, CycleEndIsPast
  <2>2. CASE i \in DOMAIN traces /\ Undecided(i)
    BY <1>1, <1>4, <1>5, <2>2 DEF TraceStep, IInv, RowsRefer
  <2>3. CASE i \notin DOMAIN traces
    <3>1. /\ traces'[i].handoff \in DOMAIN attempts
          /\ traces'[i].ticket = attempts[traces'[i].handoff].ticket
          /\ traces'[i].cycle = attempts[traces'[i].handoff].cycle
          /\ cycle'[traces'[i].ticket] = cycle[traces'[i].ticket] + 1
      BY <1>1, <2>3 DEF TraceStep
    <3>2. attempts[traces'[i].handoff].cycle <= cycle[traces'[i].ticket]
      BY <3>1 DEF IInv, RowsRefer
    <3> QED
      BY <1>4, <1>5, <1>6, <3>1, <3>2
  <2> QED
    BY <2>1, <2>2, <2>3
<1>11. StartsEnded'
  BY <1>1, <1>2, StartedStep DEF IInv
<1>12. WalksStarts'
  <2>1. \A h \in walk'.rows : h \in DOMAIN attempts /\ IsHandoff(h)
    BY WalkStep, Rows DEF IInv, TypeOK, WalksStarts
  <2>2. \A h \in walk'.rows : IsHandoff(h)'
    BY <1>1, <1>2, <2>1, StartedStep DEF IInv
  <2> QED
    BY <2>2 DEF WalksStarts
<1> QED
  BY <1>2, <1>7, <1>8, <1>9, <1>10, <1>11, <1>12 DEF IInv

LEMMA Initial ==
    ASSUME Init
    PROVE  IInv
<1>1. attempts = <<>> /\ traces = <<>> /\ DOMAIN attempts = {} /\ DOMAIN traces = {}
  BY DEF Init
<1>2. TypeOK
  BY <1>1 DEF Init, TypeOK, States, Walks, NoWalk
<1>3. StartsEnded /\ WalksStarts
  BY <1>1 DEF Init, NoWalk, StartsEnded, WalksStarts
<1> QED
  BY <1>1, <1>2, <1>3
     DEF IInv, RowsRefer, OneUnresolvedAttempt, OneUndecidedTrace, CycleEndIsPast

(* The inductive invariant holds of every behaviour: the rows of the three tables *)
(* refer to each other as the writers of state/ticket-work-cycle.ts assume.       *)
THEOREM Invariant == Spec => []IInv
<1> QED
  BY Initial, Inductive, PTL DEF Spec

(* Every row, the seat and the loop's snapshot keep their types for any number of *)
(* tickets, attempts and traces: no actor writes a row of another shape.          *)
THEOREM TypeCorrect == Spec => []TypeOK
<1>1. IInv => TypeOK
  BY DEF IInv
<1> QED
  BY <1>1, Invariant, PTL

(* A ticket has at most one start under way: the claim and the reclaim both look *)
(* for an attempt that did not end, and every other write only ends one.         *)
THEOREM AtMostOneStart == Spec => []OneUnresolvedAttempt
<1>1. IInv => OneUnresolvedAttempt
  BY DEF IInv
<1> QED
  BY <1>1, Invariant, PTL

(* A ticket has at most one undecided trace, whatever clock stamps the settles: a *)
(* settle supersedes all but the newest, and a decision leaves none.              *)
THEOREM AtMostOneUndecided == Spec => []OneUndecidedTrace
<1>1. IInv => OneUndecidedTrace
  BY DEF IInv
<1> QED
  BY <1>1, Invariant, PTL

(* A trace that ended a cycle lies behind the ticket's cycle: the row of a handoff *)
(* never runs ahead of its ticket, and the decision moves the number on.           *)
THEOREM EndsLieBehind == Spec => []CycleEndIsPast
<1>1. IInv => CycleEndIsPast
  BY DEF IInv
<1> QED
  BY <1>1, Invariant, PTL

(* A decision that landed is never rewritten, nor the cause it was taken on. *)
THEOREM DecisionsStand == Spec => DecidedTraceStands
<1>1. ASSUME IInv, [Next]_vars
      PROVE  [\A i \in DOMAIN traces :
                 ~Undecided(i) => /\ traces'[i].decision = traces[i].decision
                                  /\ traces'[i].cause = traces[i].cause]_vars
  BY <1>1, EveryStep DEF Step, TraceStep
<1> QED
  BY <1>1, Invariant, PTL DEF Spec, DecidedTraceStands

(* An attempt that ended keeps its row through every later step, a boot included. *)
THEOREM AttemptsSettleOnce == Spec => AttemptSettlesOnce
<1>1. ASSUME IInv, [Next]_vars
      PROVE  [\A a \in DOMAIN attempts : ~Unresolved(a) => attempts'[a] = attempts[a]]_vars
  BY <1>1, EveryStep DEF Step, AttemptStep
<1> QED
  BY <1>1, Invariant, PTL DEF Spec, AttemptSettlesOnce

(* The tables implement the ticket's line: every initial state is one of the line, *)
(* and every step of every actor is for each ticket a move of the domain's table,  *)
(* a reclaim or the end of the cycle of one at rest, or leaves it alone.           *)
THEOREM TablesImplementLine == Spec => ImplementsLine
<1>1. Init => Line!Init
  BY DEF Init, Line!Init
<1>2. ASSUME IInv, [Next]_vars
      PROVE  [Line!Next]_(Line!lineVars)
  <2>1. TicketStep
    BY <1>2, EveryStep DEF Step
  <2>2. DOMAIN state' = Tickets /\ DOMAIN cycle' = Tickets
    BY <2>1 DEF TicketStep
  <2> QED
    BY <2>1, <2>2 DEF TicketStep, Line!Next
<1> QED
  BY <1>1, <1>2, Invariant, PTL DEF Spec, ImplementsLine, Line!Spec
================================================================================
