---------------------------- MODULE ConsultationProofs ----------------------------
(***************************************************************************)
(* Theorems of ConsultationScreen, and of the Consultations under it, for  *)
(* any Consultations, repositories and bounds: the types, the record that  *)
(* agrees with its turns and its row, the close that tells the truth, and  *)
(* the acts that only their own panel takes.                               *)
(*                                                                         *)
(* RecordAgrees is not inductive: the walk writes to a record it read      *)
(* long ago, so it needs that such a record is past its start (WalkIsPast) *)
(* and that every state before the answer has one turn under way (Fits).   *)
(* ClosedHolds needs that a cleanup nobody forced works on a record that   *)
(* closes or went missing (LiveCloses), and that only the job at the head  *)
(* of a queue has begun (TailWaits).  ActsAreConfirmed needs that nothing  *)
(* leads from a record without an agent back to a live one (ShownIsDone).  *)
(*                                                                         *)
(* Every step but Close, ForceClose and Delete is Unasked, and all but     *)
(* the few that ask, start or end only drift a record (Drifts).            *)
(***************************************************************************)
EXTENDS ConsultationScreen, SequenceTheorems, TLAPS

(* What an opened record never leaves, and what one that no agent holds never leaves. *)
Done == {"missing", "failed", "closing", "closed", "deleted"}
Past == Observed \cup Done

(* A record's turns under way, by its state. *)
Fits(r) ==
    /\ r.state \in {"queued", "unscheduled", "opening", "working"} => Len(r.turns) = 1
    /\ r.state = "awaiting-response" => r.turns = <<>>

(* The writes that neither ask, start, close nor delete. *)
Drifts(r, s) ==
    \/ s.state = r.state
    \/ r.state \in Observed /\ s.state \in {"working", "awaiting-response", "failed"}
    \/ r.state \in Past \ {"failed", "deleted"} /\ s.state = "missing"

Writes(r, s) == s \in Record /\ Fits(s) /\ Drifts(r, s)

--------------------------------------------------------------------------------
(* The writes of the record. *)

LEMMA FailOpeningIs ==
    ASSUME NEW r \in Record, Fits(r)
    PROVE  Writes(r, FailOpening(r))
  BY DEF FailOpening, Record, States, Fits, Writes, Drifts, Observed, Past, Done

LEMMA SetAgentIs ==
    ASSUME NEW r \in Record, Fits(r)
    PROVE  Writes(r, SetAgent(r))
  BY DEF SetAgent, Record, States, Fits, Writes, Drifts, Observed, Past, Done

LEMMA RecordHandlesIs ==
    ASSUME NEW r \in Record, Fits(r)
    PROVE  Writes(r, RecordHandles(r))
  BY DEF RecordHandles, Record, States, Fits, Writes, Drifts, Observed, Past, Done

LEMMA SetMissingIs ==
    ASSUME NEW r \in Record, Fits(r), r.state \in Past
    PROVE  Writes(r, SetMissing(r))
  BY DEF SetMissing, Record, States, Fits, Writes, Drifts, Observed, Past, Done

LEMMA BeginResponseIs ==
    ASSUME NEW r \in Record, Fits(r)
    PROVE  Writes(r, BeginResponse(r))
  BY DEF BeginResponse, Record, States, Fits, Writes, Drifts

LEMMA CancelResponseIs ==
    ASSUME NEW r \in Record, Fits(r)
    PROVE  Writes(r, CancelResponse(r))
  BY DEF CancelResponse, Record, States, Fits, Writes, Drifts

(* The turn under way after an input that was sent while the agent waited. *)
LEMMA OneTurn ==
    ASSUME NEW b \in Sequence
    PROVE  Append(<<>>, b) \in Seq(Sequence) /\ Len(Append(<<>>, b)) = 1
  BY AppendProperties, EmptySeq

LEMMA ExternalTurnIs ==
    ASSUME NEW r \in Record, Fits(r), NEW n \in Sequence
    PROVE  Writes(r, ExternalTurn(r, n))
  <1> DEFINE b == IF r.pending = {} THEN r.latest ELSE CHOOSE x \in r.pending : TRUE
  <1>1. CASE r.state = "awaiting-response" /\ n > r.latest
    <2>1. b \in Sequence
      BY DEF Record
    <2>2. Append(r.turns, b) \in Seq(Sequence) /\ Len(Append(r.turns, b)) = 1
      BY <1>1, <2>1, OneTurn DEF Fits
    <2>3. ExternalTurn(r, n) = [r EXCEPT !.state = "working", !.latest = n, !.pending = {},
                                         !.turns = Append(r.turns, b)]
      BY <1>1 DEF ExternalTurn
    <2> HIDE DEF b
    <2>4. QED
      BY <1>1, <2>2, <2>3 DEF Record, States, Fits, Writes, Drifts, Observed
  <1>2. CASE ~(r.state = "awaiting-response" /\ n > r.latest)
    BY <1>2 DEF ExternalTurn, Writes, Drifts
  <1>3. QED
    BY <1>1, <1>2

LEMMA AcceptResponseIs ==
    ASSUME NEW r \in Record, Fits(r)
    PROVE  Writes(r, AcceptResponse(r))
  <1> DEFINE b == CHOOSE x \in r.pending : TRUE
  <1>1. CASE r.state = "awaiting-response" /\ r.pending # {}
    <2>1. b \in Sequence
      BY <1>1 DEF Record
    <2>2. Append(r.turns, b) \in Seq(Sequence) /\ Len(Append(r.turns, b)) = 1
      BY <1>1, <2>1, OneTurn DEF Fits
    <2>3. AcceptResponse(r) = [r EXCEPT !.state = "working", !.pending = {},
                                        !.turns = Append(r.turns, b)]
      BY <1>1 DEF AcceptResponse
    <2> HIDE DEF b
    <2>4. QED
      BY <1>1, <2>2, <2>3 DEF Record, States, Fits, Writes, Drifts, Observed
  <1>2. CASE ~(r.state = "awaiting-response" /\ r.pending # {})
    BY <1>2 DEF AcceptResponse, Writes, Drifts
  <1>3. QED
    BY <1>1, <1>2

(* The walk settles a record that works: its one turn ends. *)
LEMMA SettleTurnIs ==
    ASSUME NEW r \in Record, Fits(r), NEW n \in Sequence, r.state = "working"
    PROVE  Writes(r, SettleTurn(r, n))
  <1>1. Len(r.turns) = 1
    BY DEF Fits
  <1>2. SubSeq(r.turns, 1, Len(r.turns) - 1) = <<>>
    BY <1>1, SubSeqEmpty DEF Record
  <1>3. <<>> \in Seq(Sequence)
    BY EmptySeq
  <1>4. \/ SettleTurn(r, n) = r
        \/ SettleTurn(r, n) = [r EXCEPT !.state = "awaiting-response", !.latest = n,
                                        !.turns = <<>>]
    BY <1>2 DEF SettleTurn
  <1>5. QED
    BY <1>3, <1>4 DEF Record, States, Fits, Writes, Drifts, Observed

LEMMA FinishCloseIs ==
    ASSUME NEW r \in Record, Fits(r), NEW forced \in BOOLEAN
    PROVE  /\ FinishClose(r, forced) \in Record /\ Fits(FinishClose(r, forced))
           /\ FinishClose(r, forced).state = IF r.state = "closing" THEN "closed" ELSE r.state
           /\ FinishClose(r, forced).pane = r.pane
           /\ forced /\ r.pane = "owned" => FinishClose(r, forced).remaining
  BY DEF FinishClose, Owns, Record, States, Fits

LEMMA ConfirmedIs ==
    ASSUME NEW r \in Record, Fits(r)
    PROVE  Confirmed(r) \in Record /\ Fits(Confirmed(r)) /\ Confirmed(r).state = r.state
  BY DEF Confirmed, Record, Resource, Fits

--------------------------------------------------------------------------------
(* The queues: only the job at the head has begun. *)

TailWaits == \A r \in Repositories : \A i \in 2..Len(jobs[r]) : jobs[r][i].step = "waiting"
Queues == jobs \in [Repositories -> Seq(Job)] /\ TailWaits

(* A close at the head goes from its last look to its command, an opening begins. *)
TakesOff(d) ==
    \/ AtHead(d, "close", "reading") /\ AtHead(d, "close", "commanding")'
    \/ AtHead(d, "open", "waiting") /\ AtHead(d, "open", "building")'

(* None of either, but the excepted. *)
NoCommandBut(D) == \A d \in Ids \ D : ~TakesOff(d)

LEMMA SerializeKeeps ==
    ASSUME Queues, NEW c \in Ids, NEW kind \in {"open", "verify", "respond", "close"},
           NEW opened \in BOOLEAN, Serialize(c, NewJob(kind, c, opened))
    PROVE  Queues' /\ NoCommandBut({})
  <1> DEFINE R == RepositoryOf[c]
             q == jobs[R]
             job == NewJob(kind, c, opened)
  <1>1. R \in Repositories
    BY HomeAssumption DEF HomeAssumption
  <1>2. job \in Job /\ job.step = "waiting"
    BY DEF NewJob, Job, Steps
  <1>3. q \in Seq(Job)
    BY <1>1 DEF Queues
  <1>4. jobs' = [jobs EXCEPT ![R] = Append(q, job)]
    BY DEF Serialize
  <1> HIDE DEF job, R
  <1>5. /\ Append(q, job) \in Seq(Job)
        /\ Len(Append(q, job)) = Len(q) + 1
        /\ \A i \in 1..Len(q) : Append(q, job)[i] = q[i]
        /\ Append(q, job)[Len(q) + 1] = job
    BY <1>2, <1>3, AppendProperties
  <1>6. Len(q) \in Nat
    BY <1>3, LenProperties
  <1>7. jobs' \in [Repositories -> Seq(Job)]
    BY <1>4, <1>5 DEF Queues
  <1>8. ASSUME NEW r \in Repositories, NEW i \in 2..Len(jobs'[r])
        PROVE  jobs'[r][i].step = "waiting"
    <2>1. CASE r = R
      <3>1. jobs'[r] = Append(q, job)
        BY <2>1, <1>1, <1>4 DEF Queues
      <3>2. i \in 2..Len(q) \/ i = Len(q) + 1
        BY <3>1, <1>5, <1>6
      <3>3. i \in 2..Len(q) => jobs'[r][i] = q[i]
        BY <3>1, <1>5, <1>6
      <3>4. QED
        BY <1>1, <1>2, <1>5, <3>1, <3>2, <3>3 DEF Queues, TailWaits
    <2>2. CASE r # R
      BY <2>2, <1>1, <1>4 DEF Queues, TailWaits
    <2>3. QED
      BY <2>1, <2>2
  <1>9. ASSUME NEW d \in Ids, TakesOff(d)
        PROVE  FALSE
    <2> DEFINE S == RepositoryOf[d]
    <2>1. S \in Repositories
      BY HomeAssumption DEF HomeAssumption
    <2>2. jobs[S] # <<>> /\ jobs'[S][1].step # jobs[S][1].step
      BY <1>9 DEF AtHead, TakesOff
    <2>3. jobs[S] \in Seq(Job)
      BY <2>1 DEF Queues
    <2>4. 1 \in 1..Len(jobs[S])
      BY <2>2, <2>3, EmptySeq, LenProperties
    <2>5. jobs'[S][1] = jobs[S][1]
      BY <2>1, <2>4, <1>1, <1>4, <1>5 DEF Queues
    <2>6. QED
      BY <2>2, <2>5
  <1>10. QED
    BY <1>7, <1>8, <1>9 DEF Queues, TailWaits, NoCommandBut

LEMMA HeadEndsKeeps ==
    ASSUME Queues, NEW c \in Ids, jobs[RepositoryOf[c]] # <<>>, HeadEnds(c)
    PROVE  Queues' /\ NoCommandBut({})
  <1> DEFINE R == RepositoryOf[c]
             q == jobs[R]
  <1>1. R \in Repositories
    BY HomeAssumption DEF HomeAssumption
  <1>2. q \in Seq(Job)
    BY <1>1 DEF Queues
  <1>3. jobs' = [jobs EXCEPT ![R] = Tail(q)]
    BY DEF HeadEnds
  <1>4. /\ Tail(q) \in Seq(Job) /\ Len(Tail(q)) = Len(q) - 1
        /\ \A i \in 1..Len(Tail(q)) : Tail(q)[i] = q[i + 1]
    BY <1>2, HeadTailProperties
  <1>5. Len(q) \in Nat
    BY <1>2, LenProperties
  <1> HIDE DEF R
  <1>6. jobs'[R] = Tail(q) /\ \A r \in Repositories \ {R} : jobs'[r] = jobs[r]
    BY <1>1, <1>3 DEF Queues
  <1>7. jobs' \in [Repositories -> Seq(Job)]
    BY <1>3, <1>4 DEF Queues
  <1>8. \A i \in 1..Len(Tail(q)) : Tail(q)[i].step = "waiting"
    <2> SUFFICES ASSUME NEW i \in 1..Len(Tail(q)) PROVE Tail(q)[i].step = "waiting"
      OBVIOUS
    <2>1. i + 1 \in 2..Len(q)
      BY <1>4, <1>5
    <2>2. QED
      BY <2>1, <1>1, <1>4 DEF Queues, TailWaits
  <1>9. TailWaits'
    <2> SUFFICES ASSUME NEW r \in Repositories, NEW i \in 2..Len(jobs'[r])
        PROVE  jobs'[r][i].step = "waiting"
      BY DEF TailWaits
    <2>1. CASE r = R
      BY <2>1, <1>4, <1>5, <1>6, <1>8
    <2>2. CASE r # R
      BY <2>2, <1>6 DEF Queues, TailWaits
    <2>3. QED
      BY <2>1, <2>2
  <1>10. ASSUME NEW d \in Ids, TakesOff(d)
        PROVE  FALSE
    <2> DEFINE S == RepositoryOf[d]
    <2>1. S \in Repositories
      BY HomeAssumption DEF HomeAssumption
    <2>2. /\ jobs'[S] # <<>> /\ jobs'[S][1].step # "waiting"
          /\ jobs'[S][1].step # jobs[S][1].step
      BY <1>10 DEF AtHead, TakesOff
    <2>3. CASE S = R
      <3>1. Tail(q) # <<>> /\ Tail(q)[1].step # "waiting"
        BY <2>2, <2>3, <1>6
      <3>2. 1 \in 1..Len(Tail(q))
        BY <3>1, <1>4, <1>5, EmptySeq
      <3>3. QED
        BY <3>1, <3>2, <1>8
    <2>4. CASE S # R
      BY <2>1, <2>2, <2>4, <1>6
    <2>5. QED
      BY <2>3, <2>4
  <1>11. QED
    BY <1>7, <1>9, <1>10 DEF Queues, NoCommandBut

LEMMA HeadGoesKeeps ==
    ASSUME Queues, NEW c \in Ids, NEW step \in Steps, NEW kind, NEW from,
           AtHead(c, kind, from), HeadGoes(c, step)
    PROVE  /\ Queues'
           /\ NoCommandBut(IF step \in {"commanding", "building"} THEN {c} ELSE {})
  <1> DEFINE R == RepositoryOf[c]
             q == jobs[R]
             job == [q[1] EXCEPT !.step = step]
             p == [q EXCEPT ![1] = job]
  <1>1. R \in Repositories
    BY HomeAssumption DEF HomeAssumption
  <1>2. q \in Seq(Job) /\ q # <<>> /\ q[1].id = c
    BY <1>1 DEF Queues, AtHead
  <1>3. 1 \in 1..Len(q) /\ Len(q) \in Nat
    BY <1>2, EmptySeq, LenProperties
  <1>4. q[1] \in Job
    BY <1>2, <1>3, ElementOfSeq
  <1>5. job \in Job /\ job.step = step /\ job.id = c
    BY <1>2, <1>4 DEF Job
  <1>6. jobs' = [jobs EXCEPT ![R] = p]
    BY DEF HeadGoes
  <1> HIDE DEF job, R
  <1>7. /\ p \in Seq(Job) /\ Len(p) = Len(q)
        /\ \A i \in 1..Len(q) : p[i] = IF i = 1 THEN job ELSE q[i]
    BY <1>2, <1>3, <1>5, ExceptSeq
  <1> HIDE DEF p
  <1>8. jobs'[R] = p /\ \A r \in Repositories \ {R} : jobs'[r] = jobs[r]
    BY <1>1, <1>6 DEF Queues
  <1>9. jobs' \in [Repositories -> Seq(Job)]
    BY <1>6, <1>7 DEF Queues
  <1>10. TailWaits'
    <2> SUFFICES ASSUME NEW r \in Repositories, NEW i \in 2..Len(jobs'[r])
        PROVE  jobs'[r][i].step = "waiting"
      BY DEF TailWaits
    <2>1. CASE r = R
      <3>1. i \in 2..Len(q) /\ i \in 1..Len(q) /\ i # 1
        BY <2>1, <1>3, <1>7, <1>8
      <3>2. jobs'[r][i] = q[i]
        BY <2>1, <3>1, <1>7, <1>8
      <3>3. QED
        BY <3>1, <3>2, <1>1 DEF Queues, TailWaits
    <2>2. CASE r # R
      BY <2>2, <1>8 DEF Queues, TailWaits
    <2>3. QED
      BY <2>1, <2>2
  <1>11. ASSUME NEW d \in Ids, TakesOff(d)
        PROVE  d = c /\ step \in {"commanding", "building"}
    <2> DEFINE S == RepositoryOf[d]
    <2>1. S \in Repositories
      BY HomeAssumption DEF HomeAssumption
    <2>2. /\ jobs[S][1].id = d /\ jobs'[S][1].step # jobs[S][1].step
          /\ jobs'[S][1].step \in {"commanding", "building"}
      BY <1>11 DEF AtHead, TakesOff
    <2>3. S = R
      BY <2>1, <2>2, <1>8
    <2>4. jobs'[S][1] = job
      BY <2>3, <1>3, <1>7, <1>8
    <2>5. QED
      BY <2>2, <2>3, <2>4, <1>2, <1>5
  <1>12. QED
    BY <1>9, <1>10, <1>11 DEF Queues, NoCommandBut

LEMMA QueuesStay ==
    ASSUME Queues, UNCHANGED jobs
    PROVE  Queues' /\ NoCommandBut({})
  BY DEF Queues, TailWaits, NoCommandBut, TakesOff, AtHead

--------------------------------------------------------------------------------
(* The invariant. *)

RecordsFit == \A c \in Ids : Fits(rec[c])

RowWaits == \A c \in Ids :
    /\ rec[c].state = "queued" => c \in row
    /\ c \in row => rec[c].state \in {"queued", "failed"}

(* A record the walk holds a row of does not wait for its start again. *)
WalkIsPast == \A c \in Ids : walk.rows[c].state # "none" => rec[c].state \in Past

(* A cleanup that nobody forced works on a record that closes, or that the walk took *)
(* for missing since.                                                               *)
LiveCloses == \A c \in Ids : cleanup[c] = "live" => rec[c].state \in {"closing", "missing"}

IInv == TypeOK /\ TailWaits /\ RecordsFit /\ RowWaits /\ WalkIsPast /\ LiveCloses

(* What a step may do to the tables beside the records and the row. *)
AgentsStand == agent' \in [Ids -> Agent]
OpeningsStand == opening' \in [Ids -> {"none", "claimed", "started", "failed"}]
CleanupsLeave ==
    /\ cleanup' \in [Ids -> {"none", "live", "cancelled"}]
    /\ \A d \in Ids : cleanup'[d] = "live" => cleanup[d] = "live"
WalkLeaves ==
    /\ walk' \in Walk
    /\ \A d \in Ids : walk'.rows[d].state # "none" =>
          walk.rows[d].state # "none" \/ rec[d].state \in Past

(* What a step promises beside the invariant: the parts of ClosedHolds, and no      *)
(* way back from what is past its agent.                                            *)
Uncommanded == \A c \in Ids :
    /\ rec[c].state = "closed" /\ AtHead(c, "close", "reading")
       => ~AtHead(c, "close", "commanding")'
    /\ rec[c].state \in {"closing", "closed"} /\ AtHead(c, "open", "waiting")
       => ~AtHead(c, "open", "building")'

Truthful == \A c \in Ids :
    /\ rec[c].state # "closed" /\ rec'[c].state = "closed"
    /\ rec[c].pane = "owned" \/ rec'[c].pane = "owned"
    => ~agent'[c].up \/ rec'[c].remaining

Onward == \A c \in Ids : rec[c].state \in Done => rec'[c].state \in Done

Good == IInv' /\ Uncommanded /\ Truthful /\ Onward

(* And what only the operator's panels may do. *)
Unasked == \A c \in Ids :
    /\ ~(rec[c].state \in Observed /\ rec'[c].state = "closing")
    /\ ~(/\ rec[c].state # "closed" /\ rec'[c].state = "closed"
         /\ cleanup[c] = "none" \/ cleanup'[c] = "cancelled")
    /\ ~(rec[c].state # "deleted" /\ rec'[c].state = "deleted")

LEMMA Typed ==
    ASSUME IInv
    PROVE  /\ Queues
           /\ \A c \in Ids : rec[c] \in Record /\ Fits(rec[c]) /\ agent[c] \in Agent
           /\ walk \in Walk
           /\ UNCHANGED agent => AgentsStand
           /\ UNCHANGED opening => OpeningsStand
           /\ UNCHANGED cleanup => CleanupsLeave
           /\ UNCHANGED walk => WalkLeaves
  BY DEF IInv, TypeOK, Queues, RecordsFit, AgentsStand, OpeningsStand, CleanupsLeave,
         WalkLeaves

(* One record and its own entries change. *)
LEMMA OneWrite ==
    ASSUME IInv, NEW c \in Ids, NEW s \in Record, Put(c, s), Fits(s),
           row' \in SUBSET Ids, \A d \in Ids \ {c} : d \in row' <=> d \in row,
           s.state = "queued" => c \in row',
           c \in row' => s.state \in {"queued", "failed"},
           rec[c].state \in Past => s.state \in Past,
           AgentsStand, OpeningsStand, WalkLeaves, Queues',
           cleanup' \in [Ids -> {"none", "live", "cancelled"}],
           \A d \in Ids \ {c} : cleanup'[d] = "live" => cleanup[d] = "live",
           cleanup'[c] = "live" => s.state \in {"closing", "missing"}
    PROVE  /\ IInv'
           /\ rec'[c] = s /\ \A d \in Ids \ {c} : rec'[d] = rec[d]
  <1>1. rec \in [Ids -> Record]
    BY DEF IInv, TypeOK
  <1>2. rec' \in [Ids -> Record] /\ rec'[c] = s /\ \A d \in Ids \ {c} : rec'[d] = rec[d]
    BY <1>1 DEF Put
  <1>3. TypeOK' /\ TailWaits'
    BY <1>2 DEF TypeOK, Queues, AgentsStand, OpeningsStand, WalkLeaves
  <1>4. RecordsFit'
    BY <1>2 DEF IInv, RecordsFit
  <1>5. RowWaits'
    BY <1>2 DEF IInv, RowWaits
  <1>6. WalkIsPast'
    <2> SUFFICES ASSUME NEW d \in Ids, walk'.rows[d].state # "none"
        PROVE  rec'[d].state \in Past
      BY DEF WalkIsPast
    <2>1. rec[d].state \in Past
      BY DEF WalkLeaves, IInv, WalkIsPast
    <2>2. QED
      BY <1>2, <2>1
  <1>7. LiveCloses'
    BY <1>2 DEF IInv, LiveCloses
  <1>8. QED
    BY <1>2, <1>3, <1>4, <1>5, <1>6, <1>7 DEF IInv

(* Every record drifts: what one that does not change does too. *)
AllDrift == rec' \in [Ids -> Record] /\ \A d \in Ids : Writes(rec[d], rec'[d])

LEMMA PutDrifts ==
    ASSUME IInv, NEW c \in Ids, NEW s, Writes(rec[c], s), Put(c, s)
    PROVE  AllDrift
  BY DEF IInv, TypeOK, RecordsFit, Put, Writes, Drifts, AllDrift

LEMMA StayDrifts ==
    ASSUME IInv, UNCHANGED rec
    PROVE  AllDrift
  BY DEF IInv, TypeOK, RecordsFit, Writes, Drifts, AllDrift

LEMMA DriftKeeps ==
    ASSUME IInv, AllDrift, UNCHANGED row, AgentsStand, OpeningsStand, CleanupsLeave,
           WalkLeaves, Queues', Uncommanded
    PROVE  Good /\ Unasked
  <1>1. \A d \in Ids : /\ rec'[d] \in Record /\ Fits(rec'[d])
                       /\ Drifts(rec[d], rec'[d])
    BY DEF AllDrift, Writes
  <1>2. TypeOK' /\ TailWaits' /\ RecordsFit'
    BY <1>1 DEF AllDrift, IInv, TypeOK, Queues, AgentsStand, OpeningsStand, CleanupsLeave,
                WalkLeaves, RecordsFit
  <1>3. RowWaits'
    BY <1>1 DEF Drifts, IInv, RowWaits, Past, Observed, Done
  <1>4. ASSUME NEW d \in Ids PROVE rec[d].state \in Past => rec'[d].state \in Past
    BY <1>1 DEF Drifts, Past, Observed, Done
  <1>5. WalkIsPast'
    <2> SUFFICES ASSUME NEW d \in Ids, walk'.rows[d].state # "none"
        PROVE  rec'[d].state \in Past
      BY DEF WalkIsPast
    <2>1. rec[d].state \in Past
      BY DEF WalkLeaves, IInv, WalkIsPast
    <2>2. QED
      BY <1>4, <2>1
  <1>6. LiveCloses'
    BY <1>1 DEF Drifts, IInv, LiveCloses, CleanupsLeave, Observed
  <1>7. Truthful
    BY <1>1 DEF Drifts, Truthful
  <1>8. Onward
    BY <1>1 DEF Drifts, Onward, Observed, Done
  <1>9. Unasked
    BY <1>1 DEF Drifts, Unasked, Observed
  <1>10. QED
    BY <1>2, <1>3, <1>5, <1>6, <1>7, <1>8, <1>9 DEF Good, IInv

(* A job's step that ends it, moves it on or queues one. *)
LEMMA Uncommands ==
    ASSUME NoCommandBut({})
    PROVE  Uncommanded
  BY DEF NoCommandBut, TakesOff, Uncommanded

--------------------------------------------------------------------------------
(* The ask and its wait. *)

LEMMA CreateKeeps ==
    ASSUME IInv, NEW c \in Ids, Create(c)
    PROVE  Good /\ Unasked
  <1> DEFINE s == [Blank EXCEPT !.state = "queued", !.turns = <<0>>]
  <1>1. s \in Record /\ s.state = "queued" /\ Len(s.turns) = 1
    <2>1. 0 \in Sequence
      BY BoundAssumption DEF BoundAssumption, Sequence
    <2>2. <<0>> \in Seq(Sequence) /\ Len(<<0>>) = 1
      BY <2>1
    <2>3. QED
      BY <2>1, <2>2 DEF Blank, Record, States, Resource
  <1>2. Fits(s)
    BY <1>1 DEF Fits
  <1> HIDE DEF s
  <1>3. row \subseteq Ids /\ cleanup \in [Ids -> {"none", "live", "cancelled"}]
    BY DEF IInv, TypeOK
  <1>4. rec[c].state = "unborn" /\ Put(c, s) /\ row' = row \cup {c}
        /\ UNCHANGED <<agent, jobs, opening, cleanup, walk>>
    BY DEF Create, s
  <1>5. cleanup[c] # "live"
    BY <1>4 DEF IInv, LiveCloses
  <1>6. Queues' /\ NoCommandBut({})
    BY <1>4, Typed, QueuesStay
  <1>7. IInv' /\ rec'[c] = s /\ \A d \in Ids \ {c} : rec'[d] = rec[d]
    BY <1>1, <1>2, <1>3, <1>4, <1>5, <1>6, Typed, OneWrite DEF Past, Observed, Done
  <1>8. QED
    BY <1>1, <1>4, <1>6, <1>7, Uncommands
       DEF Good, Truthful, Onward, Unasked, Done, Observed

LEMMA ScheduleKeeps ==
    ASSUME IInv, NEW c \in Ids, Schedule(c)
    PROVE  Good /\ Unasked
  <1> DEFINE s == [rec[c] EXCEPT !.state = "queued"]
  <1>1. s \in Record /\ s.state = "queued" /\ Fits(s)
    BY Typed DEF Schedule, Record, States, Fits
  <1> HIDE DEF s
  <1>3. row \subseteq Ids /\ cleanup \in [Ids -> {"none", "live", "cancelled"}]
    BY DEF IInv, TypeOK
  <1>4. rec[c].state = "unscheduled" /\ Put(c, s) /\ row' = row \cup {c}
        /\ UNCHANGED <<agent, jobs, opening, cleanup, walk>>
    BY DEF Schedule, s
  <1>5. cleanup[c] # "live"
    BY <1>4 DEF IInv, LiveCloses
  <1>6. Queues' /\ NoCommandBut({})
    BY <1>4, Typed, QueuesStay
  <1>7. IInv' /\ rec'[c] = s /\ \A d \in Ids \ {c} : rec'[d] = rec[d]
    BY <1>1, <1>3, <1>4, <1>5, <1>6, Typed, OneWrite DEF Past, Observed, Done
  <1>8. QED
    BY <1>1, <1>4, <1>6, <1>7, Uncommands
       DEF Good, Truthful, Onward, Unasked, Done, Observed

LEMMA RemoveWorkItemKeeps ==
    ASSUME IInv, NEW c \in Ids, RemoveWorkItem(c)
    PROVE  Good /\ Unasked
  <1> DEFINE s == [rec[c] EXCEPT !.state = IF @ = "queued" THEN "unscheduled" ELSE @]
  <1>1. rec[c].state \in {"queued", "failed"}
    BY DEF RemoveWorkItem, IInv, RowWaits
  <1>2. /\ s \in Record /\ Fits(s)
        /\ s.state = IF rec[c].state = "queued" THEN "unscheduled" ELSE "failed"
    BY <1>1, Typed DEF Record, States, Fits
  <1>4. Put(c, s) /\ row' = row \ {c}
        /\ UNCHANGED <<agent, jobs, opening, cleanup, walk>>
    BY DEF RemoveWorkItem
  <1> HIDE DEF s
  <1>3. row \subseteq Ids /\ cleanup \in [Ids -> {"none", "live", "cancelled"}]
    BY DEF IInv, TypeOK
  <1>5. cleanup[c] # "live"
    BY <1>1 DEF IInv, LiveCloses
  <1>6. Queues' /\ NoCommandBut({})
    BY <1>4, Typed, QueuesStay
  <1>7. IInv' /\ rec'[c] = s /\ \A d \in Ids \ {c} : rec'[d] = rec[d]
    BY <1>1, <1>2, <1>3, <1>4, <1>5, <1>6, Typed, OneWrite DEF Past, Observed, Done
  <1>8. QED
    BY <1>1, <1>2, <1>4, <1>6, <1>7, Uncommands
       DEF Good, Truthful, Onward, Unasked, Done, Observed

LEMMA BeginStartKeeps ==
    ASSUME IInv, NEW c \in Ids, BeginStart(c)
    PROVE  Good /\ Unasked
  <1> DEFINE s == [rec[c] EXCEPT !.state = "opening"]
  <1>1. s \in Record /\ s.state = "opening" /\ Fits(s)
    BY Typed DEF BeginStart, Record, States, Fits
  <1> HIDE DEF s
  <1>3. row \subseteq Ids /\ cleanup \in [Ids -> {"none", "live", "cancelled"}]
    BY DEF IInv, TypeOK
  <1>4. /\ rec[c].state \in {"queued", "unscheduled"} /\ Put(c, s) /\ row' = row \ {c}
        /\ opening' = [opening EXCEPT ![c] = "claimed"]
        /\ Serialize(c, NewJob("open", c, FALSE))
        /\ UNCHANGED <<agent, cleanup, walk>>
    BY DEF BeginStart, s
  <1>5. cleanup[c] # "live" /\ OpeningsStand
    BY <1>4 DEF IInv, LiveCloses, TypeOK, OpeningsStand
  <1>6. Queues' /\ NoCommandBut({})
    BY <1>4, Typed, SerializeKeeps
  <1>7. IInv' /\ rec'[c] = s /\ \A d \in Ids \ {c} : rec'[d] = rec[d]
    BY <1>1, <1>3, <1>4, <1>5, <1>6, Typed, OneWrite DEF Past, Observed, Done
  <1>8. QED
    BY <1>1, <1>4, <1>6, <1>7, Uncommands
       DEF Good, Truthful, Onward, Unasked, Done, Observed

LEMMA PickupFailsKeeps ==
    ASSUME IInv, NEW c \in Ids, PickupFails(c)
    PROVE  Good /\ Unasked
  <1> DEFINE s == [rec[c] EXCEPT !.state = "failed"]
  <1>1. s \in Record /\ s.state = "failed" /\ Fits(s)
    BY Typed DEF Record, States, Fits
  <1> HIDE DEF s
  <1>3. row \subseteq Ids /\ cleanup \in [Ids -> {"none", "live", "cancelled"}]
    BY DEF IInv, TypeOK
  <1>4. /\ rec[c].state \in {"queued", "unscheduled"} /\ Put(c, s) /\ row' = row \ {c}
        /\ UNCHANGED <<agent, jobs, opening, cleanup, walk>>
    BY DEF PickupFails, s
  <1>5. cleanup[c] # "live"
    BY <1>4 DEF IInv, LiveCloses
  <1>6. Queues' /\ NoCommandBut({})
    BY <1>4, Typed, QueuesStay
  <1>7. IInv' /\ rec'[c] = s /\ \A d \in Ids \ {c} : rec'[d] = rec[d]
    BY <1>1, <1>3, <1>4, <1>5, <1>6, Typed, OneWrite DEF Past, Observed, Done
  <1>8. QED
    BY <1>1, <1>4, <1>6, <1>7, Uncommands
       DEF Good, Truthful, Onward, Unasked, Done, Observed

(* A boot forgets the operations, the queues and the walk. *)
LEMMA BootForgets ==
    ASSUME IInv, Boot
    PROVE  /\ Queues' /\ NoCommandBut({}) /\ AgentsStand /\ OpeningsStand /\ WalkLeaves
           /\ CleanupsLeave /\ \A d \in Ids : cleanup'[d] = "none"
  <1>1. jobs' = [r \in Repositories |-> <<>>]
    BY DEF Boot
  <1>2. \A r \in Repositories : jobs'[r] = <<>> /\ Len(jobs'[r]) = 0
    BY <1>1
  <1>3. Queues'
    BY <1>1, <1>2, EmptySeq DEF Queues, TailWaits
  <1>4. NoCommandBut({})
    BY <1>2, HomeAssumption DEF NoCommandBut, TakesOff, AtHead, HomeAssumption
  <1>5. 0 \in Sequence
    BY BoundAssumption DEF BoundAssumption, Sequence
  <1>6. NoWalk \in Walk /\ \A d \in Ids : NoWalk.rows[d].state = "none"
    BY <1>5 DEF NoWalk, Walk, Down, Agent, NoRow, Snapshot
  <1>7. WalkLeaves
    BY <1>6 DEF Boot, WalkLeaves
  <1>8. QED
    BY <1>3, <1>4, <1>7, Typed DEF Boot, OpeningsStand, CleanupsLeave

LEMMA PickupDiesKeeps ==
    ASSUME IInv, NEW c \in Ids, PickupDiesBeforeTheRow(c)
    PROVE  Good /\ Unasked
  <1> DEFINE s == [rec[c] EXCEPT !.state = "failed"]
  <1>1. s \in Record /\ s.state = "failed" /\ Fits(s)
    BY Typed DEF Record, States, Fits
  <1> HIDE DEF s
  <1>2. rec[c].state = "queued" /\ Put(c, s) /\ Boot /\ row' = row
    BY DEF PickupDiesBeforeTheRow, s
  <1>3. row \subseteq Ids
    BY DEF IInv, TypeOK
  <1>4. IInv' /\ rec'[c] = s /\ \A d \in Ids \ {c} : rec'[d] = rec[d]
    BY <1>1, <1>2, <1>3, BootForgets, OneWrite DEF Past, Observed, Done, CleanupsLeave
  <1>5. QED
    BY <1>1, <1>2, <1>4, BootForgets, Uncommands
       DEF Good, Truthful, Onward, Unasked, Done, Observed

LEMMA RestartKeeps ==
    ASSUME IInv, Restart
    PROVE  Good /\ Unasked
  BY BootForgets, StayDrifts, Uncommands, DriftKeeps DEF Restart

LEMMA DeleteKeeps ==
    ASSUME IInv, NEW c \in Ids, Delete(c)
    PROVE  /\ Good /\ rec'[c].state = "deleted"
           /\ \A d \in Ids \ {c} : rec'[d] = rec[d]
           /\ rec[c].state \in {"closed", "unscheduled"}
  <1> DEFINE s == [Blank EXCEPT !.state = "deleted"]
  <1>1. s \in Record /\ s.state = "deleted" /\ Fits(s)
    <2>1. 0 \in Sequence
      BY BoundAssumption DEF BoundAssumption, Sequence
    <2>2. QED
      BY <2>1, EmptySeq DEF Blank, Record, States, Resource, Fits
  <1> HIDE DEF s
  <1>3. row \subseteq Ids /\ cleanup \in [Ids -> {"none", "live", "cancelled"}]
    BY DEF IInv, TypeOK
  <1>4. /\ rec[c].state \in {"closed", "unscheduled"} /\ Put(c, s) /\ row' = row \ {c}
        /\ UNCHANGED <<agent, jobs, opening, cleanup, walk>>
    BY DEF Delete, s
  <1>5. cleanup[c] # "live"
    BY <1>4 DEF IInv, LiveCloses
  <1>6. Queues' /\ NoCommandBut({})
    BY <1>4, Typed, QueuesStay
  <1>7. IInv' /\ rec'[c] = s /\ \A d \in Ids \ {c} : rec'[d] = rec[d]
    BY <1>1, <1>3, <1>4, <1>5, <1>6, Typed, OneWrite DEF Past, Observed, Done
  <1>8. QED
    BY <1>1, <1>4, <1>6, <1>7, Uncommands DEF Good, Truthful, Onward, Done

--------------------------------------------------------------------------------
(* The opening. *)

LEMMA OpensAgainKeeps ==
    ASSUME IInv, NEW c \in Ids, NEW kind \in {"open", "verify"}, OpensAgain(c, kind)
    PROVE  Good /\ Unasked
  <1>1. Queues' /\ NoCommandBut({})
    BY Typed, SerializeKeeps DEF OpensAgain
  <1>2. OpeningsStand
    BY DEF OpensAgain, IInv, TypeOK, OpeningsStand
  <1>3. QED
    BY <1>1, <1>2, Typed, StayDrifts, Uncommands, DriftKeeps DEF OpensAgain

LEMMA Ended ==
    ASSUME IInv, NEW c \in Ids, EndOpening(c)
    PROVE  OpeningsStand
  BY DEF EndOpening, IInv, TypeOK, OpeningsStand

LEMMA VerifyAgentKeeps ==
    ASSUME IInv, NEW c \in Ids, VerifyAgent(c)
    PROVE  Good /\ Unasked
  <1>1. Queues' /\ NoCommandBut({})
    BY Typed, HeadEndsKeeps DEF VerifyAgent, AtHead
  <1>2. AllDrift
    BY Typed, StayDrifts, PutDrifts, FailOpeningIs, SetAgentIs DEF VerifyAgent
  <1>3. QED
    BY <1>1, <1>2, Typed, Ended, Uncommands, DriftKeeps DEF VerifyAgent

LEMMA OpeningBeginsKeeps ==
    ASSUME IInv, NEW c \in Ids, OpeningBegins(c)
    PROVE  Good /\ Unasked
  <1>1. /\ AtHead(c, "open", "waiting")
        /\ \/ HeadGoes(c, "building") /\ UNCHANGED opening
           \/ HeadEnds(c) /\ EndOpening(c)
        /\ UNCHANGED <<rec, row, agent, cleanup, walk>>
    BY DEF OpeningBegins
  <1>2. "building" \in Steps
    BY DEF Steps
  <1>3. jobs[RepositoryOf[c]] # <<>>
    BY <1>1 DEF AtHead
  <1>4. Queues'
    BY <1>1, <1>2, <1>3, Typed, HeadEndsKeeps, HeadGoesKeeps
  <1>5. Uncommanded
    <2>1. CASE HeadGoes(c, "building")
      <3>1. NoCommandBut({c})
        BY <1>1, <1>2, <2>1, Typed, HeadGoesKeeps
      <3>2. ~AtHead(c, "close", "reading")
        BY <1>1 DEF AtHead
      <3>3. rec[c].state \in {"opening", "deleted"} \/ HeadEnds(c)
        BY DEF OpeningBegins
      <3>4. CASE rec[c].state \in {"opening", "deleted"}
        <4>1. ASSUME NEW d \in Ids \ {c} PROVE ~TakesOff(d)
          BY <3>1, <4>1 DEF NoCommandBut
        <4>2. QED
          BY <3>2, <3>4, <4>1 DEF TakesOff, Uncommanded
      <3>5. CASE HeadEnds(c)
        BY <1>3, <3>5, Typed, HeadEndsKeeps, Uncommands
      <3>6. QED
        BY <3>3, <3>4, <3>5
    <2>2. CASE HeadEnds(c)
      BY <1>3, <2>2, Typed, HeadEndsKeeps, Uncommands
    <2>3. QED
      BY <1>1, <2>1, <2>2
  <1>6. OpeningsStand
    BY <1>1, Typed, Ended
  <1>7. QED
    BY <1>1, <1>4, <1>5, <1>6, Typed, StayDrifts, DriftKeeps

LEMMA OpeningConflictsKeeps ==
    ASSUME IInv, NEW c \in Ids, OpeningConflicts(c)
    PROVE  Good /\ Unasked
  <1>1. Queues' /\ NoCommandBut({})
    BY Typed, HeadEndsKeeps DEF OpeningConflicts, AtHead
  <1>2. QED
    BY <1>1, Typed, Ended, StayDrifts, Uncommands, DriftKeeps DEF OpeningConflicts

(* A write of a resource leaves the record's state and its turns. *)
LEMMA ResourceWrite ==
    ASSUME NEW r \in Record, Fits(r), NEW v \in Resource
    PROVE  /\ Writes(r, [r EXCEPT !.environment = v])
           /\ Writes(r, [r EXCEPT !.pane = v])
  BY DEF Writes, Drifts, Record, Fits

LEMMA OpeningBuildsKeeps ==
    ASSUME IInv, NEW c \in Ids, OpeningBuilds(c)
    PROVE  Good /\ Unasked
  <1>1. "starting" \in Steps /\ "owned" \in Resource
    BY DEF Steps, Resource
  <1>2. Queues' /\ NoCommandBut({})
    BY <1>1, Typed, HeadGoesKeeps DEF OpeningBuilds
  <1>3. AllDrift
    BY <1>1, Typed, ResourceWrite, PutDrifts DEF OpeningBuilds
  <1>4. QED
    BY <1>2, <1>3, Typed, Uncommands, DriftKeeps DEF OpeningBuilds

LEMMA Moved ==
    ASSUME IInv, NEW c \in Ids, agent[c].sequence < MaxSequence, NEW b \in BOOLEAN,
           agent' = [agent EXCEPT ![c].busy = b, ![c].sequence = @ + 1]
    PROVE  AgentsStand
  <1> DEFINE a == [agent[c] EXCEPT !.busy = b]
             n == agent[c].sequence + 1
             e == [a EXCEPT !.sequence = n]
  <1>1. agent \in [Ids -> Agent] /\ agent[c] \in Agent
    BY DEF IInv, TypeOK
  <1>2. n \in Sequence
    BY <1>1, BoundAssumption DEF BoundAssumption, Sequence, Agent
  <1>3. a \in Agent /\ a.sequence = agent[c].sequence
    BY <1>1 DEF Agent
  <1>4. e \in Agent
    BY <1>2, <1>3 DEF Agent
  <1>5. agent' = [agent EXCEPT ![c] = e]
    BY <1>1
  <1> HIDE DEF e
  <1>6. QED
    BY <1>1, <1>4, <1>5 DEF AgentsStand

LEMMA DownStands ==
    ASSUME IInv, NEW c \in Ids, agent' = [agent EXCEPT ![c] = Down]
    PROVE  AgentsStand /\ agent'[c] = Down /\ ~Down.up
  <1>1. 0 \in Sequence
    BY BoundAssumption DEF BoundAssumption, Sequence
  <1>2. Down \in Agent /\ ~Down.up
    BY <1>1 DEF Down, Agent
  <1> HIDE DEF Down
  <1>3. QED
    BY <1>2 DEF IInv, TypeOK, AgentsStand

LEMMA AgentRecordedKeeps ==
    ASSUME IInv, NEW c \in Ids, AgentRecorded(c)
    PROVE  Good /\ Unasked
  <1> DEFINE r == RecordHandles(rec[c])
             s == IF rec[c].state = "deleted" THEN rec[c] ELSE [r EXCEPT !.pane = "owned"]
  <1>1. "sending" \in Steps /\ "owned" \in Resource
    BY DEF Steps, Resource
  <1>2. Queues' /\ NoCommandBut({})
    BY <1>1, Typed, HeadGoesKeeps DEF AgentRecorded
  <1>3. Writes(rec[c], rec[c]) /\ Writes(rec[c], r)
    BY Typed, RecordHandlesIs DEF Writes, Drifts
  <1>4. r.state = rec[c].state
    BY Typed DEF RecordHandles, Record
  <1>5. Put(c, s)
    BY DEF AgentRecorded
  <1> HIDE DEF r
  <1>6. Writes(rec[c], [r EXCEPT !.pane = "owned"])
    BY <1>1, <1>3, <1>4, ResourceWrite DEF Writes, Drifts
  <1>7. AllDrift
    BY <1>3, <1>5, <1>6, PutDrifts
  <1>8. QED
    BY <1>2, <1>7, Typed, Uncommands, DriftKeeps DEF AgentRecorded

LEMMA OpeningPromptsKeeps ==
    ASSUME IInv, NEW c \in Ids, OpeningPrompts(c)
    PROVE  Good /\ Unasked
  <1>1. Queues' /\ NoCommandBut({})
    BY Typed, HeadEndsKeeps DEF OpeningPrompts, AtHead
  <1>2. AgentsStand
    BY Typed, Moved DEF OpeningPrompts
  <1>3. OpeningsStand
    BY DEF OpeningPrompts, IInv, TypeOK, OpeningsStand
  <1>4. QED
    BY <1>1, <1>2, <1>3, Typed, StayDrifts, Uncommands, DriftKeeps DEF OpeningPrompts

LEMMA OpeningFailsKeeps ==
    ASSUME IInv, NEW c \in Ids, OpeningFails(c)
    PROVE  Good /\ Unasked
  <1>1. Queues' /\ NoCommandBut({})
    BY Typed, HeadEndsKeeps DEF OpeningFails, AtHead
  <1>2. AllDrift /\ UNCHANGED agent
    <2>1. "confirmed" \in Resource
      BY DEF Resource
    <2>2. QED
      BY <2>1, Typed, StayDrifts, ResourceWrite, PutDrifts DEF OpeningFails
  <1>3. OpeningsStand
    BY DEF OpeningFails, IInv, TypeOK, OpeningsStand
  <1>4. QED
    BY <1>1, <1>2, <1>3, Typed, Uncommands, DriftKeeps DEF OpeningFails

LEMMA OpeningSettlesKeeps ==
    ASSUME IInv, NEW c \in Ids, OpeningSettles(c)
    PROVE  Good /\ Unasked
  <1>1. Queues' /\ NoCommandBut({})
    BY Typed, QueuesStay DEF OpeningSettles
  <1>2. AllDrift
    BY Typed, PutDrifts, SetAgentIs, FailOpeningIs DEF OpeningSettles
  <1>3. QED
    BY <1>1, <1>2, Typed, Ended, Uncommands, DriftKeeps DEF OpeningSettles

LEMMA AgentStartsKeeps ==
    ASSUME IInv, NEW c \in Ids, AgentStarts(c)
    PROVE  Good /\ Unasked
  <1> DEFINE a == [up |-> TRUE, busy |-> FALSE, sequence |-> 1]
  <1>1. "prompting" \in Steps
    BY DEF Steps
  <1>2. Queues' /\ NoCommandBut({})
    BY <1>1, Typed, HeadGoesKeeps DEF AgentStarts
  <1>3. 1 \in Sequence
    BY BoundAssumption DEF BoundAssumption, Sequence
  <1>4. a \in Agent
    BY <1>3 DEF Agent
  <1> HIDE DEF a
  <1>5. AgentsStand
    BY <1>4 DEF AgentStarts, a, IInv, TypeOK, AgentsStand
  <1>6. QED
    BY <1>2, <1>5, Typed, StayDrifts, Uncommands, DriftKeeps DEF AgentStarts

--------------------------------------------------------------------------------
(* The response. *)

LEMMA RespondKeeps ==
    ASSUME IInv, NEW c \in Ids, Respond(c)
    PROVE  Good /\ Unasked
  <1>1. Queues' /\ NoCommandBut({})
    BY Typed, SerializeKeeps DEF Respond
  <1>2. QED
    BY <1>1, Typed, StayDrifts, Uncommands, DriftKeeps DEF Respond

LEMMA ResponseBeginsKeeps ==
    ASSUME IInv, NEW c \in Ids, ResponseBegins(c)
    PROVE  Good /\ Unasked
  <1>1. /\ AtHead(c, "respond", "waiting")
        /\ \/ Put(c, BeginResponse(rec[c])) /\ HeadGoes(c, "sending")
           \/ HeadEnds(c) /\ UNCHANGED rec
        /\ UNCHANGED <<row, agent, opening, cleanup, walk>>
    BY DEF ResponseBegins
  <1>2. "sending" \in Steps /\ jobs[RepositoryOf[c]] # <<>>
    BY <1>1 DEF Steps, AtHead
  <1>3. Queues' /\ NoCommandBut({})
    BY <1>1, <1>2, Typed, HeadEndsKeeps, HeadGoesKeeps
  <1>4. AllDrift
    BY <1>1, Typed, StayDrifts, BeginResponseIs, PutDrifts
  <1>5. QED
    BY <1>1, <1>3, <1>4, Typed, Uncommands, DriftKeeps

LEMMA ResponseArrivesKeeps ==
    ASSUME IInv, NEW c \in Ids, ResponseArrives(c)
    PROVE  Good /\ Unasked
  <1>1. "sent" \in Steps
    BY DEF Steps
  <1>2. Queues' /\ NoCommandBut({})
    BY <1>1, Typed, HeadGoesKeeps DEF ResponseArrives
  <1>3. AgentsStand
    BY Moved DEF ResponseArrives
  <1>4. QED
    BY <1>2, <1>3, Typed, StayDrifts, Uncommands, DriftKeeps DEF ResponseArrives

LEMMA ResponseSettlesKeeps ==
    ASSUME IInv, NEW c \in Ids, ResponseSettles(c)
    PROVE  Good /\ Unasked
  <1>1. Queues' /\ NoCommandBut({})
    BY Typed, HeadEndsKeeps DEF ResponseSettles, AtHead
  <1>2. AllDrift
    BY Typed, AcceptResponseIs, CancelResponseIs, PutDrifts DEF ResponseSettles
  <1>3. QED
    BY <1>1, <1>2, Typed, Uncommands, DriftKeeps DEF ResponseSettles

--------------------------------------------------------------------------------
(* The close. *)

LEMMA CloseKeeps ==
    ASSUME IInv, NEW c \in Ids, Close(c)
    PROVE  /\ Good /\ rec'[c].state = "closing"
           /\ \A d \in Ids \ {c} : rec'[d] = rec[d]
           /\ rec[c].state \in Closable
  <1> DEFINE s == [rec[c] EXCEPT !.state = "closing",
                                 !.pane = IF @ = "none" /\ rec[c].handles THEN "owned" ELSE @]
  <1>1. rec[c] \in Record /\ Fits(rec[c])
    BY Typed
  <1>2. s \in Record /\ s.state = "closing" /\ Fits(s)
    BY <1>1 DEF Record, States, Resource, Fits
  <1> HIDE DEF s
  <1>3. row \subseteq Ids /\ cleanup \in [Ids -> {"none", "live", "cancelled"}]
    BY DEF IInv, TypeOK
  <1>4. /\ rec[c].state \in Closable /\ Put(c, s)
        /\ cleanup' = [cleanup EXCEPT ![c] = "live"]
        /\ Serialize(c, NewJob("close", c, rec[c].state = "opening"))
        /\ UNCHANGED <<agent, opening, walk>>
    BY DEF Close, s
  <1>5. row' = row \ {c}
    <2>1. rec[c].state = "closing" => c \notin row
      BY DEF IInv, RowWaits
    <2>2. QED
      BY <2>1, <1>3 DEF Close, RowAfterClose
  <1>6. Queues' /\ NoCommandBut({})
    BY <1>4, Typed, SerializeKeeps
  <1>7. IInv' /\ rec'[c] = s /\ \A d \in Ids \ {c} : rec'[d] = rec[d]
    BY <1>2, <1>3, <1>4, <1>5, <1>6, Typed, OneWrite DEF Past, Done
  <1>8. QED
    BY <1>2, <1>4, <1>6, <1>7, Uncommands DEF Good, Truthful, Onward, Done

(* A cleanup that ends on its record, with the record closed or as it was. *)
LEMMA CleanupEnds ==
    ASSUME IInv, NEW c \in Ids, EndCleanup(c), jobs[RepositoryOf[c]] # <<>>,
           UNCHANGED <<row, opening, walk>>, AgentsStand,
           NEW s \in Record, Put(c, s), Fits(s), cleanup[c] = "live",
           s.state = IF rec[c].state = "closing" THEN "closed" ELSE rec[c].state,
           rec[c].pane = "owned" \/ s.pane = "owned" => ~agent'[c].up \/ s.remaining
    PROVE  Good /\ Unasked
  <1>1. cleanup \in [Ids -> {"none", "live", "cancelled"}] /\ row \subseteq Ids
    BY DEF IInv, TypeOK
  <1>2. /\ cleanup' \in [Ids -> {"none", "live", "cancelled"}] /\ cleanup'[c] = "none"
        /\ \A d \in Ids \ {c} : cleanup'[d] = cleanup[d]
    BY <1>1 DEF EndCleanup
  <1>3. rec[c].state \in {"closing", "missing"}
    BY DEF IInv, LiveCloses
  <1>4. c \notin row
    BY <1>3 DEF IInv, RowWaits
  <1>5. Queues' /\ NoCommandBut({})
    BY Typed, HeadEndsKeeps DEF EndCleanup
  <1>6. IInv' /\ rec'[c] = s /\ \A d \in Ids \ {c} : rec'[d] = rec[d]
    BY <1>1, <1>2, <1>3, <1>4, <1>5, Typed, OneWrite DEF Past, Done
  <1>7. QED
    BY <1>2, <1>3, <1>5, <1>6, Uncommands
       DEF Good, Truthful, Onward, Unasked, Done, Observed

LEMMA ForceCloseKeeps ==
    ASSUME IInv, NEW c \in Ids, ForceClose(c)
    PROVE  /\ Good
           /\ UNCHANGED rec \/ (rec[c].state # "closed" /\ rec'[c].state = "closed")
           /\ \A d \in Ids \ {c} : rec'[d] = rec[d]
  <1>1. cleanup \in [Ids -> {"none", "live", "cancelled"}] /\ row \subseteq Ids
    BY DEF IInv, TypeOK
  <1>2. /\ cleanup' = [cleanup EXCEPT ![c] = IF @ = "live" THEN "cancelled" ELSE @]
        /\ UNCHANGED <<agent, jobs, opening, walk>>
    BY DEF ForceClose
  <1>3. /\ cleanup' \in [Ids -> {"none", "live", "cancelled"}] /\ cleanup'[c] # "live"
        /\ \A d \in Ids \ {c} : cleanup'[d] = cleanup[d]
    BY <1>1, <1>2
  <1>4. Queues' /\ NoCommandBut({})
    BY <1>2, Typed, QueuesStay
  <1>5. CASE rec[c].state \in {"closed", "deleted"}
    <2>1. UNCHANGED rec /\ UNCHANGED row
      BY <1>5 DEF ForceClose
    <2>2. CleanupsLeave
      BY <1>3 DEF CleanupsLeave
    <2>3. QED
      BY <1>2, <1>4, <2>1, <2>2, Typed, StayDrifts, Uncommands, DriftKeeps
  <1>6. CASE rec[c].state \notin {"closed", "deleted"}
    <2> DEFINE begun == [rec[c] EXCEPT !.state = "closing"]
               s == FinishClose(begun, TRUE)
    <2>1. rec[c] \in Record /\ rec[c].state # "unborn"
      BY Typed DEF ForceClose
    <2>2. begun \in Record /\ Fits(begun) /\ begun.state = "closing" /\ begun.pane = rec[c].pane
      BY <2>1 DEF Record, States, Fits
    <2>3. Put(c, s)
      BY <1>6 DEF ForceClose
    <2> HIDE DEF begun
    <2>4. /\ s \in Record /\ Fits(s) /\ s.state = "closed" /\ s.pane = rec[c].pane
          /\ rec[c].pane = "owned" => s.remaining
      BY <2>2, FinishCloseIs
    <2> HIDE DEF s
    <2>5. row' = row \ {c}
      <3>1. rec[c].state = "closing" => c \notin row
        BY DEF IInv, RowWaits
      <3>2. QED
        BY <1>1, <1>6, <3>1 DEF ForceClose, RowAfterClose
    <2>6. IInv' /\ rec'[c] = s /\ \A d \in Ids \ {c} : rec'[d] = rec[d]
      BY <1>1, <1>2, <1>3, <1>4, <2>3, <2>4, <2>5, Typed, OneWrite DEF Past, Done
    <2>7. QED
      BY <1>4, <1>6, <2>4, <2>6, Uncommands DEF Good, Truthful, Onward, Done
  <1>7. QED
    BY <1>5, <1>6

LEMMA EndedCleanup ==
    ASSUME IInv, NEW c \in Ids, EndCleanup(c)
    PROVE  CleanupsLeave
  BY DEF EndCleanup, IInv, TypeOK, CleanupsLeave

LEMMA CloseStopsKeeps ==
    ASSUME IInv, NEW c \in Ids, CloseStops(c)
    PROVE  Good /\ Unasked
  <1>1. Queues' /\ NoCommandBut({})
    BY Typed, HeadEndsKeeps DEF CloseStops, AtHead, EndCleanup
  <1>2. QED
    BY <1>1, Typed, EndedCleanup, StayDrifts, Uncommands, DriftKeeps DEF CloseStops

LEMMA CloseFailsKeeps ==
    ASSUME IInv, NEW c \in Ids, CloseFails(c)
    PROVE  Good /\ Unasked
  <1>1. Queues' /\ NoCommandBut({})
    BY Typed, HeadEndsKeeps DEF CloseFails, AtHead, EndCleanup
  <1>2. QED
    BY <1>1, Typed, EndedCleanup, StayDrifts, Uncommands, DriftKeeps DEF CloseFails

LEMMA CloseNeedsNoCommandKeeps ==
    ASSUME IInv, NEW c \in Ids, CloseNeedsNoCommand(c)
    PROVE  Good /\ Unasked
  <1>1. jobs[RepositoryOf[c]] # <<>>
    BY DEF CloseNeedsNoCommand, AtHead
  <1>2. QED
    BY <1>1, Typed, FinishCloseIs, CleanupEnds DEF CloseNeedsNoCommand

LEMMA CloseFindsNoAgentKeeps ==
    ASSUME IInv, NEW c \in Ids, CloseFindsNoAgent(c)
    PROVE  Good /\ Unasked
  <1>1. jobs[RepositoryOf[c]] # <<>>
    BY DEF CloseFindsNoAgent, AtHead
  <1>2. CASE Put(c, FinishClose(rec[c], TRUE))
    BY <1>1, <1>2, Typed, FinishCloseIs, CleanupEnds DEF CloseFindsNoAgent
  <1>3. CASE UNCHANGED rec
    <2>1. Queues' /\ NoCommandBut({})
      BY <1>1, Typed, HeadEndsKeeps DEF CloseFindsNoAgent, EndCleanup
    <2>2. QED
      BY <1>3, <2>1, Typed, EndedCleanup, StayDrifts, Uncommands, DriftKeeps
         DEF CloseFindsNoAgent
  <1>4. QED
    BY <1>2, <1>3 DEF CloseFindsNoAgent

LEMMA CloseFindsAgentKeeps ==
    ASSUME IInv, NEW c \in Ids, CloseFindsAgent(c)
    PROVE  Good /\ Unasked
  <1>1. "reading" \in Steps
    BY DEF Steps
  <1>2. Queues' /\ NoCommandBut({})
    BY <1>1, Typed, HeadGoesKeeps DEF CloseFindsAgent
  <1>3. QED
    BY <1>2, Typed, StayDrifts, Uncommands, DriftKeeps DEF CloseFindsAgent

(* The one step that sends a command: its cleanup is live, so its record is not closed. *)
LEMMA CloseCommandsKeeps ==
    ASSUME IInv, NEW c \in Ids, CloseCommands(c)
    PROVE  Good /\ Unasked
  <1>1. "commanding" \in Steps /\ {"owned", "shared"} \subseteq Resource
    BY DEF Steps, Resource
  <1>2. Queues' /\ NoCommandBut({c})
    BY <1>1, Typed, HeadGoesKeeps DEF CloseCommands
  <1>3. rec[c].state # "closed"
    BY DEF CloseCommands, MayCommand, IInv, LiveCloses
  <1>4. Uncommanded
    <2>1. AtHead(c, "close", "reading") /\ ~AtHead(c, "open", "waiting")
      BY DEF CloseCommands, AtHead
    <2>2. ASSUME NEW d \in Ids \ {c} PROVE ~TakesOff(d)
      BY <1>2, <2>2 DEF NoCommandBut
    <2>3. QED
      BY <1>3, <2>1, <2>2 DEF TakesOff, Uncommanded
  <1>5. (IF rec[c].environment = "owned" THEN "shared" ELSE rec[c].environment) \in Resource
    BY <1>1, Typed DEF Record
  <1>6. AllDrift
    BY <1>5, Typed, StayDrifts, ResourceWrite, PutDrifts DEF CloseCommands
  <1>7. QED
    BY <1>2, <1>4, <1>6, Typed, DriftKeeps DEF CloseCommands

LEMMA CloseConfirmedKeeps ==
    ASSUME IInv, NEW c \in Ids, CloseConfirmed(c)
    PROVE  Good /\ Unasked
  <1> DEFINE k == Confirmed(rec[c])
             s == FinishClose(k, FALSE)
  <1>1. jobs[RepositoryOf[c]] # <<>> /\ agent' = [agent EXCEPT ![c] = Down]
    BY DEF CloseConfirmed, AtHead
  <1>2. AgentsStand /\ ~agent'[c].up
    BY <1>1, DownStands
  <1>3. k \in Record /\ Fits(k) /\ k.state = rec[c].state
    BY Typed, ConfirmedIs
  <1>4. /\ s \in Record /\ Fits(s)
        /\ s.state = IF rec[c].state = "closing" THEN "closed" ELSE rec[c].state
    BY <1>3, FinishCloseIs
  <1>5. CASE cleanup[c] = "live"
    <2>1. Put(c, s) /\ EndCleanup(c) /\ UNCHANGED <<row, opening, walk>>
      BY <1>5 DEF CloseConfirmed
    <2> HIDE DEF s
    <2>2. QED
      BY <1>1, <1>2, <1>4, <1>5, <2>1, CleanupEnds
  <1>6. CASE cleanup[c] # "live"
    <2>1. UNCHANGED rec
      BY <1>6 DEF CloseConfirmed, Put, IInv, TypeOK
    <2>2. Queues' /\ NoCommandBut({})
      BY <1>1, Typed, HeadEndsKeeps DEF CloseConfirmed, EndCleanup
    <2>3. QED
      BY <1>2, <2>1, <2>2, Typed, EndedCleanup, StayDrifts, Uncommands, DriftKeeps
         DEF CloseConfirmed
  <1>7. QED
    BY <1>5, <1>6

--------------------------------------------------------------------------------
(* The observation, and herdr. *)

LEMMA RowDoneLeaves ==
    ASSUME IInv, NEW c \in Ids, RowDone(c)
    PROVE  WalkLeaves
  <1> DEFINE left == [walk.rows EXCEPT ![c] = NoRow]
  <1>1. 0 \in Sequence
    BY BoundAssumption DEF BoundAssumption, Sequence
  <1>2. /\ NoRow \in Snapshot /\ NoRow.state = "none"
        /\ NoWalk \in Walk /\ \A d \in Ids : NoWalk.rows[d].state = "none"
    BY <1>1 DEF NoWalk, Walk, Down, Agent, NoRow, Snapshot
  <1>3. /\ walk.rows \in [Ids -> Snapshot] /\ walk.list \in [Ids -> Agent]
        /\ walk.phase \in {"idle", "listed", "walking"}
    BY Typed DEF Walk
  <1> HIDE DEF NoRow
  <1>4. left \in [Ids -> Snapshot] /\ left[c] = NoRow /\ \A d \in Ids \ {c} : left[d] = walk.rows[d]
    BY <1>2, <1>3
  <1>5. CASE walk' = NoWalk
    BY <1>2, <1>5 DEF WalkLeaves
  <1>6. CASE walk' = [walk EXCEPT !.rows = left, !.settling = {}]
    <2> HIDE DEF left
    <2>1. walk' \in Walk /\ walk'.rows = left
      BY <1>3, <1>4, <1>6, Typed DEF Walk
    <2>2. QED
      BY <1>2, <1>4, <2>1 DEF WalkLeaves
  <1>7. QED
    BY <1>5, <1>6 DEF RowDone

(* A row of the walk: its agent and its record have the types the writes need. *)
LEMMA RowTyped ==
    ASSUME IInv, NEW c \in Ids
    PROVE  /\ walk.list[c].sequence \in Sequence
           /\ walk.rows[c].state # "none" => rec[c].state \in Past
  BY Typed DEF Walk, Agent, IInv, WalkIsPast

LEMMA ObserveUnmatchedKeeps ==
    ASSUME IInv, NEW c \in Ids, ObserveUnmatched(c)
    PROVE  Good /\ Unasked
  <1>1. Queues' /\ NoCommandBut({})
    BY Typed, QueuesStay DEF ObserveUnmatched
  <1>2. Writes(rec[c], rec[c]) /\ Writes(rec[c], SetMissing(rec[c]))
    BY Typed, RowTyped, SetMissingIs DEF ObserveUnmatched, AtRow, Writes, Drifts
  <1>3. AllDrift
    BY <1>2, PutDrifts DEF ObserveUnmatched
  <1>4. QED
    BY <1>1, <1>3, Typed, RowDoneLeaves, Uncommands, DriftKeeps DEF ObserveUnmatched

LEMMA ObserveOpeningKeeps ==
    ASSUME IInv, NEW c \in Ids, ObserveOpening(c)
    PROVE  Good /\ Unasked
  <1>1. Queues' /\ NoCommandBut({})
    BY Typed, QueuesStay DEF ObserveOpening
  <1>2. AllDrift
    BY Typed, RecordHandlesIs, PutDrifts DEF ObserveOpening
  <1>3. QED
    BY <1>1, <1>2, Typed, RowDoneLeaves, Uncommands, DriftKeeps DEF ObserveOpening

LEMMA ObserveTurnKeeps ==
    ASSUME IInv, NEW c \in Ids, ObserveTurn(c)
    PROVE  Good /\ Unasked
  <1>1. Queues' /\ NoCommandBut({})
    BY Typed, QueuesStay DEF ObserveTurn
  <1>2. Writes(rec[c], rec[c]) /\ Writes(rec[c], ExternalTurn(rec[c], walk.list[c].sequence))
    BY Typed, RowTyped, ExternalTurnIs DEF Writes, Drifts
  <1>3. AllDrift
    BY <1>2, PutDrifts DEF ObserveTurn
  <1>4. WalkLeaves
    <2>1. CASE walk' = [walk EXCEPT !.settling = {c}]
      BY <2>1, Typed DEF Walk, WalkLeaves
    <2>2. QED
      BY <2>1, RowDoneLeaves DEF ObserveTurn
  <1>5. QED
    BY <1>1, <1>3, <1>4, Typed, Uncommands, DriftKeeps DEF ObserveTurn

LEMMA ObserveSettlesKeeps ==
    ASSUME IInv, NEW c \in Ids, ObserveSettles(c)
    PROVE  Good /\ Unasked
  <1>1. Queues' /\ NoCommandBut({})
    BY Typed, QueuesStay DEF ObserveSettles
  <1>2. /\ Writes(rec[c], rec[c])
        /\ rec[c].state = "working" =>
             Writes(rec[c], SettleTurn(rec[c], walk.list[c].sequence))
    BY Typed, RowTyped, SettleTurnIs DEF Writes, Drifts
  <1>3. AllDrift
    BY <1>2, PutDrifts DEF ObserveSettles
  <1>4. QED
    BY <1>1, <1>3, Typed, RowDoneLeaves, Uncommands, DriftKeeps DEF ObserveSettles

LEMMA WalkBegins ==
    ASSUME IInv, ObserveAgents \/ ObserveRecords \/ ObserveNothing
    PROVE  Good /\ Unasked
  <1>1. Queues' /\ NoCommandBut({})
    BY Typed, QueuesStay DEF ObserveAgents, ObserveRecords, ObserveNothing
  <1>2. 0 \in Sequence
    BY BoundAssumption DEF BoundAssumption, Sequence
  <1>3. /\ NoRow \in Snapshot /\ NoRow.state = "none"
        /\ NoWalk \in Walk /\ \A d \in Ids : NoWalk.rows[d].state = "none"
    BY <1>2 DEF NoWalk, Walk, Down, Agent, NoRow, Snapshot
  <1> HIDE DEF NoRow
  <1>4. CASE ObserveAgents
    <2>1. agent \in [Ids -> Agent]
      BY DEF IInv, TypeOK
    <2> HIDE DEF NoWalk
    <2>2. WalkLeaves
      BY <1>3, <1>4, <2>1 DEF ObserveAgents, Walk, WalkLeaves
    <2>3. QED
      BY <1>1, <1>4, <2>2, Typed, StayDrifts, Uncommands, DriftKeeps DEF ObserveAgents
  <1>5. CASE ObserveRecords
    <2> DEFINE seen == [c \in Ids |->
                 IF Reads(c)
                 THEN [state |-> rec[c].state, handles |-> rec[c].handles,
                       latest |-> rec[c].latest]
                 ELSE NoRow]
    <2>1. walk' = [walk EXCEPT !.phase = "walking", !.rows = seen]
      BY <1>5 DEF ObserveRecords
    <2>2. seen \in [Ids -> Snapshot]
      BY <1>3, Typed DEF Snapshot, Reads, Record
    <2>3. \A d \in Ids : seen[d].state # "none" => rec[d].state \in Past
      BY <1>3 DEF Reads, Past
    <2> HIDE DEF seen
    <2>4. WalkLeaves
      BY <2>1, <2>2, <2>3, Typed DEF Walk, WalkLeaves
    <2>5. QED
      BY <1>1, <1>5, <2>4, Typed, StayDrifts, Uncommands, DriftKeeps DEF ObserveRecords
  <1>6. CASE ObserveNothing
    <2>1. WalkLeaves
      BY <1>3, <1>6 DEF ObserveNothing, WalkLeaves
    <2>2. QED
      BY <1>1, <1>6, <2>1, Typed, StayDrifts, Uncommands, DriftKeeps DEF ObserveNothing
  <1>7. QED
    BY <1>4, <1>5, <1>6

LEMMA AgentMovesKeeps ==
    ASSUME IInv, NEW c \in Ids, AgentMoves(c)
    PROVE  Good /\ Unasked
  <1>1. Queues' /\ NoCommandBut({})
    BY Typed, QueuesStay DEF AgentMoves
  <1>2. AgentsStand
    <2>1. CASE agent' = [agent EXCEPT ![c] = Down]
      BY <2>1, DownStands
    <2>2. CASE /\ agent[c].sequence < MaxSequence
               /\ agent' = [agent EXCEPT ![c].busy = ~@, ![c].sequence = @ + 1]
      <3>1. (~agent[c].busy) \in BOOLEAN
        OBVIOUS
      <3>2. agent' = [agent EXCEPT ![c].busy = ~agent[c].busy, ![c].sequence = @ + 1]
        BY <2>2
      <3>3. QED
        BY <2>2, <3>1, <3>2, Moved
    <2>3. QED
      BY <2>1, <2>2 DEF AgentMoves
  <1>3. QED
    BY <1>1, <1>2, Typed, StayDrifts, Uncommands, DriftKeeps DEF AgentMoves

LEMMA StutterKeeps ==
    ASSUME IInv, UNCHANGED vars
    PROVE  Good /\ Unasked
  BY Typed, QueuesStay, StayDrifts, Uncommands, DriftKeeps DEF vars

--------------------------------------------------------------------------------
(* Every step. *)

LEMMA InitKeeps == Init => IInv
  <1> SUFFICES ASSUME Init PROVE IInv
    OBVIOUS
  <1>1. 0 \in Sequence /\ <<>> \in Seq(Sequence)
    BY BoundAssumption, EmptySeq DEF BoundAssumption, Sequence
  <1>2. Blank \in Record /\ Blank.state = "unborn" /\ Fits(Blank)
    BY <1>1 DEF Blank, Record, States, Resource, Fits
  <1>3. Down \in Agent
    BY <1>1 DEF Down, Agent
  <1>4. NoWalk \in Walk /\ \A d \in Ids : NoWalk.rows[d].state = "none"
    BY <1>1 DEF NoWalk, Walk, Down, Agent, NoRow, Snapshot
  <1> HIDE DEF Blank, Down, NoWalk
  <1>5. TypeOK
    BY <1>2, <1>3, <1>4, EmptySeq DEF Init, TypeOK
  <1>6. TailWaits
    BY EmptySeq DEF Init, TailWaits
  <1>7. QED
    BY <1>2, <1>4, <1>5, <1>6
       DEF Init, IInv, RecordsFit, RowWaits, WalkIsPast, LiveCloses

LEMMA WorksKeep ==
    ASSUME IInv, NEW c \in Ids, Works(c)
    PROVE  Good /\ Unasked
  BY OpeningBeginsKeeps, OpeningBuildsKeeps, AgentStartsKeeps, AgentRecordedKeeps,
     OpeningPromptsKeeps, OpeningFailsKeeps, ResponseBeginsKeeps, ResponseArrivesKeeps,
     CloseStopsKeeps, CloseFindsAgentKeeps, CloseCommandsKeeps
     DEF Works

LEMMA AnswersKeep ==
    ASSUME IInv, NEW c \in Ids, Answers(c)
    PROVE  Good /\ Unasked
  BY VerifyAgentKeeps, ResponseSettlesKeeps, CloseNeedsNoCommandKeeps,
     CloseFindsNoAgentKeeps, CloseConfirmedKeeps, CloseFailsKeeps
     DEF Answers

LEMMA ObservesKeeps ==
    ASSUME IInv, NEW c \in Ids, Observes(c)
    PROVE  Good /\ Unasked
  BY ObserveUnmatchedKeeps, ObserveOpeningKeeps, ObserveTurnKeeps, ObserveSettlesKeeps
     DEF Observes

LEMMA RecoversKeep ==
    ASSUME IInv, NEW c \in Ids, Recover(c) \/ ConfirmConflict(c)
    PROVE  Good /\ Unasked
  <1>1. \E kind \in {"open", "verify"} : OpensAgain(c, kind)
    BY DEF Recover, ConfirmConflict
  <1>2. QED
    BY <1>1, OpensAgainKeeps

LEMMA OperatorKeeps ==
    ASSUME IInv, NEW c \in Ids, Operator(c)
    PROVE  Good
  BY CreateKeeps, ScheduleKeeps, RemoveWorkItemKeeps, DeleteKeeps, BeginStartKeeps,
     PickupFailsKeeps, RecoversKeep, RespondKeeps, CloseKeeps, ForceCloseKeeps
     DEF Operator

LEMMA NextKeeps ==
    ASSUME IInv, [Next]_vars
    PROVE  Good
  <1>1. ASSUME NEW c \in Ids,
               Operator(c) \/ Runs(c) \/ OpeningSettles(c) \/ Observes(c)
               \/ AgentMoves(c) \/ PickupDiesBeforeTheRow(c)
        PROVE  Good
    BY <1>1, OperatorKeeps, WorksKeep, AnswersKeep, OpeningConflictsKeeps,
       OpeningSettlesKeeps, ObservesKeeps, AgentMovesKeeps, PickupDiesKeeps
       DEF Runs
  <1>2. ASSUME ObserveAgents \/ ObserveRecords \/ ObserveNothing \/ Restart
        PROVE  Good
    BY <1>2, WalkBegins, RestartKeeps
  <1>3. QED
    BY <1>1, <1>2, StutterKeeps DEF Next

(* The invariant of the records, for any Consultations and repositories. *)
THEOREM RecordsInvariant == Spec => []IInv
  <1>1. IInv /\ [Next]_vars => IInv'
    BY NextKeeps DEF Good
  <1>2. QED
    BY <1>1, InitKeeps, PTL DEF Spec

--------------------------------------------------------------------------------
(* Under the screen. *)

LEMMA ScreenSteps ==
    ASSUME [ScreenNext]_<<vars, screen>>
    PROVE  [Next]_vars
  <1>1. CASE UNCHANGED <<vars, screen>>
    BY <1>1
  <1>2. ASSUME NEW c \in Ids, Keys(c) PROVE [Next]_vars
    BY <1>2 DEF Keys, Ask, RecoveryKey, RecoverKey, RespondKey, CloseKey, RunClose,
       DeleteKey, Opens, Next, Operator
  <1>3. ASSUME NEW c \in Ids, Rows(c) PROVE [Next]_vars
    BY <1>3 DEF Rows, ChooseClose, ChooseForce, ConfirmForce, ChooseRecover,
       RecoveryCloses, RunClose, ConfirmDelete, ConfirmSafety, Opens, Next, Operator
  <1>4. ASSUME NEW c \in Ids,
               Dispatches(c) \/ OperationAnswers(c) \/ ConflictRaised(c) \/ WalkObserves(c)
               \/ Unseen(c) \/ PickupDiesBeforeTheRow(c)
        PROVE  Next
    BY <1>4 DEF Dispatches, OperationAnswers, ConflictRaised, WalkObserves, Unseen, Runs,
       Next, Operator
  <1>5. CASE CycleHistory \/ Dismiss
    BY <1>5 DEF CycleHistory, Dismiss, Opens
  <1>6. CASE ObserveAgents \/ ObserveRecords \/ ObserveNothing \/ Restart
    BY <1>6 DEF Next
  <1>7. QED
    BY <1>1, <1>2, <1>3, <1>4, <1>5, <1>6 DEF ScreenNext

(* A Consultation the screen shows without an agent has none now, however old the list: *)
(* nothing leads from there back to a live environment.                                *)
ShownIsDone == \A c \in Ids : shown[c] \in {"missing", "failed"} => rec[c].state \in Done

ScreenInv == IInv /\ ScreenTypeOK /\ ShownIsDone

(* What a step makes of the screen. *)
Draws ==
    /\ filter' \in Filters
    /\ panel' \in Panels \cup {NoPanel}
    /\ shown' = Listing(rec', filter') \/ shown' = shown

LEMMA RedrawDraws ==
    ASSUME NEW p \in Panels \cup {NoPanel}, RedrawWith(p), filter' \in Filters
    PROVE  Draws
  BY DEF RedrawWith, Draws

LEMMA OpensDraws ==
    ASSUME ScreenTypeOK, NEW p \in Panels \cup {NoPanel}, Opens(p)
    PROVE  Draws
  BY DEF Opens, Draws, ScreenTypeOK

LEMMA PanelTyped ==
    ASSUME NEW c \in Ids, NEW kind \in {"close", "recovery", "force", "delete", "safety"}
    PROVE  Panel(kind, c) \in Panels
  BY DEF Panel, Panels

LEMMA StepDraws ==
    ASSUME ScreenTypeOK, [ScreenNext]_<<vars, screen>>
    PROVE  Draws
  <1>1. /\ filter \in Filters /\ panel \in Panels \cup {NoPanel}
        /\ NoPanel \in Panels \cup {NoPanel} /\ "open" \in Filters
    BY DEF ScreenTypeOK, Filters
  <1> USE <1>1
  <1>2. UNCHANGED screen => Draws
    BY DEF screen, Draws
  <1>3. Redraw \/ Answered \/ Boots => Draws
    BY RedrawDraws DEF Redraw, Answered, Boots, Draws
  <1>4. ASSUME NEW c \in Ids, Keys(c) PROVE Draws
    <2>1. CASE Ask(c)
      BY <2>1, RedrawDraws DEF Ask
    <2>2. CASE RecoveryKey(c)
      BY <2>2, PanelTyped, OpensDraws DEF RecoveryKey
    <2>3. CASE RecoverKey(c) \/ RespondKey(c)
      BY <2>3, <1>2 DEF RecoverKey, RespondKey
    <2>4. CASE CloseKey(c)
      BY <2>4, <1>3, PanelTyped, OpensDraws DEF CloseKey, RunClose
    <2>5. CASE DeleteKey(c)
      BY <2>5, PanelTyped, OpensDraws DEF DeleteKey
    <2>6. QED
      BY <1>4, <2>1, <2>2, <2>3, <2>4, <2>5 DEF Keys
  <1>5. ASSUME NEW c \in Ids, Rows(c) PROVE Draws
    <2>1. CASE ChooseClose(c) \/ ConfirmForce(c) \/ ConfirmDelete(c)
      <3>1. panel' = NoPanel /\ UNCHANGED <<filter, shown>> => Draws
        BY DEF Draws
      <3>2. QED
        BY <2>1, <3>1, <1>3 DEF ChooseClose, ConfirmForce, ConfirmDelete
    <2>2. CASE ChooseForce(c)
      BY <2>2, PanelTyped, OpensDraws DEF ChooseForce
    <2>3. CASE ChooseRecover(c) \/ ConfirmSafety(c)
      BY <2>3 DEF ChooseRecover, ConfirmSafety, Draws
    <2>4. CASE RecoveryCloses(c)
      BY <2>4, <1>3, PanelTyped, OpensDraws DEF RecoveryCloses, RunClose
    <2>5. QED
      BY <1>5, <2>1, <2>2, <2>3, <2>4 DEF Rows
  <1>6. ASSUME NEW c \in Ids, ConflictRaised(c) PROVE Draws
    BY <1>6, PanelTyped, RedrawDraws DEF ConflictRaised
  <1>7. ASSUME NEW c \in Ids,
               Dispatches(c) \/ OperationAnswers(c) \/ WalkObserves(c) \/ Unseen(c)
        PROVE  Draws
    BY <1>7, <1>2, <1>3 DEF Dispatches, OperationAnswers, WalkObserves, Unseen
  <1>8. CASE CycleHistory
    <2>1. filter' \in Filters /\ RedrawWith(NoPanel)
      BY <1>8 DEF CycleHistory, Filters
    <2>2. QED
      BY <2>1, RedrawDraws
  <1>9. CASE Dismiss
    BY <1>9, OpensDraws DEF Dismiss
  <1>10. QED
    BY <1>2, <1>3, <1>4, <1>5, <1>6, <1>7, <1>8, <1>9 DEF ScreenNext

LEMMA ListingIs ==
    ASSUME IInv, NEW f, NEW c \in Ids
    PROVE  /\ Listing(rec, f) \in [Ids -> States \cup {"none"}]
           /\ Listing(rec, f)[c] \in {rec[c].state, "none"}
  BY Typed DEF Listing, Record

LEMMA ScreenInitKeeps == ScreenInit => ScreenInv
  <1> SUFFICES ASSUME ScreenInit PROVE ScreenInv
    OBVIOUS
  <1>1. IInv
    BY InitKeeps DEF ScreenInit
  <1>2. shown \in [Ids -> States \cup {"none"}]
    BY <1>1, ListingIs DEF ScreenInit, Listing, Lists
  <1>3. ShownIsDone
    <2> SUFFICES ASSUME NEW c \in Ids, shown[c] \in {"missing", "failed"}
        PROVE  rec[c].state \in Done
      BY DEF ShownIsDone
    <2>1. shown[c] \in {rec[c].state, "none"}
      BY <1>1, ListingIs DEF ScreenInit
    <2>2. QED
      BY <2>1 DEF Done
  <1>4. QED
    BY <1>1, <1>2, <1>3 DEF ScreenInit, ScreenInv, ScreenTypeOK, IInv, Filters

LEMMA ScreenKeeps ==
    ASSUME ScreenInv, [ScreenNext]_<<vars, screen>>
    PROVE  ScreenInv' /\ Good
  <1>1. Good
    BY ScreenSteps, NextKeeps DEF ScreenInv
  <1>2. Draws /\ IInv'
    BY <1>1, StepDraws DEF ScreenInv, Good
  <1>3. ASSUME NEW c \in Ids, shown'[c] \in {"missing", "failed"}
        PROVE  rec'[c].state \in Done
    <2>1. CASE shown' = Listing(rec', filter')
      <3>1. Listing(rec', filter')[c] \in {rec'[c].state, "none"}
        BY DEF Listing
      <3>2. QED
        BY <1>3, <2>1, <3>1 DEF Done
    <2>2. CASE shown' = shown
      BY <1>1, <1>3, <2>2 DEF ScreenInv, ShownIsDone, Good, Onward
    <2>3. QED
      BY <1>2, <2>1, <2>2 DEF Draws
  <1>4. ShownIsDone'
    BY <1>3 DEF ShownIsDone
  <1>5. shown' \in [Ids -> States \cup {"none"}]
    BY <1>2 DEF Draws, Listing, IInv, TypeOK, Record, ScreenInv, ScreenTypeOK
  <1>6. QED
    BY <1>1, <1>2, <1>4, <1>5 DEF ScreenInv, ScreenTypeOK, IInv, Draws

--------------------------------------------------------------------------------
(* The properties. *)

(* The invariant of the records and the screen over them. *)
THEOREM ScreenInvariant == ScreenSpec => []ScreenInv
  BY ScreenInitKeeps, ScreenKeeps, PTL DEF ScreenSpec

(* Records, queues, walk and screen keep their types, for any Consultations. *)
THEOREM TypeCorrect == ScreenSpec => []ScreenTypeOK
  <1>1. ScreenInv => ScreenTypeOK
    BY DEF ScreenInv
  <1>2. QED
    BY <1>1, ScreenInvariant, PTL

(* A record agrees with its turns and with the row of the Work queue. *)
THEOREM RecordsAgree == ScreenSpec => []RecordAgrees
  <1>1. ScreenInv => RecordAgrees
    BY EmptySeq DEF ScreenInv, IInv, RecordsFit, RowWaits, Fits, RecordAgrees
  <1>2. QED
    BY <1>1, ScreenInvariant, PTL

(* No cleanup commands behind a forced close, no queued opening begins behind a close, *)
(* and a close tells what it leaves behind.                                            *)
THEOREM ClosesHold == ScreenSpec => ClosedHolds
  <1> DEFINE A == \A c \in Ids :
          /\ rec[c].state = "closed" /\ AtHead(c, "close", "reading")
             => ~AtHead(c, "close", "commanding")'
          /\ rec[c].state \in {"closing", "closed"} /\ AtHead(c, "open", "waiting")
             => ~AtHead(c, "open", "building")'
          /\ /\ rec[c].state # "closed" /\ rec'[c].state = "closed"
             /\ rec[c].pane = "owned" \/ rec'[c].pane = "owned"
             => ~agent'[c].up \/ rec'[c].remaining
  <1>1. Good => A
    BY DEF Good, Uncommanded, Truthful
  <1>2. ScreenInv /\ [ScreenNext]_<<vars, screen>> => [A]_vars
    BY <1>1, ScreenKeeps
  <1>3. ClosedHolds <=> [][A]_vars
    BY PTL DEF ClosedHolds
  <1> HIDE DEF A
  <1>4. QED
    BY <1>2, <1>3, ScreenInvariant, PTL DEF ScreenSpec

(* What the operator's panels confirm, in one step. *)
Confirms == \A c \in Ids :
    /\ rec[c].state \in Observed /\ rec'[c].state = "closing" => panel = Panel("close", c)
    /\ /\ rec[c].state # "closed" /\ rec'[c].state = "closed"
       /\ cleanup[c] = "none" \/ cleanup'[c] = "cancelled"
       => panel = Panel("force", c)
    /\ rec[c].state # "deleted" /\ rec'[c].state = "deleted" => panel = Panel("delete", c)

LEMMA ConfirmsHolds ==
    ASSUME ScreenInv, [ScreenNext]_<<vars, screen>>
    PROVE  Confirms
  <1>1. IInv
    BY DEF ScreenInv
  <1>2. Unasked => Confirms
    BY DEF Unasked, Confirms
  <1>3. UNCHANGED vars => Confirms
    BY <1>1, <1>2, StutterKeeps
  <1>4. ASSUME NEW c \in Ids, Close(c), panel = Panel("close", c) \/ HasNoAgent(c)
        PROVE  Confirms
    <2>1. HasNoAgent(c) => rec[c].state \in Done
      BY DEF HasNoAgent, ScreenInv, ShownIsDone
    <2>2. HasNoAgent(c) => rec[c].state \notin Observed
      BY <2>1 DEF Done, Observed
    <2>3. rec'[c].state = "closing" /\ \A d \in Ids \ {c} : rec'[d] = rec[d]
      BY <1>1, <1>4, CloseKeeps
    <2>4. QED
      BY <1>4, <2>2, <2>3 DEF Confirms, Observed
  <1>5. ASSUME NEW c \in Ids, ForceClose(c), panel = Panel("force", c)
        PROVE  Confirms
    BY <1>1, <1>5, ForceCloseKeeps DEF Confirms, Observed
  <1>6. ASSUME NEW c \in Ids, Delete(c), panel = Panel("delete", c)
        PROVE  Confirms
    BY <1>1, <1>6, DeleteKeeps DEF Confirms, Observed
  <1>7. ASSUME NEW c \in Ids, Keys(c) PROVE Confirms
    <2>1. CASE RunClose(c)
      BY <2>1, <1>3, <1>4 DEF RunClose, Opens
    <2>2. QED
      BY <1>1, <1>2, <1>3, <1>7, <2>1, CreateKeeps, RecoversKeep, RespondKeeps
         DEF Keys, Ask, RecoveryKey, RecoverKey, RespondKey, CloseKey, DeleteKey, Opens
  <1>8. ASSUME NEW c \in Ids, Rows(c) PROVE Confirms
    <2>1. CASE RunClose(c)
      BY <2>1, <1>3, <1>4 DEF RunClose, Opens
    <2>2. QED
      BY <1>1, <1>2, <1>3, <1>4, <1>5, <1>6, <1>8, <2>1, RecoversKeep
         DEF Rows, ChooseClose, ChooseForce, ConfirmForce, ChooseRecover,
             RecoveryCloses, ConfirmDelete, ConfirmSafety, Chooses, Opens
  <1>9. ASSUME NEW c \in Ids,
               Dispatches(c) \/ OperationAnswers(c) \/ ConflictRaised(c) \/ WalkObserves(c)
               \/ Unseen(c) \/ PickupDiesBeforeTheRow(c)
        PROVE  Confirms
    BY <1>1, <1>2, <1>9, ScheduleKeeps, RemoveWorkItemKeeps, BeginStartKeeps,
       PickupFailsKeeps, AnswersKeep, OpeningSettlesKeeps, OpeningConflictsKeeps,
       ObservesKeeps, WorksKeep, AgentMovesKeeps, PickupDiesKeeps
       DEF Dispatches, OperationAnswers, ConflictRaised, WalkObserves, Unseen
  <1>10. CASE CycleHistory \/ Dismiss
    BY <1>3, <1>10 DEF CycleHistory, Dismiss, Opens
  <1>11. CASE ObserveAgents \/ ObserveRecords \/ ObserveNothing \/ Restart
    BY <1>1, <1>2, <1>11, WalkBegins, RestartKeeps
  <1>12. QED
    BY <1>3, <1>7, <1>8, <1>9, <1>10, <1>11 DEF ScreenNext

(* What cannot be taken back was asked for on that Consultation's own panel. *)
THEOREM ActsConfirmed == ScreenSpec => ActsAreConfirmed
  <1>1. ActsAreConfirmed <=> [][Confirms]_<<vars, screen>>
    BY PTL DEF ActsAreConfirmed, Confirms
  <1>2. ScreenInv /\ [ScreenNext]_<<vars, screen>> => [Confirms]_<<vars, screen>>
    BY ConfirmsHolds
  <1>3. QED
    BY <1>1, <1>2, ScreenInvariant, PTL DEF ScreenSpec
================================================================================
