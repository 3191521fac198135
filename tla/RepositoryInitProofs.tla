-------------------------- MODULE RepositoryInitProofs --------------------------
(***************************************************************************)
(* TypeOK, InitEndsWell and WritesLoseNothing of RepositoryInit, for every *)
(* number of repositories, acts, settings and commits.                     *)
(*                                                                         *)
(* The host only grows: a label stands and a commit stays where it is, so  *)
(* what an act saw of it stays true (Holds).  That what it saw is still    *)
(* all there is holds only for an act that nothing disturbed, which needs  *)
(* that two acts beside each other both count as disturbed (Beside).       *)
(* The config and its file agree but for the write at the queue's head,    *)
(* the only one that may be under way (Queued, Synced).                    *)
(*                                                                         *)
(* The bounds of TypeOK are counts of acts, which Bounded carries beside   *)
(* the rest.                                                               *)
(***************************************************************************)
EXTENDS RepositoryInit, SequenceTheorems, FiniteSetTheorems, NaturalsInduction,
        WellFoundedInduction, TLAPS

ConfigRecs == [settings : Settings, plane : [Repositories -> Nat],
               own : [Repositories -> {"none", "covers", "taken"}],
               mapped : SUBSET Repositories]
ActRecs == [pc : Steps, repo : Repositories \cup {NoRepo}, new : BOOLEAN,
            known : SUBSET Settings, base : Nat, commit : Nat, failed : BOOLEAN,
            tree : BOOLEAN, disturbed : BOOLEAN, loose : BOOLEAN]
JobRecs == [kind : {"init", "mapping"}, repo : Repositories, act : Acts \cup {0},
            begun : BOOLEAN, updated : ConfigRecs \cup {Unread}, text : ConfigRecs \cup {Unread}]

Typed ==
    /\ branch \in [Repositories -> Seq(BOOLEAN)]
    /\ labels \in [Repositories -> SUBSET Settings]
    /\ origin \in [Repositories -> Nat]
    /\ fact \in [Repositories -> [settings : Nat, commit : Nat]]
    /\ config \in ConfigRecs /\ file \in ConfigRecs
    /\ acts \in [Acts -> ActRecs]
    /\ jobs \in Seq(JobRecs)
    /\ unsaved \in BOOLEAN

(* The remote branch as the last fetch left it is a part of the branch. *)
Fetched == \A r \in Repositories : origin[r] \in 1..Len(branch[r])

(* What the act x knows, its worktree, and what of it was not answered. *)
Knows(x) ==
    /\ x.pc # "idle" => x.repo \in Repositories
    /\ x.pc \notin {"idle", "clean"} => ~x.failed
    /\ x.failed => x.disturbed
    /\ x.pc \in {"fetch", "list", "create", "tree"} => ~x.tree
    /\ x.pc \in {"idle", "write"} => (x.tree => x.loose)
Saw(x) ==
    /\ x.pc # "idle" => x.known \subseteq labels[x.repo]
    /\ x.pc \in {"tree", "stage", "push", "clean"} => Needs(config.settings) \subseteq x.known
    /\ x.pc = "create" => Missing(x) # {}
    /\ x.pc \in {"stage", "push"} => x.base \in 1..Len(branch[x.repo])
    /\ x.pc = "clean" /\ ~x.failed => /\ x.commit \in 1..Len(branch[x.repo])
                                      /\ branch[x.repo][x.commit]
(* An act that nothing disturbed saw all there is. *)
SawAll(x) ==
    /\ x.pc = "create" => x.known = labels[x.repo]
    /\ x.pc \in {"list", "create", "tree"} => origin[x.repo] = Len(branch[x.repo])
    /\ x.pc \in {"stage", "push"} => x.base = Len(branch[x.repo])
(* The repository of an act is listed, unless the act will list it or failed. *)
Lists(x) ==
    /\ x.pc # "idle" /\ ~x.new => Covered(config, x.repo)
    /\ x.pc = "idle" /\ x.repo # NoRepo /\ ~x.failed => Covered(config, x.repo)

Holds(x) == Knows(x) /\ Saw(x) /\ (~x.disturbed => SawAll(x)) /\ Lists(x)
Held == \A a \in Acts : Holds(acts[a])

Beside == \A a, b \in Acts :
    a # b /\ acts[a].pc # "idle" /\ acts[b].pc # "idle" /\ acts[a].repo = acts[b].repo =>
        acts[a].disturbed /\ acts[b].disturbed

Told == \A r \in Repositories : fact[r] # NoFact =>
    /\ fact[r].commit \in 1..Len(branch[r]) /\ branch[r][fact[r].commit]
    /\ Needs(fact[r].settings) \subseteq labels[r]

(* An init's write is of an act that waits for it, and of no other write's act. *)
JobHolds(j) == j.kind = "init" =>
    /\ j.act \in Acts /\ acts[j.act].pc = "write" /\ acts[j.act].repo = j.repo
    /\ j.begun => Covered(config, j.repo)
Queued ==
    /\ \A i \in 1..Len(jobs) : JobHolds(jobs[i])
    /\ \A i, k \in 1..Len(jobs) : jobs[i].kind = "init" /\ jobs[k].kind = "init" /\ i # k =>
         jobs[i].act # jobs[k].act
    /\ \A i \in 1..Len(jobs) : i # 1 => ~jobs[i].begun

Under == Len(jobs) > 0 /\ jobs[1].begun
Same(c, f) == (\A r \in Repositories : c.plane[r] > 0 => f.plane[r] > 0)
              /\ c.mapped \subseteq f.mapped
Synced ==
    /\ Under => /\ jobs[1].updated = config /\ jobs[1].text \in ConfigRecs
                /\ jobs[1].text.plane = file.plane /\ jobs[1].text.mapped = file.mapped
    /\ ~Under /\ ~unsaved => Same(config, file)

IInv == Typed /\ Fetched /\ Held /\ Beside /\ Told /\ Queued /\ Synced

LEMMA InitIInv == Init => IInv
  <1> SUFFICES ASSUME Init PROVE IInv
    OBVIOUS
  <1> USE InitAssumption DEF InitAssumption, Init
  <1>1. PICK own \in [Repositories -> {"none", "covers", "taken"}] :
          config = [settings |-> 1, plane |-> [r \in Repositories |-> 0], own |-> own,
                    mapped |-> {}]
    OBVIOUS
  <1>2. config \in ConfigRecs /\ file = config
    BY <1>1 DEF ConfigRecs, Settings
  <1>3. NoAct \in ActRecs
    BY DEF NoAct, ActRecs, Steps
  <1>4. <<FALSE>> \in Seq(BOOLEAN) /\ Len(<<FALSE>>) = 1
    OBVIOUS
  <1>5. Typed
    <2>1. branch \in [Repositories -> Seq(BOOLEAN)] /\ labels \in [Repositories -> SUBSET Settings]
      BY <1>4
    <2>2. origin \in [Repositories -> Nat] /\ acts \in [Acts -> ActRecs] /\ unsaved \in BOOLEAN
      BY <1>3
    <2>3. fact \in [Repositories -> [settings : Nat, commit : Nat]]
      BY DEF NoFact
    <2>4. jobs \in Seq(JobRecs)
      <3> HIDE DEF InitAssumption
      <3>1. jobs = <<>>
        OBVIOUS
      <3>2. QED
        BY <3>1
    <2>5. QED
      BY <1>2, <2>1, <2>2, <2>3, <2>4 DEF Typed
  <1>6. Fetched /\ Told
    BY <1>4 DEF Fetched, Told
  <1>7. Held /\ Beside
    BY DEF Held, Beside, Holds, Knows, Saw, SawAll, Lists, NoAct
  <1>8. Len(jobs) = 0
    OBVIOUS
  <1>9. Queued
    BY <1>8 DEF Queued
  <1>10. Synced
    BY <1>2, <1>8 DEF Synced, Under, Same
  <1>11. QED
    BY <1>5, <1>6, <1>7, <1>9, <1>10 DEF IInv

--------------------------------------------------------------------------------
(* What only grows. *)

Grows ==
    /\ \A r \in Repositories : labels[r] \subseteq labels'[r]
    /\ \A r \in Repositories : /\ Len(branch'[r]) \in Nat /\ Len(branch[r]) <= Len(branch'[r])
                               /\ \A c \in 1..Len(branch[r]) : branch'[r][c] = branch[r][c]
Adds ==
    /\ config'.settings = config.settings
    /\ \A r \in Repositories : Covered(config, r) => Covered(config', r)

(* An act that another's step leaves alone, or disturbs, keeps what it holds. *)
LEMMA Keeps ==
    ASSUME Typed, NEW a \in Acts, Holds(acts[a]), Grows, Adds,
           acts'[a] = acts[a] \/ acts'[a] = [acts[a] EXCEPT !.disturbed = TRUE],
           acts[a].pc # "idle" /\ ~acts'[a].disturbed =>
              LET r == acts[a].repo IN
              /\ labels'[r] = labels[r] /\ branch'[r] = branch[r]
              /\ origin'[r] \in {origin[r], Len(branch[r])}
    PROVE  Holds(acts[a])' /\ acts'[a] \in ActRecs
  <1> DEFINE x == acts[a]  y == acts'[a]
  <1>1. x \in ActRecs
    BY DEF Typed
  <1>2. /\ y \in ActRecs /\ y.pc = x.pc /\ y.repo = x.repo /\ y.new = x.new /\ y.known = x.known
        /\ y.base = x.base /\ y.commit = x.commit /\ y.failed = x.failed /\ y.tree = x.tree
        /\ y.loose = x.loose /\ (x.disturbed => y.disturbed)
    BY <1>1 DEF ActRecs
  <1>3. Knows(acts[a])'
    BY <1>1, <1>2 DEF Holds, Knows
  <1>4. x.pc # "idle" => x.repo \in Repositories
    BY DEF Holds, Knows
  <1>5. \A r \in Repositories : Len(branch[r]) \in Nat
    BY DEF Typed
  <1>6. Needs(config'.settings) = Needs(config.settings) /\ Missing(acts[a])' = Missing(acts[a])
    BY <1>2 DEF Adds, Missing, Needs
  <1>7. Saw(acts[a])'
    <2>1. Saw(x)
      BY DEF Holds
    <2>2. /\ y.pc # "idle" => y.known \subseteq labels'[y.repo]
          /\ y.pc \in {"tree", "stage", "push", "clean"} => Needs(config'.settings) \subseteq y.known
          /\ y.pc = "create" => Missing(acts[a])' # {}
      BY <1>2, <1>4, <1>6, <2>1 DEF Saw, Grows
    <2>3. ASSUME x.pc \in {"stage", "push"} PROVE x.base \in 1..Len(branch'[x.repo])
      BY <1>4, <1>5, <2>1, <2>3 DEF Saw, Grows
    <2>4. ASSUME x.pc = "clean", ~x.failed
          PROVE  x.commit \in 1..Len(branch'[x.repo]) /\ branch'[x.repo][x.commit]
      BY <1>4, <1>5, <2>1, <2>4 DEF Saw, Grows
    <2>5. QED
      BY <1>2, <2>2, <2>3, <2>4 DEF Saw
  <1>8. (~acts[a].disturbed => SawAll(acts[a]))'
    BY <1>1, <1>2, <1>4 DEF Holds, SawAll, ActRecs
  <1>9. x.repo # NoRepo => x.repo \in Repositories
    BY <1>1 DEF ActRecs
  <1>10. Lists(acts[a])'
    BY <1>1, <1>2, <1>4, <1>9 DEF Holds, Lists, Adds
  <1>11. QED
    BY <1>2, <1>3, <1>7, <1>8, <1>10 DEF Holds

(* A fact stays true. *)
LEMMA ToldKeeps ==
    ASSUME Typed, Told, Grows, NEW r \in Repositories, fact'[r] = fact[r]
    PROVE  fact'[r] # NoFact =>
             /\ fact'[r].commit \in 1..Len(branch'[r]) /\ branch'[r][fact'[r].commit]
             /\ Needs(fact'[r].settings) \subseteq labels'[r]
  <1>1. Len(branch[r]) \in Nat
    BY DEF Typed
  <1>2. QED
    BY <1>1 DEF Typed, Told, Grows

(* The writes wait as they did, when no step touches them, the config or an act *)
(* that waits for one.                                                          *)
LEMMA QueueKeeps ==
    ASSUME Typed, Queued, Synced, UNCHANGED <<config, file, jobs, unsaved>>,
           \A b \in Acts : acts[b].pc = "write" => acts'[b].pc = "write" /\ acts'[b].repo = acts[b].repo
    PROVE  Queued' /\ Synced'
  <1>1. Synced'
    BY DEF Synced, Under, Same
  <1>2. ASSUME NEW i \in 1..Len(jobs) PROVE JobHolds(jobs[i])'
    BY DEF Queued, JobHolds, Covered
  <1>3. Queued'
    BY <1>2 DEF Queued
  <1>4. QED
    BY <1>1, <1>3

(* A step of the act a, before its cleanup. *)
LEMMA ActSteps ==
    ASSUME IInv, NEW a \in Acts, acts[a].pc \notin {"idle", "write"},
           NEW y \in ActRecs, acts' = [acts EXCEPT ![a] = y],
           y.repo = acts[a].repo, acts[a].disturbed => y.disturbed, y.pc # "write",
           Holds(acts[a])',
           branch' \in [Repositories -> Seq(BOOLEAN)],
           labels' \in [Repositories -> SUBSET Settings],
           Grows,
           \A r \in Repositories : r # acts[a].repo =>
              labels'[r] = labels[r] /\ branch'[r] = branch[r],
           origin' \in [Repositories -> Nat],
           \A r \in Repositories : origin'[r] \in {origin[r], Len(branch[r])},
           UNCHANGED <<fact, config, file, jobs, unsaved>>
    PROVE  IInv'
  <1> USE DEF IInv
  <1>1. Typed'
    BY DEF Typed
  <1>2. \A r \in Repositories : Len(branch[r]) \in Nat /\ Len(branch'[r]) \in Nat
    BY DEF Typed
  <1>3. Fetched'
    BY <1>2 DEF Fetched, Grows
  <1>4. Told'
    <2>1. \A r \in Repositories : fact'[r] = fact[r]
      OBVIOUS
    <2>2. QED
      BY <2>1, ToldKeeps DEF Told
  <1>5. acts'[a] = y /\ \A b \in Acts : b # a => acts'[b] = acts[b]
    BY DEF Typed
  <1>6. Adds
    BY DEF Adds, Covered
  <1>7. ASSUME NEW b \in Acts, b # a PROVE Holds(acts[b])'
    <2>1. acts[b].pc # "idle" => acts[b].repo \in Repositories
      BY DEF Held, Holds, Knows
    <2>2. acts[b].pc # "idle" /\ ~acts'[b].disturbed => acts[b].repo # acts[a].repo
      BY <1>5, <1>7 DEF Beside
    <2>3. QED
      BY <1>5, <1>6, <1>7, <2>1, <2>2, Keeps DEF Held
  <1>8. Held'
    BY <1>7 DEF Held
  <1>9. Beside'
    BY <1>5 DEF Beside
  <1>10. Queued' /\ Synced'
    BY <1>5, QueueKeeps
  <1>11. QED
    BY <1>1, <1>3, <1>4, <1>8, <1>9, <1>10

(* The screen's steps read the branch again, or nothing. *)
LEMMA ScreenIInv ==
    ASSUME IInv, UNCHANGED <<host, fact, file, config, acts, jobs, unsaved>>,
           origin' = origin \/ \E r \in Repositories : origin' = [origin EXCEPT ![r] = Len(branch[r])]
    PROVE  IInv'
  <1> USE DEF IInv, host
  <1>1. \A r \in Repositories : Len(branch[r]) \in Nat
    BY DEF Typed
  <1>2. /\ origin' \in [Repositories -> Nat]
        /\ \A r \in Repositories : origin'[r] \in {origin[r], Len(branch[r])}
    BY <1>1 DEF Typed
  <1>3. Typed'
    BY <1>2 DEF Typed
  <1>4. Fetched'
    BY <1>1, <1>2 DEF Fetched
  <1>5. Grows /\ Adds
    BY <1>1 DEF Grows, Adds, Covered
  <1>6. Told' /\ Beside'
    BY DEF Told, Beside
  <1>7. ASSUME NEW b \in Acts PROVE Holds(acts[b])'
    <2>1. acts[b].pc # "idle" => acts[b].repo \in Repositories
      BY DEF Held, Holds, Knows
    <2>2. QED
      BY <1>2, <1>5, <2>1, Keeps DEF Held
  <1>8. Held'
    BY <1>7 DEF Held
  <1>9. Queued' /\ Synced'
    BY QueueKeeps
  <1>10. QED
    BY <1>3, <1>4, <1>6, <1>8, <1>9

(* A confirmed act begins: it and the acts beside it count as disturbed. *)
LEMMA ConfirmIInv ==
    ASSUME IInv, NEW a \in Acts, Confirm(a)
    PROVE  IInv'
  <1> DEFINE r == screen.panel
             beside == {b \in Acts : acts[b].pc # "idle" /\ acts[b].repo = r}
  <1> USE DEF IInv
  <1>1. /\ r \in Repositories /\ acts[a].pc = "idle"
        /\ UNCHANGED <<branch, labels, origin, fact, file, config, jobs, unsaved>>
    BY DEF Confirm, host
  <1>2. CASE acts' = acts
    BY <1>1, <1>2, ScreenIInv DEF host
  <1>3. CASE acts' # acts
    <2>1. acts' = [b \in Acts |->
                 IF b = a THEN [NoAct EXCEPT !.pc = "fetch", !.repo = r,
                                  !.new = ~Covered(config, r), !.disturbed = beside # {}]
                 ELSE [acts[b] EXCEPT !.disturbed = @ \/ b \in beside]]
      BY <1>3 DEF Confirm
    <2> HIDE DEF beside
    <2>2. acts'[a] = [pc |-> "fetch", repo |-> r, new |-> ~Covered(config, r), known |-> {},
                      base |-> 0, commit |-> 0, failed |-> FALSE, tree |-> FALSE,
                      disturbed |-> beside # {}, loose |-> FALSE]
      BY <2>1 DEF NoAct
    <2>3. (~Covered(config, r)) \in BOOLEAN /\ (beside # {}) \in BOOLEAN
      OBVIOUS
    <2>4. acts'[a] \in ActRecs
      BY <1>1, <2>2, <2>3 DEF ActRecs, Steps
    <2>4a. /\ acts'[a].pc = "fetch" /\ acts'[a].repo = r /\ acts'[a].known = {}
           /\ acts'[a].failed = FALSE /\ acts'[a].tree = FALSE
           /\ acts'[a].new = ~Covered(config, r) /\ acts'[a].disturbed = (beside # {})
      BY <2>2
    <2>5. ASSUME NEW b \in Acts, b # a
          PROVE  /\ acts'[b].pc = acts[b].pc /\ acts'[b].repo = acts[b].repo
                 /\ acts[b].disturbed => acts'[b].disturbed
                 /\ b \in beside => acts'[b].disturbed
                 /\ acts'[b] = acts[b] \/ acts'[b] = [acts[b] EXCEPT !.disturbed = TRUE]
      <3>1. acts[b] \in ActRecs
        BY DEF Typed
      <3>2. acts'[b] = [acts[b] EXCEPT !.disturbed = @ \/ b \in beside]
        BY <2>1, <2>5
      <3>3. CASE b \in beside
        BY <3>1, <3>2, <3>3 DEF ActRecs
      <3>4. CASE b \notin beside
        BY <3>1, <3>2, <3>4 DEF ActRecs
      <3>5. QED
        BY <3>3, <3>4
    <2>6. Grows /\ Adds
      BY <1>1 DEF Grows, Adds, Covered, Typed
    <2>7. ASSUME NEW b \in Acts, b # a PROVE Holds(acts[b])' /\ acts'[b] \in ActRecs
      <3>1. acts[b].pc # "idle" => acts[b].repo \in Repositories
        BY DEF Held, Holds, Knows
      <3>2. QED
        BY <1>1, <2>5, <2>6, <2>7, <3>1, Keeps DEF Held
    <2>8. Holds(acts[a])'
      BY <1>1, <2>4a DEF Holds, Knows, Saw, SawAll, Lists, Covered
    <2>9. Typed'
      <3>1. acts' \in [Acts -> ActRecs]
        BY <2>1, <2>4, <2>7
      <3>2. QED
        BY <1>1, <3>1 DEF Typed
    <2>10. Held'
      BY <2>7, <2>8 DEF Held
    <2>11. Beside'
      <3> SUFFICES ASSUME NEW b \in Acts, NEW c \in Acts, b # c, acts'[b].pc # "idle",
                          acts'[c].pc # "idle", acts'[b].repo = acts'[c].repo
                   PROVE  acts'[b].disturbed
        BY DEF Beside
      <3>1. CASE b # a /\ c # a
        BY <2>5, <3>1, ZenonT(60) DEF Beside
      <3>2. CASE b = a
        <4>1. acts[c].pc # "idle" /\ acts[c].repo = r
          BY <2>4a, <2>5, <3>2
        <4>2. beside # {}
          BY <4>1 DEF beside
        <4>3. QED
          BY <2>4a, <3>2, <4>2
      <3>3. CASE c = a
        <4>1. b # a /\ acts[b].pc # "idle" /\ acts[b].repo = r
          BY <2>4a, <2>5, <3>3
        <4>2. b \in beside
          BY <4>1 DEF beside
        <4>3. QED
          BY <2>5, <4>1, <4>2
      <3>4. QED
        BY <3>1, <3>2, <3>3
    <2>12. Fetched' /\ Told'
      BY <1>1 DEF Fetched, Told
    <2>13. Queued' /\ Synced'
      <3>1. \A b \in Acts : acts[b].pc = "write" =>
               acts'[b].pc = "write" /\ acts'[b].repo = acts[b].repo
        BY <1>1, <2>5
      <3>2. QED
        BY <1>1, <3>1, QueueKeeps
    <2>14. QED
      BY <2>9, <2>10, <2>11, <2>12, <2>13
  <1>4. QED
    BY <1>2, <1>3

(* The least label that is missing. *)
LEMMA LeastMissing ==
    ASSUME NEW S \in SUBSET Nat, S # {}
    PROVE  (CHOOSE l \in S : \A k \in S : l <= k) \in S
  <1> DEFINE R == OpToRel(<, Nat)
  <1>1. \E p \in S : \A o \in S : <<o, p>> \notin R
    <2> HIDE DEF R
    <2>1. IsWellFoundedOn(R, Nat)
      BY NatLessThanWellFounded DEF R
    <2>2. QED
      BY <2>1, WFMin
  <1>2. ASSUME NEW o \in Nat, NEW p \in Nat, o < p
        PROVE  <<o, p>> \in R
    BY <1>2 DEF OpToRel
  <1> HIDE DEF R
  <1>3. PICK p \in S : \A o \in S : <<o, p>> \notin R
    BY <1>1
  <1>4. \A o \in S : ~(o < p)
    BY <1>2, <1>3
  <1>5. \A o \in S : p <= o
    BY <1>4
  <1>6. QED
    BY <1>5

--------------------------------------------------------------------------------
(* The commands of an act. *)

(* What every command's step leaves as it was, and what becomes of the act. *)
LEMMA CommandRec ==
    ASSUME Typed, NEW a \in Acts, NEW rec \in ActRecs, NEW answer, Goes(a, rec, answer)
    PROVE  /\ acts' = [acts EXCEPT ![a] = acts'[a]] /\ acts'[a] \in ActRecs
           /\ acts'[a].pc = rec.pc /\ acts'[a].repo = rec.repo /\ acts'[a].new = rec.new
           /\ acts'[a].known = rec.known /\ acts'[a].base = rec.base
           /\ acts'[a].commit = rec.commit /\ acts'[a].failed = rec.failed
           /\ acts'[a].tree = rec.tree /\ acts'[a].loose = rec.loose
           /\ acts'[a].disturbed = (rec.disturbed \/ answer # "ok")
  <1>1. acts' = [acts EXCEPT ![a] = [rec EXCEPT !.disturbed = @ \/ answer # "ok"]]
    BY DEF Goes
  <1>2. (rec.disturbed \/ answer # "ok") \in BOOLEAN
    OBVIOUS
  <1>3. [rec EXCEPT !.disturbed = @ \/ answer # "ok"] \in ActRecs
    BY <1>2 DEF ActRecs
  <1>4. acts'[a] = [rec EXCEPT !.disturbed = @ \/ answer # "ok"]
    BY <1>1 DEF Typed
  <1>5. QED
    BY <1>1, <1>2, <1>3, <1>4, ZenonT(60) DEF ActRecs

LEMMA FetchIInv ==
    ASSUME IInv, NEW a \in Acts, Fetch(a)
    PROVE  IInv'
  <1> DEFINE x == acts[a]  r == x.repo
  <1>1. PICK answer \in {"ok", "refused", "lost"} :
          /\ Goes(a, IF answer = "ok" THEN [x EXCEPT !.pc = "list"] ELSE Fails(a, x), answer)
          /\ origin' = IF answer = "refused" THEN origin
                       ELSE [origin EXCEPT ![r] = Len(branch[r])]
    BY DEF Fetch
  <1>2. /\ x.pc = "fetch" /\ x \in ActRecs /\ r \in Repositories /\ Holds(x)
        /\ UNCHANGED <<branch, labels, fact, file, config, jobs, unsaved>>
    BY DEF Fetch, At, host, IInv, Typed, Held, Holds, Knows
  <1> DEFINE rec == IF answer = "ok" THEN [x EXCEPT !.pc = "list"] ELSE Fails(a, x)
  <1>3. rec \in ActRecs
    BY <1>2 DEF ActRecs, Steps, Fails
  <1>4. /\ rec.pc = IF answer = "ok" THEN "list" ELSE "idle"
        /\ rec.failed = IF answer = "ok" THEN x.failed ELSE TRUE
        /\ rec.repo = r /\ rec.new = x.new /\ rec.known = x.known
        /\ rec.tree = x.tree /\ rec.disturbed = x.disturbed
    BY <1>2 DEF ActRecs, Fails
  <1>5. Typed /\ Goes(a, rec, answer)
    BY <1>1 DEF IInv
  <1> HIDE DEF rec
  <1>6. /\ acts' = [acts EXCEPT ![a] = acts'[a]] /\ acts'[a] \in ActRecs
        /\ acts'[a].pc = rec.pc /\ acts'[a].repo = r /\ acts'[a].new = x.new
        /\ acts'[a].known = x.known /\ acts'[a].failed = rec.failed /\ acts'[a].tree = x.tree
        /\ acts'[a].disturbed = (x.disturbed \/ answer # "ok")
    BY <1>3, <1>4, <1>5, CommandRec
  <1>7. \A s \in Repositories : Len(branch[s]) \in Nat
    BY <1>5 DEF Typed
  <1>8. /\ origin' \in [Repositories -> Nat]
        /\ \A s \in Repositories : origin'[s] \in {origin[s], Len(branch[s])}
        /\ answer = "ok" => origin'[r] = Len(branch[r])
    BY <1>1, <1>2, <1>5, <1>7 DEF Typed
  <1>9. Holds(acts[a])'
    BY <1>2, <1>4, <1>6, <1>8 DEF Holds, Knows, Saw, SawAll, Lists, Covered
  <1>10. Grows
    BY <1>2, <1>7 DEF Grows
  <1>11. acts'[a].pc # "write"
    BY <1>4, <1>6
  <1>12. QED
    BY <1>2, <1>5, <1>6, <1>8, <1>9, <1>10, <1>11, ActSteps DEF Typed

(* A step that leaves the branches and what was fetched of them as they are. *)
LEMMA HostStill ==
    ASSUME IInv, NEW a \in Acts, NEW rec \in ActRecs, NEW answer, Goes(a, rec, answer),
           acts[a].pc \notin {"idle", "write"}, rec.pc # "write",
           rec.repo = acts[a].repo, rec.disturbed = acts[a].disturbed, Holds(acts[a])',
           labels' \in [Repositories -> SUBSET Settings],
           \A s \in Repositories : labels[s] \subseteq labels'[s],
           \A s \in Repositories : s # acts[a].repo => labels'[s] = labels[s],
           UNCHANGED <<branch, origin, fact, file, config, jobs, unsaved>>
    PROVE  IInv'
  <1>1. Typed
    BY DEF IInv
  <1>2. /\ acts' = [acts EXCEPT ![a] = acts'[a]] /\ acts'[a] \in ActRecs
        /\ acts'[a].pc # "write" /\ acts'[a].repo = acts[a].repo
        /\ acts[a].disturbed => acts'[a].disturbed
    BY <1>1, CommandRec
  <1>3. \A s \in Repositories : Len(branch[s]) \in Nat
    BY <1>1 DEF Typed
  <1>4. Grows
    BY <1>3 DEF Grows
  <1>5. QED
    BY <1>1, <1>2, <1>4, ActSteps DEF Typed

LEMMA ListLabelsIInv ==
    ASSUME IInv, NEW a \in Acts, ListLabels(a)
    PROVE  IInv'
  <1> DEFINE x == acts[a]  r == x.repo
  <1>1. PICK answer \in {"ok", "unreadable", "refused"} :
          LET names == IF answer = "ok" THEN labels[r] ELSE {} IN
          Goes(a, IF answer = "refused" THEN Fails(a, x) ELSE ToLabels([x EXCEPT !.known = names]),
               answer)
    BY DEF ListLabels
  <1>2. /\ x.pc = "list" /\ x \in ActRecs /\ r \in Repositories /\ Holds(x)
        /\ UNCHANGED <<branch, labels, origin, fact, file, config, jobs, unsaved>>
        /\ labels[r] \subseteq Settings
    BY DEF ListLabels, At, host, IInv, Typed, Held, Holds, Knows
  <1> DEFINE names == IF answer = "ok" THEN labels[r] ELSE {}
             rec == IF answer = "refused" THEN Fails(a, x) ELSE ToLabels([x EXCEPT !.known = names])
  <1>3. rec \in ActRecs
    BY <1>2 DEF ActRecs, Steps, Fails, ToLabels
  <1>4. /\ rec.failed = IF answer = "refused" THEN TRUE ELSE x.failed
        /\ rec.known = IF answer = "refused" THEN x.known ELSE names
        /\ rec.pc = IF answer = "refused" THEN "idle"
                    ELSE IF Needs(config.settings) \ names = {} THEN "tree" ELSE "create"
        /\ rec.repo = r /\ rec.new = x.new
        /\ rec.tree = x.tree /\ rec.disturbed = x.disturbed
    BY <1>2 DEF ActRecs, Fails, ToLabels, Missing
  <1>5. Typed /\ Goes(a, rec, answer)
    BY <1>1 DEF IInv
  <1> HIDE DEF rec
  <1>6. /\ acts'[a].pc = rec.pc /\ acts'[a].repo = r /\ acts'[a].new = x.new
        /\ acts'[a].known = rec.known /\ acts'[a].failed = rec.failed /\ acts'[a].tree = x.tree
        /\ acts'[a].disturbed = (x.disturbed \/ answer # "ok")
    BY <1>3, <1>4, <1>5, CommandRec
  <1>7. Knows(acts[a])'
    BY <1>2, <1>4, <1>6 DEF Holds, Knows
  <1>8. Saw(acts[a])'
    BY <1>2, <1>4, <1>6 DEF Holds, Saw, Missing
  <1>9. (~acts[a].disturbed => SawAll(acts[a]))'
    BY <1>2, <1>4, <1>6 DEF Holds, SawAll
  <1>10. Lists(acts[a])'
    BY <1>2, <1>4, <1>6 DEF Holds, Lists, Covered
  <1>11. Holds(acts[a])'
    BY <1>7, <1>8, <1>9, <1>10 DEF Holds
  <1>12. rec.pc # "write"
    BY <1>4
  <1>13. QED
    BY <1>2, <1>3, <1>4, <1>5, <1>11, <1>12, HostStill DEF Typed

(* An act that nothing disturbed creates a label that does not stand. *)
LEMMA CreateLabelIInv ==
    ASSUME IInv, NEW a \in Acts, CreateLabel(a)
    PROVE  IInv'
  <1> DEFINE x == acts[a]  r == x.repo
             l == CHOOSE l \in Missing(x) : \A k \in Missing(x) : l <= k
  <1>1. PICK answer \in {"ok", "refused", "lost"} :
          LET made == l \notin labels[r] /\ answer # "refused"
              rec == IF made /\ answer = "ok"
                     THEN ToLabels([x EXCEPT !.known = @ \cup {l}])
                     ELSE Fails(a, x) IN
          /\ Goes(a, rec, answer)
          /\ labels' = IF made THEN [labels EXCEPT ![r] = @ \cup {l}] ELSE labels
    BY DEF CreateLabel
  <1>2. /\ x.pc = "create" /\ x \in ActRecs /\ r \in Repositories /\ Holds(x)
        /\ UNCHANGED <<branch, origin, fact, file, config, jobs, unsaved>>
        /\ labels[r] \subseteq Settings /\ config.settings \in Settings
    BY DEF CreateLabel, At, host, IInv, Typed, Held, Holds, Knows, ConfigRecs
  <1>3. l \in Settings /\ l \notin x.known
    <2>1. Missing(x) # {}
      BY <1>2 DEF Holds, Saw
    <2>2. Missing(x) \in SUBSET Nat /\ Missing(x) \subseteq Settings /\ Missing(x) \cap x.known = {}
      BY <1>2, InitAssumption DEF InitAssumption, Missing, Needs, Settings
    <2>3. l \in Missing(x)
      BY <2>1, <2>2, LeastMissing
    <2>4. QED
      BY <2>2, <2>3
  <1> DEFINE made == l \notin labels[r] /\ answer # "refused"
             rec == IF made /\ answer = "ok" THEN ToLabels([x EXCEPT !.known = @ \cup {l}])
                    ELSE Fails(a, x)
  <1> HIDE DEF l
  <1>4. rec \in ActRecs
    <2>1. x.known \cup {l} \subseteq Settings
      BY <1>2, <1>3 DEF ActRecs
    <2>2. QED
      BY <1>2, <2>1 DEF ActRecs, Steps, Fails, ToLabels
  <1>5. /\ rec.failed = IF made /\ answer = "ok" THEN x.failed ELSE TRUE
        /\ rec.known = IF made /\ answer = "ok" THEN x.known \cup {l} ELSE x.known
        /\ rec.pc = IF ~(made /\ answer = "ok") THEN "idle"
                    ELSE IF Needs(config.settings) \ (x.known \cup {l}) = {} THEN "tree" ELSE "create"
        /\ rec.repo = r /\ rec.new = x.new
        /\ rec.tree = x.tree /\ rec.disturbed = x.disturbed
    BY <1>2 DEF ActRecs, Fails, ToLabels, Missing
  <1>6. /\ Typed /\ Goes(a, rec, answer)
        /\ labels' = IF made THEN [labels EXCEPT ![r] = @ \cup {l}] ELSE labels
    BY <1>1 DEF IInv
  <1> HIDE DEF rec
  <1>7. /\ acts'[a].pc = rec.pc /\ acts'[a].repo = r /\ acts'[a].new = x.new
        /\ acts'[a].known = rec.known /\ acts'[a].failed = rec.failed /\ acts'[a].tree = x.tree
        /\ acts'[a].disturbed = (x.disturbed \/ answer # "ok")
    BY <1>4, <1>5, <1>6, CommandRec
  <1>8. /\ labels' \in [Repositories -> SUBSET Settings]
        /\ \A s \in Repositories : labels[s] \subseteq labels'[s]
        /\ \A s \in Repositories : s # r => labels'[s] = labels[s]
        /\ labels'[r] = IF made THEN labels[r] \cup {l} ELSE labels[r]
    BY <1>2, <1>3, <1>6 DEF Typed
  <1>9. x.disturbed \/ answer # "ok" \/ made
    BY <1>2, <1>3 DEF Holds, SawAll
  <1> HIDE DEF made
  <1>10. Knows(acts[a])'
    BY <1>2, <1>5, <1>7, <1>9 DEF Holds, Knows
  <1>11. Saw(acts[a])'
    BY <1>2, <1>5, <1>7, <1>8 DEF Holds, Saw, Missing
  <1>12. (~acts[a].disturbed => SawAll(acts[a]))'
    BY <1>2, <1>5, <1>7, <1>8 DEF Holds, SawAll
  <1>13. Lists(acts[a])'
    BY <1>2, <1>5, <1>7 DEF Holds, Lists, Covered
  <1>14. Holds(acts[a])'
    BY <1>10, <1>11, <1>12, <1>13 DEF Holds
  <1>15. rec.pc # "write"
    BY <1>5
  <1>16. QED
    BY <1>2, <1>4, <1>5, <1>6, <1>8, <1>14, <1>15, HostStill

(* The worktree stands on the branch as it was fetched. *)
LEMMA OpenTreeIInv ==
    ASSUME IInv, NEW a \in Acts, OpenTree(a)
    PROVE  IInv'
  <1> DEFINE x == acts[a]  r == x.repo
  <1>1. PICK answer \in {"ok", "refused", "lost"} :
          LET stands == [x EXCEPT !.base = origin[r],
                                  !.tree = answer # "refused", !.loose = answer = "lost"] IN
          Goes(a, IF answer = "ok" THEN [stands EXCEPT !.pc = "stage"] ELSE Fails(a, stands), answer)
    BY DEF OpenTree
  <1>2. /\ x.pc = "tree" /\ x \in ActRecs /\ r \in Repositories /\ Holds(x)
        /\ UNCHANGED <<branch, labels, origin, fact, file, config, jobs, unsaved>>
        /\ origin[r] \in Nat /\ origin[r] \in 1..Len(branch[r])
    BY DEF OpenTree, At, host, IInv, Typed, Fetched, Held, Holds, Knows
  <1> DEFINE stands == [x EXCEPT !.base = origin[r],
                                 !.tree = answer # "refused", !.loose = answer = "lost"]
             rec == IF answer = "ok" THEN [stands EXCEPT !.pc = "stage"] ELSE Fails(a, stands)
  <1>3. (answer # "refused") \in BOOLEAN /\ (answer = "lost") \in BOOLEAN
    OBVIOUS
  <1>4. stands \in ActRecs
    BY <1>2, <1>3 DEF ActRecs
  <1>5. /\ stands.base = origin[r] /\ stands.tree = (answer # "refused")
        /\ stands.loose = (answer = "lost") /\ stands.repo = r /\ stands.new = x.new
        /\ stands.known = x.known /\ stands.failed = x.failed /\ stands.disturbed = x.disturbed
    BY <1>2 DEF ActRecs
  <1> HIDE DEF stands
  <1>6. rec \in ActRecs
    BY <1>4 DEF ActRecs, Steps, Fails
  <1>7. /\ rec.pc = IF answer = "ok" THEN "stage" ELSE "idle"
        /\ rec.failed = IF answer = "ok" THEN x.failed ELSE TRUE
        /\ rec.base = origin[r] /\ rec.tree = (answer # "refused") /\ rec.loose = (answer = "lost")
        /\ rec.repo = r /\ rec.new = x.new /\ rec.known = x.known /\ rec.disturbed = x.disturbed
    BY <1>4, <1>5 DEF ActRecs, Fails
  <1>8. Typed /\ Goes(a, rec, answer)
    BY <1>1 DEF IInv, stands
  <1> HIDE DEF rec
  <1>9. /\ acts'[a].pc = rec.pc /\ acts'[a].repo = r /\ acts'[a].new = x.new
        /\ acts'[a].known = x.known /\ acts'[a].failed = rec.failed
        /\ acts'[a].base = origin[r] /\ acts'[a].tree = (answer # "refused")
        /\ acts'[a].loose = (answer = "lost")
        /\ acts'[a].disturbed = (x.disturbed \/ answer # "ok")
    BY <1>6, <1>7, <1>8, CommandRec
  <1>10. Knows(acts[a])'
    BY <1>2, <1>7, <1>9 DEF Holds, Knows
  <1>11. Saw(acts[a])'
    BY <1>2, <1>7, <1>9 DEF Holds, Saw
  <1>12. (~acts[a].disturbed => SawAll(acts[a]))'
    BY <1>2, <1>7, <1>9 DEF Holds, SawAll
  <1>13. Lists(acts[a])'
    BY <1>2, <1>7, <1>9 DEF Holds, Lists, Covered
  <1>14. Holds(acts[a])'
    BY <1>10, <1>11, <1>12, <1>13 DEF Holds
  <1>15. rec.pc # "write"
    BY <1>7
  <1>16. QED
    BY <1>2, <1>6, <1>7, <1>8, <1>14, <1>15, HostStill DEF Typed

(* What goes to the cleanup. *)
LEMMA CleansRec ==
    ASSUME NEW x \in ActRecs, NEW failed \in BOOLEAN, NEW commit \in Nat
    PROVE  LET y == Cleans([x EXCEPT !.commit = commit], failed) IN
           /\ y \in ActRecs /\ y.pc = "clean" /\ y.failed = failed /\ y.commit = commit
           /\ y.repo = x.repo /\ y.new = x.new /\ y.known = x.known /\ y.tree = x.tree
           /\ y.loose = x.loose /\ y.disturbed = x.disturbed
  BY DEF ActRecs, Steps, Cleans

LEMMA StageIInv ==
    ASSUME IInv, NEW a \in Acts, Stage(a)
    PROVE  IInv'
  <1> DEFINE x == acts[a]  r == x.repo
  <1>1. PICK answer \in {"ok", "refused"} :
          Goes(a, IF answer # "ok" \/ (Generated(x) /\ ~NothingStaged(x)) THEN Cleans(x, TRUE)
                  ELSE IF NothingStaged(x) THEN Cleans([x EXCEPT !.commit = x.base], FALSE)
                  ELSE [x EXCEPT !.pc = "push"], answer)
    BY DEF Stage
  <1>2. /\ x.pc = "stage" /\ x \in ActRecs /\ r \in Repositories /\ Holds(x)
        /\ UNCHANGED <<branch, labels, origin, fact, file, config, jobs, unsaved>>
        /\ branch[r] \in Seq(BOOLEAN)
    BY DEF Stage, At, host, IInv, Typed, Held, Holds, Knows
  <1>3. PICK rec \in ActRecs :
          /\ Goes(a, rec, answer)
          /\ \/ rec.pc = "clean" /\ rec.failed /\ answer # "ok"
             \/ rec.pc = "clean" /\ ~rec.failed /\ rec.commit = x.base /\ branch[r][x.base]
             \/ rec.pc = "push" /\ ~rec.failed /\ rec.base = x.base
          /\ rec.repo = r /\ rec.new = x.new /\ rec.known = x.known /\ rec.disturbed = x.disturbed
    <2>1. CASE answer # "ok"
      <3>1. Cleans(x, TRUE) = Cleans([x EXCEPT !.commit = x.commit], TRUE) /\ x.commit \in Nat
        BY <1>2 DEF ActRecs
      <3>2. Goes(a, Cleans(x, TRUE), answer)
        BY <1>1, <2>1
      <3>3. QED
        BY <1>2, <2>1, <3>1, <3>2, CleansRec
    <2>2. CASE answer = "ok" /\ NothingStaged(x)
      <3>1. Goes(a, Cleans([x EXCEPT !.commit = x.base], FALSE), answer)
        BY <1>1, <2>2
      <3>2. x.base \in Nat /\ branch[r][x.base]
        BY <1>2, <2>2 DEF ActRecs, NothingStaged, Generated
      <3> DEFINE y == Cleans([x EXCEPT !.commit = x.base], FALSE)
      <3>3. /\ y \in ActRecs /\ y.pc = "clean" /\ ~y.failed /\ y.commit = x.base
            /\ y.repo = r /\ y.new = x.new /\ y.known = x.known /\ y.disturbed = x.disturbed
        BY <1>2, <3>2, CleansRec
      <3>4. Goes(a, y, answer)
        BY <3>1
      <3> HIDE DEF y
      <3>5. QED
        BY <3>2, <3>3, <3>4
    <2>3. CASE answer = "ok" /\ ~NothingStaged(x)
      <3>1. Goes(a, [x EXCEPT !.pc = "push"], answer)
        BY <1>1, <2>3 DEF NothingStaged
      <3>2. /\ [x EXCEPT !.pc = "push"] \in ActRecs
            /\ ~x.failed
        BY <1>2 DEF ActRecs, Steps, Holds, Knows
      <3>3. QED
        BY <1>2, <3>1, <3>2 DEF ActRecs
    <2>4. QED
      BY <2>1, <2>2, <2>3
  <1>4. Typed
    BY DEF IInv
  <1>5. /\ acts'[a].pc = rec.pc /\ acts'[a].repo = r /\ acts'[a].new = x.new
        /\ acts'[a].known = x.known /\ acts'[a].failed = rec.failed
        /\ acts'[a].base = rec.base /\ acts'[a].commit = rec.commit
        /\ acts'[a].disturbed = (x.disturbed \/ answer # "ok")
    BY <1>3, <1>4, CommandRec
  <1>6. Knows(acts[a])'
    BY <1>2, <1>3, <1>5 DEF Holds, Knows
  <1>7. Saw(acts[a])'
    BY <1>2, <1>3, <1>5 DEF Holds, Saw
  <1>8. (~acts[a].disturbed => SawAll(acts[a]))'
    BY <1>2, <1>3, <1>5 DEF Holds, SawAll
  <1>9. Lists(acts[a])'
    BY <1>2, <1>3, <1>5 DEF Holds, Lists, Covered
  <1>10. Holds(acts[a])'
    BY <1>6, <1>7, <1>8, <1>9 DEF Holds
  <1>11. QED
    BY <1>2, <1>3, <1>4, <1>10, HostStill DEF Typed

LEMMA Grown ==
    ASSUME NEW q \in Seq(BOOLEAN), NEW v \in BOOLEAN
    PROVE  /\ Append(q, v) \in Seq(BOOLEAN) /\ Len(Append(q, v)) = Len(q) + 1 /\ Len(q) \in Nat
           /\ \A c \in 1..Len(q) : Append(q, v)[c] = q[c]
           /\ Append(q, v)[Len(q) + 1] = v
  OBVIOUS

(* The push of an act that nothing disturbed arrives. *)
LEMMA PushIInv ==
    ASSUME IInv, NEW a \in Acts, Push(a)
    PROVE  IInv'
  <1> DEFINE x == acts[a]  r == x.repo  fits == Len(branch[r]) = x.base
  <1>1. PICK answer \in {"ok", "refused", "lost"} :
          LET arrived == fits /\ answer # "refused"
              commit == [x EXCEPT !.commit = x.base + 1] IN
          /\ Goes(a, Cleans(commit, ~PushStands(arrived, answer)), answer)
          /\ branch' = IF arrived THEN [branch EXCEPT ![r] = Append(@, TRUE)] ELSE branch
    BY DEF Push
  <1>2. /\ x.pc = "push" /\ x \in ActRecs /\ r \in Repositories /\ Holds(x)
        /\ UNCHANGED <<labels, origin, fact, file, config, jobs, unsaved>>
        /\ branch[r] \in Seq(BOOLEAN) /\ x.base \in Nat /\ x.base \in 1..Len(branch[r])
    <2>1. x.pc = "push" /\ x \in ActRecs /\ Holds(x) /\ Typed
      BY DEF Push, At, IInv, Typed, Held
    <2>2. r \in Repositories /\ x.base \in Nat
      BY <2>1 DEF Holds, Knows, ActRecs
    <2>3. UNCHANGED <<labels, origin, fact, file, config, jobs, unsaved>>
      BY DEF Push
    <2>4. x.base \in 1..Len(branch[r])
      BY <2>1 DEF Holds, Saw
    <2>5. QED
      BY <2>1, <2>2, <2>3, <2>4 DEF Typed
  <1> DEFINE arrived == fits /\ answer # "refused"
             failed == ~(arrived /\ answer = "ok")
             rec == Cleans([x EXCEPT !.commit = x.base + 1], failed)
  <1>3. failed \in BOOLEAN /\ x.base + 1 \in Nat
    BY <1>2
  <1>4. /\ rec \in ActRecs /\ rec.pc = "clean" /\ rec.failed = failed /\ rec.commit = x.base + 1
        /\ rec.repo = r /\ rec.new = x.new /\ rec.known = x.known
        /\ rec.disturbed = x.disturbed
    BY <1>2, <1>3, CleansRec, ZenonT(60)
  <1>5. /\ Typed /\ Goes(a, rec, answer)
        /\ branch' = IF arrived THEN [branch EXCEPT ![r] = Append(@, TRUE)] ELSE branch
    BY <1>1 DEF IInv, PushStands
  <1> HIDE DEF rec
  <1>6. /\ acts' = [acts EXCEPT ![a] = acts'[a]] /\ acts'[a] \in ActRecs
        /\ acts'[a].pc = "clean" /\ acts'[a].repo = r /\ acts'[a].new = x.new
        /\ acts'[a].known = x.known /\ acts'[a].failed = failed
        /\ acts'[a].commit = x.base + 1
        /\ acts'[a].disturbed = (x.disturbed \/ answer # "ok")
    BY <1>4, <1>5, CommandRec
  <1>7. \A s \in Repositories : branch[s] \in Seq(BOOLEAN) /\ Len(branch[s]) \in Nat
    BY <1>5 DEF Typed
  <1> HIDE DEF arrived, fits
  <1>8. /\ branch' \in [Repositories -> Seq(BOOLEAN)]
        /\ \A s \in Repositories : s # r => branch'[s] = branch[s]
        /\ branch'[r] = IF arrived THEN Append(branch[r], TRUE) ELSE branch[r]
    <2>1. Append(branch[r], TRUE) \in Seq(BOOLEAN)
      BY <1>2
    <2>2. CASE arrived
      BY <1>2, <1>5, <2>1, <2>2 DEF Typed
    <2>3. CASE ~arrived
      BY <1>2, <1>5, <2>3 DEF Typed
    <2>4. QED
      BY <2>2, <2>3
  <1>9. /\ Len(branch'[r]) = IF arrived THEN Len(branch[r]) + 1 ELSE Len(branch[r])
        /\ \A c \in 1..Len(branch[r]) : branch'[r][c] = branch[r][c]
        /\ arrived => branch'[r][x.base + 1] = TRUE
    <2>1. CASE arrived
      <3>1. x.base = Len(branch[r]) /\ branch'[r] = Append(branch[r], TRUE)
        BY <1>8, <2>1 DEF arrived, fits
      <3>2. PICK q \in Seq(BOOLEAN), p \in Seq(BOOLEAN) : /\ q = branch[r] /\ p = branch'[r]
                                                          /\ p = Append(q, TRUE)
        BY <1>2, <1>8, <3>1
      <3>3. Len(p) = Len(q) + 1 /\ (\A c \in 1..Len(q) : p[c] = q[c]) /\ p[Len(q) + 1] = TRUE
        <4>1. /\ Len(Append(q, TRUE)) = Len(q) + 1
              /\ \A c \in 1..Len(q) : Append(q, TRUE)[c] = q[c]
              /\ Append(q, TRUE)[Len(q) + 1] = TRUE
          BY Grown, Zenon
        <4>2. QED
          BY <3>2, <4>1, Zenon
      <3>4. QED
        BY <2>1, <3>1, <3>2, <3>3
    <2>2. CASE ~arrived
      BY <1>8, <2>2
    <2>3. QED
      BY <2>1, <2>2
  <1>10. Grows
    <2>1. \A s \in Repositories : labels[s] \subseteq labels'[s]
      BY <1>2
    <2>2. ASSUME NEW s \in Repositories
          PROVE  /\ Len(branch'[s]) \in Nat /\ Len(branch[s]) <= Len(branch'[s])
                 /\ \A c \in 1..Len(branch[s]) : branch'[s][c] = branch[s][c]
      <3>1. CASE s = r
        BY <1>7, <1>9, <3>1
      <3>2. CASE s # r
        BY <1>7, <1>8, <3>2
      <3>3. QED
        BY <3>1, <3>2
    <2>3. QED
      BY <2>1, <2>2 DEF Grows
  <1>11. failed => x.disturbed \/ answer # "ok"
    BY <1>2 DEF Holds, SawAll, arrived, fits
  <1> HIDE DEF failed
  <1>12. Knows(acts[a])'
    BY <1>2, <1>6, <1>11 DEF Holds, Knows
  <1>13. Saw(acts[a])'
    <2>1. ~failed => x.base + 1 \in 1..Len(branch'[r]) /\ branch'[r][x.base + 1]
      BY <1>2, <1>7, <1>9 DEF failed, arrived, fits
    <2>2. QED
      BY <1>2, <1>6, <2>1 DEF Holds, Saw
  <1>14. (~acts[a].disturbed => SawAll(acts[a]))'
    BY <1>6 DEF SawAll
  <1>15. Lists(acts[a])'
    BY <1>2, <1>6 DEF Holds, Lists, Covered
  <1>16. Holds(acts[a])'
    BY <1>12, <1>13, <1>14, <1>15 DEF Holds
  <1>17. QED
    BY <1>2, <1>5, <1>6, <1>8, <1>10, <1>16, ActSteps DEF Typed

(* The cleanup: an act that failed ends, and one that went through leaves its fact *)
(* and joins the write queue, where no write is of it.                             *)
LEMMA CleanIInv ==
    ASSUME IInv, NEW a \in Acts, Clean(a)
    PROVE  IInv'
  <1> DEFINE x == acts[a]  r == x.repo
  <1>1. PICK answer \in {"ok", "refused", "lost"} :
          LET swept == [x EXCEPT !.tree = answer = "refused", !.loose = answer = "refused"]
              rec == IF swept.failed THEN Fails(a, swept) ELSE [swept EXCEPT !.pc = "write"] IN
          /\ Goes(a, rec, answer)
          /\ fact' = IF rec.failed THEN fact
                     ELSE [fact EXCEPT ![r] = [settings |-> config.settings, commit |-> rec.commit]]
          /\ jobs' = IF Registers(rec) THEN Append(jobs, Job("init", r, a)) ELSE jobs
    BY DEF Clean
  <1>2. /\ x.pc = "clean" /\ x \in ActRecs /\ r \in Repositories /\ Holds(x)
        /\ UNCHANGED <<branch, labels, origin, file, config, unsaved>>
        /\ Typed /\ branch[r] \in Seq(BOOLEAN) /\ config.settings \in Nat
    <2>1. x.pc = "clean" /\ x \in ActRecs /\ Holds(x) /\ Typed
      BY DEF Clean, At, IInv, Typed, Held
    <2>2. r \in Repositories
      BY <2>1 DEF Holds, Knows
    <2>3. UNCHANGED <<branch, labels, origin, file, config, unsaved>>
      BY DEF Clean, host
    <2>4. config.settings \in Nat
      BY <2>1, InitAssumption DEF Typed, ConfigRecs, Settings, InitAssumption
    <2>5. QED
      BY <2>1, <2>2, <2>3, <2>4 DEF Typed
  <1> DEFINE swept == [x EXCEPT !.tree = answer = "refused", !.loose = answer = "refused"]
             rec == IF swept.failed THEN Fails(a, swept) ELSE [swept EXCEPT !.pc = "write"]
  <1>3. (answer = "refused") \in BOOLEAN
    OBVIOUS
  <1>4. /\ swept \in ActRecs /\ swept.failed = x.failed /\ swept.tree = (answer = "refused")
        /\ swept.loose = (answer = "refused") /\ swept.repo = r /\ swept.new = x.new
        /\ swept.known = x.known /\ swept.commit = x.commit /\ swept.disturbed = x.disturbed
    BY <1>2, <1>3 DEF ActRecs
  <1>5. /\ Goes(a, rec, answer)
        /\ fact' = IF rec.failed THEN fact
                   ELSE [fact EXCEPT ![r] = [settings |-> config.settings, commit |-> rec.commit]]
        /\ jobs' = IF rec.failed THEN jobs ELSE Append(jobs, Job("init", r, a))
    BY <1>1 DEF Registers
  <1> HIDE DEF swept
  <1>6. /\ rec \in ActRecs /\ rec.failed = x.failed
        /\ rec.pc = IF x.failed THEN "idle" ELSE "write"
        /\ rec.tree = (answer = "refused") /\ rec.loose = (answer = "refused")
        /\ rec.repo = r /\ rec.new = x.new /\ rec.known = x.known
        /\ rec.commit = x.commit /\ rec.disturbed = x.disturbed
    BY <1>4 DEF ActRecs, Steps, Fails
  <1> HIDE DEF rec
  <1>7. /\ acts' = [acts EXCEPT ![a] = acts'[a]] /\ acts'[a] \in ActRecs
        /\ acts'[a].pc = rec.pc /\ acts'[a].repo = r /\ acts'[a].new = x.new
        /\ acts'[a].known = x.known /\ acts'[a].failed = x.failed
        /\ acts'[a].tree = (answer = "refused") /\ acts'[a].loose = (answer = "refused")
        /\ acts'[a].disturbed = (x.disturbed \/ answer # "ok")
    BY <1>2, <1>5, <1>6, CommandRec
  <1>8. \A b \in Acts : b # a => acts'[b] = acts[b]
    BY <1>2, <1>7 DEF Typed
  <1>9. Holds(acts[a])'
    <2>1. Knows(acts[a])'
      BY <1>2, <1>6, <1>7 DEF Holds, Knows
    <2>2. Saw(acts[a])'
      BY <1>2, <1>6, <1>7 DEF Holds, Saw
    <2>3. (~acts[a].disturbed => SawAll(acts[a]))'
      BY <1>6, <1>7 DEF SawAll
    <2>4. Lists(acts[a])'
      BY <1>2, <1>6, <1>7 DEF Holds, Lists, Covered
    <2>5. QED
      BY <2>1, <2>2, <2>3, <2>4 DEF Holds
  <1>10. Grows /\ Adds
    BY <1>2 DEF Grows, Adds, Typed, Covered
  <1>11. Held'
    <2>1. ASSUME NEW b \in Acts, b # a PROVE Holds(acts[b])'
      BY <1>2, <1>8, <1>10, <2>1, Keeps DEF IInv, Held
    <2>2. QED
      BY <1>9, <2>1 DEF Held
  <1>12. Beside'
    <2>1. x.disturbed => acts'[a].disturbed
      BY <1>7
    <2>2. x.pc # "idle" /\ acts'[a].repo = x.repo
      BY <1>2, <1>7
    <2>3. Beside
      BY DEF IInv
    <2>4. QED
      BY <1>8, <2>1, <2>2, <2>3 DEF Beside
  <1>13. Told'
    <2>1. CASE x.failed
      BY <1>2, <1>5, <1>6, <2>1 DEF IInv, Told
    <2>2. CASE ~x.failed
      <3>1. /\ fact'[r] = [settings |-> config.settings, commit |-> x.commit]
            /\ \A s \in Repositories : s # r => fact'[s] = fact[s]
        BY <1>2, <1>5, <1>6, <2>2 DEF Typed
      <3>2. /\ x.commit \in 1..Len(branch[r]) /\ branch[r][x.commit]
            /\ Needs(config.settings) \subseteq labels[r]
        BY <1>2, <2>2 DEF Holds, Saw
      <3>3. QED
        BY <1>2, <3>1, <3>2 DEF IInv, Told
    <2>3. QED
      BY <2>1, <2>2
  <1>14. Fetched'
    BY <1>2 DEF IInv, Fetched
  <1>15. Job("init", r, a) \in JobRecs
    BY <1>2 DEF Job, JobRecs
  <1>16. Typed'
    <2>1. acts' \in [Acts -> ActRecs]
      BY <1>2, <1>7 DEF Typed
    <2>2. x.commit \in Nat
      BY <1>2 DEF ActRecs
    <2>3. fact' \in [Repositories -> [settings : Nat, commit : Nat]]
      BY <1>2, <1>5, <1>6, <2>2 DEF Typed
    <2>4. jobs' \in Seq(JobRecs)
      BY <1>2, <1>5, <1>15 DEF Typed
    <2>5. QED
      BY <1>2, <2>1, <2>3, <2>4 DEF Typed
  <1>17. Queued' /\ Synced'
    <2>1. CASE x.failed
      <3>1. UNCHANGED jobs
        BY <1>5, <1>6, <2>1
      <3>2. QED
        BY <1>2, <1>8, <3>1, QueueKeeps DEF IInv
    <2>2. CASE ~x.failed
      <3>1. jobs' = Append(jobs, Job("init", r, a)) /\ jobs \in Seq(JobRecs)
        BY <1>2, <1>5, <1>6, <2>2 DEF Typed
      <3>2. PICK n \in Nat : /\ n = Len(jobs) /\ Len(jobs') = n + 1
                             /\ \A i \in 1..n : jobs'[i] = jobs[i]
                             /\ jobs'[n + 1] = Job("init", r, a)
        BY <1>15, <3>1
      <3>3. \A i \in 1..n : jobs[i].kind = "init" => jobs[i].act # a
        BY <1>2, <3>2 DEF IInv, Queued, JobHolds
      <3>4. ASSUME NEW i \in 1..n PROVE JobHolds(jobs[i])'
        <4>1. JobHolds(jobs[i])
          BY <3>2 DEF IInv, Queued
        <4>2. jobs'[i] = jobs[i]
          BY <3>2
        <4>3. QED
          BY <1>2, <1>8, <3>3, <4>1, <4>2 DEF JobHolds, Covered
      <3>5. JobHolds(jobs[n + 1])'
        <4>1. /\ jobs'[n + 1].act = a /\ jobs'[n + 1].repo = r /\ jobs'[n + 1].begun = FALSE
          BY <3>2 DEF Job
        <4>2. acts'[a].pc = "write" /\ acts'[a].repo = r
          BY <1>6, <1>7, <2>2
        <4>3. QED
          BY <4>1, <4>2 DEF JobHolds
      <3>6. \A i \in 1..Len(jobs') : i \in 1..n \/ i = n + 1
        BY <3>2
      <3>7. \A i \in 1..Len(jobs') : JobHolds(jobs[i])'
        BY <3>4, <3>5, <3>6
      <3>8. \A i, k \in 1..Len(jobs') : jobs'[i].kind = "init" /\ jobs'[k].kind = "init" /\ i # k =>
               jobs'[i].act # jobs'[k].act
        <4>1. \A i, k \in 1..n : jobs[i].kind = "init" /\ jobs[k].kind = "init" /\ i # k =>
                 jobs[i].act # jobs[k].act
          BY <3>2 DEF IInv, Queued
        <4>2. jobs'[n + 1].act = a
          BY <3>2 DEF Job
        <4>3. QED
          BY <3>2, <3>3, <3>6, <4>1, <4>2
      <3>9. jobs'[n + 1].begun = FALSE
        BY <3>2 DEF Job
      <3>10. \A i \in 1..Len(jobs') : i # 1 => ~jobs'[i].begun
        BY <3>2, <3>6, <3>9 DEF IInv, Queued
      <3>11. Queued'
        BY <3>7, <3>8, <3>10 DEF Queued
      <3>12. Under' = Under /\ (Under => jobs'[1] = jobs[1])
        BY <3>2, <3>9 DEF Under
      <3>13. Synced'
        BY <1>2, <3>12 DEF IInv, Synced, Same
      <3>14. QED
        BY <3>11, <3>13
    <2>3. QED
      BY <2>1, <2>2
  <1>18. QED
    BY <1>11, <1>12, <1>13, <1>14, <1>16, <1>17 DEF IInv

--------------------------------------------------------------------------------
(* The config write queue. *)

(* The queue without its first write. *)
LEMMA DropFirst ==
    ASSUME NEW q \in Seq(JobRecs), Len(q) > 0
    PROVE  LET p == SubSeq(q, 1, 0) \o SubSeq(q, 2, Len(q)) IN
           /\ p \in Seq(JobRecs) /\ Len(p) = Len(q) - 1
           /\ \A k \in 1..(Len(q) - 1) : p[k] = q[k + 1]
  <1>1. SubSeq(q, 1, 0) \in Seq(JobRecs) /\ Len(SubSeq(q, 1, 0)) = 0
    OBVIOUS
  <1>2. /\ SubSeq(q, 2, Len(q)) \in Seq(JobRecs) /\ Len(SubSeq(q, 2, Len(q))) = Len(q) - 1
        /\ \A k \in 1..(Len(q) - 1) : SubSeq(q, 2, Len(q))[k] = q[k + 1]
    <2>1. 2 \in Int /\ Len(q) \in Int /\ \A k \in 2..Len(q) : q[k] \in JobRecs
      OBVIOUS
    <2>2. /\ SubSeq(q, 2, Len(q)) \in Seq(JobRecs)
          /\ Len(SubSeq(q, 2, Len(q))) = IF 2 <= Len(q) THEN Len(q) - 2 + 1 ELSE 0
          /\ \A k \in 1..(Len(q) - 2 + 1) : SubSeq(q, 2, Len(q))[k] = q[2 + k - 1]
      BY <2>1, SubSeqProperties
    <2>3. Len(q) \in Nat
      OBVIOUS
    <2> DEFINE p == SubSeq(q, 2, Len(q))
    <2> HIDE DEF p
    <2>4. Len(p) = Len(q) - 1
      BY <2>2, <2>3 DEF p
    <2>5. ASSUME NEW k \in 1..(Len(q) - 1) PROVE p[k] = q[k + 1]
      <3>1. k \in 1..(Len(q) - 2 + 1) /\ 2 + k - 1 = k + 1
        BY <2>3
      <3>2. QED
        BY <2>2, <3>1 DEF p
    <2>6. QED
      BY <2>2, <2>4, <2>5 DEF p
  <1>3. QED
    BY <1>1, <1>2

LEMMA FirstReplaced ==
    ASSUME NEW q \in Seq(JobRecs), Len(q) > 0, NEW d \in JobRecs
    PROVE  LET p == [q EXCEPT ![1] = d] IN
           /\ p \in Seq(JobRecs) /\ Len(p) = Len(q) /\ p[1] = d
           /\ \A k \in 1..Len(q) : k # 1 => p[k] = q[k]
  BY ExceptSeq

(* The turn of a write: the config takes what it adds, and only the first write is *)
(* under way.                                                                      *)
LEMMA WriteBeginsIInv ==
    ASSUME IInv, NEW i \in 1..Len(jobs), WriteBegins(i)
    PROVE  IInv'
  <1> DEFINE j == jobs[i]
             adds == j.kind = "init" /\ acts[j.act].new
             updated == IF j.kind = "mapping" THEN [config EXCEPT !.mapped = @ \cup {j.repo}]
                        ELSE IF adds THEN [config EXCEPT !.plane[j.repo] = @ + 1] ELSE config
  <1>1. /\ i = 1 /\ ~j.begun /\ Len(jobs) \in Nat /\ Len(jobs) > 0 /\ j \in JobRecs
        /\ config' = updated
        /\ jobs' = [jobs EXCEPT ![1] = [j EXCEPT !.begun = TRUE, !.updated = updated, !.text = file]]
        /\ UNCHANGED <<branch, labels, origin, fact, file, acts, unsaved>>
        /\ Typed /\ j.repo \in Repositories
    <2>1. Typed /\ jobs \in Seq(JobRecs)
      BY DEF IInv, Typed
    <2>2. j \in JobRecs
      BY <2>1
    <2>3. QED
      BY <2>1, <2>2 DEF WriteBegins, Turn, host, JobRecs
  <1>2. config \in ConfigRecs /\ file \in ConfigRecs
    BY <1>1 DEF Typed
  <1>3. /\ updated \in ConfigRecs /\ updated.settings = config.settings /\ updated.own = config.own
        /\ \A r \in Repositories : updated.plane[r] >= config.plane[r]
        /\ adds => updated.plane[j.repo] > 0
    <2>1. CASE j.kind = "mapping"
      <3>1. updated = [config EXCEPT !.mapped = @ \cup {j.repo}] /\ ~adds
        BY <2>1
      <3> HIDE DEF updated, adds
      <3>2. /\ config.plane \in [Repositories -> Nat]
            /\ config.mapped \cup {j.repo} \in SUBSET Repositories
        BY <1>1, <1>2 DEF ConfigRecs
      <3>3. /\ updated.plane = config.plane /\ updated.settings = config.settings
            /\ updated.own = config.own
        BY <1>2, <3>1 DEF ConfigRecs
      <3>4. updated \in ConfigRecs
        BY <1>2, <3>1, <3>2 DEF ConfigRecs
      <3>5. QED
        BY <3>1, <3>2, <3>3, <3>4
    <2>2. CASE j.kind # "mapping" /\ adds
      <3>1. updated = [config EXCEPT !.plane[j.repo] = @ + 1]
        BY <2>2
      <3> HIDE DEF updated
      <3>2. config.plane \in [Repositories -> Nat]
        BY <1>2 DEF ConfigRecs
      <3>3. /\ updated.plane = [config.plane EXCEPT ![j.repo] = @ + 1]
            /\ updated.settings = config.settings /\ updated.own = config.own
            /\ updated.mapped = config.mapped
            /\ updated = [config EXCEPT !.plane = [config.plane EXCEPT ![j.repo] = @ + 1]]
        BY <1>2, <3>1 DEF ConfigRecs
      <3>4. updated.plane \in [Repositories -> Nat]
        BY <1>1, <3>2, <3>3
      <3>5. updated \in ConfigRecs
        BY <1>2, <3>3, <3>4 DEF ConfigRecs
      <3>6. QED
        BY <1>1, <3>2, <3>3, <3>5
    <2>3. CASE j.kind # "mapping" /\ ~adds
      <3>1. updated = config
        BY <2>3
      <3> HIDE DEF updated
      <3>2. QED
        BY <1>2, <2>3, <3>1 DEF ConfigRecs
    <2>4. QED
      BY <2>1, <2>2, <2>3
  <1> HIDE DEF updated
  <1>4. Grows
    BY <1>1 DEF Grows, Typed
  <1>5. Adds
    BY <1>1, <1>2, <1>3 DEF Adds, Covered, ConfigRecs
  <1>6. Held'
    <2>1. ASSUME NEW b \in Acts PROVE Holds(acts[b])'
      BY <1>1, <1>4, <1>5, Keeps DEF IInv, Held
    <2>2. QED
      BY <2>1 DEF Held
  <1>7. Beside' /\ Told' /\ Fetched'
    BY <1>1 DEF IInv, Beside, Told, Fetched
  <1> DEFINE d == [j EXCEPT !.begun = TRUE, !.updated = updated, !.text = file]
  <1>8. /\ d \in JobRecs /\ d.begun = TRUE /\ d.updated = updated /\ d.text = file
        /\ d.kind = j.kind /\ d.repo = j.repo /\ d.act = j.act
    BY <1>1, <1>2, <1>3 DEF JobRecs
  <1> HIDE DEF d
  <1>9. /\ jobs' \in Seq(JobRecs) /\ Len(jobs') = Len(jobs) /\ jobs'[1] = d
        /\ \A k \in 1..Len(jobs) : k # 1 => jobs'[k] = jobs[k]
    <2>1. jobs' = [jobs EXCEPT ![1] = d]
      BY <1>1 DEF d
    <2>2. jobs \in Seq(JobRecs)
      BY <1>1 DEF Typed
    <2>3. /\ [jobs EXCEPT ![1] = d] \in Seq(JobRecs)
          /\ Len([jobs EXCEPT ![1] = d]) = Len(jobs) /\ [jobs EXCEPT ![1] = d][1] = d
          /\ \A k \in 1..Len(jobs) : k # 1 => [jobs EXCEPT ![1] = d][k] = jobs[k]
      BY <1>1, <1>8, <2>2, FirstReplaced
    <2>4. QED
      BY <2>1, <2>3, Zenon
  <1>10. Typed'
    BY <1>1, <1>3, <1>9 DEF Typed
  <1>11. JobHolds(j)
    BY <1>1 DEF IInv, Queued
  <1>12. JobHolds(jobs[1])'
    <2>1. ASSUME j.kind = "init" PROVE Covered(config', j.repo)
      <3>1. j.act \in Acts /\ acts[j.act].pc = "write" /\ acts[j.act].repo = j.repo
        BY <1>11, <2>1 DEF JobHolds
      <3>2. CASE acts[j.act].new
        BY <1>1, <1>3, <2>1, <3>2 DEF Covered
      <3>3. CASE ~acts[j.act].new
        <4>1. Lists(acts[j.act])
          BY <3>1 DEF IInv, Held, Holds
        <4>2. Covered(config, j.repo)
          BY <3>1, <3>3, <4>1 DEF Lists
        <4>3. QED
          BY <1>1, <1>5, <4>2 DEF Adds
      <3>4. QED
        BY <3>2, <3>3
    <2>2. QED
      BY <1>1, <1>8, <1>9, <1>11, <2>1 DEF JobHolds
  <1>13. ASSUME NEW k \in 1..Len(jobs), k # 1 PROVE JobHolds(jobs[k])'
    <2>1. JobHolds(jobs[k]) /\ jobs'[k] = jobs[k] /\ ~jobs[k].begun
      BY <1>9, <1>13 DEF IInv, Queued
    <2>2. QED
      BY <1>1, <2>1 DEF JobHolds
  <1>14. Queued'
    <2>1. \A k \in 1..Len(jobs') : JobHolds(jobs[k])'
      BY <1>9, <1>12, <1>13
    <2>2. \A k \in 1..Len(jobs') : jobs'[k].kind = jobs[k].kind /\ jobs'[k].act = jobs[k].act
      BY <1>1, <1>8, <1>9
    <2>3. \A k \in 1..Len(jobs') : k # 1 => ~jobs'[k].begun
      BY <1>9 DEF IInv, Queued
    <2>4. \A k, m \in 1..Len(jobs') : jobs[k].kind = "init" /\ jobs[m].kind = "init" /\ k # m =>
             jobs[k].act # jobs[m].act
      BY <1>9 DEF IInv, Queued
    <2>5. QED
      BY <2>1, <2>2, <2>3, <2>4 DEF Queued
  <1>15. Synced'
    BY <1>1, <1>2, <1>8, <1>9 DEF Synced, Under
  <1>16. QED
    BY <1>6, <1>7, <1>10, <1>14, <1>15 DEF IInv

(* What a write may leave in the file, it is all the config says of the plane. *)
LEMMA WrittenSays ==
    ASSUME NEW text \in ConfigRecs, NEW updated \in ConfigRecs, file \in ConfigRecs,
           text.plane = file.plane, text.mapped = file.mapped,
           NEW f \in Written(text, updated)
    PROVE  f \in ConfigRecs /\ Same(updated, f)
  <1> DEFINE patched == Patched(text, updated)
  <1>1. /\ patched \in ConfigRecs
        /\ \A r \in Repositories : patched.plane[r] = IF text.plane[r] = 0 THEN updated.plane[r]
                                                                          ELSE text.plane[r]
        /\ patched.mapped = text.mapped \cup updated.mapped
    BY DEF Patched, ConfigRecs
  <1>2. \A r \in Repositories : text.plane[r] \in Nat /\ updated.plane[r] \in Nat
    BY DEF ConfigRecs
  <1>3. Same(updated, patched)
    BY <1>1, <1>2 DEF Same
  <1>4. f = updated \/ f = patched \/ (f = file /\ patched = text)
    BY DEF Written
  <1> HIDE DEF patched
  <1>5. CASE f = file /\ patched = text
    BY <1>3, <1>5 DEF Same
  <1>6. QED
    BY <1>1, <1>3, <1>4, <1>5 DEF Same

LEMMA WriteEndsIInv ==
    ASSUME IInv, NEW i \in 1..Len(jobs), WriteEnds(i)
    PROVE  IInv'
  <1> DEFINE j == jobs[i]
  <1>1. /\ Typed /\ Held /\ Beside /\ Told /\ Fetched /\ Queued /\ Synced
        /\ UNCHANGED <<branch, labels, origin, fact, config>>
        /\ j.begun
    BY DEF IInv, WriteEnds, host
  <1>2. /\ jobs \in Seq(JobRecs) /\ Len(jobs) \in Nat /\ Len(jobs) > 0 /\ i = 1 /\ j \in JobRecs
    <2>1. jobs \in Seq(JobRecs)
      BY <1>1 DEF Typed
    <2>2. i = 1
      BY <1>1 DEF Queued
    <2>3. QED
      BY <2>1, <2>2
  <1>3. PICK n \in Nat : /\ n = Len(jobs) /\ n > 0 /\ jobs' \in Seq(JobRecs) /\ Len(jobs') = n - 1
                         /\ \A k \in 1..(n - 1) : jobs'[k] = jobs[k + 1]
    <2>1. jobs' = SubSeq(jobs, 1, 0) \o SubSeq(jobs, 2, Len(jobs))
      BY <1>2 DEF WriteEnds
    <2>2. QED
      BY <1>2, <2>1, DropFirst
  <1>4. /\ unsaved' \in BOOLEAN /\ file' \in ConfigRecs
        /\ ~unsaved' => Same(config, file')
    <2>1. /\ j.updated = config /\ j.text \in ConfigRecs /\ j.text.plane = file.plane
          /\ j.text.mapped = file.mapped
      BY <1>1, <1>2 DEF Synced, Under
    <2>2. config \in ConfigRecs /\ file \in ConfigRecs
      BY <1>1 DEF Typed
    <2>3. \/ file' \in Written(j.text, j.updated) /\ unsaved' = FALSE
          \/ unsaved' = TRUE /\ file' = file
      BY DEF WriteEnds
    <2>4. CASE file' \in Written(j.text, j.updated) /\ unsaved' = FALSE
      BY <2>1, <2>2, <2>4, WrittenSays
    <2>5. QED
      BY <2>2, <2>3, <2>4
  <1>5. JobHolds(j)
    BY <1>1, <1>2 DEF Queued
  <1>6. \A k \in 1..(n - 1) : k + 1 \in 1..n /\ k + 1 # 1
    BY <1>3
  <1>7. \A k \in 1..(n - 1) : ~jobs'[k].begun
    BY <1>1, <1>3, <1>6 DEF Queued
  <1>8. Synced'
    <2>1. ~Under'
      BY <1>3, <1>7 DEF Under
    <2>2. QED
      BY <1>1, <1>4, <2>1 DEF Synced, Same
  <1>9. \A k \in 1..(n - 1) : jobs'[k].kind = "init" =>
           /\ jobs'[k].act \in Acts /\ acts[jobs'[k].act].pc = "write"
           /\ acts[jobs'[k].act].repo = jobs'[k].repo
           /\ j.kind = "init" => jobs'[k].act # j.act
    BY <1>1, <1>2, <1>3, <1>6 DEF Queued, JobHolds
  <1>10. \A k, m \in 1..(n - 1) : jobs'[k].kind = "init" /\ jobs'[m].kind = "init" /\ k # m =>
            jobs'[k].act # jobs'[m].act
    <2>1. ASSUME NEW k \in 1..(n - 1), NEW m \in 1..(n - 1), k # m
          PROVE  k + 1 \in 1..n /\ m + 1 \in 1..n /\ k + 1 # m + 1
      BY <1>3, <2>1
    <2>2. QED
      BY <1>1, <1>3, <2>1 DEF Queued
  <1>11. Told' /\ Fetched'
    BY <1>1 DEF Told, Fetched
  <1>12. CASE j.kind # "init"
    <2>1. UNCHANGED acts
      BY <1>2, <1>12 DEF WriteEnds, JobRecs
    <2>2. Typed'
      BY <1>1, <1>3, <1>4, <2>1 DEF Typed
    <2>3. Held'
      <3>1. Grows /\ Adds
        BY <1>1 DEF Grows, Adds, Covered, Typed
      <3>2. ASSUME NEW b \in Acts PROVE Holds(acts[b])'
        BY <1>1, <2>1, <3>1, Keeps DEF Held
      <3>3. QED
        BY <3>2 DEF Held
    <2>4. Beside'
      BY <1>1, <2>1 DEF Beside
    <2>5. Queued'
      <3>1. ASSUME NEW k \in 1..(n - 1) PROVE JobHolds(jobs[k])'
        BY <1>7, <1>9, <2>1 DEF JobHolds
      <3>2. QED
        BY <1>3, <1>7, <1>10, <3>1 DEF Queued
    <2>6. QED
      BY <1>8, <1>11, <2>2, <2>3, <2>4, <2>5 DEF IInv
  <1>13. CASE j.kind = "init"
    <2>1. PICK a \in Acts : /\ a = j.act /\ acts[a].pc = "write" /\ acts[a].repo = j.repo
                            /\ Covered(config, acts[a].repo)
      BY <1>1, <1>5, <1>13 DEF JobHolds
    <2>2. acts' = [acts EXCEPT ![a].pc = "idle"] /\ acts[a] \in ActRecs
      BY <1>1, <1>13, <2>1 DEF WriteEnds, Typed
    <2>3. /\ acts'[a] = [acts[a] EXCEPT !.pc = "idle"]
          /\ \A b \in Acts : b # a => acts'[b] = acts[b]
      BY <1>1, <2>2 DEF Typed
    <2>4. /\ acts'[a] \in ActRecs /\ acts'[a].pc = "idle" /\ acts'[a].repo = acts[a].repo
          /\ acts'[a].failed = acts[a].failed /\ acts'[a].disturbed = acts[a].disturbed
          /\ acts'[a].tree = acts[a].tree /\ acts'[a].loose = acts[a].loose
      BY <2>2, <2>3 DEF ActRecs, Steps
    <2>5. Typed'
      <3>1. acts' \in [Acts -> ActRecs]
        BY <1>1, <2>2, <2>4 DEF Typed
      <3>2. QED
        BY <1>1, <1>3, <1>4, <3>1 DEF Typed
    <2>6. Holds(acts[a])'
      <3>1. Holds(acts[a])
        BY <1>1 DEF Held
      <3>2. Knows(acts[a])'
        BY <2>1, <2>4, <3>1 DEF Holds, Knows
      <3>3. Saw(acts[a])' /\ (~acts[a].disturbed => SawAll(acts[a]))'
        BY <2>4 DEF Saw, SawAll
      <3>4. Lists(acts[a])'
        BY <1>1, <2>1, <2>4 DEF Lists, Covered
      <3>5. QED
        BY <3>2, <3>3, <3>4 DEF Holds
    <2>7. Held'
      <3>1. Grows /\ Adds
        BY <1>1 DEF Grows, Adds, Covered, Typed
      <3>2. ASSUME NEW b \in Acts, b # a PROVE Holds(acts[b])'
        BY <1>1, <2>3, <3>1, <3>2, Keeps DEF Held
      <3>3. QED
        BY <2>6, <3>2 DEF Held
    <2>8. Beside'
      <3> SUFFICES ASSUME NEW b \in Acts, NEW c \in Acts, b # c, acts'[b].pc # "idle",
                          acts'[c].pc # "idle", acts'[b].repo = acts'[c].repo
                   PROVE  acts'[b].disturbed /\ acts'[c].disturbed
        BY DEF Beside
      <3>1. acts'[b] = acts[b] /\ acts'[c] = acts[c]
        BY <2>3, <2>4
      <3>2. QED
        BY <1>1, <3>1 DEF Beside
    <2>9. Queued'
      <3>1. ASSUME NEW k \in 1..(n - 1) PROVE JobHolds(jobs[k])'
        BY <1>7, <1>9, <1>13, <2>1, <2>3 DEF JobHolds
      <3>2. QED
        BY <1>3, <1>7, <1>10, <3>1 DEF Queued
    <2>10. QED
      BY <1>8, <1>11, <2>5, <2>7, <2>8, <2>9 DEF IInv
  <1>14. QED
    BY <1>12, <1>13

--------------------------------------------------------------------------------
(* The others. *)

LEMMA MapIInv ==
    ASSUME IInv, NEW r \in Repositories, Map(r)
    PROVE  IInv'
  <1>1. /\ jobs' = Append(jobs, Job("mapping", r, 0)) /\ jobs \in Seq(JobRecs)
        /\ UNCHANGED <<branch, labels, origin, fact, file, config, acts, unsaved>>
        /\ Typed
    BY DEF IInv, Typed, Map, host
  <1>2. Job("mapping", r, 0) \in JobRecs
    BY DEF Job, JobRecs
  <1>3. PICK n \in Nat : /\ n = Len(jobs) /\ Len(jobs') = n + 1 /\ jobs' \in Seq(JobRecs)
                         /\ \A i \in 1..n : jobs'[i] = jobs[i]
                         /\ jobs'[n + 1] = Job("mapping", r, 0)
    BY <1>1, <1>2
  <1>4. Typed'
    BY <1>1, <1>3 DEF Typed
  <1>5. Fetched' /\ Beside' /\ Told'
    BY <1>1 DEF IInv, Fetched, Beside, Told
  <1>6. Grows /\ Adds
    BY <1>1 DEF Grows, Adds, Covered, Typed
  <1>7. ASSUME NEW b \in Acts PROVE Holds(acts[b])'
    BY <1>1, <1>6, Keeps DEF IInv, Held
  <1>8. Held'
    BY <1>7 DEF Held
  <1>9. jobs'[n + 1].kind = "mapping" /\ jobs'[n + 1].begun = FALSE
    BY <1>3 DEF Job
  <1>10. \A i \in 1..Len(jobs') : i \in 1..n \/ i = n + 1
    BY <1>3
  <1>11. Queued'
    <2>1. ASSUME NEW i \in 1..n PROVE JobHolds(jobs[i])'
      <3>1. JobHolds(jobs[i]) /\ jobs'[i] = jobs[i]
        BY <1>3 DEF IInv, Queued
      <3>2. QED
        BY <1>1, <3>1 DEF JobHolds
    <2>2. JobHolds(jobs[n + 1])'
      BY <1>9 DEF JobHolds
    <2>3. \A i \in 1..Len(jobs') : JobHolds(jobs[i])'
      BY <1>10, <2>1, <2>2
    <2>4. \A i, k \in 1..Len(jobs') : jobs'[i].kind = "init" /\ jobs'[k].kind = "init" /\ i # k =>
             jobs'[i].act # jobs'[k].act
      <3>1. \A i, k \in 1..n : jobs[i].kind = "init" /\ jobs[k].kind = "init" /\ i # k =>
               jobs[i].act # jobs[k].act
        BY <1>3 DEF IInv, Queued
      <3>2. QED
        BY <1>3, <1>9, <1>10, <3>1
    <2>5. \A i \in 1..Len(jobs') : i # 1 => ~jobs'[i].begun
      BY <1>3, <1>9, <1>10 DEF IInv, Queued
    <2>6. QED
      BY <2>3, <2>4, <2>5 DEF Queued
  <1>12. Under' = Under /\ (Under => jobs'[1] = jobs[1])
    BY <1>3, <1>9 DEF Under
  <1>13. Synced'
    BY <1>1, <1>12 DEF IInv, Synced, Same
  <1>14. QED
    BY <1>4, <1>5, <1>8, <1>11, <1>13 DEF IInv

LEMMA OthersPushIInv ==
    ASSUME IInv, NEW r \in Repositories, OthersPush(r)
    PROVE  IInv'
  <1>1. PICK kept \in BOOLEAN : branch' = [branch EXCEPT ![r] = Append(@, kept)]
    <2>1. branch[r][Len(branch[r])] \in BOOLEAN
      <3>1. branch[r] \in Seq(BOOLEAN) /\ origin[r] \in 1..Len(branch[r])
        BY DEF IInv, Typed, Fetched
      <3>2. QED
        BY <3>1
    <2>2. QED
      BY <2>1 DEF OthersPush
  <1>2. /\ acts' = [a \in Acts |-> [acts[a] EXCEPT
                      !.disturbed = @ \/ (acts[a].repo = r /\ acts[a].pc # "idle")]]
        /\ UNCHANGED <<labels, origin, fact, file, config, jobs, unsaved>> /\ Typed
    BY DEF OthersPush, IInv
  <1>3. \A s \in Repositories : branch[s] \in Seq(BOOLEAN) /\ Len(branch[s]) \in Nat
    BY <1>2 DEF Typed
  <1>4. /\ branch' \in [Repositories -> Seq(BOOLEAN)]
        /\ branch'[r] = Append(branch[r], kept)
        /\ \A s \in Repositories : s # r => branch'[s] = branch[s]
    <2>1. Append(branch[r], kept) \in Seq(BOOLEAN)
      BY <1>3
    <2>2. QED
      BY <1>1, <1>2, <2>1 DEF Typed
  <1>5. Grows
    <2>1. \A s \in Repositories : labels[s] \subseteq labels'[s]
      BY <1>2
    <2>2. PICK q \in Seq(BOOLEAN), p \in Seq(BOOLEAN) :
             q = branch[r] /\ p = branch'[r] /\ p = Append(q, kept)
      BY <1>3, <1>4
    <2>3. /\ Len(Append(q, kept)) = Len(q) + 1
          /\ \A c \in 1..Len(q) : Append(q, kept)[c] = q[c]
      BY Grown, Zenon
    <2>4. Len(p) = Len(q) + 1 /\ \A c \in 1..Len(q) : p[c] = q[c]
      BY <2>2, <2>3, Zenon
    <2>5. \A s \in Repositories : s # r =>
             /\ Len(branch'[s]) \in Nat /\ Len(branch[s]) <= Len(branch'[s])
             /\ \A c \in 1..Len(branch[s]) : branch'[s][c] = branch[s][c]
      BY <1>3, <1>4
    <2>6. /\ Len(branch'[r]) \in Nat /\ Len(branch[r]) <= Len(branch'[r])
          /\ \A c \in 1..Len(branch[r]) : branch'[r][c] = branch[r][c]
      BY <1>3, <2>2, <2>4
    <2>7. QED
      BY <2>1, <2>5, <2>6 DEF Grows
  <1>6. Adds
    BY <1>2 DEF Adds, Covered
  <1>7. ASSUME NEW b \in Acts
        PROVE  /\ acts'[b].pc = acts[b].pc /\ acts'[b].repo = acts[b].repo
               /\ acts[b].disturbed => acts'[b].disturbed
               /\ acts[b].repo = r /\ acts[b].pc # "idle" => acts'[b].disturbed
               /\ acts'[b] = acts[b] \/ acts'[b] = [acts[b] EXCEPT !.disturbed = TRUE]
    <2>1. acts[b] \in ActRecs
      BY <1>2 DEF Typed
    <2>2. acts'[b] = [acts[b] EXCEPT !.disturbed = @ \/ (acts[b].repo = r /\ acts[b].pc # "idle")]
      BY <1>2
    <2>3. CASE acts[b].repo = r /\ acts[b].pc # "idle"
      BY <2>1, <2>2, <2>3 DEF ActRecs
    <2>4. CASE ~(acts[b].repo = r /\ acts[b].pc # "idle")
      BY <2>1, <2>2, <2>4 DEF ActRecs
    <2>5. QED
      BY <2>3, <2>4
  <1>8. ASSUME NEW b \in Acts PROVE Holds(acts[b])' /\ acts'[b] \in ActRecs
    <2>1. acts[b].pc # "idle" => acts[b].repo \in Repositories
      BY DEF IInv, Held, Holds, Knows
    <2>2. QED
      BY <1>2, <1>4, <1>5, <1>6, <1>7, <2>1, Keeps DEF IInv, Held
  <1>9. Typed'
    <2>1. acts' \in [Acts -> ActRecs]
      BY <1>2, <1>8
    <2>2. QED
      BY <1>2, <1>4, <2>1 DEF Typed
  <1>10. Held' /\ Beside'
    <2>1. Held'
      BY <1>8 DEF Held
    <2>2. ASSUME NEW a \in Acts, NEW b \in Acts,
                 a # b, acts'[a].pc # "idle", acts'[b].pc # "idle",
                 acts'[a].repo = acts'[b].repo
          PROVE  acts'[a].disturbed /\ acts'[b].disturbed
      <3>1. acts[a].pc # "idle" /\ acts[b].pc # "idle" /\ acts[a].repo = acts[b].repo
        BY <1>7, <2>2
      <3>2. acts[a].disturbed /\ acts[b].disturbed
        BY <2>2, <3>1 DEF IInv, Beside
      <3>3. QED
        BY <1>7, <3>2
    <2>3. QED
      BY <2>1, <2>2 DEF Beside
  <1>11. Fetched'
    BY <1>2, <1>3, <1>5 DEF IInv, Fetched, Grows, Typed
  <1>12. Told'
    <2>1. \A s \in Repositories : fact'[s] = fact[s]
      BY <1>2
    <2>2. QED
      BY <1>2, <1>5, <2>1, ToldKeeps DEF IInv, Told
  <1>13. Queued' /\ Synced'
    BY <1>2, <1>7, QueueKeeps DEF IInv
  <1>14. QED
    BY <1>9, <1>10, <1>11, <1>12, <1>13 DEF IInv

(* The edit of the settings leaves the lines of the plane. *)
LEMMA EditSettingsIInv == IInv /\ EditSettings => IInv'
  <1> SUFFICES ASSUME IInv, EditSettings PROVE IInv'
    OBVIOUS
  <1>1. PICK s \in Settings : file' = [file EXCEPT !.settings = s]
    BY DEF EditSettings
  <1>2. UNCHANGED <<branch, labels, origin, fact, config, acts, jobs, unsaved>> /\ Typed
    BY DEF EditSettings, IInv, host
  <1>3. file' \in ConfigRecs /\ file'.plane = file.plane /\ file'.mapped = file.mapped
    BY <1>1, <1>2 DEF Typed, ConfigRecs
  <1>4. Typed'
    BY <1>2, <1>3 DEF Typed
  <1>5. Fetched' /\ Beside' /\ Told'
    BY <1>2 DEF IInv, Fetched, Beside, Told
  <1>6. Grows /\ Adds
    BY <1>2 DEF Grows, Adds, Covered, Typed
  <1>7. ASSUME NEW b \in Acts PROVE Holds(acts[b])'
    BY <1>2, <1>6, Keeps DEF IInv, Held
  <1>8. Held'
    BY <1>7 DEF Held
  <1>9. Queued'
    <2>1. ASSUME NEW i \in 1..Len(jobs) PROVE JobHolds(jobs[i])'
      BY <1>2 DEF IInv, Queued, JobHolds, Covered
    <2>2. QED
      BY <1>2, <2>1 DEF IInv, Queued
  <1>10. Synced'
    BY <1>2, <1>3 DEF IInv, Synced, Under, Same
  <1>11. QED
    BY <1>4, <1>5, <1>8, <1>9, <1>10 DEF IInv

(* A restart reads what the file says, and forgets the acts. *)
LEMMA RestartIInv == IInv /\ Restart => IInv'
  <1> SUFFICES ASSUME IInv, Restart PROVE IInv'
    OBVIOUS
  <1>1. /\ config' = file /\ acts' = [a \in Acts |-> NoAct] /\ jobs' = <<>> /\ unsaved' = FALSE
        /\ UNCHANGED <<branch, labels, origin, fact, file>> /\ Typed
    BY DEF Restart, IInv, host
  <1>2. NoAct \in ActRecs
    BY DEF NoAct, ActRecs, Steps
  <1>3. jobs' \in Seq(JobRecs) /\ Len(jobs') = 0
    BY <1>1
  <1>4. Typed'
    <2>1. acts' \in [Acts -> ActRecs]
      BY <1>1, <1>2
    <2>2. QED
      BY <1>1, <1>3, <2>1 DEF Typed
  <1>5. Fetched' /\ Told'
    BY <1>1 DEF IInv, Fetched, Told
  <1>6. \A a \in Acts : acts'[a] = NoAct
    BY <1>1
  <1>7. Held' /\ Beside'
    BY <1>6 DEF Held, Beside, Holds, Knows, Saw, SawAll, Lists, NoAct
  <1>8. Queued'
    BY <1>3 DEF Queued
  <1>9. Synced'
    BY <1>1, <1>3 DEF Synced, Under, Same
  <1>10. QED
    BY <1>4, <1>5, <1>7, <1>8, <1>9 DEF IInv

LEMMA NextIInv == IInv /\ [Next]_vars => IInv'
  <1> SUFFICES ASSUME IInv, [Next]_vars PROVE IInv'
    OBVIOUS
  <1>1. CASE OpenSelect \/ Cancel \/ \E rows \in Rows : StartQueue(rows)
    <2>1. UNCHANGED <<host, origin, fact, file, config, acts, jobs, unsaved>>
      BY <1>1 DEF OpenSelect, Cancel, StartQueue
    <2>2. QED
      BY <2>1, ScreenIInv
  <1>2. ASSUME NEW r \in Repositories, NEW via \in Vias,
               OpenGroup(r) \/ PlanLands(r, via) \/ PlanRefused(r, via)
        PROVE  IInv'
    <2>1. UNCHANGED <<host, fact, file, config, acts, jobs, unsaved>>
      BY <1>2 DEF OpenGroup, PlanLands, PlanRefused
    <2>2. origin' \in {origin, [origin EXCEPT ![r] = Len(branch[r])]}
      BY <1>2 DEF OpenGroup, PlanLands, PlanRefused
    <2>3. QED
      BY <2>1, <2>2, ScreenIInv
  <1>3. ASSUME NEW r \in Repositories, OpenGroup(r) \/ Map(r) \/ OthersPush(r)
        PROVE  IInv'
    <2>1. "group" \in Vias
      BY DEF Vias
    <2>2. QED
      BY <1>2, <1>3, <2>1, MapIInv, OthersPushIInv
  <1>4. ASSUME NEW a \in Acts,
               \/ Confirm(a) \/ Fetch(a) \/ ListLabels(a) \/ CreateLabel(a) \/ OpenTree(a)
               \/ Stage(a) \/ Push(a) \/ Clean(a)
        PROVE  IInv'
    BY <1>4, ConfirmIInv, FetchIInv, ListLabelsIInv, CreateLabelIInv, OpenTreeIInv, StageIInv,
       PushIInv, CleanIInv
  <1>5. ASSUME NEW i \in 1..Len(jobs), WriteBegins(i) \/ WriteEnds(i)
        PROVE  IInv'
    BY <1>5, WriteBeginsIInv, WriteEndsIInv
  <1>6. CASE UNCHANGED vars
    <2>1. UNCHANGED <<host, origin, fact, file, config, acts, jobs, unsaved>>
      BY <1>6 DEF vars
    <2>2. QED
      BY <2>1, ScreenIInv
  <1>7. QED
    BY <1>1, <1>2, <1>3, <1>4, <1>5, <1>6, EditSettingsIInv, RestartIInv DEF Next

THEOREM Invariant == Spec => []IInv
  <1> QED
    BY InitIInv, NextIInv, PTL DEF Spec

(* The fact of an init tells what the repository holds, an act that nothing         *)
(* disturbs goes through, and an act that ends leaves no worktree but one whose own *)
(* command was not answered (repo-init.ts, repo-init-flow.ts).                      *)
THEOREM InitsEndWell == Spec => []InitEndsWell
  <1>1. IInv => InitEndsWell
    <2> SUFFICES ASSUME IInv PROVE InitEndsWell
      OBVIOUS
    <2>1. \A r \in Repositories : DOMAIN branch[r] = 1..Len(branch[r])
      BY DEF IInv, Typed
    <2>2. \A r \in Repositories : fact[r] # NoFact =>
             /\ fact[r].commit \in DOMAIN branch[r] /\ branch[r][fact[r].commit]
             /\ Needs(fact[r].settings) \subseteq labels[r]
      BY <2>1 DEF IInv, Told
    <2>3. \A a \in Acts : acts[a].pc = "idle" =>
             /\ acts[a].failed => acts[a].disturbed
             /\ acts[a].tree => acts[a].loose
      BY DEF IInv, Held, Holds, Knows
    <2>4. QED
      BY <2>2, <2>3 DEF InitEndsWell
  <1> QED
    BY <1>1, Invariant, PTL

(* An act that went through has its repository listed, and two writers of the      *)
(* config file lose none of each other's lines (config-write.ts).                  *)
THEOREM NoWriteLost == Spec => []WritesLoseNothing
  <1>1. IInv => WritesLoseNothing
    <2> SUFFICES ASSUME IInv PROVE WritesLoseNothing
      OBVIOUS
    <2>1. \A a \in Acts : acts[a].pc = "idle" /\ acts[a].repo # NoRepo /\ ~acts[a].failed =>
             Covered(config, acts[a].repo)
      BY DEF IInv, Held, Holds, Lists
    <2>2. ASSUME jobs = <<>>, ~unsaved PROVE Same(config, file)
      <3>1. ~Under
        BY <2>2 DEF Under
      <3>2. QED
        BY <2>2, <3>1 DEF IInv, Synced
    <2>3. QED
      BY <2>1, <2>2 DEF WritesLoseNothing, Same
  <1> QED
    BY <1>1, Invariant, PTL

--------------------------------------------------------------------------------
(* The bounds: what TypeOK says beyond IInv.  The rows a repository has in the     *)
(* config and the acts that will still add one are together no more than the acts, *)
(* for an act adds only where none stood when it was confirmed; and the writes at  *)
(* work are of the acts that wait for one, and of the mappings there were.         *)

Screens == [panel : Repositories \cup {NoRepo, "select"},
            marker : Repositories \cup {NoRepo, "select"},
            queue : [on : BOOLEAN, left : Seq(Repositories)],
            plans : [Repositories -> [Vias -> Int]]]
Tallies == [asks : 0..MaxAsks, faults : 0..MaxFaults, events : 0..MaxEvents]

(* The branches, and where an act's worktree was opened on one. *)
Filled ==
    /\ \A r \in Repositories : Len(branch[r]) <= MaxCommits
    /\ \A a \in Acts : acts[a].base <= MaxCommits

Writing(a) == Under /\ jobs[1].kind = "init" /\ jobs[1].act = a
\* The acts that will add a row for r: their write has not begun.
Adding(r) == {a \in Acts : acts[a].pc # "idle" /\ acts[a].repo = r /\ acts[a].new /\ ~Writing(a)}
Listed == \A r \in Repositories :
    /\ config.plane[r] + Cardinality(Adding(r)) <= Cardinality(Acts)
    /\ file.plane[r] <= Cardinality(Acts)

Waiting == {a \in Acts : acts[a].pc = "write"}
Awaited ==
    /\ \A a \in Waiting : \E i \in 1..Len(jobs) : jobs[i].act = a
    /\ \A i \in 1..Len(jobs) : jobs[i].kind = "mapping" => jobs[i].act = 0
    /\ Len(jobs) <= Cardinality(Waiting) + spent.events

Bounded == screen \in Screens /\ spent \in Tallies /\ Filled /\ Listed /\ Awaited

LEMMA InitBounded == Init => Bounded
  <1> SUFFICES ASSUME Init PROVE Bounded
    OBVIOUS
  <1>1. /\ screen = BlankScreen /\ spent = [asks |-> 0, faults |-> 0, events |-> 0]
        /\ branch = [r \in Repositories |-> <<FALSE>>] /\ acts = [a \in Acts |-> NoAct]
        /\ jobs = <<>> /\ file = config
    BY DEF Init
  <1>2. \A r \in Repositories : config.plane[r] = 0
    BY DEF Init
  <1>3. screen \in Screens
    BY <1>1 DEF BlankScreen, Screens, Lone, NoRepo
  <1>4. spent \in Tallies
    BY <1>1, InitAssumption DEF Tallies, InitAssumption
  <1>5. Filled
    <2>1. Len(<<FALSE>>) = 1
      OBVIOUS
    <2>2. QED
      BY <1>1, <2>1, InitAssumption DEF Filled, NoAct, InitAssumption
  <1>6. \A a \in Acts : acts[a].pc = "idle"
    BY <1>1 DEF NoAct
  <1>7. IsFiniteSet(Acts) /\ Cardinality(Acts) \in Nat /\ Cardinality({}) = 0
    BY InitAssumption, FS_CardinalityType, FS_EmptySet DEF InitAssumption
  <1>8. Listed
    <2>1. ASSUME NEW r \in Repositories PROVE Adding(r) = {}
      BY <1>6 DEF Adding
    <2>2. \A r \in Repositories : Cardinality(Adding(r)) = 0 /\ config.plane[r] = 0 /\ file.plane[r] = 0
      BY <1>1, <1>2, <1>7, <2>1
    <2>3. QED
      BY <1>7, <2>2 DEF Listed
  <1>9. Awaited
    <2>1. Waiting = {} /\ Len(jobs) = 0
      BY <1>1, <1>6 DEF Waiting
    <2>2. QED
      BY <1>1, <1>7, <2>1 DEF Awaited
  <1>10. QED
    BY <1>3, <1>4, <1>5, <1>8, <1>9 DEF Bounded

(* The bounds' counters only grow, and not past them. *)
LEMMA Spends ==
    ASSUME spent \in Tallies, UNCHANGED spent \/ Spend("asks", MaxAsks)
              \/ Spend("faults", MaxFaults) \/ Spend("events", MaxEvents)
    PROVE  spent' \in Tallies /\ spent'.events >= spent.events
  BY InitAssumption DEF Spend, Tallies, InitAssumption

LEMMA NextTallied ==
    ASSUME spent \in Tallies, [Next]_vars
    PROVE  spent' \in Tallies /\ spent'.events >= spent.events
  <1> DEFINE S == \/ UNCHANGED spent \/ Spend("asks", MaxAsks)
                  \/ Spend("faults", MaxFaults) \/ Spend("events", MaxEvents)
  <1>1. ASSUME OpenSelect \/ Cancel \/ EditSettings \/ Restart \/ UNCHANGED vars PROVE S
    BY <1>1 DEF OpenSelect, Cancel, EditSettings, Restart, vars
  <1>2. ASSUME NEW rows \in Rows, StartQueue(rows) PROVE S
    BY <1>2 DEF StartQueue
  <1>3. ASSUME NEW r \in Repositories,
               \/ OpenGroup(r) \/ Map(r) \/ OthersPush(r)
               \/ \E via \in Vias : PlanLands(r, via) \/ PlanRefused(r, via)
        PROVE  S
    BY <1>3 DEF OpenGroup, Map, OthersPush, PlanLands, PlanRefused
  <1>4. ASSUME NEW a \in Acts,
               \/ Confirm(a) \/ Fetch(a) \/ ListLabels(a) \/ CreateLabel(a) \/ OpenTree(a)
               \/ Stage(a) \/ Push(a) \/ Clean(a)
        PROVE  S
    <2>1. CASE Confirm(a)
      BY <2>1 DEF Confirm
    <2>2. CASE \/ Fetch(a) \/ ListLabels(a) \/ CreateLabel(a) \/ OpenTree(a)
               \/ Stage(a) \/ Push(a) \/ Clean(a)
      <3>1. PICK answer : Answers(answer)
        BY <2>2 DEF Fetch, ListLabels, CreateLabel, OpenTree, Stage, Push, Clean
      <3>2. QED
        BY <3>1 DEF Answers
    <2>3. QED
      BY <1>4, <2>1, <2>2
  <1>5. ASSUME NEW i \in 1..Len(jobs), WriteBegins(i) \/ WriteEnds(i) PROVE S
    BY <1>5 DEF WriteBegins, WriteEnds
  <1> HIDE DEF S
  <1>6. S
    BY <1>1, <1>2, <1>3, <1>4, <1>5 DEF Next
  <1>7. QED
    BY <1>6, Spends DEF S

(* The screen. *)
LEMMA PlansOf ==
    ASSUME NEW plans \in [Repositories -> [Vias -> Int]], NEW r \in Repositories, NEW via \in Vias,
           NEW n \in Int
    PROVE  [plans EXCEPT ![r] = [plans[r] EXCEPT ![via] = n]] \in [Repositories -> [Vias -> Int]]
  <1> DEFINE row == [plans[r] EXCEPT ![via] = n]
  <1>1. plans[r] \in [Vias -> Int]
    OBVIOUS
  <1>2. row \in [Vias -> Int]
    BY <1>1
  <1> HIDE DEF row
  <1>3. QED
    BY <1>2

LEMMA PlanningScreen ==
    ASSUME NEW s \in Screens, NEW r \in Repositories, NEW via \in Vias
    PROVE  Planning(s, r, via) \in Screens
  <1> DEFINE plans == [s.plans EXCEPT ![r] = [s.plans[r] EXCEPT ![via] = s.plans[r][via] + 1]]
  <1>1. s.plans \in [Repositories -> [Vias -> Int]] /\ s.plans[r][via] + 1 \in Int
    <2>1. s.plans \in [Repositories -> [Vias -> Int]]
      BY DEF Screens
    <2>2. s.plans[r] \in [Vias -> Int]
      BY <2>1
    <2>3. QED
      BY <2>1, <2>2
  <1>2. plans \in [Repositories -> [Vias -> Int]]
    BY <1>1, PlansOf
  <1>3. Planning(s, r, via) = [s EXCEPT !.marker = r, !.plans = plans]
    BY DEF Planning
  <1> HIDE DEF plans
  <1>4. QED
    BY <1>2, <1>3 DEF Screens

LEMMA AdvancedScreen ==
    ASSUME NEW s \in Screens, NEW outcome
    PROVE  Advanced(s, outcome) \in Screens
  <1>1. /\ [s EXCEPT !.queue = Lone] \in Screens
        /\ [s EXCEPT !.queue = Lone, !.panel = NoRepo] \in Screens
    <2>1. Lone \in [on : BOOLEAN, left : Seq(Repositories)]
      BY DEF Lone
    <2>2. QED
      BY <2>1 DEF Screens
  <1>2. ASSUME s.queue.left # <<>>
        PROVE  Planning([s EXCEPT !.queue.left = Tail(@)], Head(s.queue.left), "list") \in Screens
    <2>1. s.queue.left \in Seq(Repositories)
      BY DEF Screens
    <2>2. Head(s.queue.left) \in Repositories /\ Tail(s.queue.left) \in Seq(Repositories)
      BY <1>2, <2>1
    <2>3. [s EXCEPT !.queue.left = Tail(@)] \in Screens
      BY <2>2 DEF Screens
    <2>4. "list" \in Vias
      BY DEF Vias
    <2>5. QED
      BY <2>2, <2>3, <2>4, PlanningScreen
  <1>3. QED
    BY <1>1, <1>2 DEF Advanced

LEMMA NextScreen ==
    ASSUME screen \in Screens, [Next]_vars
    PROVE  screen' \in Screens
  <1> DEFINE closed == [screen EXCEPT !.panel = NoRepo]
  <1>1. closed \in Screens
    BY DEF Screens
  <1>2. CASE OpenSelect
    BY <1>2 DEF OpenSelect, Screens
  <1>3. CASE Cancel
    BY <1>1, <1>3, AdvancedScreen DEF Cancel
  <1>4. CASE EditSettings \/ UNCHANGED vars
    BY <1>4 DEF EditSettings, vars
  <1>5. CASE Restart
    BY <1>5 DEF Restart, BlankScreen, Screens, Lone, NoRepo
  <1>6. ASSUME NEW rows \in Rows, StartQueue(rows) PROVE screen' \in Screens
    <2>1. Head(rows) \in Repositories /\ Tail(rows) \in Seq(Repositories) /\ (Len(rows) > 1) \in BOOLEAN
      <3>1. CASE \E r \in Repositories : rows = <<r>>
        BY <3>1
      <3>2. CASE \E r, q \in Repositories : rows = <<r, q>>
        BY <3>2
      <3>3. QED
        BY <1>6, <3>1, <3>2 DEF Rows
    <2> DEFINE queued == [closed EXCEPT !.queue = [on |-> Len(rows) > 1, left |-> Tail(rows)]]
    <2>2. queued \in Screens
      BY <1>1, <2>1 DEF Screens
    <2>3. screen' = closed \/ screen' = Planning(queued, Head(rows), "list")
      BY <1>6 DEF StartQueue
    <2> HIDE DEF queued
    <2>4. "list" \in Vias
      BY DEF Vias
    <2>5. QED
      BY <1>1, <2>1, <2>2, <2>3, <2>4, PlanningScreen
  <1>7. ASSUME NEW r \in Repositories, OpenGroup(r) PROVE screen' \in Screens
    <2>1. "group" \in Vias
      BY DEF Vias
    <2>2. QED
      BY <1>7, <2>1, PlanningScreen DEF OpenGroup
  <1>8. ASSUME NEW r \in Repositories, Map(r) \/ OthersPush(r) PROVE screen' \in Screens
    BY <1>8 DEF Map, OthersPush
  <1>9. ASSUME NEW r \in Repositories, NEW via \in Vias, PlanLands(r, via) \/ PlanRefused(r, via)
        PROVE  screen' \in Screens
    <2> DEFINE over == [screen EXCEPT !.plans[r][via] = @ - 1, !.marker = NoRepo]
    <2> DEFINE plans == [screen.plans EXCEPT ![r] = [screen.plans[r] EXCEPT ![via] = screen.plans[r][via] - 1]]
               lands == [screen EXCEPT !.plans[r][via] = @ - 1, !.marker = NoRepo, !.panel = r]
    <2>1. screen.plans \in [Repositories -> [Vias -> Int]]
      BY DEF Screens
    <2>2. screen.plans[r] \in [Vias -> Int]
      BY <2>1
    <2>3. plans \in [Repositories -> [Vias -> Int]]
      BY <2>1, <2>2, PlansOf
    <2>4. /\ over = [screen EXCEPT !.plans = plans, !.marker = NoRepo]
          /\ lands = [screen EXCEPT !.plans = plans, !.marker = NoRepo, !.panel = r]
      OBVIOUS
    <2> HIDE DEF plans
    <2>5. over \in Screens
      BY <2>3, <2>4 DEF Screens
    <2>6. lands \in Screens
      BY <2>3, <2>4 DEF Screens
    <2>7. QED
      BY <1>9, <2>5, <2>6, AdvancedScreen DEF PlanLands, PlanRefused
  <1>10. ASSUME NEW a \in Acts, Confirm(a) PROVE screen' \in Screens
    BY <1>1, <1>10, AdvancedScreen DEF Confirm
  <1>11. ASSUME NEW a \in Acts,
                \/ Fetch(a) \/ ListLabels(a) \/ CreateLabel(a) \/ OpenTree(a)
                \/ Stage(a) \/ Push(a) \/ Clean(a)
         PROVE  screen' \in Screens
    <2>1. UNCHANGED screen \/ \E rec : screen' = After(rec)
      BY <1>11 DEF Fetch, ListLabels, CreateLabel, OpenTree, Stage, Push, Clean
    <2>2. QED
      BY <2>1, AdvancedScreen DEF After
  <1>12. ASSUME NEW i \in 1..Len(jobs), WriteBegins(i) \/ WriteEnds(i) PROVE screen' \in Screens
    BY <1>1, <1>12, AdvancedScreen DEF WriteBegins, WriteEnds
  <1>13. QED
    BY <1>2, <1>3, <1>4, <1>5, <1>6, <1>7, <1>8, <1>9, <1>10, <1>11, <1>12 DEF Next

(* What a command before the cleanup does to the act it is of. *)
Moves(a) ==
    /\ acts[a].pc \notin {"idle", "write"} /\ acts'[a].pc # "write"
    /\ acts' = [acts EXCEPT ![a] = acts'[a]] /\ acts'[a] \in ActRecs
    /\ acts'[a].repo = acts[a].repo /\ acts'[a].new = acts[a].new
    /\ acts'[a].base \in {acts[a].base, origin[acts[a].repo]}

LEMMA RecMoves ==
    ASSUME Typed, NEW a \in Acts, NEW rec \in ActRecs, NEW answer, Goes(a, rec, answer),
           acts[a].pc \notin {"idle", "write"}, rec.pc # "write",
           rec.repo = acts[a].repo, rec.new = acts[a].new,
           rec.base \in {acts[a].base, origin[acts[a].repo]}
    PROVE  Moves(a)
  BY CommandRec DEF Moves

LEMMA CommandMoves ==
    ASSUME IInv, NEW a \in Acts,
           Fetch(a) \/ ListLabels(a) \/ CreateLabel(a) \/ OpenTree(a) \/ Stage(a) \/ Push(a)
    PROVE  Moves(a) /\ UNCHANGED <<fact, file, config, jobs>>
  <1> DEFINE x == acts[a]
  <1>1. Typed /\ x \in ActRecs
    BY DEF IInv, Typed
  <1>2. UNCHANGED <<fact, file, config, jobs>>
    BY DEF Fetch, ListLabels, CreateLabel, OpenTree, Stage, Push
  <1>3. x.pc \in {"fetch", "list", "create", "tree", "stage", "push"}
    BY DEF Fetch, ListLabels, CreateLabel, OpenTree, Stage, Push, At
  <1> DEFINE Moved(rec) == /\ rec \in ActRecs /\ rec.pc # "write" /\ rec.repo = x.repo
                           /\ rec.new = x.new /\ rec.base \in {x.base, origin[x.repo]}
  <1>4. Moved(Fails(a, x))
    BY <1>1 DEF ActRecs, Steps, Fails
  <1>5. ASSUME NEW known \in SUBSET Settings PROVE Moved(ToLabels([x EXCEPT !.known = known]))
    BY <1>1 DEF ActRecs, Steps, ToLabels
  <1>6. ASSUME NEW failed \in BOOLEAN, NEW commit \in Nat
        PROVE  Moved(Cleans([x EXCEPT !.commit = commit], failed))
    BY <1>1 DEF ActRecs, Steps, Cleans
  <1>7. \E rec, answer : Moved(rec) /\ Goes(a, rec, answer)
    <2>1. CASE Fetch(a)
      <3>1. Moved([x EXCEPT !.pc = "list"])
        BY <1>1 DEF ActRecs, Steps
      <3> HIDE DEF Moved
      <3>2. QED
        BY <1>4, <2>1, <3>1 DEF Fetch
    <2>2. CASE ListLabels(a)
      <3>1. PICK answer : LET names == IF answer = "ok" THEN labels[x.repo] ELSE {} IN
              Goes(a, IF answer = "refused" THEN Fails(a, x)
                      ELSE ToLabels([x EXCEPT !.known = names]), answer)
        BY <2>2 DEF ListLabels
      <3>2. labels[x.repo] \subseteq Settings
        BY <1>3 DEF IInv, Typed, Held, Holds, Knows
      <3> HIDE DEF Moved
      <3>3. QED
        BY <1>4, <1>5, <3>1, <3>2
    <2>3. CASE CreateLabel(a)
      <3> DEFINE l == CHOOSE l \in Missing(x) : \A k \in Missing(x) : l <= k
      <3>1. PICK answer :
              LET made == l \notin labels[x.repo] /\ answer # "refused" IN
              Goes(a, IF made /\ answer = "ok" THEN ToLabels([x EXCEPT !.known = @ \cup {l}])
                      ELSE Fails(a, x), answer)
        BY <2>3 DEF CreateLabel
      <3>2. x.known \cup {l} \subseteq Settings
        <4>1. Missing(x) # {} /\ x.known \subseteq Settings /\ config.settings \in Settings
          BY <1>1, <2>3 DEF CreateLabel, At, IInv, Typed, Held, Holds, Saw, ActRecs, ConfigRecs
        <4>2. Missing(x) \in SUBSET Nat /\ Missing(x) \subseteq Settings
          BY <4>1, InitAssumption DEF InitAssumption, Missing, Needs, Settings
        <4>3. l \in Missing(x)
          BY <4>1, <4>2, LeastMissing
        <4>4. QED
          BY <4>1, <4>2, <4>3
      <3> HIDE DEF Moved, l
      <3>3. QED
        BY <1>4, <1>5, <3>1, <3>2
    <2>4. CASE OpenTree(a)
      <3>1. PICK answer :
              LET stands == [x EXCEPT !.base = origin[x.repo],
                                      !.tree = answer # "refused", !.loose = answer = "lost"] IN
              Goes(a, IF answer = "ok" THEN [stands EXCEPT !.pc = "stage"] ELSE Fails(a, stands), answer)
        BY <2>4 DEF OpenTree
      <3> DEFINE stands == [x EXCEPT !.base = origin[x.repo],
                                     !.tree = answer # "refused", !.loose = answer = "lost"]
      <3>2. origin[x.repo] \in Nat /\ (answer # "refused") \in BOOLEAN /\ (answer = "lost") \in BOOLEAN
        BY <1>3 DEF IInv, Typed, Held, Holds, Knows
      <3>3. /\ stands \in ActRecs /\ stands.repo = x.repo /\ stands.new = x.new
            /\ stands.base = origin[x.repo]
        BY <1>1, <3>2 DEF ActRecs
      <3>4. Goes(a, IF answer = "ok" THEN [stands EXCEPT !.pc = "stage"] ELSE Fails(a, stands), answer)
        BY <3>1
      <3> HIDE DEF stands
      <3>5. Moved([stands EXCEPT !.pc = "stage"]) /\ Moved(Fails(a, stands))
        BY <3>3 DEF ActRecs, Steps, Fails
      <3> HIDE DEF Moved
      <3>6. QED
        BY <3>4, <3>5
    <2>5. CASE Stage(a)
      <3>1. PICK answer :
              Goes(a, IF answer # "ok" \/ (Generated(x) /\ ~NothingStaged(x)) THEN Cleans(x, TRUE)
                      ELSE IF NothingStaged(x) THEN Cleans([x EXCEPT !.commit = x.base], FALSE)
                      ELSE [x EXCEPT !.pc = "push"], answer)
        BY <2>5 DEF Stage
      <3>2. Moved(Cleans(x, TRUE)) /\ Moved([x EXCEPT !.pc = "push"])
        BY <1>1 DEF ActRecs, Steps, Cleans
      <3>3. x.base \in Nat
        BY <1>1 DEF ActRecs
      <3>4. Moved(Cleans([x EXCEPT !.commit = x.base], FALSE))
        BY <1>6, <3>3
      <3> HIDE DEF Moved
      <3>5. QED
        BY <3>1, <3>2, <3>4
    <2>6. CASE Push(a)
      <3> DEFINE failed(answer) ==
              ~PushStands(Len(branch[x.repo]) = x.base /\ answer # "refused", answer)
      <3>1. PICK answer :
              Goes(a, Cleans([x EXCEPT !.commit = x.base + 1], failed(answer)), answer)
        BY <2>6 DEF Push
      <3>2. x.base + 1 \in Nat
        BY <1>1 DEF ActRecs
      <3>3. Moved(Cleans([x EXCEPT !.commit = x.base + 1], failed(answer)))
        <4>1. failed(answer) \in BOOLEAN
          BY DEF PushStands
        <4> HIDE DEF Moved, failed
        <4>2. QED
          BY <1>6, <3>2, <4>1
      <3> HIDE DEF Moved, failed
      <3>4. QED
        BY <3>1, <3>3
    <2>7. QED
      BY <2>1, <2>2, <2>3, <2>4, <2>5, <2>6
  <1>8. QED
    BY <1>1, <1>2, <1>3, <1>7, RecMoves

(* What the steps that are not of an act before its cleanup leave of the branches *)
(* and the acts.                                                                  *)
LEMMA ScreenSteps ==
    ASSUME NEW r \in Repositories, NEW via \in Vias,
           \/ OpenSelect \/ Cancel \/ OpenGroup(r) \/ PlanLands(r, via) \/ PlanRefused(r, via)
           \/ \E rows \in Rows : StartQueue(rows)
    PROVE  UNCHANGED <<host, fact, file, config, acts, jobs>>
  BY DEF OpenSelect, Cancel, OpenGroup, PlanLands, PlanRefused, StartQueue

LEMMA ConfirmAct ==
    ASSUME Typed, NEW a \in Acts, Confirm(a)
    PROVE  /\ UNCHANGED <<host, fact, file, config, jobs>>
           /\ acts[a].pc = "idle" /\ acts'[a].pc \in {"idle", "fetch"}
           /\ acts'[a].pc = "fetch" => /\ acts'[a].base = 0
                                       /\ acts'[a].repo \in Repositories
                                       /\ acts'[a].new => ~Covered(config, acts'[a].repo)
           /\ acts'[a].pc = "idle" => acts' = acts
           /\ \A b \in Acts : b # a =>
                /\ acts'[b].pc = acts[b].pc /\ acts'[b].repo = acts[b].repo
                /\ acts'[b].new = acts[b].new /\ acts'[b].base = acts[b].base
  <1>1. CASE acts' = acts
    BY <1>1 DEF Confirm
  <1>2. CASE acts' # acts
    <2> DEFINE r == screen.panel
               beside == {b \in Acts : acts[b].pc # "idle" /\ acts[b].repo = r}
    <2>1. /\ acts' = [b \in Acts |->
                 IF b = a THEN [NoAct EXCEPT !.pc = "fetch", !.repo = r,
                                  !.new = ~Covered(config, r), !.disturbed = beside # {}]
                 ELSE [acts[b] EXCEPT !.disturbed = @ \/ b \in beside]]
          /\ r \in Repositories /\ acts[a].pc = "idle"
          /\ UNCHANGED <<host, fact, file, config, jobs>>
      BY <1>2 DEF Confirm
    <2> HIDE DEF beside
    <2>2. /\ acts'[a].pc = "fetch" /\ acts'[a].base = 0 /\ acts'[a].repo = r
          /\ acts'[a].new = ~Covered(config, r)
      BY <2>1 DEF NoAct
    <2>3. ASSUME NEW b \in Acts, b # a
          PROVE  /\ acts'[b].pc = acts[b].pc /\ acts'[b].repo = acts[b].repo
                 /\ acts'[b].new = acts[b].new /\ acts'[b].base = acts[b].base
      <3>1. acts[b] \in ActRecs /\ acts'[b] = [acts[b] EXCEPT !.disturbed = @ \/ b \in beside]
        BY <2>1, <2>3 DEF Typed
      <3>2. QED
        BY <3>1 DEF ActRecs
    <2> HIDE DEF r
    <2>4. acts'[a].new => ~Covered(config, acts'[a].repo)
      BY <2>2, Zenon
    <2>5. QED
      BY <2>1, <2>2, <2>3, <2>4
  <1>3. QED
    BY <1>1, <1>2

LEMMA OthersPushActs ==
    ASSUME Typed, NEW r \in Repositories, OthersPush(r)
    PROVE  /\ UNCHANGED <<fact, file, config, jobs>>
           /\ \A b \in Acts :
                /\ acts'[b].pc = acts[b].pc /\ acts'[b].repo = acts[b].repo
                /\ acts'[b].new = acts[b].new /\ acts'[b].base = acts[b].base
  <1>1. ASSUME NEW b \in Acts
        PROVE  /\ acts'[b].pc = acts[b].pc /\ acts'[b].repo = acts[b].repo
               /\ acts'[b].new = acts[b].new /\ acts'[b].base = acts[b].base
    <2>1. /\ acts[b] \in ActRecs
          /\ acts'[b] = [acts[b] EXCEPT !.disturbed = @ \/ (acts[b].repo = r /\ acts[b].pc # "idle")]
      BY DEF OthersPush, Typed
    <2>2. QED
      BY <2>1 DEF ActRecs
  <1>2. QED
    BY <1>1 DEF OthersPush

(* The cleanup of an act that went through moves it to its write. *)
LEMMA CleanAct ==
    ASSUME Typed, NEW a \in Acts, Clean(a)
    PROVE  /\ acts[a].pc = "clean" /\ UNCHANGED <<host, file, config>>
           /\ acts' = [acts EXCEPT ![a] = acts'[a]]
           /\ acts'[a].repo = acts[a].repo /\ acts'[a].new = acts[a].new
           /\ acts'[a].base = acts[a].base
           /\ \/ acts'[a].pc = "idle" /\ jobs' = jobs
              \/ acts'[a].pc = "write" /\ jobs' = Append(jobs, Job("init", acts[a].repo, a))
  <1> DEFINE x == acts[a]
  <1>1. PICK answer :
          LET swept == [x EXCEPT !.tree = answer = "refused", !.loose = answer = "refused"]
              rec == IF swept.failed THEN Fails(a, swept) ELSE [swept EXCEPT !.pc = "write"] IN
          /\ Goes(a, rec, answer)
          /\ jobs' = IF Registers(rec) THEN Append(jobs, Job("init", x.repo, a)) ELSE jobs
    BY DEF Clean
  <1> DEFINE swept == [x EXCEPT !.tree = answer = "refused", !.loose = answer = "refused"]
             rec == IF swept.failed THEN Fails(a, swept) ELSE [swept EXCEPT !.pc = "write"]
  <1>2. x.pc = "clean" /\ x \in ActRecs /\ UNCHANGED <<host, file, config>>
    BY DEF Clean, At, Typed
  <1>3. (answer = "refused") \in BOOLEAN
    OBVIOUS
  <1>4. /\ swept \in ActRecs /\ swept.repo = x.repo /\ swept.new = x.new /\ swept.base = x.base
        /\ swept.failed = x.failed
    BY <1>2, <1>3 DEF ActRecs
  <1>5. /\ Goes(a, rec, answer)
        /\ jobs' = IF rec.failed THEN jobs ELSE Append(jobs, Job("init", x.repo, a))
    BY <1>1 DEF Registers
  <1> HIDE DEF swept
  <1>6. /\ rec \in ActRecs /\ rec.failed = x.failed /\ rec.repo = x.repo /\ rec.new = x.new
        /\ rec.base = x.base /\ rec.pc = IF x.failed THEN "idle" ELSE "write"
    BY <1>4 DEF ActRecs, Steps, Fails
  <1> HIDE DEF rec
  <1>7. /\ acts' = [acts EXCEPT ![a] = acts'[a]] /\ acts'[a].pc = rec.pc
        /\ acts'[a].repo = rec.repo /\ acts'[a].new = rec.new /\ acts'[a].base = rec.base
    BY <1>5, <1>6, CommandRec
  <1>8. QED
    BY <1>2, <1>5, <1>6, <1>7

(* A write that is under way takes its act to its end, and leaves the queue. *)
LEMMA WriteEndsActs ==
    ASSUME IInv, NEW i \in 1..Len(jobs), WriteEnds(i)
    PROVE  /\ i = 1 /\ Under /\ UNCHANGED <<host, fact, config>>
           /\ jobs' \in Seq(JobRecs) /\ Len(jobs') = Len(jobs) - 1
           /\ \A k \in 1..(Len(jobs) - 1) : jobs'[k] = jobs[k + 1]
           /\ ~Under'
           /\ jobs[1].kind = "mapping" => acts' = acts
           /\ jobs[1].kind = "init" =>
                /\ jobs[1].act \in Acts /\ acts[jobs[1].act].pc = "write"
                /\ acts' = [acts EXCEPT ![jobs[1].act].pc = "idle"]
  <1>1. jobs \in Seq(JobRecs) /\ Len(jobs) > 0 /\ Len(jobs) \in Nat
    BY DEF IInv, Typed
  <1>2. i = 1 /\ jobs[1].begun
    BY DEF WriteEnds, IInv, Queued
  <1>3. jobs' = SubSeq(jobs, 1, 0) \o SubSeq(jobs, 2, Len(jobs))
    BY <1>1, <1>2 DEF WriteEnds
  <1>4. /\ jobs' \in Seq(JobRecs) /\ Len(jobs') = Len(jobs) - 1
        /\ \A k \in 1..(Len(jobs) - 1) : jobs'[k] = jobs[k + 1]
    BY <1>1, <1>3, DropFirst
  <1>5. ~Under'
    <2>1. ASSUME Len(jobs') > 0 PROVE jobs'[1] = jobs[2] /\ ~jobs[2].begun
      BY <1>1, <1>4, <2>1 DEF IInv, Queued
    <2>2. QED
      BY <2>1 DEF Under
  <1>6. /\ jobs[1].kind = "mapping" => acts' = acts
        /\ jobs[1].kind # "mapping" => acts' = [acts EXCEPT ![jobs[1].act].pc = "idle"]
        /\ UNCHANGED <<host, fact, config>>
    BY <1>2 DEF WriteEnds
  <1>7. jobs[1].kind = "init" => jobs[1].act \in Acts /\ acts[jobs[1].act].pc = "write"
    BY <1>1 DEF IInv, Queued, JobHolds
  <1>8. QED
    BY <1>1, <1>2, <1>4, <1>5, <1>6, <1>7 DEF Under

(* A write that begins changes none of the acts, and nothing of the queue but itself. *)
LEMMA WriteBeginsJobs ==
    ASSUME IInv, NEW i \in 1..Len(jobs), WriteBegins(i)
    PROVE  /\ i = 1 /\ ~Under /\ Under' /\ UNCHANGED <<host, fact, file, acts>>
           /\ Len(jobs) \in Nat /\ Len(jobs') = Len(jobs)
           /\ \A k \in 1..Len(jobs) : jobs'[k].kind = jobs[k].kind /\ jobs'[k].act = jobs[k].act
           /\ jobs[1] \in JobRecs
           /\ config' = IF jobs[1].kind = "mapping"
                        THEN [config EXCEPT !.mapped = @ \cup {jobs[1].repo}]
                        ELSE IF acts[jobs[1].act].new
                             THEN [config EXCEPT !.plane[jobs[1].repo] = @ + 1] ELSE config
  <1> DEFINE j == jobs[1]
             d == [j EXCEPT !.begun = TRUE, !.updated = config', !.text = file]
  <1>1. jobs \in Seq(JobRecs) /\ Len(jobs) > 0 /\ Len(jobs) \in Nat /\ i = 1
    BY DEF IInv, Typed, WriteBegins, Turn
  <1>2. Typed'
    BY WriteBeginsIInv DEF IInv
  <1>3. config' \in ConfigRecs /\ file \in ConfigRecs /\ j \in JobRecs
    BY <1>1, <1>2 DEF Typed, IInv
  <1>4. d \in JobRecs /\ d.begun = TRUE /\ d.kind = j.kind /\ d.act = j.act
    BY <1>3 DEF JobRecs
  <1>5. /\ ~j.begun /\ jobs' = [jobs EXCEPT ![1] = d] /\ UNCHANGED <<host, fact, file, acts>>
        /\ config' = IF j.kind = "mapping"
                     THEN [config EXCEPT !.mapped = @ \cup {j.repo}]
                     ELSE IF j.kind = "init" /\ acts[j.act].new
                          THEN [config EXCEPT !.plane[j.repo] = @ + 1] ELSE config
    BY <1>1 DEF WriteBegins
  <1> HIDE DEF d
  <1>6. /\ Len(jobs') = Len(jobs) /\ jobs'[1] = d
        /\ \A k \in 1..Len(jobs) : k # 1 => jobs'[k] = jobs[k]
    <2>1. /\ Len([jobs EXCEPT ![1] = d]) = Len(jobs) /\ [jobs EXCEPT ![1] = d][1] = d
          /\ \A k \in 1..Len(jobs) : k # 1 => [jobs EXCEPT ![1] = d][k] = jobs[k]
      BY <1>1, <1>4, FirstReplaced
    <2>2. QED
      BY <1>5, <2>1, Zenon
  <1>7. j.kind # "mapping" => j.kind = "init"
    BY <1>3 DEF JobRecs
  <1>8. QED
    BY <1>1, <1>3, <1>4, <1>5, <1>6, <1>7 DEF Under

(* A push finds room on the branch, and a worktree stands on a commit there is. *)
LEMMA NextFilled ==
    ASSUME IInv, Filled, [Next]_vars
    PROVE  Filled'
  <1>1. /\ Typed /\ \A r \in Repositories : /\ branch[r] \in Seq(BOOLEAN) /\ Len(branch[r]) \in Nat
                                            /\ origin[r] \in 1..Len(branch[r])
    BY DEF IInv, Typed, Fetched
  <1>2. MaxCommits \in Nat
    BY InitAssumption DEF InitAssumption
  <1>3. ASSUME UNCHANGED <<branch, acts>> PROVE Filled'
    BY <1>3 DEF Filled
  <1>4. CASE OpenSelect \/ Cancel \/ EditSettings \/ UNCHANGED vars \/ \E rows \in Rows : StartQueue(rows)
    BY <1>3, <1>4 DEF OpenSelect, Cancel, EditSettings, vars, StartQueue, host
  <1>5. CASE Restart
    BY <1>2, <1>5 DEF Restart, Filled, NoAct, host
  <1>6. ASSUME NEW r \in Repositories,
               \/ OpenGroup(r) \/ Map(r)
               \/ \E via \in Vias : PlanLands(r, via) \/ PlanRefused(r, via)
        PROVE  Filled'
    BY <1>3, <1>6 DEF OpenGroup, Map, PlanLands, PlanRefused, host
  <1>7. ASSUME NEW r \in Repositories, OthersPush(r) PROVE Filled'
    <2>1. PICK kept : branch' = [branch EXCEPT ![r] = Append(@, kept)]
      BY <1>7 DEF OthersPush
    <2>2. Len(branch[r]) < MaxCommits /\ branch[r] \in Seq(BOOLEAN)
      BY <1>1, <1>7 DEF OthersPush
    <2>3. branch' \in [Repositories -> Seq(BOOLEAN)]
      BY <1>7, OthersPushIInv DEF IInv, Typed
    <2>4. branch'[r] = Append(branch[r], kept) /\ branch'[r] \in Seq(BOOLEAN)
          /\ \A s \in Repositories : s # r => branch'[s] = branch[s]
      BY <1>1, <2>1, <2>3 DEF Typed
    <2>5. Len(branch'[r]) = Len(branch[r]) + 1
      BY <2>2, <2>4
    <2>6. \A b \in Acts : acts'[b].base = acts[b].base
      BY <1>1, <1>7, OthersPushActs
    <2>7. QED
      BY <1>1, <1>2, <2>2, <2>4, <2>5, <2>6 DEF Filled
  <1>8. ASSUME NEW a \in Acts, Confirm(a) PROVE Filled'
    <2>1. /\ branch' = branch
          /\ acts' = acts \/ acts'[a].base = 0
          /\ \A b \in Acts : b # a => acts'[b].base = acts[b].base
      BY <1>1, <1>8, ConfirmAct DEF host
    <2>2. QED
      BY <1>2, <2>1 DEF Filled
  <1>9. ASSUME NEW a \in Acts,
               Fetch(a) \/ ListLabels(a) \/ CreateLabel(a) \/ OpenTree(a) \/ Stage(a) \/ Push(a)
        PROVE  Filled'
    <2>1. Moves(a)
      BY <1>9, CommandMoves
    <2>2. acts[a].repo \in Repositories /\ acts \in [Acts -> ActRecs] /\ acts[a].base \in Nat
      BY <2>1 DEF Moves, IInv, Held, Holds, Knows, Typed, ActRecs
    <2>3. \A b \in Acts : acts'[b].base <= MaxCommits
      BY <1>1, <1>2, <2>1, <2>2 DEF Moves, Filled
    <2>4. CASE branch' = branch
      BY <2>3, <2>4 DEF Filled
    <2>5. CASE branch' # branch
      <3> DEFINE r == acts[a].repo
      <3>1. Push(a)
        BY <1>9, <2>5 DEF Fetch, ListLabels, CreateLabel, OpenTree, Stage, host
      <3>2. Len(branch[r]) < MaxCommits /\ branch' = [branch EXCEPT ![r] = Append(@, TRUE)]
        BY <2>5, <3>1 DEF Push
      <3> HIDE DEF r
      <3>3. /\ branch'[r] = Append(branch[r], TRUE) /\ branch[r] \in Seq(BOOLEAN)
            /\ \A s \in Repositories : s # r => branch'[s] = branch[s]
        BY <1>1, <2>2, <3>2 DEF Typed, r
      <3>4. Len(branch'[r]) = Len(branch[r]) + 1
        BY <3>3
      <3>5. \A s \in Repositories : Len(branch'[s]) <= MaxCommits
        BY <1>1, <1>2, <2>2, <3>2, <3>3, <3>4 DEF Filled, r
      <3>6. QED
        BY <2>3, <3>5 DEF Filled
    <2>6. QED
      BY <2>4, <2>5
  <1>10. ASSUME NEW a \in Acts, Clean(a) PROVE Filled'
    <2>1. /\ branch' = branch /\ acts' = [acts EXCEPT ![a] = acts'[a]]
          /\ acts'[a].base = acts[a].base
      BY <1>1, <1>10, CleanAct DEF host
    <2>2. \A b \in Acts : acts'[b].base = acts[b].base
      BY <1>1, <2>1 DEF Typed
    <2>3. QED
      BY <2>1, <2>2 DEF Filled
  <1>11. ASSUME NEW i \in 1..Len(jobs), WriteBegins(i) PROVE Filled'
    BY <1>3, <1>11, WriteBeginsJobs DEF host
  <1>12. ASSUME NEW i \in 1..Len(jobs), WriteEnds(i) PROVE Filled'
    <2>1. branch' = branch
      BY <1>12, WriteEndsActs DEF host
    <2>2. \A b \in Acts : acts'[b].base = acts[b].base
      <3>1. acts' = acts \/ \E b \in Acts : acts' = [acts EXCEPT ![b].pc = "idle"]
        <4>1. jobs[1] \in JobRecs
          BY <1>12, WriteEndsActs DEF IInv, Typed
        <4>2. jobs[1].kind \in {"init", "mapping"}
          BY <4>1 DEF JobRecs
        <4>3. QED
          BY <1>12, <4>2, WriteEndsActs
      <3>2. \A b \in Acts : acts[b] \in ActRecs
        BY <1>1 DEF Typed
      <3>3. ASSUME NEW b \in Acts, acts' = [acts EXCEPT ![b].pc = "idle"]
            PROVE  \A c \in Acts : acts'[c].base = acts[c].base
        <4>1. acts \in [Acts -> ActRecs]
          BY <1>1 DEF Typed
        <4>2. acts'[b] = [acts[b] EXCEPT !.pc = "idle"] /\ \A c \in Acts : c # b => acts'[c] = acts[c]
          BY <3>3, <4>1
        <4>3. acts'[b].base = acts[b].base
          BY <3>2, <4>2 DEF ActRecs
        <4>4. QED
          BY <4>2, <4>3
      <3>4. CASE acts' = acts
        BY <3>4
      <3>5. PICK b : acts' = acts \/ (b \in Acts /\ acts' = [acts EXCEPT ![b].pc = "idle"])
        BY <3>1
      <3>6. QED
        BY <3>3, <3>4, <3>5
    <2>3. QED
      BY <2>1, <2>2 DEF Filled
  <1>13. QED
    BY <1>4, <1>5, <1>6, <1>7, <1>8, <1>9, <1>10, <1>11, <1>12 DEF Next

LEMMA NextListed ==
    ASSUME IInv, Listed, [Next]_vars
    PROVE  Listed'
  <1> DEFINE N == Cardinality(Acts)
  <1>1. /\ Typed /\ config.plane \in [Repositories -> Nat] /\ file.plane \in [Repositories -> Nat]
        /\ acts \in [Acts -> ActRecs]
    BY DEF IInv, Typed, ConfigRecs
  <1>2. IsFiniteSet(Acts) /\ N \in Nat
    BY InitAssumption, FS_CardinalityType DEF InitAssumption
  <1>3. ASSUME NEW r \in Repositories
        PROVE  /\ IsFiniteSet(Adding(r)) /\ Cardinality(Adding(r)) \in Nat
               /\ IsFiniteSet(Adding(r)') /\ Cardinality(Adding(r)') \in Nat
               /\ Cardinality(Adding(r)') <= N
               /\ Adding(r)' \subseteq Adding(r) => Cardinality(Adding(r)') <= Cardinality(Adding(r))
    <2>1. Adding(r) \subseteq Acts /\ Adding(r)' \subseteq Acts
      BY DEF Adding
    <2>2. QED
      BY <1>2, <2>1, FS_Subset, FS_CardinalityType
  <1> HIDE DEF N
  <1>4. ASSUME config'.plane = config.plane, \A r \in Repositories : Adding(r)' \subseteq Adding(r),
               \A r \in Repositories : file'.plane[r] <= N
        PROVE  Listed'
    <2>1. ASSUME NEW r \in Repositories
          PROVE  config'.plane[r] + Cardinality(Adding(r)') <= N
      <3>1. config.plane[r] \in Nat /\ config.plane[r] + Cardinality(Adding(r)) <= N
        BY <1>1 DEF Listed, N
      <3>2. QED
        BY <1>2, <1>3, <1>4, <3>1
    <2>2. QED
      BY <1>4, <2>1 DEF Listed, N
  <1>5. \A r \in Repositories : /\ file.plane[r] <= N /\ config.plane[r] <= N
    <2>1. ASSUME NEW r \in Repositories PROVE config.plane[r] <= N
      BY <1>1, <1>2, <1>3 DEF Listed, N
    <2>2. QED
      BY <2>1 DEF Listed, N
  <1>6. ASSUME UNCHANGED <<config, acts, jobs>>,
               \A r \in Repositories : file'.plane[r] = file.plane[r]
        PROVE  Listed'
    <2>1. \A r \in Repositories : Adding(r)' = Adding(r)
      BY <1>6 DEF Adding, Writing, Under
    <2>2. QED
      BY <1>4, <1>5, <1>6, <2>1
  <1>7. CASE \/ OpenSelect \/ Cancel \/ UNCHANGED vars \/ \E rows \in Rows : StartQueue(rows)
             \/ \E r \in Repositories :
                  OpenGroup(r) \/ \E via \in Vias : PlanLands(r, via) \/ PlanRefused(r, via)
    <2>1. UNCHANGED <<config, acts, jobs, file>>
      BY <1>7 DEF OpenSelect, Cancel, vars, StartQueue, OpenGroup, PlanLands, PlanRefused
    <2>2. QED
      BY <1>6, <2>1
  <1>8. CASE EditSettings
    <2>1. file'.plane = file.plane /\ UNCHANGED <<config, acts, jobs>>
      BY <1>1, <1>8 DEF EditSettings, Typed, ConfigRecs
    <2>2. QED
      BY <1>6, <2>1
  <1>9. CASE Restart
    <2>1. config' = file /\ file' = file /\ \A a \in Acts : acts'[a].pc = "idle"
      BY <1>9 DEF Restart, NoAct
    <2>2. ASSUME NEW r \in Repositories PROVE Cardinality(Adding(r)') = 0
      <3>1. Adding(r)' = {}
        BY <2>1 DEF Adding
      <3>2. QED
        BY <3>1, FS_EmptySet
    <2>3. QED
      BY <1>1, <1>5, <2>1, <2>2 DEF Listed, N
  <1>10. ASSUME NEW r \in Repositories, Map(r) PROVE Listed'
    <2>1. /\ UNCHANGED <<config, file, acts>> /\ jobs' = Append(jobs, Job("mapping", r, 0))
          /\ jobs \in Seq(JobRecs)
      BY <1>1, <1>10 DEF Map, Typed
    <2>2. /\ Len(jobs') = Len(jobs) + 1 /\ Len(jobs) \in Nat
          /\ Len(jobs) > 0 => jobs'[1] = jobs[1]
          /\ Len(jobs) = 0 => jobs'[1] = Job("mapping", r, 0)
      BY <2>1
    <2>3. \A a \in Acts : Writing(a)' = Writing(a)
      BY <2>2 DEF Writing, Under, Job
    <2>4. \A s \in Repositories : Adding(s)' \subseteq Adding(s)
      BY <2>1, <2>3 DEF Adding
    <2>5. QED
      BY <1>4, <1>5, <2>1, <2>4
  <1>11. ASSUME NEW r \in Repositories, OthersPush(r) PROVE Listed'
    <2>1. /\ UNCHANGED <<config, file, jobs>>
          /\ \A b \in Acts : /\ acts'[b].pc = acts[b].pc /\ acts'[b].repo = acts[b].repo
                             /\ acts'[b].new = acts[b].new
      BY <1>1, <1>11, OthersPushActs
    <2>2. \A s \in Repositories : Adding(s)' \subseteq Adding(s)
      BY <2>1 DEF Adding, Writing, Under
    <2>3. QED
      BY <1>4, <1>5, <2>1, <2>2
  <1>12. ASSUME NEW a \in Acts, Confirm(a) PROVE Listed'
    <2>1. /\ UNCHANGED <<config, file, jobs>>
          /\ acts[a].pc = "idle" /\ acts'[a].pc \in {"idle", "fetch"}
          /\ acts'[a].pc = "fetch" => (acts'[a].new => ~Covered(config, acts'[a].repo))
          /\ \A b \in Acts : b # a => /\ acts'[b].pc = acts[b].pc /\ acts'[b].repo = acts[b].repo
                                      /\ acts'[b].new = acts[b].new
      BY <1>1, <1>12, ConfirmAct
    <2>2. ASSUME NEW s \in Repositories
          PROVE  config.plane[s] + Cardinality(Adding(s)') <= N
      <3>1. CASE a \in Adding(s)'
        <4>1. ~Covered(config, s)
          BY <2>1, <3>1 DEF Adding
        <4>2. config.plane[s] = 0
          BY <1>1, <4>1 DEF Covered
        <4>3. QED
          BY <1>2, <1>3, <4>2
      <3>2. CASE a \notin Adding(s)'
        <4>1. Adding(s)' \subseteq Adding(s)
          BY <2>1, <3>2 DEF Adding, Writing, Under
        <4>2. config.plane[s] \in Nat /\ config.plane[s] + Cardinality(Adding(s)) <= N
          BY <1>1 DEF Listed, N
        <4>3. QED
          BY <1>2, <1>3, <4>1, <4>2
      <3>3. QED
        BY <3>1, <3>2
    <2>3. QED
      BY <1>5, <2>1, <2>2 DEF Listed, N
  <1>13. ASSUME NEW a \in Acts,
                Fetch(a) \/ ListLabels(a) \/ CreateLabel(a) \/ OpenTree(a) \/ Stage(a) \/ Push(a)
         PROVE  Listed'
    <2>1. Moves(a) /\ UNCHANGED <<file, config, jobs>>
      BY <1>13, CommandMoves
    <2>2. /\ acts[a].pc # "idle" /\ acts'[a].repo = acts[a].repo /\ acts'[a].new = acts[a].new
          /\ \A b \in Acts : b # a => acts'[b] = acts[b]
      BY <1>1, <2>1 DEF Moves
    <2>3. \A s \in Repositories : Adding(s)' \subseteq Adding(s)
      BY <2>1, <2>2 DEF Adding, Writing, Under
    <2>4. QED
      BY <1>4, <1>5, <2>1, <2>3
  <1>14. ASSUME NEW a \in Acts, Clean(a) PROVE Listed'
    <2>1. /\ acts[a].pc = "clean" /\ UNCHANGED <<file, config>>
          /\ acts' = [acts EXCEPT ![a] = acts'[a]]
          /\ acts'[a].repo = acts[a].repo /\ acts'[a].new = acts[a].new
          /\ jobs' = jobs \/ jobs' = Append(jobs, Job("init", acts[a].repo, a))
      BY <1>1, <1>14, CleanAct
    <2>2. \A b \in Acts : b # a => acts'[b] = acts[b]
      BY <1>1, <2>1
    <2>3. ASSUME NEW b \in Acts PROVE Writing(b)' = Writing(b)
      <3>1. jobs \in Seq(JobRecs)
        BY <1>1 DEF Typed
      <3>2. CASE jobs' = jobs
        BY <3>2 DEF Writing, Under
      <3>3. CASE jobs' = Append(jobs, Job("init", acts[a].repo, a))
        <4>1. /\ Len(jobs') = Len(jobs) + 1 /\ Len(jobs) \in Nat
              /\ Len(jobs) > 0 => jobs'[1] = jobs[1]
              /\ Len(jobs) = 0 => jobs'[1] = Job("init", acts[a].repo, a)
          BY <3>1, <3>3
        <4>2. ~Job("init", acts[a].repo, a).begun
          BY DEF Job
        <4>3. QED
          BY <4>1, <4>2 DEF Writing, Under
      <3>4. QED
        BY <2>1, <3>2, <3>3
    <2>4. \A s \in Repositories : Adding(s)' \subseteq Adding(s)
      BY <2>1, <2>2, <2>3 DEF Adding
    <2>5. QED
      BY <1>4, <1>5, <2>1, <2>4
  <1>15. ASSUME NEW i \in 1..Len(jobs), WriteBegins(i) PROVE Listed'
    <2> DEFINE j == jobs[1]
    <2>1. /\ ~Under /\ Under' /\ UNCHANGED <<file, acts>> /\ j \in JobRecs
          /\ Len(jobs) > 0 /\ Len(jobs) \in Nat
          /\ jobs'[1].kind = j.kind /\ jobs'[1].act = j.act
          /\ config' = IF j.kind = "mapping" THEN [config EXCEPT !.mapped = @ \cup {j.repo}]
                       ELSE IF acts[j.act].new THEN [config EXCEPT !.plane[j.repo] = @ + 1]
                       ELSE config
      BY <1>15, WriteBeginsJobs
    <2>2. \A s \in Repositories : Adding(s)' \subseteq Adding(s)
      BY <2>1 DEF Adding, Writing
    <2>3. config \in ConfigRecs /\ j.kind \in {"init", "mapping"}
      BY <1>1, <2>1 DEF Typed, JobRecs
    <2>4. CASE j.kind = "mapping" \/ ~acts[j.act].new
      <3>1. config'.plane = config.plane
        BY <2>1, <2>3, <2>4 DEF ConfigRecs
      <3>2. QED
        BY <1>4, <1>5, <2>1, <2>2, <3>1
    <2>5. CASE j.kind = "init" /\ acts[j.act].new
      <3>1. PICK a \in Acts : a = j.act /\ acts[a].pc = "write" /\ acts[a].repo = j.repo
        BY <2>1, <2>5 DEF IInv, Queued, JobHolds
      <3>2. PICK r \in Repositories : r = j.repo
        BY <2>1 DEF JobRecs
      <3>3. a \in Adding(r) /\ a \notin Adding(r)'
        BY <2>1, <2>5, <3>1, <3>2 DEF Adding, Writing
      <3>4. Adding(r)' \subseteq Adding(r) \ {a}
        BY <2>2, <3>2, <3>3
      <3>5. /\ IsFiniteSet(Adding(r) \ {a})
            /\ Cardinality(Adding(r) \ {a}) = Cardinality(Adding(r)) - 1
        BY <1>3, <3>2, <3>3, FS_RemoveElement
      <3>6. Cardinality(Adding(r)') <= Cardinality(Adding(r)) - 1
        BY <3>4, <3>5, FS_Subset
      <3>7. config'.plane = [config.plane EXCEPT ![r] = @ + 1]
        BY <2>1, <2>3, <2>5, <3>2 DEF ConfigRecs
      <3>8. ASSUME NEW s \in Repositories PROVE config'.plane[s] + Cardinality(Adding(s)') <= N
        <4>1. config.plane[s] \in Nat /\ config.plane[s] + Cardinality(Adding(s)) <= N
          BY <1>1 DEF Listed, N
        <4>2. CASE s = r
          <5>1. config'.plane[s] = config.plane[s] + 1
            BY <1>1, <3>7, <4>2
          <5>2. QED
            BY <1>2, <1>3, <3>6, <4>1, <4>2, <5>1
        <4>3. CASE s # r
          <5>1. config'.plane[s] = config.plane[s]
            BY <1>1, <3>7, <4>3
          <5>2. QED
            BY <1>2, <1>3, <2>2, <4>1, <5>1
        <4>4. QED
          BY <4>2, <4>3
      <3>9. QED
        BY <1>5, <2>1, <3>8 DEF Listed, N
    <2>6. QED
      BY <2>3, <2>4, <2>5
  <1>16. ASSUME NEW i \in 1..Len(jobs), WriteEnds(i) PROVE Listed'
    <2>1. /\ i = 1 /\ Under /\ ~Under' /\ UNCHANGED config
          /\ jobs[1].kind = "mapping" => acts' = acts
          /\ jobs[1].kind = "init" =>
               /\ jobs[1].act \in Acts /\ acts' = [acts EXCEPT ![jobs[1].act].pc = "idle"]
      BY <1>16, WriteEndsActs
    <2>2. jobs[1] \in JobRecs
      BY <1>1, <2>1 DEF Typed
    <2>3. \A s \in Repositories : Adding(s)' \subseteq Adding(s)
      <3>1. CASE jobs[1].kind = "mapping"
        BY <2>1, <3>1 DEF Adding, Writing
      <3>2. CASE jobs[1].kind = "init"
        <4>1. acts'[jobs[1].act].pc = "idle"
              /\ \A b \in Acts : b # jobs[1].act => acts'[b] = acts[b]
          <5>1. acts[jobs[1].act] \in ActRecs
            BY <1>1, <2>1, <3>2
          <5>2. QED
            BY <1>1, <2>1, <3>2, <5>1 DEF ActRecs
        <4>2. QED
          BY <2>1, <3>2, <4>1 DEF Adding, Writing
      <3>3. QED
        BY <2>2, <3>1, <3>2 DEF JobRecs
    <2>4. \A s \in Repositories : file'.plane[s] <= N
      <3> DEFINE text == jobs[1].text
      <3>1. /\ jobs[1].updated = config /\ text \in ConfigRecs /\ text.plane = file.plane
        BY <2>1 DEF IInv, Synced
      <3>2. file' \in Written(text, config) \/ file' = file
        BY <1>16, <2>1, <3>1 DEF WriteEnds
      <3>3. \A s \in Repositories : Patched(text, config).plane[s] \in {config.plane[s], text.plane[s]}
        BY <3>1 DEF Patched, ConfigRecs
      <3>4. file' \in {file, config, Patched(text, config)}
        BY <3>2 DEF Written
      <3>5. QED
        BY <1>5, <3>1, <3>3, <3>4
    <2>5. QED
      BY <1>4, <2>1, <2>3, <2>4
  <1>17. QED
    BY <1>7, <1>8, <1>9, <1>10, <1>11, <1>12, <1>13, <1>14, <1>15, <1>16 DEF Next

(* An act waits from its cleanup to the end of its write, and a mapping is an event. *)
LEMMA NextAwaited ==
    ASSUME IInv, Awaited, spent \in Tallies, [Next]_vars
    PROVE  Awaited'
  <1>1. /\ Typed /\ acts \in [Acts -> ActRecs] /\ jobs \in Seq(JobRecs) /\ Len(jobs) \in Nat
    BY DEF IInv, Typed
  <1>2. IsFiniteSet(Waiting) /\ Cardinality(Waiting) \in Nat
    <2>1. Waiting \subseteq Acts
      BY DEF Waiting
    <2>2. QED
      BY <2>1, InitAssumption, FS_Subset, FS_CardinalityType DEF InitAssumption
  <1>3. spent.events \in Nat /\ spent'.events \in Nat /\ spent'.events >= spent.events
    <2>1. spent' \in Tallies /\ spent'.events >= spent.events
      BY NextTallied
    <2>2. QED
      BY <2>1, InitAssumption DEF Tallies, InitAssumption
  <1>4. ASSUME jobs' = jobs, Waiting' = Waiting PROVE Awaited'
    <2>1. Cardinality(Waiting') = Cardinality(Waiting) /\ Len(jobs') = Len(jobs)
      BY <1>4
    <2>2. Len(jobs') <= Cardinality(Waiting') + spent'.events
      BY <1>1, <1>2, <1>3, <2>1 DEF Awaited
    <2>3. /\ \A a \in Waiting' : \E i \in 1..Len(jobs') : jobs'[i].act = a
          /\ \A i \in 1..Len(jobs') : jobs'[i].kind = "mapping" => jobs'[i].act = 0
      BY <1>4 DEF Awaited
    <2>4. QED
      BY <2>2, <2>3 DEF Awaited
  <1>5. CASE \/ OpenSelect \/ Cancel \/ EditSettings \/ UNCHANGED vars
             \/ \E rows \in Rows : StartQueue(rows)
             \/ \E r \in Repositories :
                  OpenGroup(r) \/ \E via \in Vias : PlanLands(r, via) \/ PlanRefused(r, via)
    <2>1. UNCHANGED <<acts, jobs>>
      BY <1>5 DEF OpenSelect, Cancel, EditSettings, vars, StartQueue, OpenGroup, PlanLands, PlanRefused
    <2>2. QED
      BY <1>4, <2>1 DEF Waiting
  <1>6. CASE Restart
    <2>1. jobs' = <<>> /\ \A a \in Acts : acts'[a].pc = "idle"
      BY <1>6 DEF Restart, NoAct
    <2>2. Waiting' = {} /\ Len(jobs') = 0
      BY <2>1 DEF Waiting
    <2>3. Cardinality(Waiting') = 0
      BY <2>2, FS_EmptySet
    <2>4. QED
      BY <1>3, <2>2, <2>3 DEF Awaited
  <1>7. ASSUME NEW r \in Repositories, Map(r) PROVE Awaited'
    <2>1. /\ jobs' = Append(jobs, Job("mapping", r, 0)) /\ Waiting' = Waiting
          /\ spent'.events = spent.events + 1
      BY <1>7 DEF Map, Waiting, Spend, Tallies
    <2>2. Job("mapping", r, 0).act = 0
      BY DEF Job
    <2>3. /\ Len(jobs') = Len(jobs) + 1 /\ jobs'[Len(jobs) + 1].act = 0
          /\ \A i \in 1..Len(jobs) : jobs'[i] = jobs[i]
      BY <1>1, <2>1, <2>2
    <2>4. \A i \in 1..Len(jobs') : jobs'[i].kind = "mapping" => jobs'[i].act = 0
      BY <1>1, <2>3 DEF Awaited
    <2>5. \A a \in Waiting : \E i \in 1..Len(jobs') : jobs'[i].act = a
      BY <1>1, <2>3 DEF Awaited
    <2>6. QED
      BY <1>1, <1>2, <1>3, <2>1, <2>3, <2>4, <2>5 DEF Awaited
  <1>8. ASSUME NEW r \in Repositories, OthersPush(r) PROVE Awaited'
    <2>1. jobs' = jobs /\ \A b \in Acts : acts'[b].pc = acts[b].pc
      BY <1>1, <1>8, OthersPushActs
    <2>2. QED
      BY <1>4, <2>1 DEF Waiting
  <1>9. ASSUME NEW a \in Acts, Confirm(a) PROVE Awaited'
    <2>1. /\ jobs' = jobs /\ acts[a].pc # "write" /\ acts'[a].pc # "write"
          /\ \A b \in Acts : b # a => acts'[b].pc = acts[b].pc
      BY <1>1, <1>9, ConfirmAct
    <2>2. QED
      BY <1>4, <2>1 DEF Waiting
  <1>10. ASSUME NEW a \in Acts,
                Fetch(a) \/ ListLabels(a) \/ CreateLabel(a) \/ OpenTree(a) \/ Stage(a) \/ Push(a)
         PROVE  Awaited'
    <2>1. Moves(a) /\ jobs' = jobs
      BY <1>10, CommandMoves
    <2>2. /\ acts[a].pc # "write" /\ acts'[a].pc # "write"
          /\ \A b \in Acts : b # a => acts'[b] = acts[b]
      BY <1>1, <2>1 DEF Moves
    <2>3. QED
      BY <1>4, <2>1, <2>2 DEF Waiting
  <1>11. ASSUME NEW a \in Acts, Clean(a) PROVE Awaited'
    <2>1. /\ acts[a].pc = "clean" /\ acts' = [acts EXCEPT ![a] = acts'[a]]
          /\ \/ acts'[a].pc = "idle" /\ jobs' = jobs
             \/ acts'[a].pc = "write" /\ jobs' = Append(jobs, Job("init", acts[a].repo, a))
      BY <1>1, <1>11, CleanAct
    <2>2. \A b \in Acts : b # a => acts'[b] = acts[b]
      BY <1>1, <2>1
    <2>3. CASE acts'[a].pc = "idle" /\ jobs' = jobs
      BY <1>4, <2>1, <2>2, <2>3 DEF Waiting
    <2>4. CASE acts'[a].pc = "write" /\ jobs' = Append(jobs, Job("init", acts[a].repo, a))
      <3>1. Waiting' = Waiting \cup {a} /\ a \notin Waiting
        BY <2>1, <2>2, <2>4 DEF Waiting
      <3>2. Cardinality(Waiting') = Cardinality(Waiting) + 1
        BY <1>2, <3>1, FS_AddElement
      <3>3. Job("init", acts[a].repo, a).act = a /\ Job("init", acts[a].repo, a).kind = "init"
        BY DEF Job
      <3>4. /\ Len(jobs') = Len(jobs) + 1
            /\ jobs'[Len(jobs) + 1].act = a /\ jobs'[Len(jobs) + 1].kind = "init"
            /\ \A i \in 1..Len(jobs) : jobs'[i] = jobs[i]
        BY <1>1, <2>4, <3>3
      <3>5. \A i \in 1..Len(jobs') : jobs'[i].kind = "mapping" => jobs'[i].act = 0
        BY <1>1, <3>4 DEF Awaited
      <3>6. \A b \in Waiting' : \E i \in 1..Len(jobs') : jobs'[i].act = b
        BY <1>1, <3>1, <3>4 DEF Awaited
      <3>7. QED
        BY <1>1, <1>2, <1>3, <3>2, <3>4, <3>5, <3>6 DEF Awaited
    <2>5. QED
      BY <2>1, <2>3, <2>4
  <1>12. ASSUME NEW i \in 1..Len(jobs), WriteBegins(i) PROVE Awaited'
    <2>1. /\ UNCHANGED acts /\ Len(jobs') = Len(jobs)
          /\ \A k \in 1..Len(jobs) : jobs'[k].kind = jobs[k].kind /\ jobs'[k].act = jobs[k].act
      BY <1>12, WriteBeginsJobs
    <2>2. Waiting' = Waiting
      BY <2>1 DEF Waiting
    <2>3. QED
      BY <1>1, <1>2, <1>3, <2>1, <2>2 DEF Awaited
  <1>13. ASSUME NEW i \in 1..Len(jobs), WriteEnds(i) PROVE Awaited'
    <2>1. /\ Len(jobs) > 0 /\ Len(jobs') = Len(jobs) - 1
          /\ \A k \in 1..(Len(jobs) - 1) : jobs'[k] = jobs[k + 1]
          /\ jobs[1].kind = "mapping" => acts' = acts
          /\ jobs[1].kind = "init" =>
               /\ jobs[1].act \in Acts /\ acts[jobs[1].act].pc = "write"
               /\ acts' = [acts EXCEPT ![jobs[1].act].pc = "idle"]
      BY <1>1, <1>13, WriteEndsActs
    <2>2. jobs[1].kind \in {"init", "mapping"}
      <3>1. jobs[1] \in JobRecs
        BY <1>1, <2>1
      <3>2. QED
        BY <3>1 DEF JobRecs
    <2>3. \A k \in 1..Len(jobs') : jobs'[k].kind = "mapping" => jobs'[k].act = 0
      BY <1>1, <2>1 DEF Awaited
    <2>4. ASSUME NEW b \in Waiting, b # jobs[1].act
          PROVE  \E k \in 1..Len(jobs') : jobs'[k].act = b
      <3>1. PICK k \in 1..Len(jobs) : jobs[k].act = b
        BY DEF Awaited
      <3>2. k # 1 /\ k - 1 \in 1..(Len(jobs) - 1)
        BY <1>1, <2>4, <3>1
      <3>3. jobs'[k - 1] = jobs[k]
        BY <2>1, <3>2
      <3>4. QED
        BY <2>1, <3>1, <3>2, <3>3
    <2>5. CASE jobs[1].kind = "mapping"
      <3>1. jobs[1].act = 0 /\ Waiting' = Waiting /\ \A b \in Waiting : b # 0
        BY <1>1, <2>1, <2>5, InitAssumption DEF Awaited, Waiting, InitAssumption
      <3>2. QED
        BY <1>1, <1>2, <1>3, <2>1, <2>3, <2>4, <3>1 DEF Awaited
    <2>6. CASE jobs[1].kind = "init"
      <3>1. PICK a \in Acts : a = jobs[1].act
        BY <2>1, <2>6
      <3>2. acts[a].pc = "write" /\ acts' = [acts EXCEPT ![a].pc = "idle"] /\ acts[a] \in ActRecs
        BY <1>1, <2>1, <2>6, <3>1
      <3>3. acts'[a].pc = "idle" /\ \A b \in Acts : b # a => acts'[b] = acts[b]
        BY <1>1, <3>2 DEF ActRecs
      <3>4. Waiting' = Waiting \ {a} /\ a \in Waiting
        BY <3>2, <3>3 DEF Waiting
      <3>5. Cardinality(Waiting') = Cardinality(Waiting) - 1
        BY <1>2, <3>4, FS_RemoveElement
      <3>6. \A b \in Waiting' : \E k \in 1..Len(jobs') : jobs'[k].act = b
        BY <2>4, <3>1, <3>4
      <3>7. QED
        BY <1>1, <1>2, <1>3, <2>1, <2>3, <3>5, <3>6 DEF Awaited
    <2>7. QED
      BY <2>2, <2>5, <2>6
  <1>14. QED
    BY <1>5, <1>6, <1>7, <1>8, <1>9, <1>10, <1>11, <1>12, <1>13 DEF Next

LEMMA NextBounded == IInv /\ Bounded /\ [Next]_vars => Bounded'
  BY NextTallied, NextScreen, NextFilled, NextListed, NextAwaited DEF Bounded

(* The bounds of the plane's state: a repository has no more rows in the config than *)
(* acts there may be, an act waits exactly while a write of it is queued, and the    *)
(* queue is no longer than the acts and the mappings (repo-init-flow.ts,             *)
(* config-write.ts).                                                                 *)
THEOREM InitTypes == Spec => []TypeOK
  <1>1. Spec => []Bounded
    BY InitBounded, NextBounded, Invariant, PTL DEF Spec
  <1>2. IInv /\ Bounded => TypeOK
    <2> SUFFICES ASSUME IInv, Bounded PROVE TypeOK
      OBVIOUS
    <2>1. /\ Typed /\ Fetched /\ Told /\ Queued /\ Filled /\ Listed /\ Awaited
          /\ acts \in [Acts -> ActRecs] /\ jobs \in Seq(JobRecs)
      BY DEF IInv, Bounded, Typed
    <2>2. MaxCommits \in Nat /\ MaxSettings \in Nat /\ MaxEvents \in Nat /\ 0 \notin Acts
      BY InitAssumption DEF InitAssumption
    <2>3. ASSUME NEW r \in Repositories
          PROVE  /\ Len(branch[r]) \in 1..MaxCommits /\ labels[r] \subseteq Settings
                 /\ origin[r] \in 1..Len(branch[r])
                 /\ fact[r] \in [settings : 0..MaxSettings, commit : 0..MaxCommits]
      <3>1. /\ Len(branch[r]) \in Nat /\ Len(branch[r]) <= MaxCommits
            /\ origin[r] \in 1..Len(branch[r]) /\ labels[r] \subseteq Settings
            /\ fact[r] \in [settings : Nat, commit : Nat]
        BY <2>1 DEF Typed, Filled, Fetched
      <3>2. CASE fact[r] = NoFact
        BY <2>2, <3>1, <3>2 DEF NoFact
      <3>3. CASE fact[r] # NoFact
        <4>1. fact[r].commit \in 1..Len(branch[r]) /\ Needs(fact[r].settings) \subseteq labels[r]
          BY <2>1, <3>3 DEF Told
        <4>2. fact[r].settings \in Nat /\ (fact[r].settings > 0 => fact[r].settings \in Settings)
          BY <3>1, <4>1 DEF Needs
        <4>3. fact[r].settings \in 0..MaxSettings
          BY <2>2, <4>2 DEF Settings
        <4>4. fact[r].commit \in 0..MaxCommits
          BY <2>2, <3>1, <4>1
        <4>5. QED
          BY <2>2, <3>1, <4>3, <4>4
      <3>4. QED
        BY <2>2, <3>1, <3>2, <3>3
    <2>4. config \in Configs /\ file \in Configs
      <3>1. /\ config \in ConfigRecs /\ file \in ConfigRecs
        BY <2>1 DEF Typed
      <3>2. \A r \in Repositories : config.plane[r] \in Nat /\ file.plane[r] \in Nat
        BY <3>1 DEF ConfigRecs
      <3>3. Cardinality(Acts) \in Nat /\ IsFiniteSet(Acts)
        BY InitAssumption, FS_CardinalityType DEF InitAssumption
      <3>4. ASSUME NEW r \in Repositories
            PROVE  config.plane[r] \in 0..Cardinality(Acts) /\ file.plane[r] \in 0..Cardinality(Acts)
        <4>1. Cardinality(Adding(r)) \in Nat
          <5>1. Adding(r) \subseteq Acts
            BY DEF Adding
          <5>2. QED
            BY <3>3, <5>1, FS_Subset, FS_CardinalityType
        <4>2. QED
          BY <2>1, <3>2, <3>3, <4>1 DEF Listed
      <3>5. QED
        BY <3>1, <3>4 DEF ConfigRecs, Configs
    <2>5. {screen.panel, screen.marker} \subseteq Repositories \cup {NoRepo, "select"}
      BY DEF Bounded, Screens
    <2>6. \A a \in Acts : acts[a].pc \in Steps /\ acts[a].base <= MaxCommits
      BY <2>1 DEF ActRecs, Filled
    <2>7. ASSUME NEW a \in Acts
          PROVE  acts[a].pc = "write" <=> \E i \in DOMAIN jobs : jobs[i].act = a
      <3>1. DOMAIN jobs = 1..Len(jobs)
        BY <2>1
      <3>2. ASSUME acts[a].pc = "write" PROVE \E i \in DOMAIN jobs : jobs[i].act = a
        BY <2>1, <3>1, <3>2 DEF Awaited, Waiting
      <3>3. ASSUME NEW i \in DOMAIN jobs, jobs[i].act = a PROVE acts[a].pc = "write"
        <4>1. jobs[i] \in JobRecs /\ i \in 1..Len(jobs)
          BY <2>1, <3>1
        <4>2. jobs[i].kind = "init"
          BY <2>1, <2>2, <3>3, <4>1 DEF JobRecs, Awaited
        <4>3. QED
          BY <2>1, <3>3, <4>1, <4>2 DEF Queued, JobHolds
      <3>4. QED
        BY <3>2, <3>3
    <2>8. Len(jobs) <= Cardinality(Acts) + MaxEvents
      <3>1. Cardinality(Waiting) \in Nat /\ Cardinality(Waiting) <= Cardinality(Acts)
            /\ Cardinality(Acts) \in Nat
        <4>1. Waiting \subseteq Acts
          BY DEF Waiting
        <4>2. QED
          BY <4>1, InitAssumption, FS_Subset, FS_CardinalityType DEF InitAssumption
      <3>2. spent.events \in Nat /\ spent.events <= MaxEvents
        BY <2>2 DEF Bounded, Tallies
      <3>3. QED
        BY <2>1, <2>2, <3>1, <3>2 DEF Awaited
    <2>9. QED
      BY <2>3, <2>4, <2>5, <2>6, <2>7, <2>8 DEF TypeOK
  <1>3. QED
    BY <1>1, <1>2, Invariant, PTL
================================================================================
