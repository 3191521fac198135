---------------------------- MODULE AgentStartProofs ----------------------------
(*
What a start leaves and what it takes down, for every set of tickets and
consultations, any number of starts, faults, events and commits.

  StartTypes                Spec => []TypeOK
  StartFailedLeavesNothing  Spec => []FailedLeavesNothing
  StartRetriesHeal          Spec => RetriesHeal
  StartKeepsEarlierWork     Spec => KeepsEarlierWork

What a failed start leaves shows only when its cleanup is over; what decides it
is the record (run) it cleans by, while its commands fail, are lost or answer
in part and while other starts, the agents and the operator change the world.
IInv ties the record to the world at every step of it:

  Placed   a worktree's workspace is of its actor's own starts, and so is the
           workspace a recorded start worked its worktree in; a root tab stands
           in the workspace that came with it
  Aged     nothing carries the number of a start still to come
  Stepped  what the record says at each step: a failed start is at the next
           part its record has to clean, an early one has made nothing
  Held     the worktree and the branch on the record are this start's own, and
           the workspace goes before the branch does
  Handed   a branch handed to the pull request left the record and stands
  Tracked  what stands of a start and is still to be cleaned is on the record,
           or the start was never told of it
  Alone    a Consultation's start reopens nothing, opens no pull request and
           waits for no name
  Listed   a Consultation's resource rows name all that stands of its start

A step of one actor is shown, for the actor itself, to tell its start of all it
makes (Spared, Carries and what follows from them), and for every other actor
to leave what is theirs alone; each action is then one of these.

What a retry finds depends on how many faults and events came before it. HInv
says, for each ticket and beside IInv,

  Bound    what a start at work has chosen follows from what it found on record
  Older    the tabs on record are of starts that ended
  Homed    a tab on record stands in the workspace recorded with it
  Unnamed  the name of a start's own is asked for by that start alone
  Calm     before any fault or event nothing is left over, what the next start
           would reopen stands, and the record names every agent of the ticket
  Whole    after one of them the branch is never behind its copy on origin, and
           where only the copy is left the next start fetches it

Whole needs Calm, for the one fault or event starts from there. Every step of
a start but its ask for a name and its prompt is a Moves; those two, the
begin, the two cleanups and the events are shown one by one.

That a cleanup takes no earlier start's tab with a worktree's workspace needs to
know who may be in there. Lodged, beside IInv, keeps the workspaces apart:
those at the checkout, where any start may open its tab, are never those of a
worktree, where only the starts of its actor from the one that attached the
workspace on have theirs. A start's own workspace on its worktree thus holds no
tab but its own.
*)
EXTENDS AgentStart, TLAPS

--------------------------------------------------------------------------------
(* The inductive invariant. *)

(* What the starts of one actor made carries its name. *)
Of(a) == {a} \X Nat
Running(a) == ~Resting(a)
Told(a, p) == p \in run[a].made \cup run[a].unseen

(* Nothing carries the number of a start still to come. *)
Aged(a) ==
    /\ \A s \in spaces : s.by \in Of(a) => s.by[2] <= run[a].n
    /\ \A t \in tabs : t.by \in Of(a) => t.by[2] <= run[a].n
    /\ tree[a].by <= run[a].n /\ local[a].by <= run[a].n
    /\ local[a].tip = 0 => local[a].by = 0
    /\ Running(a) \/ run[a].failed => run[a].n # 0

(* A worktree's workspace is of its actor, now and on the tickets' record. *)
Placed ==
    /\ \A a \in Actors : \A s \in Standing(a) : s.by \in Of(a)
    /\ \A t \in tabs : t.root => t.space = t.by
    /\ \A t \in Tickets : \A e \in recorded[t] \cup {latest[t]} : e.worktree => e.space \in Of(t)

Cleans == {"clean tab", "clean checkout", "clean branch"}
Early == {"route", "list", "branch", "remote", "fetch"}
InSpace == {"tab", "listed", "hold", "push", "pulls", "draft", "agent", "prompt"}
(* What the record says at each step. *)
Stepped(a) ==
    /\ run[a].failed => run[a].step = Cleaning(run[a].made)
    /\ run[a].step \in Cleans => run[a].failed
    /\ run[a].step \in Early => run[a].made = {} /\ local[a].by # run[a].n
    /\ At(a, "fetch") => remote[a] > 0
    /\ At(a, "space") => ~run[a].worktree
    /\ At(a, "prompt") => run[a].accepted
    /\ run[a].step \in InSpace /\ run[a].worktree => run[a].space \in Of(a)
    /\ run[a].stored /\ Running(a) => a \in Tickets /\ latest[a].worktree = run[a].worktree

OfTicket == {"route", "remote", "fetch", "open", "find", "reopen", "listed", "hold",
             "push", "pulls", "draft"}
(* A Consultation's start takes none of the ways of a Ticket's. *)
Alone(c) ==
    /\ ~run[c].stored /\ ~run[c].continues /\ ~run[c].opens /\ run[c].ask = 1
    /\ run[c].step \notin OfTicket
    /\ At(c, "list") => ~run[c].worktree

(* What the record holds is this start's own and stands. *)
Held(a) ==
    /\ Running(a) /\ "tree" \in run[a].made => tree[a].by = run[a].n
    /\ Running(a) /\ "branch" \in run[a].made => local[a].by = run[a].n
    /\ Running(a) /\ "branch" \in run[a].made => At(a, "clean branch") \/ "tree" \in run[a].made
    /\ Running(a) /\ "tree" \in run[a].made /\ ~run[a].disturbed => Id(a) \in SpaceIds
    /\ At(a, "clean branch") /\ ~run[a].disturbed => tree[a].is # "stands"

Late == {"pulls", "draft", "agent", "prompt", "clean tab", "clean checkout", "clean branch", "rest"}
(* A branch the pull request took is no more of the record. *)
Handed(a) ==
    run[a].handed =>
      /\ "branch" \notin run[a].made /\ run[a].step \in Late
      /\ a \in Tickets /\ ~run[a].disturbed => local[a].tip > 0

Owes(a, past) == run[a].step \notin past \/ (run[a].failed /\ ~run[a].disturbed)
(* What stands and is still to be cleaned is on the record, or nobody was told. *)
Tracked(a) ==
    /\ Owes(a, {"clean checkout", "clean branch", "rest"}) /\ TabOf(Fresh(a)) # {} => Told(a, "tab")
    /\ Owes(a, {"clean branch", "rest"}) /\ Id(a) \in SpaceIds => Told(a, "space")
    /\ Owes(a, {"clean branch", "rest"}) /\ tree[a].by = run[a].n => Told(a, "tree")
    /\ Owes(a, {"rest"}) /\ run[a].builds /\ ~run[a].handed /\ local[a].by = run[a].n
         => Told(a, "branch")

(* The resource rows name what stands of a Consultation's start. *)
Listed(c) ==
    LET Known(part) == <<Id(c), part>> \in rows \/ part \in run[c].unseen
    IN /\ Id(c) \in SpaceIds => Known("space")
       /\ \A t \in tabs : t.by = Id(c) => Known(IF t.root THEN "root" ELSE "tab")
       /\ tree[c].is # "none" /\ tree[c].by = run[c].n => Known("tree")

Sound(a) == /\ Aged(a) /\ Stepped(a) /\ Held(a) /\ Handed(a) /\ Tracked(a)
            /\ a \in Consultations => Alone(a) /\ Listed(a)
IInv == TypeOK /\ Placed /\ \A a \in Actors : Sound(a)

--------------------------------------------------------------------------------
(* Ids, and what is left of a failed start to clean. *)

(* An id names its actor, and the operator is none. *)
LEMMA IdFacts ==
    ASSUME NEW a \in Actors, NEW b \in Actors, TypeOK
    PROVE  /\ run[a] \in Runs /\ run[a].n \in Nat
           /\ Id(a) \in Of(a) /\ Id(a) \in Starts /\ Id(a) \in Makers
           /\ Id(a) = <<a, run[a].n>> /\ Id(a)[2] = run[a].n
           /\ Operator \notin Of(a)
           /\ a # b => Of(a) \cap Of(b) = {}
  <1>1. run[a] \in Runs /\ run[a].n \in Nat
    BY DEF TypeOK, Runs
  <1>2. Operator \notin Of(a)
    BY DEF Operator, Of
  <1>3. a # b => Of(a) \cap Of(b) = {}
    BY DEF Of
  <1>4. QED
    BY <1>1, <1>2, <1>3 DEF Id, Of, Starts, Makers

LEMMA ApartParts == Tickets \cap Consultations = {} /\ Actors = Tickets \cup Consultations
  BY StartAssumption DEF Actors

(* The cleanup goes from the tab to the checkout to the branch, and ends. *)
LEMMA CleaningIs ==
    ASSUME NEW made
    PROVE  /\ Cleaning(made) \in {"clean tab", "clean checkout", "clean branch", "rest"}
           /\ Cleaning(made) = "clean tab" <=> "tab" \in made
           /\ Cleaning(made) \in {"clean branch", "rest"} =>
                "tab" \notin made /\ "space" \notin made /\ "tree" \notin made
           /\ Cleaning(made) = "rest" => "branch" \notin made
           /\ Cleaning(made) = "clean branch" => "branch" \in made
           /\ Cleaning(made) \in Steps
  BY DEF Cleaning, Steps

--------------------------------------------------------------------------------
(* A step that tells an actor's start of all it makes. *)

(* A Consultation has a resource row for it, or was never told of it. *)
Noted(a, p) == a \in Consultations => <<Id(a), p>> \in rows' \/ p \in run'[a].unseen

(* In the world: what is new of the actor's is told to the start, and its  *)
(* workspace goes only with a disturbance.                                 *)
Spared(a) ==
    /\ \A s \in spaces' : s.by \in Of(a) =>
         s.by \in SpaceIds \/ (s.by = Id(a) /\ Told(a, "space")' /\ Noted(a, "space"))
    /\ \A t \in tabs' : t.by \in Of(a) =>
         \/ \E u \in tabs : u.by = t.by /\ u.root = t.root
         \/ t.by = Id(a) /\ t.root /\ Noted(a, "root")
         \/ t.by = Id(a) /\ ~t.root /\ Noted(a, "tab") /\ Told(a, "tab")'
    /\ Running(a) /\ "tree" \in run[a].made /\ Id(a) \in SpaceIds /\ ~run'[a].disturbed
         => Id(a) \in SpaceIds'
    /\ \/ tree'[a].by = tree[a].by
       \/ tree'[a].by = 0 /\ Resting(a)
       \/ tree'[a].by = run[a].n /\ Told(a, "tree")' /\ Noted(a, "tree")
    /\ At(a, "clean branch") /\ tree'[a].is = "stands" => tree[a].is = "stands"
    /\ a \in Consultations => \/ /\ tree'[a].by = tree[a].by
                                 /\ tree'[a].is # "none" => tree[a].is # "none"
                             \/ Noted(a, "tree")
    /\ \/ local'[a].by = local[a].by
       \/ /\ local'[a].by = run[a].n /\ local'[a].tip > 0 /\ run[a].step \notin Early
          /\ run'[a].builds => Told(a, "branch")'
       \/ local'[a].by = 0 /\ (Resting(a) \/ run[a].step \in Early)
    /\ local[a].tip > 0 =>
         local'[a].tip > 0 \/ (local'[a].by = 0 /\ run'[a].disturbed)
    /\ remote[a] > 0 => remote'[a] > 0
    /\ a \in Tickets /\ Running(a)' => latest'[a] = latest[a]
    /\ \A p \in Parts : <<Id(a), p>> \in rows => <<Id(a), p>> \in rows'

(* In the record of its start. *)
Carries(a) ==
    LET r == run[a]  q == run'[a] IN
    /\ q \in Runs /\ q.n = r.n /\ q.worktree = r.worktree /\ q.stored = r.stored
    /\ q.continues = r.continues /\ q.opens = r.opens
    /\ a \in Consultations => q.ask = r.ask
    /\ q.builds = r.builds \/ r.step \in Early
    /\ r.disturbed => q.disturbed
    /\ r.accepted => q.accepted
    /\ r.unseen \subseteq q.unseen
    /\ r.made = q.made \/ q.step \notin Early
    /\ r.made \subseteq q.made \cup (IF q.handed THEN {"branch"} ELSE {})
    /\ "tree" \in q.made \ r.made => tree'[a].by = q.n /\ Id(a) \in SpaceIds'
    /\ "branch" \in q.made \ r.made => local'[a].by = q.n /\ "tree" \in q.made /\ ~q.handed
    /\ \/ q.handed = r.handed
       \/ q.handed /\ "branch" \notin q.made /\ a \in Tickets /\ local'[a].tip > 0

(* It stays, fails, or goes to another step of its work. *)
Stays(a) ==
    LET r == run[a]  q == run'[a]
    IN /\ q.step = r.step /\ q.failed = r.failed /\ q.space = r.space
       /\ q.made = r.made /\ q.handed = r.handed
Failing(a) ==
    /\ run[a].step \notin Cleans \cup {"rest"}
    /\ run'[a].failed /\ run'[a].step = Cleaning(run'[a].made)
Going(a) ==
    LET r == run[a]  q == run'[a] IN
    /\ r.step \notin Cleans \cup {"rest"} /\ q.step \notin Cleans /\ ~q.failed
    /\ q.step \in Early => r.step \in Early
    /\ q.step = "fetch" => remote'[a] > 0
    /\ q.step = "space" => ~q.worktree
    /\ q.step = "prompt" => q.accepted
    /\ q.step \in InSpace /\ q.worktree => q.space \in Of(a)
    /\ q.handed => q.step \in Late
    /\ a \in Consultations => q.step \notin OfTicket /\ (q.step = "list" => ~q.worktree)

(* The tab a start opened for itself, now and after the step. *)
LEMMA TabOfIs ==
    ASSUME NEW a \in Actors
    PROVE  /\ TabOf(Fresh(a)) # {} <=> \E t \in tabs : t.by = Id(a) /\ t.root = FALSE
           /\ TabOf(Fresh(a))' # {} <=> \E t \in tabs' : t.by = Id(a)' /\ t.root = FALSE
  <1>1. \A t \in tabs : Handle(t) = Fresh(a) <=> t.by = Id(a) /\ t.root = FALSE
    BY DEF Handle, Fresh
  <1>2. \A t \in tabs' : Handle(t) = Fresh(a)' <=> t.by = Id(a)' /\ t.root = FALSE
    BY DEF Handle, Fresh
  <1>3. QED
    BY <1>1, <1>2 DEF TabOf

LEMMA Carried ==
    ASSUME NEW a \in Actors, TypeOK, Sound(a), Spared(a), Carries(a),
           Stays(a) \/ Failing(a) \/ Going(a)
    PROVE  Sound(a)'
  <1> DEFINE r == run[a]  q == run'[a]
  <1>1. /\ r \in Runs /\ r.n \in Nat /\ Id(a) \in Of(a) /\ Id(a)' = Id(a)
        /\ q \in Runs /\ q.n = r.n /\ Id(a)[2] = r.n /\ r.n <= r.n
    BY IdFacts DEF Carries, Id
  <1>2. r.failed => r.step \in Cleans \cup {"rest"} /\ r.step = Cleaning(r.made)
    BY CleaningIs DEF Sound, Stepped, Cleans
  <1>3. q.failed => q.step = Cleaning(q.made)
    BY <1>1, <1>2 DEF Stays, Failing, Going
  <1>4. Aged(a)'
    <2>1. \A s \in spaces' : s.by \in Of(a) => s.by[2] <= q.n
      <3>1. \A s \in spaces' : s.by \in Of(a) => s.by \in SpaceIds \/ s.by = Id(a)
        BY DEF Spared
      <3>2. \A s \in spaces : s.by \in Of(a) => s.by[2] <= r.n
        BY DEF Sound, Aged
      <3>3. QED
        BY <1>1, <3>1, <3>2 DEF SpaceIds
    <2>2. \A t \in tabs' : t.by \in Of(a) => t.by[2] <= q.n
      <3>1. \A t \in tabs' : t.by \in Of(a) => (\E u \in tabs : u.by = t.by) \/ t.by = Id(a)
        BY DEF Spared
      <3>2. \A t \in tabs : t.by \in Of(a) => t.by[2] <= r.n
        BY DEF Sound, Aged
      <3>3. QED
        BY <1>1, <3>1, <3>2
    <2>3. tree'[a].by <= q.n /\ local'[a].by <= q.n
      <3>1. tree'[a].by \in {tree[a].by, 0, r.n} /\ local'[a].by \in {local[a].by, 0, r.n}
        BY DEF Spared
      <3>2. tree[a].by <= r.n /\ local[a].by <= r.n
        BY DEF Sound, Aged
      <3>3. QED
        BY <1>1, <3>1, <3>2
    <2>4. local'[a].tip = 0 => local'[a].by = 0
      <3>1. SUFFICES ASSUME local'[a].tip = 0 PROVE local'[a].by = 0
        OBVIOUS
      <3>2. /\ local[a].tip > 0 => local'[a].tip > 0 \/ local'[a].by = 0
            /\ local'[a].by \in {local[a].by, 0} \/ local'[a].tip > 0
        BY DEF Spared
      <3>3. local'[a].by = 0 \/ (local'[a].by = local[a].by /\ ~(local[a].tip > 0))
        BY <3>1, <3>2
      <3>4. local[a].tip \in Nat
        BY StartAssumption DEF TypeOK
      <3>5. QED
        BY <3>3, <3>4 DEF Sound, Aged
    <2>5. q.step # "rest" \/ q.failed => q.n # 0
      BY <1>1 DEF Sound, Aged, Running, Resting, At, Stays, Failing, Going
    <2>6. QED
      BY <2>1, <2>2, <2>3, <2>4, <2>5 DEF Aged, Running, Resting, At
  <1>5. Stepped(a)'
    <2>1. q.step \in Cleans => q.failed
      BY DEF Sound, Stepped, Stays, Failing, Going
    <2>2. q.step \in Early => r.step \in Early
      BY <1>1, CleaningIs DEF Stays, Failing, Going, Early
    <2>3. q.step \in Early => q.made = {} /\ local'[a].by # q.n
      <3>1. SUFFICES ASSUME q.step \in Early PROVE q.made = {} /\ local'[a].by # q.n
        OBVIOUS
      <3>2. r.step \in Early /\ r.n # 0
        BY <2>2, <3>1 DEF Sound, Aged, Running, Resting, At, Early
      <3>3. QED
        BY <1>1, <3>1, <3>2 DEF Sound, Stepped, Carries, Spared
    <2>4. q.step = "fetch" => remote'[a] > 0
      BY CleaningIs DEF Sound, Stepped, Spared, Stays, Failing, Going, At
    <2>5. q.step = "prompt" => q.accepted
      BY CleaningIs DEF Sound, Stepped, Carries, Stays, Failing, Going, At
    <2>6. q.step = "space" => ~q.worktree
      BY CleaningIs DEF Sound, Stepped, Carries, Stays, Failing, Going, At
    <2>7. q.step \in InSpace /\ q.worktree => q.space \in Of(a)
      BY CleaningIs DEF Sound, Stepped, Carries, Stays, Failing, Going, InSpace
    <2>8. q.stored /\ q.step # "rest" => a \in Tickets /\ latest'[a].worktree = q.worktree
      BY <1>1 DEF Sound, Stepped, Carries, Spared, Running, Resting, At, Stays, Failing, Going
    <2>9. QED
      BY <1>3, <2>1, <2>3, <2>4, <2>5, <2>6, <2>7, <2>8 DEF Stepped, At, Running, Resting
  <1>6. q.step # "rest" => r.step # "rest"
    BY DEF Stays, Failing, Going
  <1>7. "tree" \in r.made => "tree" \in q.made
    BY DEF Carries
  <1>8. Held(a)'
    <2>1. q.step # "rest" /\ "tree" \in q.made => tree'[a].by = q.n
      BY <1>1, <1>6 DEF Sound, Held, Spared, Carries, Running, Resting, At
    <2>2. q.step # "rest" /\ "branch" \in q.made => local'[a].by = q.n
      <3>1. CASE "branch" \in q.made \ r.made
        BY <3>1 DEF Carries
      <3>2. CASE "branch" \in r.made
        BY <1>1, <1>6, <3>2 DEF Sound, Held, Stepped, Spared, Running, Resting, At
      <3>3. QED
        BY <3>1, <3>2
    <2>3. q.step # "rest" /\ "branch" \in q.made => q.step = "clean branch" \/ "tree" \in q.made
      <3>1. CASE "branch" \in q.made \ r.made
        BY <3>1 DEF Carries
      <3>2. CASE "branch" \in r.made
        BY <1>1, <1>6, <1>7, <3>2
           DEF Sound, Held, Running, Resting, At, Stays, Failing, Going, Cleans
      <3>3. QED
        BY <3>1, <3>2
    <2>4. q.step # "rest" /\ "tree" \in q.made /\ ~q.disturbed => Id(a) \in SpaceIds'
      BY <1>1, <1>6 DEF Sound, Held, Spared, Carries, Running, Resting, At
    <2>5. q.step = "clean branch" => r.step = "clean branch"
      <3>1. CASE Failing(a)
        <4>1. SUFFICES ASSUME q.step = "clean branch" PROVE FALSE
          OBVIOUS
        <4>2. "tree" \notin q.made /\ "branch" \in q.made
          BY <3>1, <4>1, CleaningIs DEF Failing
        <4>3. "branch" \in r.made
          BY <4>2 DEF Carries
        <4>4. QED
          BY <1>7, <3>1, <4>2, <4>3
             DEF Sound, Held, Running, Resting, At, Failing, Cleans
      <3>2. QED
        BY <3>1 DEF Stays, Going, Cleans
    <2>6. q.step = "clean branch" /\ ~q.disturbed => tree'[a].is # "stands"
      BY <2>5 DEF Sound, Held, Spared, Carries, At
    <2>7. QED
      BY <1>1, <2>1, <2>2, <2>3, <2>4, <2>6 DEF Held, Running, Resting, At
  <1>9. Handed(a)'
    <2>1. q.handed => q.step \in Late
      BY CleaningIs DEF Sound, Handed, Carries, Stays, Failing, Going, Late
    <2>2. QED
      BY <1>1, <2>1 DEF Sound, Handed, Carries, Spared
  <1>10. Tracked(a)'
    <2>1. \A past \in SUBSET (Cleans \cup {"rest"}) :
            "rest" \in past /\ Owes(a, past)' => Owes(a, past)
      BY DEF Owes, Carries, Stays, Failing, Going
    <2>2. /\ Owes(a, {"clean checkout", "clean branch", "rest"})'
               => Owes(a, {"clean checkout", "clean branch", "rest"})
          /\ Owes(a, {"clean branch", "rest"})' => Owes(a, {"clean branch", "rest"})
          /\ Owes(a, {"rest"})' => Owes(a, {"rest"})
      BY <2>1 DEF Cleans
    <2>3. /\ \A p : p # "branch" /\ Told(a, p) => Told(a, p)'
          /\ ~q.handed /\ Told(a, "branch") => Told(a, "branch")'
      BY <1>1 DEF Told, Carries
    <2>4. TabOf(Fresh(a))' # {} => TabOf(Fresh(a)) # {} \/ Told(a, "tab")'
      BY <1>1, TabOfIs, ZenonT(60) DEF Spared
    <2>5. Id(a) \in SpaceIds' => Id(a) \in SpaceIds \/ Told(a, "space")'
      <3>1. \A s \in spaces' : s.by \in Of(a) => s.by \in SpaceIds \/ Told(a, "space")'
        BY DEF Spared
      <3>2. QED
        BY <1>1, <3>1 DEF SpaceIds
    <2>6. Owes(a, {"clean branch", "rest"})' /\ tree'[a].by = q.n
            => tree[a].by = q.n \/ Told(a, "tree")'
      <3>1. CASE tree'[a].by = tree[a].by
        BY <3>1
      <3>2. CASE tree'[a].by = 0 /\ Resting(a)
        BY <1>1, <3>2 DEF Owes, Sound, Aged, Resting, At, Stays, Failing, Going
      <3>3. QED
        BY <3>1, <3>2 DEF Spared
    <2>7. Owes(a, {"rest"})' /\ q.builds /\ local'[a].by = q.n
            => Told(a, "branch")' \/ (r.builds /\ local[a].by = q.n)
      <3>1. CASE r.step \in Early
        <4>1. r.n # 0 /\ local[a].by # r.n
          BY <3>1 DEF Sound, Aged, Stepped, Running, Resting, At, Early
        <4>2. QED
          BY <1>1, <3>1, <4>1 DEF Spared
      <3>2. CASE r.step \notin Early /\ r.step # "rest"
        BY <1>1, <3>2 DEF Carries, Spared, Resting, At
      <3>3. CASE r.step = "rest"
        <4>1. Owes(a, {"rest"})' => r.n # 0
          BY <3>3 DEF Owes, Stays, Failing, Going, Sound, Aged
        <4>2. r.step \notin Early /\ q.builds = r.builds
          BY <3>3 DEF Early, Carries
        <4>3. QED
          BY <1>1, <4>1, <4>2 DEF Spared
      <3>4. QED
        BY <3>1, <3>2, <3>3
    <2>8. ~q.handed => ~r.handed
      BY DEF Carries
    <2>9. QED
      BY <1>1, <2>2, <2>3, <2>4, <2>5, <2>6, <2>7, <2>8 DEF Sound, Tracked
  <1>11. ASSUME a \in Consultations PROVE Alone(a)' /\ Listed(a)'
    <2>1. Alone(a)'
      BY <1>11, CleaningIs DEF Sound, Alone, Carries, Stays, Failing, Going, OfTicket, At
    <2>2. \A p \in Parts :
            <<Id(a), p>> \in rows \/ p \in r.unseen => <<Id(a), p>> \in rows' \/ p \in q.unseen
      BY <1>1 DEF Spared, Carries
    <2>3. Id(a) \in SpaceIds' => Id(a) \in SpaceIds \/ Noted(a, "space")
      <3>1. \A s \in spaces' : s.by \in Of(a) => s.by \in SpaceIds \/ Noted(a, "space")
        BY DEF Spared
      <3>2. QED
        BY <1>1, <3>1 DEF SpaceIds
    <2>4. \A t \in tabs' : t.by = Id(a) =>
            (\E u \in tabs : u.by = Id(a) /\ u.root = t.root)
              \/ Noted(a, IF t.root THEN "root" ELSE "tab")
      <3>1. SUFFICES ASSUME NEW t \in tabs', t.by = Id(a)
                     PROVE  (\E u \in tabs : u.by = Id(a) /\ u.root = t.root)
                              \/ Noted(a, IF t.root THEN "root" ELSE "tab")
        OBVIOUS
      <3>2. \/ \E u \in tabs : u.by = t.by /\ u.root = t.root
            \/ t.root /\ Noted(a, "root")
            \/ ~t.root /\ Noted(a, "tab")
        BY <1>1, <3>1 DEF Spared
      <3>3. QED
        BY <3>1, <3>2
    <2>5. tree'[a].is # "none" /\ tree'[a].by = q.n =>
            Noted(a, "tree") \/ (tree[a].is # "none" /\ tree[a].by = q.n)
      <3>1. \/ tree'[a].by = tree[a].by /\ (tree'[a].is # "none" => tree[a].is # "none")
            \/ Noted(a, "tree")
        BY <1>11 DEF Spared
      <3>2. QED
        BY <1>1, <3>1
    <2>6. QED
      BY <1>1, <1>11, <2>1, <2>2, <2>3, <2>4, <2>5 DEF Sound, Listed, Parts, Noted
  <1>12. QED
    BY <1>4, <1>5, <1>8, <1>9, <1>10, <1>11 DEF Sound

--------------------------------------------------------------------------------
(* One actor's step beside the others. *)

(* It adds and removes only what carries its own name, and no other row.   *)
OwnOnly(a) ==
    /\ \A s \in spaces' : s \in spaces \/ s.by \in Of(a)
    /\ \A s \in spaces : s \in spaces' \/ s.by \in Of(a)
    /\ \A t \in tabs' : t.by \in Of(a) \/ \E u \in tabs : u.by = t.by /\ u.root = t.root
    /\ \A b \in Actors \ {a} :
         /\ run'[b] = run[b] /\ tree'[b] = tree[b] /\ local'[b] = local[b]
         /\ remote'[b] = remote[b] /\ (b \in Tickets => latest'[b] = latest[b])
         /\ \A p \in Parts : <<Id(b), p>> \in rows => <<Id(b), p>> \in rows'

LEMMA Elsewhere ==
    ASSUME NEW a \in Actors, IInv, OwnOnly(a)
    PROVE  \A b \in Actors \ {a} : Sound(b)'
  <1> SUFFICES ASSUME NEW b \in Actors \ {a}
               PROVE  Sound(b)'
    OBVIOUS
  <1>1. TypeOK /\ Sound(b)
    BY DEF IInv
  <1>2. Of(a) \cap Of(b) = {} /\ Id(b) \in Of(b) /\ run[b] \in Runs
    BY <1>1, IdFacts
  <1>3. Spared(b)
    <2>1. \A s \in spaces' : s.by \in Of(b) => s.by \in SpaceIds
      BY <1>2 DEF OwnOnly, SpaceIds
    <2>2. Id(b) \in SpaceIds => Id(b) \in SpaceIds'
      BY <1>2 DEF OwnOnly, SpaceIds
    <2>3. QED
      BY <1>2, <2>1, <2>2 DEF OwnOnly, Spared
  <1>4. Carries(b) /\ Stays(b)
    BY <1>2 DEF OwnOnly, Carries, Stays
  <1>5. QED
    BY <1>1, <1>3, <1>4, Carried

LEMMA BecomesIs ==
    ASSUME NEW a \in Actors, TypeOK, NEW q \in Runs, q.n = run[a].n, Becomes(a, q)
    PROVE  /\ run' \in [Actors -> Runs] /\ \A b \in Actors : run'[b].n <= MaxStarts[b]
           /\ run'[a] = q /\ \A b \in Actors \ {a} : run'[b] = run[b]
  <1>1. run' \in [Actors -> Runs]
    BY DEF TypeOK, Becomes
  <1>2. run'[a] = q /\ \A b \in Actors \ {a} : run'[b] = run[b]
    BY DEF TypeOK, Becomes
  <1>3. QED
    BY <1>1, <1>2 DEF TypeOK

Counted == spent' \in [faults : 0..MaxFaults, events : 0..MaxEvents]
LEMMA AnsweredIs ==
    ASSUME TypeOK, NEW o, Answered(o)
    PROVE  Counted /\ spent'.events = spent.events
  <1>1. spent.faults \in 0..MaxFaults /\ MaxFaults \in Nat
    BY StartAssumption DEF TypeOK
  <1>2. CASE o = "ok"
    BY <1>2 DEF Answered, TypeOK, Counted
  <1>3. CASE o # "ok"
    BY <1>1, <1>3 DEF Answered, TypeOK, Counted
  <1>4. QED
    BY <1>2, <1>3

(* A command that only reads, or a refusal: the start's record moves alone. *)
LEMMA Reads ==
    ASSUME NEW a \in Actors, IInv, UNCHANGED <<world, memory, rows>>, Counted,
           NEW q \in Runs, Becomes(a, q), Carries(a), Failing(a) \/ Going(a)
    PROVE  IInv'
  <1>1. /\ run' \in [Actors -> Runs] /\ \A b \in Actors : run'[b].n <= MaxStarts[b]
        /\ run'[a] = q /\ \A b \in Actors \ {a} : run'[b] = run[b]
    <2>1. run'[a] = q
      BY DEF IInv, TypeOK, Becomes
    <2>2. QED
      BY <2>1, BecomesIs DEF IInv, Carries
  <1>2. TypeOK'
    BY <1>1 DEF IInv, TypeOK, Counted, world, memory, herdr, branches
  <1>3. Placed'
    BY DEF IInv, Placed, Standing, world, memory, herdr
  <1>4. Spared(a)
    <2>1. run[a] \in Runs
      BY DEF IInv, TypeOK
    <2>2. \A s \in spaces : s.by \in SpaceIds
      BY DEF SpaceIds
    <2>3. QED
      BY <2>1, <2>2 DEF Spared, SpaceIds, world, memory, herdr, branches
  <1>5. OwnOnly(a)
    BY <1>1 DEF OwnOnly, world, memory, herdr, branches
  <1>6. Sound(a)'
    BY <1>4, Carried DEF IInv
  <1>7. QED
    BY <1>2, <1>3, <1>5, <1>6, Elsewhere DEF IInv

--------------------------------------------------------------------------------
(* The steps that only read. *)

(* q is r at another step of the same start. *)
Kin(q, r) ==
    /\ q \in Runs /\ q.n = r.n /\ q.made = r.made /\ q.unseen = r.unseen
    /\ q.handed = r.handed /\ q.worktree = r.worktree /\ q.stored = r.stored
    /\ q.continues = r.continues /\ q.opens = r.opens /\ q.disturbed = r.disturbed
    /\ q.ask = r.ask /\ q.accepted = r.accepted

LEMMA FailsIs ==
    ASSUME NEW r \in Runs
    PROVE  /\ Kin(Fails(r), r) /\ Fails(r).builds = r.builds
           /\ Fails(r).failed /\ Fails(r).step = Cleaning(r.made)
  <1>1. Cleaning(r.made) \in Steps
    BY CleaningIs
  <1>2. QED
    BY <1>1 DEF Fails, Kin, Runs

LEMMA StandsIs ==
    ASSUME NEW r \in Runs
    PROVE  /\ Kin(Stands(r), r) /\ Stands(r).builds = r.builds
           /\ Stands(r).failed = r.failed /\ Stands(r).space = r.space
           /\ Stands(r).step = IF r.opens THEN "listed" ELSE "agent"
           /\ Stands(r).tab = r.tab /\ Stands(r).accepted = r.accepted
  BY DEF Stands, Kin, Runs, Steps

LEMMA ToStep ==
    ASSUME NEW r \in Runs, NEW s \in Steps
    PROVE  LET q == [r EXCEPT !.step = s]
           IN Kin(q, r) /\ q.step = s /\ q.failed = r.failed /\ q.builds = r.builds
              /\ q.space = r.space /\ q.tab = r.tab
  BY DEF Kin, Runs

(* Of a start at work: it has not failed, and its own record is typed. *)
LEMMA AtWork ==
    ASSUME NEW a \in Actors, IInv, run[a].step \notin Cleans \cup {"rest"}
    PROVE  /\ run[a] \in Runs /\ ~run[a].failed /\ Running(a) /\ run[a].n \in Nat \ {0}
           /\ TypeOK /\ Sound(a)
           /\ a \in Consultations => Alone(a)
  <1>1. run[a] \in Runs /\ Sound(a) /\ TypeOK
    BY DEF IInv, TypeOK
  <1>2. ~run[a].failed
    BY <1>1, CleaningIs DEF Sound, Stepped, Cleans
  <1>3. QED
    BY <1>1, <1>2 DEF Sound, Aged, Running, Resting, At, Runs

(* A start that fails where it stands. *)
LEMMA FailsHere ==
    ASSUME NEW a \in Actors, IInv, run[a].step \notin Cleans \cup {"rest"},
           Becomes(a, Fails(run[a]))
    PROVE  Fails(run[a]) \in Runs /\ Carries(a) /\ Failing(a)
           /\ run'[a] = Fails(run[a])
  <1>1. run[a] \in Runs
    BY AtWork
  <1>2. PICK q \in Runs : q = Fails(run[a])
    BY <1>1, FailsIs DEF Kin
  <1>3. run'[a] = q
    BY <1>2 DEF IInv, TypeOK, Becomes
  <1>4. QED
    BY <1>1, <1>2, <1>3, FailsIs DEF Carries, Failing, Kin

LEMMA GoesOn ==
    ASSUME NEW a \in Actors, IInv, NEW s \in Steps, Becomes(a, [run[a] EXCEPT !.step = s]),
           run[a].step \notin Cleans \cup {"rest"}, s \notin Cleans,
           s \in Early => run[a].step \in Early, s \notin {"space", "prompt"},
           s = "fetch" => remote'[a] > 0,
           s \in InSpace /\ run[a].worktree => run[a].space \in Of(a),
           run[a].handed => s \in Late,
           a \in Consultations => s \notin OfTicket \cup {"list"}
    PROVE  Carries(a) /\ Going(a) /\ [run[a] EXCEPT !.step = s] \in Runs
  <1>1. run[a] \in Runs /\ ~run[a].failed
    BY AtWork
  <1>2. PICK q \in Runs : q = [run[a] EXCEPT !.step = s]
    BY <1>1, ToStep DEF Kin
  <1>3. run'[a] = q
    BY <1>2 DEF IInv, TypeOK, Becomes
  <1>4. Kin(q, run[a]) /\ q.step = s /\ q.failed = run[a].failed /\ q.builds = run[a].builds
        /\ q.space = run[a].space
    BY <1>1, <1>2, ToStep
  <1>5. QED
    BY <1>1, <1>2, <1>3, <1>4 DEF Carries, Going, Kin

LEMMA CheckListedKeeps ==
    ASSUME NEW a \in Actors, IInv, CheckListed(a)
    PROVE  IInv'
  <1>1. PICK o \in {"ok", "refused"} :
          /\ Answered(o)
          /\ Becomes(a, IF o = "refused" THEN Fails(run[a])
                        ELSE [run[a] EXCEPT !.step = IF remote[a] > 0 THEN "push" ELSE "hold"])
    BY DEF CheckListed
  <1>2. /\ run[a].step = "listed" /\ UNCHANGED <<world, memory, rows>> /\ Counted
        /\ run[a].step \notin Cleans \cup {"rest"} /\ run[a].step \notin Late
    BY <1>1, AnsweredIs DEF CheckListed, At, Cleans, Late, IInv
  <1>3. CASE o = "refused"
    BY <1>1, <1>2, <1>3, FailsHere, Reads
  <1>4. CASE o # "refused"
    <2>1. PICK s \in {"push", "hold"} : Becomes(a, [run[a] EXCEPT !.step = s])
      BY <1>1, <1>4
    <2>2. /\ run[a].worktree => run[a].space \in Of(a)
          /\ a \notin Consultations /\ ~run[a].handed
      BY <1>2, AtWork DEF Sound, Stepped, InSpace, Alone, OfTicket, Handed
    <2>3. Carries(a) /\ Going(a) /\ [run[a] EXCEPT !.step = s] \in Runs
      BY <1>2, <2>1, <2>2, GoesOn DEF Steps, Cleans, Early
    <2>4. QED
      BY <1>2, <2>1, <2>3, Reads
  <1>5. QED
    BY <1>3, <1>4

LEMMA ListPullRequestsKeeps ==
    ASSUME NEW a \in Actors, IInv, ListPullRequests(a)
    PROVE  IInv'
  <1>1. PICK o \in {"ok", "refused"} :
          /\ Answered(o)
          /\ Becomes(a, IF o = "refused" THEN Fails(run[a])
                        ELSE [run[a] EXCEPT !.step = IF drafts[a] > 0 THEN "agent" ELSE "draft"])
    BY DEF ListPullRequests
  <1>2. /\ run[a].step = "pulls" /\ UNCHANGED <<world, memory, rows>> /\ Counted
        /\ run[a].step \notin Cleans \cup {"rest"}
    BY <1>1, AnsweredIs DEF ListPullRequests, At, Cleans, IInv
  <1>3. CASE o = "refused"
    BY <1>1, <1>2, <1>3, FailsHere, Reads
  <1>4. CASE o # "refused"
    <2>1. PICK s \in {"agent", "draft"} : Becomes(a, [run[a] EXCEPT !.step = s])
      BY <1>1, <1>4
    <2>2. /\ run[a].worktree => run[a].space \in Of(a)
          /\ a \notin Consultations
      BY <1>2, AtWork DEF Sound, Stepped, InSpace, Alone, OfTicket
    <2>3. Carries(a) /\ Going(a) /\ [run[a] EXCEPT !.step = s] \in Runs
      BY <1>2, <2>1, <2>2, GoesOn DEF Steps, Cleans, Early, Late
    <2>4. QED
      BY <1>2, <2>1, <2>3, Reads
  <1>5. QED
    BY <1>3, <1>4

LEMMA FindWorktreeKeeps ==
    ASSUME NEW a \in Actors, IInv, FindWorktree(a)
    PROVE  IInv'
  <1>1. PICK s \in {"reopen", "create"} : Becomes(a, [run[a] EXCEPT !.step = s])
    BY DEF FindWorktree
  <1>2. /\ run[a].step = "find" /\ UNCHANGED <<world, memory, rows>> /\ Counted
        /\ run[a].step \notin Cleans \cup {"rest"} /\ run[a].step \notin Late
    BY AnsweredIs DEF FindWorktree, At, Cleans, Late, IInv
  <1>3. a \notin Consultations /\ ~run[a].handed
    BY <1>2, AtWork DEF Sound, Alone, OfTicket, Handed
  <1>4. Carries(a) /\ Going(a) /\ [run[a] EXCEPT !.step = s] \in Runs
    BY <1>1, <1>2, <1>3, GoesOn DEF Steps, Cleans, Early, InSpace
  <1>5. QED
    BY <1>1, <1>2, <1>4, Reads

(* To build the branch, or to reuse the one that stands. *)
LEMMA Builds ==
    ASSUME NEW a \in Actors, IInv, run[a].step \in {"branch", "remote"},
           Becomes(a, [run[a] EXCEPT !.step = "create", !.builds = TRUE])
    PROVE  Carries(a) /\ Going(a) /\ [run[a] EXCEPT !.step = "create", !.builds = TRUE] \in Runs
  <1>1. run[a].step \notin Cleans \cup {"rest"} /\ run[a].step \in Early /\ run[a].step \notin Late
    BY DEF Cleans, Early, Late
  <1>2. run[a] \in Runs /\ ~run[a].failed /\ ~run[a].handed
    BY <1>1, AtWork DEF Sound, Handed
  <1>3. PICK q \in Runs : q = [run[a] EXCEPT !.step = "create", !.builds = TRUE]
    BY <1>2 DEF Runs, Steps
  <1>4. Kin(q, run[a]) /\ q.step = "create" /\ q.failed = run[a].failed
    BY <1>2, <1>3 DEF Kin, Runs
  <1>5. run'[a] = q
    BY <1>3 DEF IInv, TypeOK, Becomes
  <1>6. QED
    BY <1>1, <1>2, <1>3, <1>4, <1>5 DEF Carries, Going, Kin, Cleans, Early, InSpace, OfTicket

LEMMA CheckBranchKeeps ==
    ASSUME NEW a \in Actors, IInv, CheckBranch(a)
    PROVE  IInv'
  <1>1. /\ run[a].step = "branch" /\ UNCHANGED <<world, memory, rows>> /\ Counted
        /\ run[a].step \notin Cleans \cup {"rest"} /\ run[a].step \notin Late
        /\ run[a].step \in Early
    BY AnsweredIs DEF CheckBranch, At, Cleans, Late, Early, IInv
  <1>2. \/ Becomes(a, Fails(run[a]))
        \/ a \in Tickets /\ \E s \in {"open", "remote"} : Becomes(a, [run[a] EXCEPT !.step = s])
        \/ Becomes(a, [run[a] EXCEPT !.step = "create", !.builds = TRUE])
    BY ApartParts DEF CheckBranch
  <1>3. CASE Becomes(a, Fails(run[a]))
    BY <1>1, <1>3, FailsHere, Reads
  <1>4. CASE a \in Tickets /\ \E s \in {"open", "remote"} : Becomes(a, [run[a] EXCEPT !.step = s])
    <2>1. PICK s \in {"open", "remote"} : Becomes(a, [run[a] EXCEPT !.step = s])
      BY <1>4
    <2>2. ~run[a].handed
      BY <1>1, AtWork DEF Sound, Handed
    <2>3. Carries(a) /\ Going(a) /\ [run[a] EXCEPT !.step = s] \in Runs
      BY <1>1, <1>4, <2>1, <2>2, GoesOn, ApartParts DEF Steps, Cleans, Early, InSpace
    <2>4. QED
      BY <1>1, <2>1, <2>3, Reads
  <1>5. CASE Becomes(a, [run[a] EXCEPT !.step = "create", !.builds = TRUE])
    BY <1>1, <1>5, Builds, Reads
  <1>6. QED
    BY <1>2, <1>3, <1>4, <1>5

LEMMA CheckRemoteKeeps ==
    ASSUME NEW a \in Actors, IInv, CheckRemote(a)
    PROVE  IInv'
  <1>1. /\ run[a].step = "remote" /\ UNCHANGED <<world, memory, rows>> /\ Counted
        /\ run[a].step \notin Cleans \cup {"rest"} /\ run[a].step \notin Late
        /\ run[a].step \in Early
    BY AnsweredIs DEF CheckRemote, At, Cleans, Late, Early, IInv
  <1>2. \/ remote[a] > 0 /\ Becomes(a, [run[a] EXCEPT !.step = "fetch"])
        \/ Becomes(a, [run[a] EXCEPT !.step = "create", !.builds = TRUE])
    BY DEF CheckRemote
  <1>3. CASE remote[a] > 0 /\ Becomes(a, [run[a] EXCEPT !.step = "fetch"])
    <2>1. ~run[a].handed /\ a \notin Consultations
      BY <1>1, AtWork DEF Sound, Handed, Alone, OfTicket
    <2>2. remote'[a] > 0
      BY <1>1, <1>3 DEF world, branches
    <2>3. Carries(a) /\ Going(a) /\ [run[a] EXCEPT !.step = "fetch"] \in Runs
      BY <1>1, <1>3, <2>1, <2>2, GoesOn DEF Steps, Cleans, Early, InSpace
    <2>4. QED
      BY <1>1, <1>3, <2>3, Reads
  <1>4. CASE Becomes(a, [run[a] EXCEPT !.step = "create", !.builds = TRUE])
    BY <1>1, <1>4, Builds, Reads
  <1>5. QED
    BY <1>2, <1>3, <1>4

(* To a tab in a workspace that stands. *)
LEMMA ToTab ==
    ASSUME NEW a \in Actors, IInv, NEW x \in Makers, run[a].worktree => x \in Of(a),
           run[a].step \notin Cleans \cup {"rest"} \cup Late,
           Becomes(a, [run[a] EXCEPT !.step = "tab", !.space = x])
    PROVE  Carries(a) /\ Going(a) /\ [run[a] EXCEPT !.step = "tab", !.space = x] \in Runs
  <1>1. run[a] \in Runs /\ ~run[a].failed /\ ~run[a].handed
    BY AtWork DEF Sound, Handed
  <1>2. PICK q \in Runs : q = [run[a] EXCEPT !.step = "tab", !.space = x]
    BY <1>1 DEF Runs, Steps
  <1>3. Kin(q, run[a]) /\ q.step = "tab" /\ q.failed = run[a].failed /\ q.space = x
        /\ q.builds = run[a].builds
    BY <1>1, <1>2 DEF Kin, Runs
  <1>4. run'[a] = q
    BY <1>2 DEF IInv, TypeOK, Becomes
  <1>5. QED
    BY <1>1, <1>2, <1>3, <1>4 DEF Carries, Going, Kin, Cleans, Early, InSpace, OfTicket

LEMMA ReadWorkspacesKeeps ==
    ASSUME NEW a \in Actors, IInv, ReadWorkspaces(a)
    PROVE  IInv'
  <1> DEFINE held == run[a].stored /\ latest[a].space \in SpaceIds
  <1>1. /\ run[a].step = "list" /\ UNCHANGED <<world, memory, rows>> /\ Counted
        /\ run[a].step \notin Cleans \cup {"rest"} \cup Late /\ run[a].step \in Early
    BY AnsweredIs DEF ReadWorkspaces, At, Cleans, Late, Early, IInv
  <1>2. /\ run[a] \in Runs /\ ~run[a].failed /\ ~run[a].handed /\ TypeOK /\ Placed
        /\ run[a].stored => a \in Tickets /\ latest[a].worktree = run[a].worktree
        /\ a \in Consultations => ~run[a].worktree
    BY <1>1, AtWork DEF Sound, Handed, Stepped, Alone, At, IInv
  <1>3. \/ Becomes(a, Fails(run[a]))
        \/ held /\ Becomes(a, [run[a] EXCEPT !.step = "tab", !.space = latest[a].space])
        \/ run[a].worktree /\ Becomes(a, [run[a] EXCEPT !.step = "open"])
        \/ ~run[a].worktree /\ Becomes(a, [run[a] EXCEPT !.step = "space"])
        \/ ~run[a].worktree /\ \E s \in Standing("checkout") :
             Becomes(a, [run[a] EXCEPT !.step = "tab", !.space = s.by])
    BY DEF ReadWorkspaces
  <1>4. CASE Becomes(a, Fails(run[a]))
    BY <1>1, <1>4, FailsHere, Reads
  <1>5. CASE held /\ Becomes(a, [run[a] EXCEPT !.step = "tab", !.space = latest[a].space])
    <2>1. latest[a].space \in Makers
      BY <1>2, <1>5 DEF TypeOK, SpaceIds
    <2>2. run[a].worktree => latest[a].space \in Of(a)
      BY <1>2, <1>5 DEF Placed
    <2>3. QED
      BY <1>1, <1>5, <2>1, <2>2, ToTab, Reads
  <1>6. CASE run[a].worktree /\ Becomes(a, [run[a] EXCEPT !.step = "open"])
    <2>1. Carries(a) /\ Going(a) /\ [run[a] EXCEPT !.step = "open"] \in Runs
      BY <1>1, <1>2, <1>6, GoesOn DEF Steps, Cleans, Early, InSpace
    <2>2. QED
      BY <1>1, <1>6, <2>1, Reads
  <1>7. CASE ~run[a].worktree /\ Becomes(a, [run[a] EXCEPT !.step = "space"])
    <2>1. PICK q \in Runs : q = [run[a] EXCEPT !.step = "space"]
      BY <1>2, ToStep, ZenonT(60) DEF Steps, Kin
    <2>2. run'[a] = q
      BY <1>2, <1>7, <2>1 DEF TypeOK, Becomes
    <2>3. "space" \in Steps
      BY DEF Steps
    <2>4. Kin(q, run[a]) /\ q.step = "space" /\ q.failed = run[a].failed
          /\ q.builds = run[a].builds
      BY <1>2, <2>1, <2>3, ToStep
    <2>5. Carries(a) /\ Going(a)
      BY <1>1, <1>2, <1>7, <2>2, <2>4 DEF Carries, Going, Kin, Cleans, Early, InSpace, OfTicket
    <2>6. QED
      BY <1>1, <1>7, <2>1, <2>5, Reads
  <1>8. CASE ~run[a].worktree /\ \E s \in Standing("checkout") :
                Becomes(a, [run[a] EXCEPT !.step = "tab", !.space = s.by])
    <2>1. PICK s \in Standing("checkout") :
            Becomes(a, [run[a] EXCEPT !.step = "tab", !.space = s.by])
      BY <1>8
    <2>2. s.by \in Makers
      BY <1>2, <2>1 DEF TypeOK, Standing
    <2>3. QED
      BY <1>1, <1>8, <2>1, <2>2, ToTab, Reads
  <1>9. QED
    BY <1>3, <1>4, <1>5, <1>6, <1>7, <1>8

--------------------------------------------------------------------------------
(* The steps that change what stands. *)

HerdrTyped ==
    /\ spaces \subseteq [by : Makers, at : Actors \cup {"checkout"}]
    /\ tabs \subseteq [by : Starts, root : BOOLEAN, space : Makers,
                       agent : Seq(Actors \cup Nat)]
    /\ \A t \in tabs : t.space \in SpaceIds
TreeTyped == tree \in [Actors -> [is : {"none", "stands", "other", "leftover"}, by : Nat]]
BranchesTyped ==
    /\ local \in [Actors -> [tip : 0..MaxTip, by : Nat]]
    /\ remote \in [Actors -> 0..MaxTip] /\ drafts \in [Actors -> 0..2]
MemoryTyped ==
    /\ recorded \in [Tickets -> SUBSET Entries] /\ latest \in [Tickets -> Entries]
    /\ live \in [Tickets -> BOOLEAN] /\ cycle \in [Tickets -> Nat]
    /\ leftover \in [Tickets -> SUBSET Entries]
    /\ \A t \in Tickets : leftover[t] \subseteq recorded[t]
    /\ \A t \in Tickets : live[t] => latest[t] \in recorded[t]
RowsTyped == rows \subseteq (Consultations \X Nat) \X Parts
RunTyped == run \in [Actors -> Runs] /\ \A a \in Actors : run[a].n <= MaxStarts[a]

LEMMA TypeParts ==
    /\ TypeOK <=> /\ HerdrTyped /\ TreeTyped /\ BranchesTyped /\ MemoryTyped
                  /\ RowsTyped /\ RunTyped
                  /\ spent \in [faults : 0..MaxFaults, events : 0..MaxEvents]
    /\ TypeOK' <=> /\ HerdrTyped' /\ TreeTyped' /\ BranchesTyped' /\ MemoryTyped'
                   /\ RowsTyped' /\ RunTyped' /\ Counted
  BY DEF TypeOK, HerdrTyped, SpaceIds, TreeTyped, BranchesTyped, MemoryTyped, RowsTyped,
         RunTyped, Counted

LEMMA Stands0 ==
    ASSUME TypeOK
    PROVE  /\ UNCHANGED herdr => HerdrTyped'
           /\ UNCHANGED tree => TreeTyped'
           /\ UNCHANGED branches => BranchesTyped'
           /\ UNCHANGED memory => MemoryTyped'
           /\ UNCHANGED rows => RowsTyped'
           /\ UNCHANGED run => RunTyped'
           /\ UNCHANGED spent => Counted
  BY DEF TypeOK, HerdrTyped, SpaceIds, TreeTyped, BranchesTyped, MemoryTyped, RowsTyped,
         RunTyped, Counted, herdr, branches, memory

LEMMA RunGoes ==
    ASSUME NEW a \in Actors, IInv, NEW q \in Runs, q.n = run[a].n, Becomes(a, q)
    PROVE  RunTyped' /\ run'[a] = q /\ \A b \in Actors \ {a} : run'[b] = run[b]
  BY BecomesIs DEF IInv, RunTyped

LEMMA Works ==
    ASSUME NEW a \in Actors, IInv, TypeOK', Placed', OwnOnly(a), Spared(a), Carries(a),
           Failing(a) \/ Going(a)
    PROVE  IInv'
  <1>1. Sound(a)'
    BY Carried DEF IInv
  <1>2. QED
    BY <1>1, Elsewhere DEF IInv

(* What stands goes: a workspace with its tabs, or a tab. *)
Shrinks == spaces' \subseteq spaces /\ tabs' \subseteq tabs

LEMMA WithoutIs ==
    ASSUME TypeOK, NEW x, Without(x)
    PROVE  HerdrTyped' /\ Shrinks /\ \A s \in spaces \ spaces' : s.by = x
  BY DEF TypeOK, HerdrTyped, Without, Shrinks, SpaceIds

LEMMA TabGone ==
    ASSUME TypeOK, tabs' \subseteq tabs, UNCHANGED spaces
    PROVE  HerdrTyped' /\ Shrinks
  BY DEF TypeOK, HerdrTyped, Shrinks, SpaceIds

LEMMA PlacedShrinks ==
    ASSUME Placed, Shrinks, UNCHANGED <<recorded, latest>>
    PROVE  Placed'
  BY DEF Placed, Shrinks, Standing

LEMMA RouteCloseKeeps ==
    ASSUME NEW a \in Actors, IInv, RouteClose(a)
    PROVE  IInv'
  <1> DEFINE s == FirstStep(run[a])
  <1>1. /\ run[a].step = "route" /\ UNCHANGED <<tree, branches, memory, rows>> /\ Counted
        /\ run[a].step \notin Cleans \cup {"rest"} \cup Late /\ run[a].step \in Early
        /\ Becomes(a, [run[a] EXCEPT !.step = s])
    BY AnsweredIs DEF RouteClose, At, Cleans, Late, Early, IInv
  <1>2. /\ run[a] \in Runs /\ ~run[a].handed /\ TypeOK /\ Placed
        /\ a \in Tickets /\ run[a].made = {}
    BY <1>1, AtWork, ApartParts DEF Sound, Handed, Stepped, Alone, OfTicket, IInv
  <1>3. /\ HerdrTyped' /\ Shrinks /\ \A x \in spaces \ spaces' : x.by \in Of(a)
    <2>1. CASE UNCHANGED herdr
      BY <1>2, <2>1, Stands0 DEF herdr, Shrinks
    <2>2. CASE latest[a].worktree /\ Without(latest[a].space)
      BY <1>2, <2>2, WithoutIs DEF Placed
    <2>3. CASE tabs' = tabs \ TabOf(latest[a].tab) /\ UNCHANGED spaces
      BY <1>2, <2>3, TabGone
    <2>4. QED
      BY <2>1, <2>2, <2>3 DEF RouteClose
  <1>4. Placed'
    BY <1>1, <1>2, <1>3, PlacedShrinks DEF memory
  <1>5. s \in {"branch", "list"} /\ s \in Steps
    BY DEF FirstStep, Steps
  <1>6. Carries(a) /\ Going(a) /\ [run[a] EXCEPT !.step = s] \in Runs
    BY <1>1, <1>2, <1>5, GoesOn, ApartParts DEF Cleans, Early, InSpace
  <1>7. RunTyped' /\ \A b \in Actors \ {a} : run'[b] = run[b]
    BY <1>1, <1>2, <1>6, RunGoes DEF Carries, Runs
  <1>8. TypeOK'
    BY <1>1, <1>2, <1>3, <1>7, TypeParts, Stands0
  <1>9. OwnOnly(a)
    BY <1>1, <1>3, <1>7 DEF OwnOnly, Shrinks, branches, memory
  <1>10. Spared(a)
    BY <1>1, <1>2, <1>3 DEF Spared, Shrinks, SpaceIds, branches, memory
  <1>11. QED
    BY <1>4, <1>6, <1>8, <1>9, <1>10, Works

(* A step on the actor's own branch and its copies. *)
LEMMA BranchWorks ==
    ASSUME NEW a \in Actors, IInv, UNCHANGED <<herdr, tree, memory, rows>>, Counted,
           BranchesTyped',
           \A b \in Actors \ {a} : local'[b] = local[b] /\ remote'[b] = remote[b],
           remote[a] > 0 => remote'[a] > 0,
           local[a].tip > 0 => local'[a].tip > 0,
           local'[a].by = local[a].by \/ (local'[a].by = 0 /\ run[a].step \in Early),
           NEW q \in Runs, Becomes(a, q), Carries(a), Failing(a) \/ Going(a)
    PROVE  IInv'
  <1>1. RunTyped' /\ run'[a] = q /\ \A b \in Actors \ {a} : run'[b] = run[b]
    <2>1. run'[a] = q
      BY DEF IInv, TypeOK, Becomes
    <2>2. QED
      BY <2>1, RunGoes DEF Carries
  <1>2. TypeOK'
    BY <1>1, TypeParts, Stands0 DEF IInv
  <1>3. Placed'
    BY DEF IInv, Placed, Standing, memory, herdr
  <1>4. OwnOnly(a)
    BY <1>1 DEF OwnOnly, memory, herdr
  <1>5. Spared(a)
    BY DEF Spared, SpaceIds, memory, herdr
  <1>6. QED
    BY <1>2, <1>3, <1>4, <1>5, Works

LEMMA HoldBranchKeeps ==
    ASSUME NEW a \in Actors, IInv, HoldBranch(a)
    PROVE  IInv'
  <1>1. /\ run[a].step = "hold" /\ UNCHANGED <<herdr, tree, remote, drafts, memory, rows>>
        /\ run[a].step \notin Cleans \cup {"rest"} /\ run[a].step \notin Late
    BY DEF HoldBranch, At, Cleans, Late
  <1>2. /\ TypeOK /\ run[a] \in Runs /\ ~run[a].handed /\ a \notin Consultations
        /\ run[a].worktree => run[a].space \in Of(a)
    BY <1>1, AtWork DEF Sound, Handed, Alone, OfTicket, Stepped, InSpace
  <1>3. PICK o \in {"ok", "refused", "lost"} :
          IF local[a].tip = 0
          THEN o = "ok" /\ Becomes(a, Fails(run[a])) /\ UNCHANGED <<local, spent>>
          ELSE /\ Answered(o)
               /\ local' = IF Takes(o) THEN [local EXCEPT ![a].tip = Lower(@ + 1, MaxTip)] ELSE local
               /\ Becomes(a, IF o = "ok" THEN [run[a] EXCEPT !.step = "push"] ELSE Fails(run[a]))
    BY DEF HoldBranch
  <1>4. Counted
    BY <1>2, <1>3, AnsweredIs, Stands0
  <1>5. /\ local' \in [Actors -> [tip : 0..MaxTip, by : Nat]]
        /\ \A b \in Actors \ {a} : local'[b] = local[b]
        /\ local[a].tip > 0 => local'[a].tip > 0
        /\ local'[a].by = local[a].by
    <2>1. CASE UNCHANGED local
      BY <1>2, <2>1 DEF TypeOK
    <2>2. CASE local' = [local EXCEPT ![a].tip = Lower(@ + 1, MaxTip)]
      <3>1. local[a].tip \in 0..MaxTip /\ Lower(local[a].tip + 1, MaxTip) \in 1..MaxTip
        BY <1>2, StartAssumption DEF TypeOK, Lower
      <3>2. local'[a].tip = Lower(local[a].tip + 1, MaxTip) /\ local'[a].by = local[a].by
        BY <1>2, <2>2 DEF TypeOK
      <3>3. local' \in [Actors -> [tip : 0..MaxTip, by : Nat]]
        <4>1. PICK x \in 0..MaxTip : x = Lower(local[a].tip + 1, MaxTip)
          BY <3>1
        <4>2. local[a] \in [tip : 0..MaxTip, by : Nat]
          BY <1>2 DEF TypeOK
        <4>3. PICK l \in [tip : 0..MaxTip, by : Nat] : l = [local[a] EXCEPT !.tip = x]
          BY <4>1, <4>2
        <4>4. local' = [local EXCEPT ![a] = l]
          BY <1>2, <2>2, <4>1, <4>3 DEF TypeOK
        <4>5. QED
          BY <1>2, <4>4 DEF TypeOK
      <3>4. \A b \in Actors \ {a} : local'[b] = local[b]
        BY <1>2, <2>2 DEF TypeOK
      <3>5. QED
        BY <3>1, <3>2, <3>3, <3>4
    <2>3. QED
      BY <1>3, <2>1, <2>2
  <1>6. BranchesTyped' /\ \A b \in Actors \ {a} : local'[b] = local[b] /\ remote'[b] = remote[b]
    BY <1>1, <1>2, <1>5 DEF BranchesTyped, TypeOK
  <1>7. remote[a] > 0 => remote'[a] > 0
    BY <1>1
  <1>8. CASE Becomes(a, Fails(run[a]))
    BY <1>1, <1>4, <1>5, <1>6, <1>7, <1>8, FailsHere, BranchWorks
  <1>9. CASE Becomes(a, [run[a] EXCEPT !.step = "push"])
    <2>1. Carries(a) /\ Going(a) /\ [run[a] EXCEPT !.step = "push"] \in Runs
      BY <1>1, <1>2, <1>9, GoesOn DEF Steps, Cleans, Early
    <2>2. QED
      BY <1>1, <1>4, <1>5, <1>6, <1>7, <1>9, <2>1, BranchWorks
  <1>10. QED
    BY <1>3, <1>8, <1>9

LEMMA OpenDraftKeeps ==
    ASSUME NEW a \in Actors, IInv, OpenDraft(a)
    PROVE  IInv'
  <1>1. /\ run[a].step = "draft" /\ UNCHANGED <<herdr, tree, local, remote, memory, rows>>
        /\ run[a].step \notin Cleans \cup {"rest"} /\ run[a].step \in Late
    BY DEF OpenDraft, At, Cleans, Late
  <1>2. /\ TypeOK /\ run[a] \in Runs /\ a \notin Consultations
        /\ run[a].worktree => run[a].space \in Of(a)
    BY <1>1, AtWork DEF Sound, Alone, OfTicket, Stepped, InSpace
  <1>3. PICK o \in {"ok", "refused", "lost"} :
          /\ Answered(o)
          /\ drafts' = IF Takes(o) THEN [drafts EXCEPT ![a] = Lower(@ + 1, 2)] ELSE drafts
          /\ Becomes(a, IF o = "ok" THEN [run[a] EXCEPT !.step = "agent"] ELSE Fails(run[a]))
    BY DEF OpenDraft
  <1>4. Counted
    BY <1>2, <1>3, AnsweredIs
  <1>5. drafts' \in [Actors -> 0..2]
    <2>1. drafts[a] \in 0..2 /\ drafts \in [Actors -> 0..2]
      BY <1>2 DEF TypeOK
    <2>2. Lower(drafts[a] + 1, 2) \in 0..2
      BY <2>1 DEF Lower
    <2>3. QED
      BY <1>3, <2>1, <2>2
  <1>6. BranchesTyped' /\ \A b \in Actors \ {a} : local'[b] = local[b] /\ remote'[b] = remote[b]
    BY <1>1, <1>2, <1>5 DEF BranchesTyped, TypeOK
  <1>7. /\ remote[a] > 0 => remote'[a] > 0
        /\ local[a].tip > 0 => local'[a].tip > 0
        /\ local'[a].by = local[a].by
    BY <1>1
  <1>8. CASE Becomes(a, Fails(run[a]))
    BY <1>1, <1>4, <1>6, <1>7, <1>8, FailsHere, BranchWorks
  <1>9. CASE Becomes(a, [run[a] EXCEPT !.step = "agent"])
    <2>1. Carries(a) /\ Going(a) /\ [run[a] EXCEPT !.step = "agent"] \in Runs
      BY <1>1, <1>2, <1>9, GoesOn DEF Steps, Cleans, Early, Late
    <2>2. QED
      BY <1>1, <1>4, <1>6, <1>7, <1>9, <2>1, BranchWorks
  <1>10. QED
    BY <1>3, <1>8, <1>9

(* The push that lands, or may have, hands the branch to the pull request. *)
LEMMA HandsOverIs ==
    ASSUME NEW r \in Runs
    PROVE  /\ HandsOver(r) \in Runs /\ HandsOver(r).handed
           /\ HandsOver(r).made = r.made \ {"branch"}
           /\ LET q == HandsOver(r) IN
              /\ q.n = r.n /\ q.unseen = r.unseen /\ q.worktree = r.worktree
              /\ q.stored = r.stored /\ q.continues = r.continues /\ q.opens = r.opens
              /\ q.disturbed = r.disturbed /\ q.failed = r.failed /\ q.builds = r.builds
              /\ q.space = r.space /\ q.ask = r.ask /\ q.accepted = r.accepted
  BY DEF HandsOver, Runs

LEMMA PushBranchKeeps ==
    ASSUME NEW a \in Actors, IInv, PushBranch(a)
    PROVE  IInv'
  <1>1. /\ run[a].step = "push" /\ UNCHANGED <<herdr, tree, local, drafts, memory, rows>>
        /\ run[a].step \notin Cleans \cup {"rest"} /\ run[a].step \notin Late \cup Early
    BY DEF PushBranch, At, Cleans, Late, Early
  <1>2. /\ TypeOK /\ run[a] \in Runs /\ a \in Tickets
        /\ run[a].worktree => run[a].space \in Of(a)
    BY <1>1, AtWork, ApartParts DEF Sound, Alone, OfTicket, Stepped, InSpace
  <1> DEFINE lands == local[a].tip > 0 /\ local[a].tip >= remote[a]
             h == HandsOver(run[a])
  <1>3. \/ /\ ~lands /\ Becomes(a, Fails(run[a])) /\ UNCHANGED <<remote, spent>>
        \/ lands /\ \E o \in {"ok", "refused", "lost"} :
             /\ Answered(o)
             /\ remote' = IF Takes(o) THEN [remote EXCEPT ![a] = local[a].tip] ELSE remote
             /\ \/ Becomes(a, [h EXCEPT !.step = "pulls"])
                \/ Becomes(a, Fails(h)) \/ Becomes(a, Fails(run[a]))
    BY DEF PushBranch
  <1>4. Counted
    BY <1>2, <1>3, AnsweredIs, Stands0
  <1>5. /\ remote' \in [Actors -> 0..MaxTip] /\ \A b \in Actors \ {a} : remote'[b] = remote[b]
        /\ remote[a] > 0 => remote'[a] > 0
    <2>1. CASE UNCHANGED remote
      BY <1>2, <2>1 DEF TypeOK
    <2>2. CASE lands /\ remote' = [remote EXCEPT ![a] = local[a].tip]
      <3>1. local[a].tip \in 0..MaxTip
        BY <1>2 DEF TypeOK
      <3>2. remote'[a] = local[a].tip
        BY <1>2, <2>2 DEF TypeOK
      <3>3. QED
        BY <1>2, <2>2, <3>1, <3>2 DEF TypeOK
    <2>3. QED
      BY <1>3, <2>1, <2>2
  <1>6. BranchesTyped' /\ \A b \in Actors \ {a} : local'[b] = local[b] /\ remote'[b] = remote[b]
    BY <1>1, <1>2, <1>5 DEF BranchesTyped, TypeOK
  <1>7. /\ local[a].tip > 0 => local'[a].tip > 0
        /\ local'[a].by = local[a].by
    BY <1>1
  <1>8. CASE Becomes(a, Fails(run[a]))
    BY <1>1, <1>4, <1>5, <1>6, <1>7, <1>8, FailsHere, BranchWorks
  <1>9. CASE lands /\ Becomes(a, [h EXCEPT !.step = "pulls"])
    <2>1. PICK g \in Runs : g = h
      BY <1>2, HandsOverIs
    <2>2. "pulls" \in Steps
      BY DEF Steps
    <2>3. PICK q \in Runs : q = [g EXCEPT !.step = "pulls"]
      BY <2>2, ToStep DEF Kin
    <2>4. /\ Kin(q, g) /\ q.step = "pulls" /\ q.failed = g.failed /\ q.builds = g.builds
          /\ q.space = g.space
      BY <2>2, <2>3, ToStep
    <2>5. run'[a] = q
      BY <1>2, <1>9, <2>1, <2>3 DEF TypeOK, Becomes
    <2>6. ~run[a].failed /\ local'[a].tip > 0
      BY <1>1, <1>9, AtWork
    <2>7. Carries(a)
      BY <1>1, <1>2, <2>1, <2>4, <2>5, <2>6, HandsOverIs DEF Carries, Kin, Early
    <2>8. Going(a)
      BY <1>1, <1>2, <2>1, <2>4, <2>5, <2>6, HandsOverIs, ApartParts
         DEF Going, Kin, Early, Cleans, Late, InSpace
    <2>9. QED
      BY <1>1, <1>4, <1>5, <1>6, <1>7, <1>9, <2>1, <2>3, <2>7, <2>8, BranchWorks
  <1>10. CASE lands /\ Becomes(a, Fails(h))
    <2>1. PICK g \in Runs : g = h
      BY <1>2, HandsOverIs
    <2>2. PICK q \in Runs : q = Fails(h)
      BY <2>1, FailsIs DEF Kin
    <2>3. /\ Kin(q, g) /\ q.failed /\ q.step = Cleaning(q.made) /\ q.builds = g.builds
      BY <2>1, <2>2, FailsIs DEF Kin
    <2>4. run'[a] = q
      BY <1>2, <1>10, <2>2 DEF TypeOK, Becomes
    <2>5. local'[a].tip > 0
      BY <1>1, <1>10
    <2>6. Carries(a)
      <3>1. q.step \notin Early
        BY <2>3, CleaningIs DEF Early
      <3>2. g.handed /\ g.made = run[a].made \ {"branch"}
        BY <1>2, <2>1, HandsOverIs
      <3>3. q.made = g.made /\ q.handed
        BY <2>3, <3>2 DEF Kin
      <3>4. /\ g.n = run[a].n /\ g.unseen = run[a].unseen /\ g.worktree = run[a].worktree
            /\ g.stored = run[a].stored /\ g.continues = run[a].continues
            /\ g.opens = run[a].opens /\ g.disturbed = run[a].disturbed
            /\ g.builds = run[a].builds /\ g.ask = run[a].ask
            /\ g.accepted = run[a].accepted
        BY <1>2, <2>1, HandsOverIs
      <3>5. QED
        BY <1>2, <2>3, <2>4, <2>5, <3>1, <3>2, <3>3, <3>4 DEF Carries, Kin
    <2>7. Failing(a)
      BY <1>1, <2>3, <2>4 DEF Failing
    <2>8. QED
      BY <1>1, <1>4, <1>5, <1>6, <1>7, <1>10, <2>2, <2>6, <2>7, BranchWorks
  <1>11. QED
    BY <1>3, <1>8, <1>9, <1>10

LEMMA FetchBranchKeeps ==
    ASSUME NEW a \in Actors, IInv, FetchBranch(a)
    PROVE  IInv'
  <1>1. /\ run[a].step = "fetch" /\ UNCHANGED <<herdr, tree, remote, drafts, memory, rows>>
        /\ run[a].step \notin Cleans \cup {"rest"} \cup Late /\ run[a].step \in Early
    BY DEF FetchBranch, At, Cleans, Late, Early
  <1>2. /\ TypeOK /\ run[a] \in Runs /\ ~run[a].handed /\ a \notin Consultations
        /\ remote[a] > 0
    BY <1>1, AtWork DEF Sound, Handed, Alone, OfTicket, Stepped, At
  <1>3. PICK o \in {"ok", "refused", "lost"} :
          /\ Answered(o)
          /\ local' = IF Takes(o) THEN [local EXCEPT ![a] = [tip |-> remote[a], by |-> 0]] ELSE local
          /\ Becomes(a, IF o = "ok" THEN [run[a] EXCEPT !.step = "open"] ELSE Fails(run[a]))
    BY DEF FetchBranch
  <1>4. Counted
    BY <1>2, <1>3, AnsweredIs
  <1>5. /\ local' \in [Actors -> [tip : 0..MaxTip, by : Nat]]
        /\ \A b \in Actors \ {a} : local'[b] = local[b]
        /\ local[a].tip > 0 => local'[a].tip > 0
        /\ local'[a].by \in {local[a].by, 0}
    <2>1. CASE UNCHANGED local
      BY <1>2, <2>1 DEF TypeOK
    <2>2. CASE local' = [local EXCEPT ![a] = [tip |-> remote[a], by |-> 0]]
      <3>1. PICK l \in [tip : 0..MaxTip, by : Nat] : l = [tip |-> remote[a], by |-> 0]
        BY <1>2 DEF TypeOK
      <3>2. local' = [local EXCEPT ![a] = l]
        BY <2>2, <3>1
      <3>3. QED
        BY <1>2, <3>1, <3>2 DEF TypeOK
    <2>3. QED
      BY <1>3, <2>1, <2>2
  <1>6. BranchesTyped' /\ \A b \in Actors \ {a} : local'[b] = local[b] /\ remote'[b] = remote[b]
    BY <1>1, <1>2, <1>5 DEF BranchesTyped, TypeOK
  <1>7. remote[a] > 0 => remote'[a] > 0
    BY <1>1
  <1>8. CASE Becomes(a, Fails(run[a]))
    BY <1>1, <1>4, <1>5, <1>6, <1>7, <1>8, FailsHere, BranchWorks
  <1>9. CASE Becomes(a, [run[a] EXCEPT !.step = "open"])
    <2>1. Carries(a) /\ Going(a) /\ [run[a] EXCEPT !.step = "open"] \in Runs
      BY <1>1, <1>2, <1>9, GoesOn DEF Steps, Cleans, Early, InSpace
    <2>2. QED
      BY <1>1, <1>4, <1>5, <1>6, <1>7, <1>9, <2>1, BranchWorks
  <1>10. QED
    BY <1>3, <1>8, <1>9

LEMMA MoveLeftoverKeeps ==
    ASSUME NEW a \in Actors, IInv, MoveLeftover(a)
    PROVE  IInv'
  <1>1. /\ run[a].step = "aside" /\ UNCHANGED <<herdr, branches, memory, rows>>
        /\ run[a].step \notin Cleans \cup {"rest"} \cup Late /\ run[a].step \notin Early
    BY DEF MoveLeftover, At, Cleans, Late, Early
  <1>2. /\ TypeOK /\ run[a] \in Runs /\ ~run[a].handed
    BY <1>1, AtWork DEF Sound, Handed
  <1>3. Counted
    BY <1>2, AnsweredIs DEF MoveLeftover
  <1>4. \/ UNCHANGED tree /\ Becomes(a, Fails(run[a]))
        \/ tree' = [tree EXCEPT ![a].is = "none"] /\ Becomes(a, [run[a] EXCEPT !.step = "again"])
    BY DEF MoveLeftover
  <1>5. /\ TreeTyped' /\ \A b \in Actors \ {a} : tree'[b] = tree[b]
        /\ tree'[a].by = tree[a].by /\ tree'[a].is \in {tree[a].is, "none"}
    <2>1. CASE UNCHANGED tree
      BY <1>2, <2>1, Stands0
    <2>2. CASE tree' = [tree EXCEPT ![a].is = "none"]
      <3>0. tree[a] \in [is : {"none", "stands", "other", "leftover"}, by : Nat]
        BY <1>2 DEF TypeOK
      <3>1. PICK x \in [is : {"none", "stands", "other", "leftover"}, by : Nat] :
              x = [tree[a] EXCEPT !.is = "none"]
        BY ONLY <3>0
      <3>2. x.by = tree[a].by /\ x.is = "none" /\ tree' = [tree EXCEPT ![a] = x]
        BY <1>2, <2>2, <3>1 DEF TypeOK
      <3>3. QED
        BY <1>2, <3>1, <3>2 DEF TypeOK, TreeTyped
    <2>3. QED
      BY <1>4, <2>1, <2>2
  <1>6. Carries(a) /\ (Failing(a) \/ Going(a)) /\ RunTyped'
        /\ \A b \in Actors \ {a} : run'[b] = run[b]
    <2>1. CASE Becomes(a, Fails(run[a]))
      BY <1>1, <1>2, <2>1, FailsHere, RunGoes, FailsIs DEF Kin
    <2>2. CASE Becomes(a, [run[a] EXCEPT !.step = "again"])
      <3>1. Carries(a) /\ Going(a) /\ [run[a] EXCEPT !.step = "again"] \in Runs
        BY <1>1, <1>2, <2>2, GoesOn DEF Steps, Cleans, Early, InSpace, OfTicket
      <3>2. [run[a] EXCEPT !.step = "again"].n = run[a].n
        BY <1>2 DEF Runs
      <3>3. QED
        BY <2>2, <3>1, <3>2, RunGoes
    <2>3. QED
      BY <1>4, <2>1, <2>2
  <1>7. TypeOK'
    BY <1>1, <1>2, <1>3, <1>5, <1>6, TypeParts, Stands0
  <1>8. Placed'
    BY <1>1 DEF IInv, Placed, Standing, memory, herdr
  <1>9. OwnOnly(a)
    BY <1>1, <1>5, <1>6 DEF OwnOnly, memory, herdr, branches
  <1>10. Spared(a)
    BY <1>1, <1>5 DEF Spared, SpaceIds, memory, herdr, branches
  <1>11. QED
    BY <1>6, <1>7, <1>8, <1>9, <1>10, Works

(* A workspace of the start's own, with its root tab. *)
Attaches(a, at) ==
    /\ spaces' = spaces \cup {[by |-> Id(a), at |-> at]}
    /\ tabs' = tabs \cup {NewTab(a, TRUE, Id(a))}

LEMMA AttachesIs ==
    ASSUME NEW a \in Actors, NEW at \in {a, "checkout"}, IInv, Attaches(a, at)
    PROVE  /\ HerdrTyped' /\ (UNCHANGED <<recorded, latest>> => Placed')
           /\ spaces \subseteq spaces' /\ tabs \subseteq tabs'
           /\ \A s \in spaces' : s \in spaces \/ s.by = Id(a)
           /\ \A t \in tabs' : t \in tabs \/ (t.by = Id(a) /\ t.root)
           /\ Id(a) \in SpaceIds' /\ Id(a) \in Of(a)
  <1>1. TypeOK /\ Placed /\ Id(a) \in Of(a) /\ Id(a) \in Starts /\ Id(a) \in Makers
    BY IdFacts DEF IInv
  <1>2. PICK s \in [by : Makers, at : Actors \cup {"checkout"}] : s = [by |-> Id(a), at |-> at]
    BY <1>1
  <1>3. PICK t \in [by : Starts, root : BOOLEAN, space : Makers, agent : Seq(Actors \cup Nat)] :
          t = NewTab(a, TRUE, Id(a))
    <2>1. Nothing \in Seq(Actors \cup Nat)
      BY DEF Nothing
    <2>2. QED
      BY <1>1, <2>1 DEF NewTab
  <1>4. /\ s.by = Id(a) /\ s.at = at /\ t.by = Id(a) /\ t.root /\ t.space = Id(a)
        /\ spaces' = spaces \cup {s} /\ tabs' = tabs \cup {t}
    BY <1>2, <1>3 DEF NewTab, Attaches
  <1>5. HerdrTyped'
    BY <1>1, <1>4 DEF HerdrTyped, TypeOK, SpaceIds
  <1>6. ASSUME UNCHANGED <<recorded, latest>> PROVE Placed'
    <2>1. \A b \in Actors : \A x \in Standing(b)' : x.by \in Of(b)
      BY <1>1, <1>4, StartAssumption DEF Placed, Standing
    <2>2. \A x \in tabs' : x.root => x.space = x.by
      BY <1>1, <1>4 DEF Placed
    <2>3. QED
      BY <1>1, <1>6, <2>1, <2>2 DEF Placed
  <1>7. QED
    BY <1>1, <1>4, <1>5, <1>6 DEF SpaceIds

Answers == {"ok", "refused", "lost", "partial"}
Missed(o, known, parts) == IF Takes(o) THEN parts \ known ELSE {}

(* What a command made goes on the start's record, or is never told to it. *)
LEMMA MakesCarries ==
    ASSUME NEW a \in Actors, IInv, run[a].step \notin Early \cup Cleans \cup {"rest"},
           NEW o \in Answers, NEW known \in SUBSET Parts, NEW parts \in SUBSET Parts,
           NEW q \in Runs, Kin(q, Makes(run[a], o, known, parts)),
           q.builds = run[a].builds, q.step \notin Early, Becomes(a, q),
           "tree" \in known => tree'[a].by = run[a].n /\ Id(a) \in SpaceIds',
           "branch" \in known => /\ local'[a].by = run[a].n /\ "tree" \in known
                                 /\ ~run[a].handed
    PROVE  /\ Carries(a) /\ run'[a] = q /\ RunTyped'
           /\ \A b \in Actors \ {a} : run'[b] = run[b]
           /\ q.made = run[a].made \cup known
           /\ \A p \in parts : Takes(o) => p \in known \cup q.unseen
  <1> DEFINE g == Makes(run[a], o, known, parts)
  <1>1. run[a] \in Runs
    BY DEF IInv, TypeOK
  <1>2. /\ g \in Runs
        /\ g.made = run[a].made \cup known
        /\ g.unseen = run[a].unseen \cup Missed(o, known, parts)
        /\ g.n = run[a].n /\ g.worktree = run[a].worktree /\ g.stored = run[a].stored
        /\ g.handed = run[a].handed /\ g.continues = run[a].continues
        /\ g.opens = run[a].opens /\ g.disturbed = run[a].disturbed /\ g.ask = run[a].ask
        /\ g.accepted = run[a].accepted
    <2>1. Missed(o, known, parts) \in SUBSET Parts
      BY DEF Missed
    <2>2. QED
      BY <1>1, <2>1 DEF Makes, Runs, Missed
  <1>3. Kin(q, g)
    OBVIOUS
  <1> HIDE DEF g
  <1>4. /\ run'[a] = q /\ RunTyped' /\ \A b \in Actors \ {a} : run'[b] = run[b]
    <2>1. q.n = run[a].n
      BY <1>2, <1>3 DEF Kin
    <2>2. QED
      BY <2>1, RunGoes
  <1>5. Carries(a)
    BY <1>2, <1>3, <1>4 DEF Carries, Kin
  <1>6. QED
    BY <1>2, <1>3, <1>4, <1>5 DEF Kin, Missed

LEMMA RowIs ==
    ASSUME NEW a \in Actors, TypeOK, NEW known \in SUBSET Parts, Row(a, known)
    PROVE  /\ RowsTyped' /\ rows \subseteq rows'
           /\ a \in Consultations => \A p \in known : <<Id(a), p>> \in rows'
  <1>1. a \in Consultations => Id(a) \in Consultations \X Nat
    BY IdFacts DEF Id
  <1>2. QED
    BY <1>1 DEF Row, RowsTyped, TypeOK

LEMMA InSpaceIs ==
    ASSUME NEW g \in Runs, NEW x \in Makers, NEW t \in Handles
    PROVE  LET h == [g EXCEPT !.space = x, !.tab = t]
           IN Kin(h, g) /\ h.space = x /\ h.builds = g.builds /\ h.failed = g.failed
  BY DEF Kin, Runs

LEMMA OwnTabs ==
    ASSUME NEW a \in Actors, TypeOK
    PROVE  Root(a) \in Handles /\ Fresh(a) \in Handles
  BY IdFacts DEF Root, Fresh, Handles

(* A step that makes something: its own workspaces, tabs, worktree and     *)
(* branch stand beside what stood, and the start is told of each, or has   *)
(* it among what it was never told.                                        *)
Grows(a, o, known, parts) ==
    /\ spaces \subseteq spaces' /\ \A s \in spaces' : s \in spaces \/ s.by = Id(a)
    /\ \A s \in spaces' : s \in spaces \/ (Takes(o) /\ "space" \in parts)
    /\ \A t \in tabs' : t \in tabs \/ /\ t.by = Id(a) /\ Takes(o)
                                      /\ t.root /\ a \in Consultations => "root" \in parts
                                      /\ ~t.root => "tab" \in parts
    /\ \A b \in Actors \ {a} : tree'[b] = tree[b] /\ local'[b] = local[b]
    /\ tree'[a] = tree[a] \/ (tree'[a].by = run[a].n /\ Takes(o) /\ "tree" \in parts)
    /\ \/ local'[a] = local[a]
       \/ /\ local'[a].by = run[a].n /\ local'[a].tip > 0 /\ Takes(o)
          /\ run[a].builds => "branch" \in parts
    /\ local[a].tip > 0 => local'[a].tip > 0
    /\ "tree" \in known => tree'[a].by = run[a].n /\ Id(a) \in SpaceIds'
    /\ "branch" \in known => local'[a].by = run[a].n /\ "tree" \in known

LEMMA Built ==
    ASSUME NEW a \in Actors, IInv, run[a].step \notin Early \cup Cleans \cup {"rest"} \cup Late,
           NEW o \in Answers, NEW known \in SUBSET Parts, NEW parts \in SUBSET Parts,
           NEW q \in Runs, Kin(q, Makes(run[a], o, known, parts)),
           q.builds = run[a].builds, Becomes(a, q),
           \/ q.failed /\ q.step = Cleaning(q.made)
           \/ /\ ~q.failed
              /\ q.step \in {"tab", "aside", "find", "reopen", "create", "listed", "agent"}
              /\ q.step \in InSpace /\ q.worktree => q.space \in Of(a)
              /\ a \in Consultations => q.step \notin OfTicket,
           HerdrTyped', Placed', TreeTyped', BranchesTyped', Counted,
           UNCHANGED <<remote, memory>>, Row(a, known \ {"branch"}),
           Grows(a, o, known, parts)
    PROVE  IInv'
  <1>1. run[a] \in Runs /\ TypeOK /\ ~run[a].handed /\ ~run[a].failed
    BY AtWork DEF Sound, Handed
  <1>2. q.step \notin Early
    BY CleaningIs DEF Early
  <1>3. run[a].step \notin Early \cup Cleans \cup {"rest"}
    OBVIOUS
  <1>4. /\ "tree" \in known => tree'[a].by = run[a].n /\ Id(a) \in SpaceIds'
        /\ "branch" \in known => /\ local'[a].by = run[a].n /\ "tree" \in known
                                 /\ ~run[a].handed
    BY <1>1 DEF Grows
  <1>5. /\ Carries(a) /\ run'[a] = q /\ RunTyped'
        /\ \A b \in Actors \ {a} : run'[b] = run[b]
        /\ q.made = run[a].made \cup known
        /\ \A p \in parts : Takes(o) => p \in known \cup q.unseen
    BY <1>2, <1>3, <1>4, MakesCarries
  <1>6. /\ RowsTyped' /\ rows \subseteq rows'
        /\ a \in Consultations => \A p \in known \ {"branch"} : <<Id(a), p>> \in rows'
    BY <1>1, RowIs
  <1>7. TypeOK'
    BY <1>1, <1>5, <1>6, TypeParts, Stands0
  <1>8. Failing(a) \/ Going(a)
    <2>1. CASE q.failed /\ q.step = Cleaning(q.made)
      BY <1>5, <2>1 DEF Failing
    <2>2. CASE /\ ~q.failed
               /\ q.step \in {"tab", "aside", "find", "reopen", "create", "listed", "agent"}
               /\ q.step \in InSpace /\ q.worktree => q.space \in Of(a)
               /\ a \in Consultations => q.step \notin OfTicket
      <3>1. q.handed = run[a].handed
        BY <1>1 DEF Kin, Makes, Runs
      <3>2. QED
        BY <1>1, <1>2, <1>5, <2>2, <3>1 DEF Going, Cleans
    <2>3. QED
      BY <2>1, <2>2
  <1>9. Id(a) \in Of(a) /\ Id(a) = <<a, run[a].n>> /\ \A b \in Actors \ {a} : Id(b) # Id(a)
    BY <1>1, IdFacts DEF Id
  <1>10. OwnOnly(a)
    <2>1. \A b \in Actors \ {a}, p \in Parts : <<Id(b), p>> \in rows => <<Id(b), p>> \in rows'
      BY <1>6
    <2>2. QED
      BY <1>5, <1>9, <2>1 DEF OwnOnly, Grows, memory
  <1>11. /\ \A p \in parts : Takes(o) => Told(a, p)'
         /\ \A p \in parts \ {"branch"} : Takes(o) => Noted(a, p)
         /\ a \notin Consultations => Noted(a, "root")
    BY <1>5, <1>6 DEF Told, Noted
  <1>12. Spared(a)
    <2>1. \A s \in spaces' : s.by \in Of(a) =>
            s.by \in SpaceIds \/ (s.by = Id(a) /\ Told(a, "space")' /\ Noted(a, "space"))
      BY <1>11 DEF Grows, SpaceIds
    <2>2. \A t \in tabs' : t.by \in Of(a) =>
            \/ \E u \in tabs : u.by = t.by /\ u.root = t.root
            \/ t.by = Id(a) /\ t.root /\ Noted(a, "root")
            \/ t.by = Id(a) /\ ~t.root /\ Noted(a, "tab") /\ Told(a, "tab")'
      BY <1>11 DEF Grows
    <2>3. Id(a) \in SpaceIds => Id(a) \in SpaceIds'
      BY DEF Grows, SpaceIds
    <2>4. /\ tree'[a].by = tree[a].by
             \/ (tree'[a].by = run[a].n /\ Told(a, "tree")' /\ Noted(a, "tree"))
          /\ \/ tree'[a].by = tree[a].by /\ (tree'[a].is # "none" => tree[a].is # "none")
             \/ Noted(a, "tree")
      BY <1>11 DEF Grows
    <2>5. /\ \/ local'[a].by = local[a].by
             \/ /\ local'[a].by = run[a].n /\ local'[a].tip > 0 /\ run[a].step \notin Early
                /\ run'[a].builds => Told(a, "branch")'
          /\ local[a].tip > 0 => local'[a].tip > 0
      BY <1>3, <1>5, <1>11 DEF Grows
    <2>6. ~At(a, "clean branch") /\ remote' = remote /\ latest' = latest
      BY DEF At, Cleans, memory
    <2>7. QED
      BY <1>6, <2>1, <2>2, <2>3, <2>4, <2>5, <2>6 DEF Spared
  <1>13. QED
    BY <1>5, <1>7, <1>8, <1>10, <1>12, Works

(* The start stands in the workspace it was given, or fails with its share. *)
LEMMA StandsAt ==
    ASSUME NEW g \in Runs, NEW x \in Makers, NEW t \in Handles
    PROVE  LET q == Stands([g EXCEPT !.space = x, !.tab = t]) IN
           /\ q \in Runs /\ Kin(q, g) /\ q.space = x /\ q.builds = g.builds
           /\ q.failed = g.failed /\ q.step = IF g.opens THEN "listed" ELSE "agent"
  <1>1. PICK h \in Runs : h = [g EXCEPT !.space = x, !.tab = t]
    BY InSpaceIs DEF Kin
  <1>2. Kin(h, g) /\ h.space = x /\ h.builds = g.builds /\ h.failed = g.failed
    BY <1>1 DEF Kin, Runs
  <1>3. /\ Kin(Stands(h), h) /\ Stands(h).builds = h.builds
        /\ Stands(h).failed = h.failed /\ Stands(h).space = h.space
        /\ Stands(h).step = IF h.opens THEN "listed" ELSE "agent"
    BY StandsIs
  <1>4. QED
    BY <1>1, <1>2, <1>3 DEF Kin

LEMMA CreateSpaceKeeps ==
    ASSUME NEW a \in Actors, IInv, CreateSpace(a)
    PROVE  IInv'
  <1> DEFINE parts == {"space", "root"}
  <1>1. PICK o \in Answers :
          /\ Answered(o)
          /\ IF ~Takes(o) THEN UNCHANGED herdr ELSE Attaches(a, "checkout")
          /\ LET known == IF o \in {"ok", "partial"} THEN parts ELSE {}
                 r == Makes(run[a], o, known, parts)
             IN /\ Row(a, known)
                /\ IF known = {} THEN Becomes(a, Fails(r))
                   ELSE IF a \in Tickets
                   THEN Becomes(a, [r EXCEPT !.step = "tab", !.space = Id(a)])
                   ELSE IF o = "partial" THEN Becomes(a, Fails(r))
                   ELSE Becomes(a, Stands([r EXCEPT !.space = Id(a), !.tab = Root(a)]))
    BY DEF CreateSpace, Attaches, Answers
  <1> DEFINE known == IF o \in {"ok", "partial"} THEN parts ELSE {}
             g == Makes(run[a], o, known, parts)
  <1>2. /\ run[a].step = "space" /\ UNCHANGED <<tree, branches, memory>>
        /\ run[a].step \notin Early \cup Cleans \cup {"rest"} \cup Late
        /\ run[a].step \notin Cleans \cup {"rest"}
    BY DEF CreateSpace, At, Early, Cleans, Late
  <1>3. /\ TypeOK /\ Placed /\ run[a] \in Runs /\ ~run[a].failed
        /\ a \in Consultations => ~run[a].opens
        /\ Id(a) \in Makers /\ Id(a) \in Of(a) /\ Root(a) \in Handles
    BY <1>2, AtWork, IdFacts, OwnTabs DEF Alone, IInv
  <1>4. /\ known \in SUBSET Parts /\ parts \in SUBSET Parts /\ known \ {"branch"} = known
        /\ "tree" \notin known /\ "branch" \notin known
    BY DEF Parts
  <1>5. /\ g \in Runs /\ g.failed = run[a].failed /\ g.builds = run[a].builds
        /\ g.opens = run[a].opens /\ Kin(g, g)
    <2>1. Missed(o, known, parts) \in SUBSET Parts
      BY <1>4 DEF Missed
    <2> HIDE DEF known, parts
    <2>2. QED
      BY <1>3, <1>4, <2>1 DEF Makes, Runs, Missed, Kin
  <1>6. /\ HerdrTyped' /\ Placed' /\ TreeTyped' /\ BranchesTyped' /\ Counted
        /\ Grows(a, o, known, parts)
    <2>1. TreeTyped' /\ BranchesTyped' /\ Counted
      BY <1>1, <1>2, <1>3, Stands0, AnsweredIs
    <2>2. CASE UNCHANGED herdr
      <3>1. HerdrTyped' /\ Placed'
        BY <1>2, <1>3, <2>2, Stands0 DEF Placed, Standing, herdr, memory
      <3>2. QED
        BY <1>2, <1>4, <2>1, <2>2, <3>1 DEF Grows, herdr, branches
    <2>3. CASE Takes(o) /\ Attaches(a, "checkout")
      <3>1. /\ HerdrTyped' /\ Placed' /\ spaces \subseteq spaces'
            /\ \A s \in spaces' : s \in spaces \/ s.by = Id(a)
            /\ \A t \in tabs' : t \in tabs \/ (t.by = Id(a) /\ t.root)
        BY <1>2, <2>3, AttachesIs DEF memory
      <3>2. QED
        BY <1>2, <1>4, <2>1, <2>3, <3>1 DEF Grows, branches
    <2>4. QED
      BY <1>1, <2>2, <2>3
  <1>7. PICK q \in Runs :
          /\ Kin(q, g) /\ q.builds = g.builds /\ Becomes(a, q)
          /\ \/ q.failed /\ q.step = Cleaning(q.made)
             \/ ~q.failed /\ q.step \in {"tab", "listed", "agent"} /\ q.space = Id(a)
                /\ (a \in Consultations => q.step \notin OfTicket)
    <2> HIDE DEF known, parts, g
    <2>1. CASE Becomes(a, Fails(g))
      BY <1>5, <2>1, FailsIs DEF Kin
    <2>2. CASE a \in Tickets /\ Becomes(a, [g EXCEPT !.step = "tab", !.space = Id(a)])
      <3>1. PICK q \in Runs : q = [g EXCEPT !.step = "tab", !.space = Id(a)]
        BY <1>3, <1>5 DEF Runs, Steps
      <3>2. Kin(q, g) /\ q.builds = g.builds /\ q.failed = g.failed
            /\ q.step = "tab" /\ q.space = Id(a)
        BY <1>5, <3>1 DEF Kin, Runs
      <3>3. QED
        BY <1>3, <1>5, <2>2, <3>1, <3>2, ApartParts
    <2>3. CASE a \in Consultations /\ Becomes(a, Stands([g EXCEPT !.space = Id(a), !.tab = Root(a)]))
      <3>1. PICK q \in Runs : q = Stands([g EXCEPT !.space = Id(a), !.tab = Root(a)])
        BY <1>3, <1>5, StandsAt
      <3>2. /\ Kin(q, g) /\ q.space = Id(a) /\ q.builds = g.builds
            /\ q.failed = g.failed /\ q.step = IF g.opens THEN "listed" ELSE "agent"
        BY <1>3, <1>5, <3>1, StandsAt
      <3>3. QED
        BY <1>3, <1>5, <2>3, <3>1, <3>2 DEF OfTicket
    <2>4. QED
      BY <1>1, <2>1, <2>2, <2>3, ApartParts DEF known, g
  <1>8. Row(a, known \ {"branch"}) /\ UNCHANGED <<remote, memory>>
    BY <1>1, <1>2, <1>4 DEF branches
  <1> HIDE DEF known, parts
  <1>9. QED
    BY <1>2, <1>3, <1>4, <1>5, <1>6, <1>7, <1>8, Built

LEMMA OpenFreshTabKeeps ==
    ASSUME NEW a \in Actors, IInv, OpenFreshTab(a)
    PROVE  IInv'
  <1> DEFINE parts == {"tab"}
  <1>1. PICK o \in Answers :
          LET known == IF o \in {"ok", "partial"} THEN parts ELSE {}
              r == Makes(run[a], o, known, parts)
          IN \/ Becomes(a, Fails(run[a])) /\ UNCHANGED <<herdr, rows, spent>>
             \/ /\ run[a].space \in SpaceIds /\ Answered(o)
                /\ tabs' = IF Takes(o) THEN tabs \cup {NewTab(a, FALSE, run[a].space)} ELSE tabs
                /\ Row(a, known)
                /\ Becomes(a, IF o = "ok" THEN Stands([r EXCEPT !.tab = Fresh(a)]) ELSE Fails(r))
                /\ UNCHANGED spaces
    BY DEF OpenFreshTab, Answers
  <1> DEFINE known == IF o \in {"ok", "partial"} THEN parts ELSE {}
             g == Makes(run[a], o, known, parts)
  <1>2. /\ run[a].step = "tab" /\ UNCHANGED <<tree, branches, memory>>
        /\ run[a].step \notin Early \cup Cleans \cup {"rest"} \cup Late
        /\ run[a].step \notin Cleans \cup {"rest"}
    BY DEF OpenFreshTab, At, Early, Cleans, Late
  <1>3. /\ TypeOK /\ Placed /\ run[a] \in Runs /\ ~run[a].failed
        /\ a \in Consultations => ~run[a].opens
        /\ run[a].worktree => run[a].space \in Of(a)
        /\ Id(a) \in Starts /\ Fresh(a) \in Handles
    BY <1>2, AtWork, IdFacts, OwnTabs DEF Alone, IInv, Sound, Stepped, InSpace
  <1>4. CASE Becomes(a, Fails(run[a])) /\ UNCHANGED <<herdr, rows, spent>>
    <2>1. Counted /\ UNCHANGED <<world, memory, rows>>
      BY <1>2, <1>3, <1>4, Stands0 DEF world
    <2>2. QED
      BY <1>2, <1>4, <2>1, FailsHere, Reads
  <1>5. CASE /\ run[a].space \in SpaceIds /\ Answered(o)
             /\ tabs' = IF Takes(o) THEN tabs \cup {NewTab(a, FALSE, run[a].space)} ELSE tabs
             /\ Row(a, known)
             /\ Becomes(a, IF o = "ok" THEN Stands([g EXCEPT !.tab = Fresh(a)]) ELSE Fails(g))
             /\ UNCHANGED spaces
    <2>1. /\ known \in SUBSET Parts /\ parts \in SUBSET Parts /\ known \ {"branch"} = known
          /\ "tree" \notin known /\ "branch" \notin known
      BY DEF Parts
    <2>2. /\ g \in Runs /\ g.failed = run[a].failed /\ g.builds = run[a].builds
          /\ g.opens = run[a].opens /\ Kin(g, g) /\ g.space = run[a].space
          /\ g.worktree = run[a].worktree
      <3>1. Missed(o, known, parts) \in SUBSET Parts
        BY <2>1 DEF Missed
      <3> HIDE DEF known, parts
      <3>2. QED
        BY <1>3, <2>1, <3>1 DEF Makes, Runs, Missed, Kin
    <2>3. \/ UNCHANGED tabs
          \/ Takes(o) /\ \E t \in [by : Starts, root : BOOLEAN, space : Makers,
                                   agent : Seq(Actors \cup Nat)] :
               /\ t.by = Id(a) /\ ~t.root /\ t.space = run[a].space /\ tabs' = tabs \cup {t}
      <3>1. CASE Takes(o)
        <4>1. Nothing \in Seq(Actors \cup Nat)
          BY DEF Nothing
        <4>2. run[a].space \in Makers
          BY <1>3, <1>5 DEF TypeOK, SpaceIds
        <4>3. PICK t \in [by : Starts, root : BOOLEAN, space : Makers,
                          agent : Seq(Actors \cup Nat)] : t = NewTab(a, FALSE, run[a].space)
          BY <1>3, <4>1, <4>2 DEF NewTab
        <4>4. t.by = Id(a) /\ ~t.root /\ t.space = run[a].space
          BY <4>3 DEF NewTab
        <4>5. QED
          BY <1>5, <3>1, <4>3, <4>4
      <3>2. QED
        BY <1>5, <3>1
    <2>4. /\ HerdrTyped' /\ Placed' /\ TreeTyped' /\ BranchesTyped' /\ Counted
          /\ Grows(a, o, known, parts)
      <3>1. TreeTyped' /\ BranchesTyped' /\ Counted
        BY <1>2, <1>3, <1>5, Stands0, AnsweredIs
      <3>2. HerdrTyped'
        BY <1>3, <1>5, <2>3 DEF HerdrTyped, TypeOK, SpaceIds
      <3>3. Placed'
        BY <1>2, <1>3, <1>5, <2>3 DEF Placed, Standing, memory
      <3>4. QED
        BY <1>2, <1>5, <2>1, <2>3, <3>1, <3>2, <3>3 DEF Grows, branches
    <2>5. PICK q \in Runs :
            /\ Kin(q, g) /\ q.builds = g.builds /\ Becomes(a, q)
            /\ \/ q.failed /\ q.step = Cleaning(q.made)
               \/ ~q.failed /\ q.step \in {"listed", "agent"} /\ q.space = run[a].space
                  /\ (a \in Consultations => q.step \notin OfTicket)
      <3> HIDE DEF known, parts, g
      <3>1. CASE Becomes(a, Fails(g))
        BY <2>2, <3>1, FailsIs DEF Kin
      <3>2. CASE Becomes(a, Stands([g EXCEPT !.tab = Fresh(a)]))
        <4>1. PICK h \in Runs : h = [g EXCEPT !.tab = Fresh(a)]
          BY <1>3, <2>2 DEF Runs
        <4>2. Kin(h, g) /\ h.builds = g.builds /\ h.failed = g.failed /\ h.space = g.space
          BY <2>2, <4>1 DEF Kin, Runs
        <4>3. PICK q \in Runs : q = Stands(h)
          BY StandsIs DEF Kin
        <4>4. /\ Kin(q, h) /\ q.builds = h.builds /\ q.space = h.space
              /\ q.failed = h.failed /\ q.step = IF h.opens THEN "listed" ELSE "agent"
          BY <4>3, StandsIs
        <4>5. Kin(q, g) /\ q.builds = g.builds /\ Becomes(a, q)
          BY <3>2, <4>1, <4>2, <4>3, <4>4 DEF Kin
        <4>6. ~q.failed /\ q.step \in {"listed", "agent"} /\ q.space = run[a].space
                  /\ (a \in Consultations => q.step \notin OfTicket)
          BY <1>3, <2>2, <4>2, <4>4 DEF OfTicket, Kin
        <4>7. QED
          BY <4>5, <4>6
      <3>3. QED
        BY <1>5, <3>1, <3>2
    <2>6. Row(a, known \ {"branch"}) /\ UNCHANGED <<remote, memory>>
      BY <1>2, <1>5, <2>1 DEF branches
    <2>7. q.worktree = run[a].worktree
      BY <2>2, <2>5 DEF Kin
    <2> HIDE DEF known, parts
    <2>8. QED
      BY <1>2, <1>3, <2>1, <2>2, <2>4, <2>5, <2>6, <2>7, Built
  <1>6. QED
    BY <1>1, <1>4, <1>5

(* A ticket's worktree that stands gets a workspace again. *)
LEMMA OpenWorktreeKeeps ==
    ASSUME NEW a \in Actors, IInv, OpenWorktree(a)
    PROVE  IInv'
  <1>1. /\ run[a].step \in {"open", "reopen"} /\ UNCHANGED <<tree, branches, memory, rows>>
        /\ run[a].step \notin Early \cup Cleans \cup {"rest"} \cup Late
        /\ run[a].step \notin Cleans \cup {"rest"} /\ run[a].step \in OfTicket
    BY DEF OpenWorktree, At, Early, Cleans, Late, OfTicket
  <1>2. /\ TypeOK /\ Placed /\ run[a] \in Runs /\ ~run[a].failed /\ ~run[a].handed
        /\ a \in Tickets /\ a \notin Consultations
        /\ Id(a) \in Makers /\ Id(a) \in Of(a) /\ Root(a) \in Handles
    BY <1>1, AtWork, IdFacts, OwnTabs, ApartParts DEF Alone, IInv, Sound, Handed
  <1>3. \/ /\ UNCHANGED <<herdr, spent>>
           /\ \E s \in {"find", "create"} : Becomes(a, [run[a] EXCEPT !.step = s])
        \/ OpenedWorktree(a)
    BY DEF OpenWorktree
  <1>4. CASE /\ UNCHANGED <<herdr, spent>>
             /\ \E s \in {"find", "create"} : Becomes(a, [run[a] EXCEPT !.step = s])
    <2>1. PICK s \in {"find", "create"} : Becomes(a, [run[a] EXCEPT !.step = s])
      BY <1>4
    <2>2. Carries(a) /\ Going(a) /\ [run[a] EXCEPT !.step = s] \in Runs
      BY <1>1, <1>2, <2>1, GoesOn DEF Steps, Cleans, Early, InSpace
    <2>3. Counted /\ UNCHANGED <<world, memory, rows>>
      BY <1>1, <1>2, <1>4, Stands0 DEF world
    <2>4. QED
      BY <2>1, <2>2, <2>3, Reads
  <1>5. CASE OpenedWorktree(a)
    <2> DEFINE parts == {"space"}
    <2>1. PICK o \in Answers :
            LET known == IF o \in {"ok", "partial"} THEN parts ELSE {}
                r == Makes(run[a], o, known, parts)
            IN /\ Answered(o)
               /\ \/ /\ UNCHANGED herdr
                     /\ \/ \E s \in Standing(a) :
                             Becomes(a, [run[a] EXCEPT !.step = "tab", !.space = s.by])
                        \/ Becomes(a, Fails(run[a]))
                  \/ /\ IF ~Takes(o) THEN UNCHANGED herdr ELSE Attaches(a, a)
                     /\ Becomes(a, IF o = "ok"
                                   THEN Stands([r EXCEPT !.space = Id(a), !.tab = Root(a)])
                                   ELSE Fails(r))
      BY <1>5 DEF OpenedWorktree, Attaches, Answers
    <2> DEFINE known == IF o \in {"ok", "partial"} THEN parts ELSE {}
               g == Makes(run[a], o, known, parts)
    <2>2. Counted
      BY <1>2, <2>1, AnsweredIs
    <2>3. CASE /\ UNCHANGED herdr
               /\ \E s \in Standing(a) :
                    Becomes(a, [run[a] EXCEPT !.step = "tab", !.space = s.by])
      <3>1. PICK s \in Standing(a) :
              Becomes(a, [run[a] EXCEPT !.step = "tab", !.space = s.by])
        BY <2>3
      <3>2. s.by \in Makers /\ s.by \in Of(a)
        BY <1>2, <3>1 DEF TypeOK, Standing, Placed
      <3>3. UNCHANGED <<world, memory, rows>>
        BY <1>1, <2>3 DEF world
      <3>4. run[a].step \notin Cleans \cup {"rest"} \cup Late
        BY <1>1
      <3>5. QED
        BY <2>2, <3>1, <3>2, <3>3, <3>4, ToTab, Reads
    <2>4. CASE UNCHANGED herdr /\ Becomes(a, Fails(run[a]))
      BY <1>1, <2>2, <2>4, FailsHere, Reads DEF world
    <2>5. CASE /\ IF ~Takes(o) THEN UNCHANGED herdr ELSE Attaches(a, a)
               /\ Becomes(a, IF o = "ok"
                             THEN Stands([g EXCEPT !.space = Id(a), !.tab = Root(a)])
                             ELSE Fails(g))
      <3>1. /\ known \in SUBSET Parts /\ parts \in SUBSET Parts
            /\ "tree" \notin known /\ "branch" \notin known
        BY DEF Parts
      <3>2. /\ g \in Runs /\ g.failed = run[a].failed /\ g.builds = run[a].builds
            /\ g.opens = run[a].opens /\ Kin(g, g)
        <4>1. Missed(o, known, parts) \in SUBSET Parts
          BY <3>1 DEF Missed
        <4> HIDE DEF known, parts
        <4>2. QED
          BY <1>2, <3>1, <4>1 DEF Makes, Runs, Missed, Kin
      <3>3. /\ HerdrTyped' /\ Placed' /\ TreeTyped' /\ BranchesTyped'
            /\ Grows(a, o, known, parts)
        <4>1. TreeTyped' /\ BranchesTyped'
          BY <1>1, <1>2, Stands0
        <4>2. CASE UNCHANGED herdr
          <5>1. HerdrTyped' /\ Placed'
            BY <1>1, <1>2, <4>2, Stands0 DEF Placed, Standing, herdr, memory
          <5>2. QED
            BY <1>1, <3>1, <4>1, <4>2, <5>1 DEF Grows, herdr, branches
        <4>3. CASE Takes(o) /\ Attaches(a, a)
          <5>1. /\ HerdrTyped' /\ Placed' /\ spaces \subseteq spaces'
                /\ \A s \in spaces' : s \in spaces \/ s.by = Id(a)
                /\ \A t \in tabs' : t \in tabs \/ (t.by = Id(a) /\ t.root)
            BY <1>1, <4>3, AttachesIs DEF memory
          <5>2. QED
            BY <1>1, <1>2, <3>1, <4>1, <4>3, <5>1 DEF Grows, branches
        <4>4. QED
          BY <2>5, <4>2, <4>3
      <3>4. PICK q \in Runs :
              /\ Kin(q, g) /\ q.builds = g.builds /\ Becomes(a, q)
              /\ \/ q.failed /\ q.step = Cleaning(q.made)
                 \/ ~q.failed /\ q.step \in {"listed", "agent"} /\ q.space = Id(a)
        <4> HIDE DEF known, parts, g
        <4>1. CASE Becomes(a, Fails(g))
          BY <3>2, <4>1, FailsIs DEF Kin
        <4>2. CASE Becomes(a, Stands([g EXCEPT !.space = Id(a), !.tab = Root(a)]))
          <5>1. PICK q \in Runs : q = Stands([g EXCEPT !.space = Id(a), !.tab = Root(a)])
            BY <1>2, <3>2, StandsAt
          <5>2. /\ Kin(q, g) /\ q.space = Id(a) /\ q.builds = g.builds
                /\ q.failed = g.failed /\ q.step = IF g.opens THEN "listed" ELSE "agent"
            BY <1>2, <3>2, <5>1, StandsAt
          <5>3. QED
            BY <1>2, <3>2, <4>2, <5>1, <5>2
        <4>3. QED
          BY <2>5, <4>1, <4>2
      <3>5. Row(a, known \ {"branch"}) /\ UNCHANGED <<remote, memory>>
        BY <1>1, <1>2 DEF branches, Row
      <3> HIDE DEF known, parts
      <3>6. QED
        BY <1>1, <1>2, <2>2, <3>1, <3>2, <3>3, <3>4, <3>5, Built
    <2>6. QED
      BY <2>1, <2>3, <2>4, <2>5
  <1>6. QED
    BY <1>3, <1>4, <1>5

(* A worktree, its workspace and, where the start builds it, its branch. *)
Plants(a) ==
    /\ Attaches(a, a)
    /\ tree' = [tree EXCEPT ![a] = [is |-> "stands", by |-> run[a].n]]
    /\ local' = IF local[a].tip > 0 THEN local
                ELSE [local EXCEPT ![a] = [tip |-> 1, by |-> run[a].n]]

LEMMA PlantsIs ==
    ASSUME NEW a \in Actors, IInv, Plants(a), UNCHANGED <<remote, drafts>>
    PROVE  /\ TreeTyped' /\ BranchesTyped'
           /\ tree'[a].by = run[a].n /\ \A b \in Actors \ {a} : tree'[b] = tree[b]
           /\ \A b \in Actors \ {a} : local'[b] = local[b]
           /\ local[a].tip = 0 => local'[a].by = run[a].n /\ local'[a].tip > 0
           /\ local[a].tip > 0 => local'[a] = local[a]
  <1>1. TypeOK /\ run[a].n \in Nat
    BY IdFacts DEF IInv
  <1>2. PICK x \in [is : {"none", "stands", "other", "leftover"}, by : Nat] :
          x = [is |-> "stands", by |-> run[a].n]
    BY <1>1
  <1>3. PICK l \in [tip : 0..MaxTip, by : Nat] : l = [tip |-> 1, by |-> run[a].n]
    <2>1. 1 \in 0..MaxTip
      BY StartAssumption
    <2>2. QED
      BY <1>1, <2>1
  <1>4. /\ x.by = run[a].n /\ l.by = run[a].n /\ l.tip = 1
        /\ tree' = [tree EXCEPT ![a] = x]
        /\ local' = IF local[a].tip > 0 THEN local ELSE [local EXCEPT ![a] = l]
    BY <1>2, <1>3 DEF Plants
  <1>5. /\ tree'[a] = x /\ \A b \in Actors \ {a} : tree'[b] = tree[b]
        /\ TreeTyped'
    BY <1>1, <1>4 DEF TypeOK, TreeTyped
  <1>6. /\ local[a].tip > 0 \/ local'[a] = l
        /\ \A b \in Actors \ {a} : local'[b] = local[b]
        /\ BranchesTyped'
    BY <1>1, <1>4 DEF TypeOK, BranchesTyped
  <1>7. QED
    BY <1>1, <1>4, <1>5, <1>6 DEF TypeOK

LEMMA CreateWorktreeKeeps ==
    ASSUME NEW a \in Actors, IInv, CreateWorktree(a)
    PROVE  IInv'
  <1> DEFINE parts == WorktreeParts(a)
             refused == IF At(a, "create") THEN [run[a] EXCEPT !.step = "aside"] ELSE Fails(run[a])
  <1>1. /\ run[a].step \in {"create", "again"} /\ UNCHANGED <<remote, drafts, memory>>
        /\ run[a].step \notin Early \cup Cleans \cup {"rest"} \cup Late
        /\ run[a].step \notin Cleans \cup {"rest"}
    BY DEF CreateWorktree, At, Early, Cleans, Late
  <1>2. /\ TypeOK /\ Placed /\ run[a] \in Runs /\ ~run[a].failed /\ ~run[a].handed
        /\ a \in Consultations => ~run[a].opens
        /\ Id(a) \in Makers /\ Id(a) \in Of(a) /\ Root(a) \in Handles
    BY <1>1, AtWork, IdFacts, OwnTabs DEF Alone, IInv, Sound, Handed
  <1>3. \/ Becomes(a, refused) /\ UNCHANGED <<herdr, tree, local, rows, spent>>
        \/ /\ run[a].builds => local[a].tip = 0
           /\ \E o \in Answers :
                LET known == IF o \in {"ok", "partial"} THEN parts ELSE {}
                    r == Makes(run[a], o, known, parts)
                IN /\ Answered(o)
                   /\ Row(a, known \ {"branch"})
                   /\ IF ~Takes(o) THEN UNCHANGED <<herdr, tree, local>> ELSE Plants(a)
                   /\ \/ o = "ok" /\ Becomes(a, Stands([r EXCEPT !.space = Id(a), !.tab = Root(a)]))
                      \/ o = "partial" /\ Becomes(a, Fails(r))
                      \/ /\ o \notin {"ok", "partial"}
                         /\ Becomes(a, [r EXCEPT !.step = refused.step, !.failed = refused.failed])
    <2>1. CASE tree[a].is = "none" /\ (run[a].builds => local[a].tip = 0)
      <3>1. PICK o \in Answers :
              LET known == IF o \in {"ok", "partial"} THEN parts ELSE {}
                  r == Makes(run[a], o, known, parts)
              IN /\ Answered(o)
                 /\ Row(a, known \ {"branch"})
                 /\ IF ~Takes(o) THEN UNCHANGED <<herdr, tree, local>> ELSE Plants(a)
                 /\ Becomes(a, CASE o = "ok" -> Stands([r EXCEPT !.space = Id(a), !.tab = Root(a)])
                                 [] o = "partial" -> Fails(r)
                                 [] OTHER -> [r EXCEPT !.step = refused.step,
                                                       !.failed = refused.failed])
        BY <2>1 DEF CreateWorktree, Plants, Attaches, Answers
      <3> HIDE DEF parts, refused
      <3>2. QED
        BY <2>1, <3>1
    <2>2. CASE ~(tree[a].is = "none" /\ (run[a].builds => local[a].tip = 0))
      BY <2>2 DEF CreateWorktree
    <2>3. QED
      BY <2>1, <2>2
  <1>4. CASE Becomes(a, refused) /\ UNCHANGED <<herdr, tree, local, rows, spent>>
    <2>1. Counted /\ UNCHANGED <<world, memory, rows>>
      BY <1>1, <1>2, <1>4, Stands0 DEF world, branches
    <2>2. CASE Becomes(a, Fails(run[a]))
      BY <1>1, <2>1, <2>2, FailsHere, Reads
    <2>3. CASE Becomes(a, [run[a] EXCEPT !.step = "aside"])
      <3>1. Carries(a) /\ Going(a) /\ [run[a] EXCEPT !.step = "aside"] \in Runs
        BY <1>1, <1>2, <2>3, GoesOn DEF Steps, Cleans, Early, InSpace, OfTicket
      <3>2. QED
        BY <2>1, <2>3, <3>1, Reads
    <2>4. QED
      BY <1>4, <2>2, <2>3
  <1>5. CASE /\ run[a].builds => local[a].tip = 0
             /\ \E o \in Answers :
                  LET known == IF o \in {"ok", "partial"} THEN parts ELSE {}
                      r == Makes(run[a], o, known, parts)
                  IN /\ Answered(o)
                     /\ Row(a, known \ {"branch"})
                     /\ IF ~Takes(o) THEN UNCHANGED <<herdr, tree, local>> ELSE Plants(a)
                     /\ \/ o = "ok" /\ Becomes(a, Stands([r EXCEPT !.space = Id(a), !.tab = Root(a)]))
                        \/ o = "partial" /\ Becomes(a, Fails(r))
                        \/ /\ o \notin {"ok", "partial"}
                           /\ Becomes(a, [r EXCEPT !.step = refused.step, !.failed = refused.failed])
    <2>1. PICK o \in Answers :
                LET known == IF o \in {"ok", "partial"} THEN parts ELSE {}
                    r == Makes(run[a], o, known, parts)
                IN /\ Answered(o)
                   /\ Row(a, known \ {"branch"})
                   /\ IF ~Takes(o) THEN UNCHANGED <<herdr, tree, local>> ELSE Plants(a)
                   /\ \/ o = "ok" /\ Becomes(a, Stands([r EXCEPT !.space = Id(a), !.tab = Root(a)]))
                      \/ o = "partial" /\ Becomes(a, Fails(r))
                      \/ /\ o \notin {"ok", "partial"}
                         /\ Becomes(a, [r EXCEPT !.step = refused.step, !.failed = refused.failed])
      BY <1>5
    <2> DEFINE known == IF o \in {"ok", "partial"} THEN parts ELSE {}
               g == Makes(run[a], o, known, parts)
    <2>2. /\ known \in SUBSET Parts /\ parts \in SUBSET Parts
          /\ {"space", "root", "tree"} \subseteq parts
          /\ "branch" \in parts <=> run[a].builds
          /\ o \notin {"ok", "partial"} => known = {}
          /\ known # {} => known = parts /\ Takes(o)
      BY DEF Parts, WorktreeParts, Takes
    <2>3. /\ g \in Runs /\ g.failed = run[a].failed /\ g.builds = run[a].builds
          /\ g.opens = run[a].opens /\ Kin(g, g) /\ g.made = run[a].made \cup known
          /\ g.step = run[a].step
      <3>1. Missed(o, known, parts) \in SUBSET Parts
        BY <2>2 DEF Missed
      <3> HIDE DEF known, parts
      <3>2. QED
        BY <1>2, <2>2, <3>1 DEF Makes, Runs, Missed, Kin
    <2>4. /\ HerdrTyped' /\ Placed' /\ TreeTyped' /\ BranchesTyped' /\ Counted
          /\ Grows(a, o, known, parts)
      <3> HIDE DEF known, parts
      <3>1. Counted
        BY <1>2, <2>1, AnsweredIs DEF known, parts
      <3>2. CASE ~Takes(o) /\ UNCHANGED <<herdr, tree, local>>
        <4>1. HerdrTyped' /\ Placed' /\ TreeTyped' /\ BranchesTyped'
          BY <1>1, <1>2, <3>2, Stands0 DEF Placed, Standing, herdr, memory, branches
        <4>2. QED
          BY <2>2, <3>1, <3>2, <4>1 DEF Grows, herdr
      <3>3. CASE Takes(o) /\ Plants(a)
        <4>1. /\ HerdrTyped' /\ Placed' /\ spaces \subseteq spaces'
              /\ \A s \in spaces' : s \in spaces \/ s.by = Id(a)
              /\ \A t \in tabs' : t \in tabs \/ (t.by = Id(a) /\ t.root)
              /\ Id(a) \in SpaceIds'
          BY <1>1, <3>3, AttachesIs DEF memory, Plants
        <4>2. /\ TreeTyped' /\ BranchesTyped'
              /\ tree'[a].by = run[a].n /\ \A b \in Actors \ {a} : tree'[b] = tree[b]
              /\ \A b \in Actors \ {a} : local'[b] = local[b]
              /\ local[a].tip = 0 => local'[a].by = run[a].n /\ local'[a].tip > 0
              /\ local[a].tip > 0 => local'[a] = local[a]
          BY <1>1, <3>3, PlantsIs
        <4>3. local[a].tip \in Nat
          BY <1>2, StartAssumption DEF TypeOK
        <4>4. local[a].tip = 0 \/ local[a].tip > 0
          BY <4>3
        <4>5. "branch" \in known => local'[a].by = run[a].n /\ "tree" \in known
          BY <1>5, <2>2, <4>2
        <4>6. QED
          BY <2>2, <3>1, <3>3, <4>1, <4>2, <4>4, <4>5 DEF Grows
      <3>4. QED
        BY <2>1, <3>2, <3>3
    <2>5. PICK q \in Runs :
            /\ Kin(q, g) /\ q.builds = g.builds /\ Becomes(a, q)
            /\ \/ q.failed /\ q.step = Cleaning(q.made)
               \/ ~q.failed /\ q.step \in {"listed", "agent"} /\ q.space = Id(a)
                  /\ (a \in Consultations => q.step \notin OfTicket)
               \/ ~q.failed /\ q.step = "aside"
      <3> HIDE DEF known, parts, g
      <3>1. CASE Becomes(a, Fails(g))
        BY <2>3, <3>1, FailsIs DEF Kin
      <3>2. CASE Becomes(a, Stands([g EXCEPT !.space = Id(a), !.tab = Root(a)]))
        <4>1. PICK q \in Runs : q = Stands([g EXCEPT !.space = Id(a), !.tab = Root(a)])
          BY <1>2, <2>3, StandsAt
        <4>2. /\ Kin(q, g) /\ q.space = Id(a) /\ q.builds = g.builds
              /\ q.failed = g.failed /\ q.step = IF g.opens THEN "listed" ELSE "agent"
          BY <1>2, <2>3, <4>1, StandsAt
        <4>3. QED
          BY <1>2, <2>3, <3>2, <4>1, <4>2 DEF OfTicket
      <3>3. CASE /\ o \notin {"ok", "partial"}
                 /\ Becomes(a, [g EXCEPT !.step = refused.step, !.failed = refused.failed])
        <4>1. CASE At(a, "create")
          <5>1. refused.step = "aside" /\ refused.failed = run[a].failed
            BY <1>2, <4>1 DEF Runs
          <5>2. PICK q \in Runs : q = [g EXCEPT !.step = refused.step, !.failed = refused.failed]
            BY <1>2, <2>3, <5>1 DEF Runs, Steps
          <5> HIDE DEF refused
          <5>3. Kin(q, g) /\ q.builds = g.builds /\ ~q.failed /\ q.step = "aside"
            BY <1>2, <2>3, <5>1, <5>2 DEF Kin, Runs
          <5>4. QED
            BY <3>3, <5>2, <5>3
        <4>2. CASE ~At(a, "create")
          <5>1. refused.step = Cleaning(g.made) /\ refused.failed = TRUE
            <6>1. g.made = run[a].made
              BY <2>2, <2>3, <3>3
            <6>2. QED
              BY <1>2, <4>2, <6>1, FailsIs
          <5>2. Cleaning(g.made) \in Steps
            BY CleaningIs
          <5> HIDE DEF refused
          <5>3. PICK q \in Runs : q = [g EXCEPT !.step = refused.step, !.failed = refused.failed]
            BY <2>3, <5>1, <5>2 DEF Runs
          <5>4. Kin(q, g) /\ q.builds = g.builds /\ q.failed /\ q.step = Cleaning(g.made)
            BY <2>3, <5>1, <5>2, <5>3 DEF Kin, Runs
          <5>5. QED
            BY <3>3, <5>3, <5>4 DEF Kin
        <4>3. QED
          BY <4>1, <4>2
      <3>4. QED
        BY <2>1, <3>1, <3>2, <3>3 DEF known, g
    <2>6. Row(a, known \ {"branch"}) /\ UNCHANGED <<remote, memory>>
      BY <1>1, <2>1
    <2>7. "aside" \notin InSpace /\ "aside" \notin OfTicket
      BY DEF InSpace, OfTicket
    <2> HIDE DEF known, parts, refused
    <2>8. QED
      BY <1>1, <1>2, <2>2, <2>3, <2>4, <2>5, <2>6, <2>7, Built
  <1>6. QED
    BY <1>3, <1>4, <1>5

--------------------------------------------------------------------------------
(* The Agent and the prompt. *)

(* A step that opens no tab: those that stand keep who made them. *)
LEMMA TabWorks ==
    ASSUME NEW a \in Actors, IInv, UNCHANGED <<spaces, tree, branches, rows>>,
           HerdrTyped', Placed', MemoryTyped', Counted,
           \A t \in tabs' : \E u \in tabs : u.by = t.by /\ u.root = t.root,
           \A b \in Tickets \ {a} : latest'[b] = latest[b],
           NEW q \in Runs, Becomes(a, q),
           a \in Tickets /\ q.step # "rest" => latest'[a] = latest[a],
           Carries(a), Failing(a) \/ Going(a)
    PROVE  IInv'
  <1>1. RunTyped' /\ run'[a] = q /\ \A b \in Actors \ {a} : run'[b] = run[b]
    <2>1. run'[a] = q
      BY DEF IInv, TypeOK, Becomes
    <2>2. QED
      BY <2>1, RunGoes DEF Carries
  <1>2. TypeOK'
    BY <1>1, TypeParts, Stands0 DEF IInv
  <1>3. OwnOnly(a)
    BY <1>1 DEF OwnOnly, branches
  <1>4. Spared(a)
    BY <1>1 DEF Spared, SpaceIds, branches, Running, Resting, At
  <1>5. QED
    BY <1>2, <1>3, <1>4, Works

LEMMA NamesTyped ==
    ASSUME NEW a \in Actors, IInv
    PROVE  Names(a)[run[a].ask] \in Seq(Actors \cup Nat)
  <1>1. /\ run[a] \in Runs /\ run[a].n \in Nat /\ run[a].ask \in 1..3
        /\ a \in Consultations => run[a].ask = 1
        /\ a \in Tickets => cycle[a] \in Nat
    BY IdFacts DEF IInv, TypeOK, Sound, Alone, Runs
  <1>2. CASE a \in Consultations
    <2>1. Names(a) = << <<a>> >>
      BY <1>2 DEF Names
    <2>2. Names(a)[1] = <<a>> /\ <<a>> \in Seq(Actors \cup Nat)
      BY <2>1
    <2>3. QED
      BY <1>1, <1>2, <2>2
  <1>3. CASE a \in Tickets /\ a \notin Consultations
    <2>1. /\ <<a>> \in Seq(Actors \cup Nat) /\ <<a, cycle[a]>> \in Seq(Actors \cup Nat)
          /\ <<a, cycle[a], run[a].n>> \in Seq(Actors \cup Nat)
      BY <1>1, <1>3
    <2>2. Names(a) = << <<a>>, <<a, cycle[a]>>, <<a, cycle[a], run[a].n>> >>
      BY <1>3 DEF Names
    <2>3. /\ Names(a)[1] = <<a>> /\ Names(a)[2] = <<a, cycle[a]>>
          /\ Names(a)[3] = <<a, cycle[a], run[a].n>>
      BY <2>2
    <2>4. run[a].ask = 1 \/ run[a].ask = 2 \/ run[a].ask = 3
      BY <1>1
    <2>5. QED
      BY <2>1, <2>3, <2>4
  <1>4. QED
    BY <1>2, <1>3, ApartParts

(* The tab of the start takes the agent of the name. *)
Named(h, name) == {IF Handle(t) = h THEN [t EXCEPT !.agent = name] ELSE t : t \in tabs}
LEMMA NamedIs ==
    ASSUME TypeOK, Placed, NEW h, NEW name \in Seq(Actors \cup Nat), tabs' = Named(h, name),
           UNCHANGED <<spaces, recorded, latest>>
    PROVE  /\ HerdrTyped' /\ Placed'
           /\ \A t \in tabs' : \E u \in tabs : u.by = t.by /\ u.root = t.root
  <1>1. ASSUME NEW t \in tabs'
        PROVE  /\ t \in [by : Starts, root : BOOLEAN, space : Makers,
                         agent : Seq(Actors \cup Nat)]
               /\ \E u \in tabs : u.by = t.by /\ u.root = t.root /\ u.space = t.space
    <2>1. PICK u \in tabs : t = IF Handle(u) = h THEN [u EXCEPT !.agent = name] ELSE u
      BY DEF Named
    <2>2. u \in [by : Starts, root : BOOLEAN, space : Makers, agent : Seq(Actors \cup Nat)]
      BY DEF TypeOK
    <2>3. QED
      BY <2>1, <2>2
  <1>2. HerdrTyped'
    BY <1>1 DEF HerdrTyped, TypeOK, SpaceIds
  <1>3. Placed'
    BY <1>1 DEF Placed, Standing
  <1>4. QED
    BY <1>1, <1>2, <1>3

LEMMA RemembersIs ==
    ASSUME NEW a \in Actors, TypeOK, NEW h, Remembers(a, h),
           UNCHANGED <<recorded, latest, live, cycle>>
    PROVE  MemoryTyped'
  <1>1. a \in Tickets => EntriesOf(a, h) \subseteq recorded[a]
    BY DEF EntriesOf
  <1>2. leftover' \in [Tickets -> SUBSET Entries]
    BY <1>1 DEF Remembers, TypeOK
  <1>3. \A t \in Tickets : leftover'[t] \subseteq recorded[t]
    BY <1>1 DEF Remembers, TypeOK
  <1>4. QED
    BY <1>2, <1>3 DEF MemoryTyped, TypeOK

LEMMA StartAgentKeeps ==
    ASSUME NEW a \in Actors, IInv, StartAgent(a)
    PROVE  IInv'
  <1> DEFINE name == Names(a)[run[a].ask]
             holders == {t \in tabs : t.agent = name}
             own == \E t \in holders : OwnHolder(a, t)
             met == IF own THEN Handle(CHOOSE t \in holders : OwnHolder(a, t)) ELSE run[a].met
             r == [run[a] EXCEPT !.met = met]
  <1>1. /\ run[a].step = "agent" /\ UNCHANGED <<spaces, tree, branches, recorded, latest, live, cycle, rows>>
        /\ run[a].step \notin Cleans \cup {"rest"} /\ run[a].step \notin Early
    BY DEF StartAgent, At, Cleans, Early
  <1>2. /\ TypeOK /\ Placed /\ run[a] \in Runs /\ ~run[a].failed
        /\ run[a].worktree => run[a].space \in Of(a)
    BY <1>1, AtWork DEF IInv, Sound, Stepped, InSpace
  <1>3. name \in Seq(Actors \cup Nat)
    BY NamesTyped
  <1>4. met \in Handles
    <2>1. CASE own
      <3>1. (CHOOSE t \in holders : OwnHolder(a, t)) \in tabs
        BY <2>1
      <3>2. \A t \in tabs : Handle(t) \in Handles
        BY <1>2 DEF TypeOK, Handle, Handles
      <3>3. QED
        BY <2>1, <3>1, <3>2
    <2>2. CASE ~own
      BY <1>2, <2>2 DEF Runs
    <2>3. QED
      BY <2>1, <2>2
  <1>5. own => a \in Tickets /\ Len(Names(a)) = 3
    <2>1. own => a \in Tickets
      BY DEF OwnHolder
    <2>2. a \in Tickets => Len(Names(a)) = 3
      BY ApartParts DEF Names
    <2>3. QED
      BY <2>1, <2>2
  <1>6. /\ UNCHANGED tabs \/ tabs' = Named(run[a].tab, name)
        /\ Counted
        /\ UNCHANGED leftover \/ \E h \in {met, run[a].met} : Remembers(a, h)
        /\ \/ Becomes(a, Fails(run[a])) \/ Becomes(a, Fails(r))
           \/ own /\ run[a].ask < 3 /\ Becomes(a, [r EXCEPT !.ask = @ + 1])
           \/ Becomes(a, [run[a] EXCEPT !.step = "prompt", !.accepted = TRUE])
    <2> HIDE DEF met, name
    <2>1. CASE TabOf(run[a].tab) = {}
      <3>1. Becomes(a, Fails(run[a])) /\ UNCHANGED <<tabs, spent, leftover>>
        BY <2>1 DEF StartAgent
      <3>2. QED
        BY <1>2, <3>1, Stands0
    <2>2. CASE TabOf(run[a].tab) # {} /\ holders # {}
      <3>1. /\ UNCHANGED <<tabs, spent>>
            /\ IF own /\ run[a].ask < Len(Names(a))
               THEN Becomes(a, [r EXCEPT !.ask = @ + 1]) /\ UNCHANGED leftover
               ELSE Becomes(a, Fails(r)) /\ Remembers(a, met)
        BY <2>2 DEF StartAgent, met, name
      <3> HIDE DEF own, r
      <3>2. QED
        BY <1>2, <1>5, <3>1, Stands0
    <2>3. CASE TabOf(run[a].tab) # {} /\ holders = {}
      <3>1. PICK o \in {"ok", "refused", "lost"} :
              /\ Answered(o)
              /\ tabs' = IF Takes(o) THEN Named(run[a].tab, name) ELSE tabs
              /\ IF o = "ok"
                 THEN Becomes(a, [run[a] EXCEPT !.step = "prompt", !.accepted = TRUE])
                      /\ UNCHANGED leftover
                 ELSE Becomes(a, Fails(run[a])) /\ Remembers(a, run[a].met)
        BY <2>3 DEF StartAgent, Named, met, name
      <3>2. Counted
        BY <1>2, <3>1, AnsweredIs
      <3>3. QED
        BY <3>1, <3>2
    <2>4. QED
      BY <2>1, <2>2, <2>3
  <1> HIDE DEF met, own, name
  <1>7. /\ HerdrTyped' /\ Placed' /\ MemoryTyped'
        /\ \A t \in tabs' : \E u \in tabs : u.by = t.by /\ u.root = t.root
    <2>1. MemoryTyped'
      BY <1>1, <1>2, <1>6, RemembersIs, Stands0 DEF memory
    <2>2. CASE UNCHANGED tabs
      BY <1>1, <1>2, <2>1, <2>2, Stands0 DEF herdr, Placed, Standing
    <2>3. CASE tabs' = Named(run[a].tab, name)
      BY <1>1, <1>2, <1>3, <2>1, <2>3, NamedIs
    <2>4. QED
      BY <1>6, <2>2, <2>3
  <1>8. PICK q \in Runs : Becomes(a, q) /\ Carries(a) /\ (Failing(a) \/ Going(a))
    <2>1. \A q \in Runs : Becomes(a, q) => run'[a] = q
      BY <1>2 DEF TypeOK, Becomes
    <2>2. CASE Becomes(a, Fails(run[a]))
      BY <1>1, <2>2, FailsHere
    <2>3. PICK g \in Runs : g = r
      BY <1>2, <1>4 DEF Runs
    <2>4. Kin(g, run[a]) /\ g.builds = run[a].builds /\ g.step = run[a].step
          /\ g.space = run[a].space /\ g.failed = run[a].failed
      BY <1>2, <2>3 DEF Kin, Runs
    <2>5. CASE Becomes(a, Fails(r))
      <3>1. PICK q \in Runs : q = Fails(g)
        BY FailsIs DEF Kin
      <3>2. /\ Kin(q, g) /\ q.builds = g.builds /\ q.failed /\ q.step = Cleaning(q.made)
        BY <3>1, FailsIs DEF Kin
      <3>3. run'[a] = q /\ Becomes(a, q)
        BY <2>1, <2>3, <2>5, <3>1
      <3>4. QED
        BY <1>1, <2>4, <3>2, <3>3 DEF Carries, Failing, Kin
    <2>6. CASE own /\ run[a].ask < 3 /\ Becomes(a, [r EXCEPT !.ask = @ + 1])
      <3>1. PICK k \in 1..3 : k = g.ask + 1
        <4>1. g.ask = run[a].ask /\ run[a].ask \in 1..3
          BY <1>2, <2>4 DEF Kin, Runs
        <4>2. QED
          BY <2>6, <4>1
      <3>2. PICK q \in Runs : q = [g EXCEPT !.ask = k]
        BY DEF Runs
      <3>3. /\ q.n = g.n /\ q.made = g.made /\ q.unseen = g.unseen
            /\ q.handed = g.handed /\ q.worktree = g.worktree /\ q.stored = g.stored
            /\ q.continues = g.continues /\ q.opens = g.opens /\ q.disturbed = g.disturbed
            /\ q.builds = g.builds /\ q.step = g.step /\ q.space = g.space
            /\ q.failed = g.failed /\ q.accepted = g.accepted
        BY <3>2 DEF Runs
      <3>4. run'[a] = q /\ Becomes(a, q)
        BY <2>1, <2>3, <2>6, <3>1, <3>2
      <3>5. a \notin Consultations
        BY <1>5, <2>6, ApartParts
      <3>6. Carries(a)
        BY <1>1, <1>2, <2>4, <3>3, <3>4, <3>5 DEF Carries, Kin
      <3>7. Going(a)
        BY <1>1, <1>2, <2>4, <3>3, <3>4, <3>5 DEF Going, Kin, Cleans, Early, InSpace, Late
      <3>8. QED
        BY <3>4, <3>6, <3>7
    <2>7. CASE Becomes(a, [run[a] EXCEPT !.step = "prompt", !.accepted = TRUE])
      <3>1. PICK q \in Runs : q = [run[a] EXCEPT !.step = "prompt", !.accepted = TRUE]
        BY <1>2 DEF Runs, Steps
      <3>2. /\ q.n = run[a].n /\ q.made = run[a].made /\ q.unseen = run[a].unseen
            /\ q.handed = run[a].handed /\ q.worktree = run[a].worktree
            /\ q.stored = run[a].stored /\ q.continues = run[a].continues
            /\ q.opens = run[a].opens /\ q.disturbed = run[a].disturbed /\ q.ask = run[a].ask
            /\ q.builds = run[a].builds /\ q.step = "prompt" /\ q.accepted
            /\ q.failed = run[a].failed /\ q.space = run[a].space
        BY <1>2, <3>1 DEF Runs
      <3>3. run'[a] = q /\ Becomes(a, q)
        BY <2>1, <2>7, <3>1
      <3>4. QED
        BY <1>1, <1>2, <3>2, <3>3
           DEF Carries, Going, Cleans, Early, InSpace, Late, OfTicket
    <2>8. QED
      BY <1>6, <2>2, <2>5, <2>6, <2>7
  <1>9. /\ \A b \in Tickets \ {a} : latest'[b] = latest[b]
        /\ a \in Tickets /\ q.step # "rest" => latest'[a] = latest[a]
    BY <1>1
  <1>10. QED
    BY <1>1, <1>6, <1>7, <1>8, <1>9, TabWorks

(* The start that landed is recorded, as the newest of its ticket. *)
LEMMA PromptAgentKeeps ==
    ASSUME NEW a \in Actors, IInv, PromptAgent(a)
    PROVE  IInv'
  <1>1. /\ run[a].step = "prompt" /\ UNCHANGED <<spaces, tree, branches, cycle, rows>>
        /\ Becomes(a, [run[a] EXCEPT !.step = "rest"])
        /\ run[a].step \notin Cleans \cup {"rest"} /\ run[a].step \notin Early
    BY DEF PromptAgent, At, Cleans, Early
  <1>2. /\ TypeOK /\ Placed /\ run[a] \in Runs
        /\ run[a].worktree => run[a].space \in Of(a)
    BY <1>1, AtWork DEF IInv, Sound, Stepped, InSpace
  <1>3. PICK o \in {"ok", "refused", "lost"}, h \in {NoTab, run[a].met} :
          /\ tabs' \subseteq tabs /\ Answered(o)
          /\ IF a \in Tickets
             THEN /\ recorded' = [recorded EXCEPT ![a] = @ \cup {Entry(a)}]
                  /\ latest' = [latest EXCEPT ![a] = Entry(a)]
                  /\ live' = [live EXCEPT ![a] = TRUE]
                  /\ Remembers(a, h)
             ELSE UNCHANGED <<recorded, latest, live, leftover>>
    <2>1. PICK o \in {"ok", "refused", "lost"} :
            LET previous == IF a \in Tickets /\ run[a].continues THEN latest[a].tab ELSE NoTab
                closes == previous # NoTab /\ previous # run[a].tab
                gone == closes /\ (o = "ok" \/ TabOf(previous) = {})
                met == IF gone /\ run[a].met = previous THEN NoTab ELSE run[a].met
            IN /\ IF closes /\ TabOf(previous) # {}
                  THEN Answered(o) /\ tabs' = (IF Takes(o) THEN tabs \ TabOf(previous) ELSE tabs)
                  ELSE o = "ok" /\ UNCHANGED <<tabs, spent>>
               /\ IF a \in Tickets
                  THEN /\ recorded' = [recorded EXCEPT ![a] = @ \cup {Entry(a)}]
                       /\ latest' = [latest EXCEPT ![a] = Entry(a)]
                       /\ live' = [live EXCEPT ![a] = TRUE]
                       /\ Remembers(a, met)
                  ELSE UNCHANGED <<recorded, latest, live, leftover>>
      BY DEF PromptAgent
    <2> DEFINE previous == IF a \in Tickets /\ run[a].continues THEN latest[a].tab ELSE NoTab
               closes == previous # NoTab /\ previous # run[a].tab
               gone == closes /\ (o = "ok" \/ TabOf(previous) = {})
               met == IF gone /\ run[a].met = previous THEN NoTab ELSE run[a].met
    <2>2. tabs' \subseteq tabs /\ Answered(o)
      BY <2>1 DEF Answered
    <2>3. met \in {NoTab, run[a].met}
      OBVIOUS
    <2>4. IF a \in Tickets
          THEN /\ recorded' = [recorded EXCEPT ![a] = @ \cup {Entry(a)}]
               /\ latest' = [latest EXCEPT ![a] = Entry(a)]
               /\ live' = [live EXCEPT ![a] = TRUE]
               /\ Remembers(a, met)
          ELSE UNCHANGED <<recorded, latest, live, leftover>>
      BY <2>1
    <2> HIDE DEF met
    <2>5. QED
      BY <2>2, <2>3, <2>4
  <1>4. Counted
    BY <1>2, <1>3, AnsweredIs
  <1>5. PICK e \in Entries : e = Entry(a) /\ (e.worktree => e.space \in Of(a))
    <2>1. Entry(a) \in Entries
      BY <1>2 DEF Runs, Entries, Entry
    <2>2. Entry(a).worktree = run[a].worktree /\ Entry(a).space = run[a].space
      BY DEF Entry
    <2>3. QED
      BY <1>2, <2>1, <2>2
  <1>6. ASSUME a \in Tickets
        PROVE  HerdrTyped' /\ Placed' /\ MemoryTyped' /\ \A b \in Tickets \ {a} : latest'[b] = latest[b]
    <2>1. /\ recorded' = [recorded EXCEPT ![a] = @ \cup {e}]
          /\ latest' = [latest EXCEPT ![a] = e]
          /\ live' = [live EXCEPT ![a] = TRUE]
          /\ leftover' = [leftover EXCEPT ![a] = @ \cup EntriesOf(a, h)]
      BY <1>3, <1>5, <1>6 DEF Remembers
    <2>2. EntriesOf(a, h) \subseteq recorded[a]
      BY DEF EntriesOf
    <2>3. /\ \A t \in Tickets \ {a} : /\ recorded'[t] = recorded[t] /\ latest'[t] = latest[t]
                                      /\ live'[t] = live[t] /\ leftover'[t] = leftover[t]
          /\ recorded'[a] = recorded[a] \cup {e} /\ latest'[a] = e
          /\ leftover'[a] = leftover[a] \cup EntriesOf(a, h)
      BY <1>2, <1>6, <2>1 DEF TypeOK
    <2>4. MemoryTyped'
      <3>1. /\ recorded' \in [Tickets -> SUBSET Entries] /\ latest' \in [Tickets -> Entries]
            /\ live' \in [Tickets -> BOOLEAN] /\ cycle' \in [Tickets -> Nat]
        BY <1>1, <1>2, <1>6, <2>1 DEF TypeOK
      <3>2. leftover' \in [Tickets -> SUBSET Entries]
        <4>1. recorded[a] \subseteq Entries
          BY <1>2, <1>6 DEF TypeOK
        <4>2. QED
          BY <1>2, <1>6, <2>1, <2>2, <4>1 DEF TypeOK
      <3>3. \A t \in Tickets : leftover'[t] \subseteq recorded'[t]
        BY <1>2, <1>6, <2>2, <2>3 DEF TypeOK
      <3>4. \A t \in Tickets : live'[t] => latest'[t] \in recorded'[t]
        BY <1>2, <1>6, <2>3 DEF TypeOK
      <3>5. QED
        BY <3>1, <3>2, <3>3, <3>4 DEF MemoryTyped
    <2>5. HerdrTyped' /\ Shrinks
      BY <1>1, <1>2, <1>3, TabGone
    <2>6. Placed'
      <3>1. \A t \in Tickets : \A x \in recorded'[t] \cup {latest'[t]} :
              x.worktree => x.space \in Of(t)
        BY <1>2, <1>5, <2>3 DEF Placed
      <3>2. QED
        BY <1>2, <2>5, <3>1 DEF Placed, Shrinks, Standing
    <2>7. \A b \in Tickets \ {a} : latest'[b] = latest[b]
      BY <2>3
    <2>8. QED
      BY <2>4, <2>5, <2>6, <2>7
  <1>7. HerdrTyped' /\ Placed' /\ MemoryTyped' /\ \A b \in Tickets \ {a} : latest'[b] = latest[b]
    <2>1. CASE a \notin Tickets
      <3>1. MemoryTyped' /\ latest' = latest /\ recorded' = recorded
        BY <1>1, <1>2, <1>3, <2>1, Stands0 DEF memory
      <3>2. QED
        BY <1>1, <1>2, <1>3, <3>1, TabGone, PlacedShrinks
    <2>2. QED
      BY <1>6, <2>1
  <1>8. Carries(a) /\ Going(a) /\ [run[a] EXCEPT !.step = "rest"] \in Runs
    BY <1>1, <1>2, GoesOn DEF Steps, Cleans, Early, InSpace, Late, OfTicket
  <1>9. \A t \in tabs' : \E u \in tabs : u.by = t.by /\ u.root = t.root
    BY <1>3
  <1>10. [run[a] EXCEPT !.step = "rest"].step = "rest"
    BY <1>2 DEF Runs
  <1>11. QED
    BY <1>1, <1>4, <1>7, <1>8, <1>9, <1>10, TabWorks

--------------------------------------------------------------------------------
(* The cleanup of a start that failed. *)

(* q is r with these parts of its record cleaned. *)
Cleaner(q, r, parts, o) ==
    /\ q \in Runs /\ q.n = r.n /\ q.made = r.made \ parts /\ q.step = Cleaning(q.made)
    /\ q.unseen = r.unseen /\ q.handed = r.handed /\ q.worktree = r.worktree
    /\ q.stored = r.stored /\ q.continues = r.continues /\ q.opens = r.opens
    /\ q.builds = r.builds /\ q.failed = r.failed /\ q.ask = r.ask
    /\ q.disturbed <=> r.disturbed \/ o # "ok"

LEMMA CleanedIs ==
    ASSUME NEW a \in Actors, IInv, run[a].step \in Cleans, NEW parts \in SUBSET Parts,
           NEW o \in Answers, Cleaned(a, parts, o)
    PROVE  /\ run[a] \in Runs /\ run[a].failed /\ run[a].step = Cleaning(run[a].made)
           /\ run[a].n # 0
           /\ Cleaner(run'[a], run[a], parts, o)
           /\ RunTyped' /\ \A b \in Actors \ {a} : run'[b] = run[b]
  <1>1. run[a] \in Runs
    BY DEF IInv, TypeOK
  <1>2. run[a].failed /\ run[a].step = Cleaning(run[a].made) /\ run[a].n # 0
    BY DEF IInv, Sound, Stepped, Aged, Running, Resting, At, Cleans
  <1>3. Cleaning(run[a].made \ parts) \in Steps
    BY CleaningIs
  <1>4. PICK q \in Runs :
          q = [run[a] EXCEPT !.made = @ \ parts, !.step = Cleaning(run[a].made \ parts),
                             !.disturbed = @ \/ o # "ok"]
    BY <1>1, <1>3 DEF Runs
  <1>5. Cleaner(q, run[a], parts, o)
    BY <1>1, <1>4 DEF Cleaner, Runs
  <1>6. Becomes(a, q) /\ q.n = run[a].n
    BY <1>4, <1>5 DEF Cleaned, Cleaner
  <1>7. RunTyped' /\ run'[a] = q /\ \A b \in Actors \ {a} : run'[b] = run[b]
    BY <1>6, RunGoes
  <1>8. QED
    BY <1>1, <1>2, <1>5, <1>7

(* What every step of the cleanup keeps. *)
LEMMA CleanKeeps ==
    ASSUME NEW a \in Actors, IInv, run[a].step \in Cleans, NEW parts \in SUBSET Parts,
           NEW o \in Answers, Cleaned(a, parts, o), Counted, Shrinks, HerdrTyped',
           TreeTyped', BranchesTyped', RowsTyped', UNCHANGED <<remote, memory>>,
           tree'[a] = tree[a] \/ tree'[a].by = 0,
           local'[a] = local[a] \/ local'[a].by = 0,
           \A b \in Actors \ {a} : tree'[b] = tree[b] /\ local'[b] = local[b],
           \A s \in spaces \ spaces' : s.by = Id(a),
           \A b \in Actors \ {a} : \A p \in Parts : <<Id(b), p>> \in rows => <<Id(b), p>> \in rows',
           Held(a)', Handed(a)', Tracked(a)', a \in Consultations => Listed(a)'
    PROVE  IInv'
  <1>1. /\ run[a] \in Runs /\ run[a].failed /\ run[a].n # 0
        /\ Cleaner(run'[a], run[a], parts, o)
        /\ RunTyped' /\ \A b \in Actors \ {a} : run'[b] = run[b]
    BY CleanedIs
  <1>2. TypeOK /\ Placed /\ Sound(a)
    BY DEF IInv
  <1>3. TypeOK'
    BY <1>1, <1>2, TypeParts, Stands0
  <1>4. Placed'
    BY <1>2, PlacedShrinks DEF memory
  <1>5. OwnOnly(a)
    <2>1. Id(a) \in Of(a)
      BY <1>2, IdFacts
    <2>2. QED
      BY <1>1, <2>1 DEF OwnOnly, Shrinks, memory
  <1>6. Aged(a)'
    <2>1. run'[a].n = run[a].n /\ run[a].n \in Nat
      BY <1>1 DEF Cleaner, Runs
    <2>2. local'[a].tip = 0 => local'[a].by = 0
      BY <1>2 DEF Sound, Aged
    <2>3. QED
      BY <1>1, <1>2, <2>1, <2>2 DEF Sound, Aged, Shrinks
  <1>7. run'[a].failed /\ run'[a].step = Cleaning(run'[a].made)
        /\ run'[a].step \in Cleans \cup {"rest"}
    BY <1>1, CleaningIs DEF Cleaner, Cleans
  <1>8. Stepped(a)'
    <2>1. run[a].stored => a \in Tickets /\ latest[a].worktree = run[a].worktree
      BY <1>2 DEF Sound, Stepped, Running, Resting, At, Cleans
    <2>2. QED
      BY <1>1, <1>7, <2>1 DEF Stepped, Cleaner, Cleans, Early, InSpace, At, Running, Resting, memory
  <1>9. a \in Consultations => Alone(a)'
    BY <1>1, <1>2, <1>7 DEF Sound, Alone, Cleaner, Cleans, OfTicket, At
  <1>10. Sound(a)'
    BY <1>6, <1>8, <1>9 DEF Sound
  <1>11. QED
    BY <1>3, <1>4, <1>5, <1>10, Elsewhere DEF IInv

LEMMA CleanTabKeeps ==
    ASSUME NEW a \in Actors, IInv, CleanTab(a)
    PROVE  IInv'
  <1> DEFINE parts == {"tab"}
  <1>1. PICK o \in Answers :
          /\ Answered(o)
          /\ o # "ok" \/ tabs' = tabs \ TabOf(Fresh(a))
          /\ tabs' \subseteq tabs
          /\ IF TabOf(Fresh(a)) # {} /\ o = "ok" THEN Unrow(a, parts) ELSE UNCHANGED rows
          /\ Cleaned(a, parts, o)
    BY DEF CleanTab, Answered, Answers, Takes
  <1>2. /\ run[a].step = "clean tab" /\ run[a].step \in Cleans
        /\ UNCHANGED <<spaces, tree, branches, memory>>
    BY DEF CleanTab, At, Cleans
  <1>3. TypeOK /\ Sound(a) /\ parts \in SUBSET Parts
    BY DEF IInv, Parts
  <1>4. /\ run[a] \in Runs /\ run[a].failed /\ run[a].step = Cleaning(run[a].made)
        /\ run[a].n # 0
        /\ Cleaner(run'[a], run[a], parts, o)
        /\ Id(a)' = Id(a)
    BY <1>1, <1>2, <1>3, CleanedIs DEF Cleaner, Id
  <1>5. /\ HerdrTyped' /\ Shrinks /\ Counted /\ TreeTyped' /\ BranchesTyped'
    BY <1>1, <1>2, <1>3, TabGone, AnsweredIs, Stands0
  <1>6. RowsTyped' /\ \A b \in Actors, p \in Parts :
          <<Id(b), p>> \in rows => <<Id(b), p>> \in rows' \/ (b = a /\ p = "tab")
    BY <1>1, <1>3 DEF Unrow, RowsTyped, TypeOK, Id
  <1>7. o = "ok" => \A t \in tabs' : ~(t.by = Id(a) /\ t.root = FALSE)
    <2>1. SUFFICES ASSUME o = "ok", NEW t \in tabs', t.by = Id(a), t.root = FALSE
                   PROVE  FALSE
      OBVIOUS
    <2>2. t \in tabs /\ Handle(t) = Fresh(a)
      BY <1>1, <2>1 DEF Handle, Fresh
    <2>3. QED
      BY <1>1, <2>1, <2>2 DEF TabOf
  <1>8. \A p \in Parts \ {"tab"} : p \in run'[a].made <=> p \in run[a].made
    BY <1>4 DEF Cleaner
  <1>9. /\ "tab" \notin run'[a].made /\ run'[a].step \in {"clean checkout", "clean branch", "rest"}
        /\ run'[a].step = Cleaning(run'[a].made)
    BY <1>4, CleaningIs DEF Cleaner
  <1>10. Held(a)'
    <2>1. /\ "tree" \in run'[a].made <=> "tree" \in run[a].made
          /\ "branch" \in run'[a].made <=> "branch" \in run[a].made
      BY <1>8 DEF Parts
    <2>2. /\ "tree" \in run[a].made => tree[a].by = run[a].n
          /\ "branch" \in run[a].made => local[a].by = run[a].n /\ "tree" \in run[a].made
          /\ "tree" \in run[a].made /\ ~run[a].disturbed => Id(a) \in SpaceIds
      BY <1>2, <1>3 DEF Sound, Held, Running, Resting, At
    <2>3. run'[a].step # "clean branch"
      BY <1>9, <2>1, <2>2, CleaningIs
    <2>4. SpaceIds' = SpaceIds
      BY <1>2 DEF SpaceIds
    <2>5. QED
      BY <1>2, <1>4, <2>1, <2>2, <2>3, <2>4 DEF Held, Cleaner, At, branches
  <1>11. Handed(a)'
    BY <1>2, <1>3, <1>4, <1>9 DEF Sound, Handed, Cleaner, Late, branches
  <1>12. Tracked(a)'
    <2>1. /\ \A p \in Parts \ {"tab"} : Told(a, p) => Told(a, p)'
          /\ Owes(a, {"clean branch", "rest"}) /\ Owes(a, {"rest"})
      BY <1>2, <1>4, <1>8 DEF Told, Owes, Cleaner
    <2>2. ~(Owes(a, {"clean checkout", "clean branch", "rest"})' /\ TabOf(Fresh(a))' # {})
      BY <1>4, <1>7, <1>9, TabOfIs DEF Owes, Cleaner
    <2>3. SpaceIds' = SpaceIds /\ tree' = tree /\ local' = local
      BY <1>2 DEF SpaceIds, branches
    <2>4. QED
      BY <1>3, <1>4, <2>1, <2>2, <2>3 DEF Sound, Tracked, Parts, Cleaner
  <1>13. ASSUME a \in Consultations PROVE Listed(a)'
    <2>1. Listed(a)
      BY <1>3, <1>13 DEF Sound
    <2>2. \A p \in Parts \ {"tab"} : <<Id(a), p>> \in rows => <<Id(a), p>> \in rows'
      BY <1>6
    <2>3. o # "ok" => rows' = rows
      BY <1>1
    <2>4. SpaceIds' = SpaceIds
      BY <1>2 DEF SpaceIds
    <2>5. run'[a].unseen = run[a].unseen /\ run'[a].n = run[a].n
      BY <1>4 DEF Cleaner
    <2>6. \A t \in tabs' : t.by = Id(a) =>
            LET p == IF t.root THEN "root" ELSE "tab"
            IN <<Id(a), p>> \in rows' \/ p \in run'[a].unseen
      <3>1. SUFFICES ASSUME NEW t \in tabs', t.by = Id(a)
                     PROVE  LET p == IF t.root THEN "root" ELSE "tab"
                            IN <<Id(a), p>> \in rows' \/ p \in run'[a].unseen
        OBVIOUS
      <3>2. t \in tabs /\ t.root \in BOOLEAN
        BY <1>1, <1>3 DEF TypeOK
      <3>3. CASE t.root
        BY <2>1, <2>2, <2>5, <3>1, <3>2, <3>3 DEF Listed, Parts
      <3>4. CASE ~t.root
        BY <1>7, <2>1, <2>3, <2>5, <3>1, <3>2, <3>4 DEF Listed
      <3>5. QED
        BY <3>3, <3>4
    <2>7. QED
      BY <1>2, <1>4, <2>1, <2>2, <2>4, <2>5, <2>6 DEF Listed, Parts
  <1>14. UNCHANGED <<remote, memory>> /\ tree' = tree /\ local' = local /\ spaces' = spaces
    BY <1>2 DEF branches
  <1>15. \A b \in Actors \ {a} : \A p \in Parts :
           <<Id(b), p>> \in rows => <<Id(b), p>> \in rows'
    BY <1>6
  <1> HIDE DEF parts
  <1>16. QED
    BY <1>1, <1>2, <1>3, <1>5, <1>6, <1>10, <1>11, <1>12, <1>13, <1>14, <1>15, CleanKeeps

LEMMA CleanBranchKeeps ==
    ASSUME NEW a \in Actors, IInv, CleanBranch(a)
    PROVE  IInv'
  <1> DEFINE parts == {"branch"}
             stands == local[a].tip > 0 /\ tree[a].is # "stands"
  <1>1. PICK o \in Answers :
          /\ Answered(o)
          /\ \/ UNCHANGED local /\ ~(stands /\ o = "ok")
             \/ local' = [local EXCEPT ![a] = [tip |-> 0, by |-> 0]]
          /\ Cleaned(a, parts, o)
    BY DEF CleanBranch, Answered, Answers, Takes
  <1>2. /\ run[a].step = "clean branch" /\ run[a].step \in Cleans
        /\ UNCHANGED <<herdr, tree, remote, drafts, memory, rows>>
    BY DEF CleanBranch, At, Cleans
  <1>3. TypeOK /\ Sound(a) /\ parts \in SUBSET Parts
    BY DEF IInv, Parts
  <1>4. /\ run[a] \in Runs /\ run[a].failed /\ run[a].step = Cleaning(run[a].made)
        /\ run[a].n # 0
        /\ Cleaner(run'[a], run[a], parts, o)
        /\ Id(a)' = Id(a)
    BY <1>1, <1>2, <1>3, CleanedIs DEF Cleaner, Id
  <1>5. /\ \/ local' = local /\ ~(stands /\ o = "ok")
           \/ local'[a].by = 0
        /\ \A b \in Actors \ {a} : local'[b] = local[b]
        /\ BranchesTyped'
    <2>1. CASE UNCHANGED local /\ ~(stands /\ o = "ok")
      BY <1>2, <1>3, <2>1 DEF BranchesTyped, TypeOK
    <2>2. CASE local' = [local EXCEPT ![a] = [tip |-> 0, by |-> 0]]
      <3>1. PICK l \in [tip : 0..MaxTip, by : Nat] : l = [tip |-> 0, by |-> 0]
        <4>1. 0 \in 0..MaxTip
          BY StartAssumption
        <4>2. QED
          BY <4>1
      <3>2. local' = [local EXCEPT ![a] = l] /\ l.by = 0
        BY <2>2, <3>1
      <3>3. QED
        BY <1>2, <1>3, <3>2 DEF BranchesTyped, TypeOK
    <2>3. QED
      BY <1>1, <2>1, <2>2
  <1>6. /\ HerdrTyped' /\ Shrinks /\ Counted /\ TreeTyped' /\ RowsTyped'
    BY <1>1, <1>2, <1>3, AnsweredIs, Stands0 DEF Shrinks, herdr
  <1>7. /\ "tab" \notin run[a].made /\ "space" \notin run[a].made /\ "tree" \notin run[a].made
        /\ "branch" \in run[a].made
    BY <1>2, <1>4, CleaningIs
  <1>8. run'[a].step = "rest" /\ "branch" \notin run'[a].made /\ "tree" \notin run'[a].made
    BY <1>4, <1>7 DEF Cleaner, Cleaning
  <1>9. Held(a)'
    BY <1>8 DEF Held, Running, Resting, At
  <1>10. Handed(a)'
    BY <1>3, <1>4, <1>7 DEF Sound, Handed, Cleaner
  <1>11. Tracked(a)'
    <2>1. \A p \in Parts \ {"branch"} : Told(a, p) => Told(a, p)'
      BY <1>4 DEF Told, Cleaner
    <2>2. /\ SpaceIds' = SpaceIds /\ tree' = tree
          /\ TabOf(Fresh(a))' # {} => TabOf(Fresh(a)) # {}
      BY <1>2, <1>4, TabOfIs DEF SpaceIds, herdr
    <2>3. /\ Owes(a, {"clean checkout", "clean branch", "rest"})'
               => Owes(a, {"clean checkout", "clean branch", "rest"})
          /\ Owes(a, {"clean branch", "rest"})' => Owes(a, {"clean branch", "rest"})
      BY <1>4, <1>8 DEF Owes, Cleaner
    <2>4. ~(Owes(a, {"rest"})' /\ local'[a].by = run'[a].n)
      <3>1. SUFFICES ASSUME Owes(a, {"rest"})' PROVE local'[a].by # run[a].n
        BY <1>4 DEF Cleaner
      <3>2. o = "ok" /\ ~run[a].disturbed
        BY <1>4, <1>8, <3>1 DEF Owes, Cleaner
      <3>3. tree[a].is # "stands"
        BY <1>2, <1>3, <3>2 DEF Sound, Held, At
      <3>4. CASE local' = local /\ ~(stands /\ o = "ok")
        <4>1. ~(local[a].tip > 0) /\ local[a].tip \in Nat
          BY <1>3, <3>2, <3>3, <3>4, StartAssumption DEF TypeOK
        <4>2. local[a].by = 0
          BY <1>3, <4>1 DEF Sound, Aged
        <4>3. QED
          BY <1>4, <3>4, <4>2
      <3>5. QED
        BY <1>4, <1>5, <3>4
    <2>5. QED
      BY <1>3, <1>4, <2>1, <2>2, <2>3, <2>4 DEF Sound, Tracked, Parts, Cleaner
  <1>12. a \in Consultations => Listed(a)'
    <2>1. SpaceIds' = SpaceIds /\ tree' = tree /\ rows' = rows /\ tabs' = tabs
      BY <1>2 DEF SpaceIds, herdr
    <2>2. run'[a].unseen = run[a].unseen /\ run'[a].n = run[a].n
      BY <1>4 DEF Cleaner
    <2>3. QED
      BY <1>3, <1>4, <2>1, <2>2 DEF Sound, Listed
  <1>13. UNCHANGED <<remote, memory>> /\ tree' = tree /\ rows' = rows /\ spaces' = spaces
    BY <1>2 DEF herdr
  <1> HIDE DEF parts, stands
  <1>14. QED
    BY <1>1, <1>2, <1>3, <1>5, <1>6, <1>9, <1>10, <1>11, <1>12, <1>13, CleanKeeps

LEMMA CleanCheckoutKeeps ==
    ASSUME NEW a \in Actors, IInv, CleanCheckout(a)
    PROVE  IInv'
  <1> DEFINE parts == {"tree", "space", "root"}
             stands == Id(a) \in SpaceIds
  <1>1. PICK o \in Answers :
          /\ Answered(o)
          /\ IF stands /\ Takes(o) THEN Without(Id(a)) ELSE UNCHANGED herdr
          /\ tree' = IF stands /\ Takes(o) /\ "tree" \in run[a].made
                     THEN [tree EXCEPT ![a] = [is |-> "none", by |-> 0]] ELSE tree
          /\ IF stands /\ o = "ok" THEN Unrow(a, parts) ELSE UNCHANGED rows
          /\ Cleaned(a, parts, o)
    BY DEF CleanCheckout, Answered, Answers
  <1>2. /\ run[a].step = "clean checkout" /\ run[a].step \in Cleans
        /\ UNCHANGED <<branches, memory>>
    BY DEF CleanCheckout, At, Cleans
  <1>3. TypeOK /\ Placed /\ Sound(a) /\ parts \in SUBSET Parts
    BY DEF IInv, Parts
  <1>4. /\ run[a] \in Runs /\ run[a].failed /\ run[a].step = Cleaning(run[a].made)
        /\ run[a].n # 0
        /\ Cleaner(run'[a], run[a], parts, o)
        /\ Id(a)' = Id(a)
    BY <1>1, <1>2, <1>3, CleanedIs DEF Cleaner, Id
  <1>5. /\ TreeTyped' /\ \A b \in Actors \ {a} : tree'[b] = tree[b]
        /\ tree' = tree \/ (tree'[a].by = 0 /\ tree'[a].is = "none")
        /\ stands /\ Takes(o) /\ "tree" \in run[a].made =>
             tree'[a].by = 0 /\ tree'[a].is = "none"
    <2>1. CASE tree' = [tree EXCEPT ![a] = [is |-> "none", by |-> 0]]
      <3>1. PICK x \in [is : {"none", "stands", "other", "leftover"}, by : Nat] :
              x = [is |-> "none", by |-> 0]
        OBVIOUS
      <3>2. tree' = [tree EXCEPT ![a] = x] /\ x.by = 0 /\ x.is = "none"
        BY <2>1, <3>1
      <3>3. QED
        BY <1>3, <3>2 DEF TreeTyped, TypeOK
    <2>2. CASE tree' = tree /\ ~(stands /\ Takes(o) /\ "tree" \in run[a].made)
      BY <1>3, <2>2, Stands0
    <2>3. QED
      BY <1>1, <2>1, <2>2
  <1>6. /\ HerdrTyped' /\ Shrinks /\ \A s \in spaces \ spaces' : s.by = Id(a)
    <2>1. CASE UNCHANGED herdr
      BY <1>3, <2>1, Stands0 DEF Shrinks, herdr
    <2>2. CASE Without(Id(a))
      BY <1>3, <2>2, WithoutIs
    <2>3. QED
      BY <1>1, <2>1, <2>2
  <1>7. Counted /\ BranchesTyped'
    BY <1>1, <1>2, <1>3, AnsweredIs, Stands0
  <1>8. RowsTyped' /\ \A b \in Actors, p \in Parts :
          <<Id(b), p>> \in rows => <<Id(b), p>> \in rows' \/ (b = a /\ p \in parts)
    BY <1>1, <1>3 DEF Unrow, RowsTyped, TypeOK, Id
  <1>9. Takes("ok")
    BY DEF Takes
  <1>10. o = "ok" =>
           /\ Id(a) \notin SpaceIds'
           /\ stands => \A t \in tabs' : t.root => t.by # Id(a)
    <2>1. CASE stands /\ o = "ok"
      <3>1. Without(Id(a))
        BY <1>1, <1>9, <2>1
      <3>2. QED
        BY <1>3, <3>1 DEF Without, SpaceIds, Placed
    <2>2. CASE ~stands
      BY <1>6, <2>2 DEF SpaceIds, Shrinks
    <2>3. QED
      BY <2>1, <2>2
  <1>11. /\ "tab" \notin run[a].made
         /\ run'[a].step \in {"clean branch", "rest"}
         /\ "tree" \notin run'[a].made
         /\ "branch" \in run'[a].made <=> "branch" \in run[a].made
    <2>1. "tab" \notin run[a].made
      BY <1>2, <1>4 DEF Cleaning
    <2>2. QED
      BY <1>4, <2>1 DEF Cleaner, Cleaning
  <1>12. "tree" \in run[a].made /\ ~run[a].disturbed => stands
    BY <1>2, <1>3 DEF Sound, Held, Running, Resting, At
  <1>13. "tree" \in run[a].made => tree[a].by = run[a].n
    BY <1>2, <1>3 DEF Sound, Held, Running, Resting, At
  <1>14. Held(a)'
    <2>1. /\ "branch" \in run[a].made => local[a].by = run[a].n /\ "tree" \in run[a].made
      BY <1>2, <1>3 DEF Sound, Held, Running, Resting, At
    <2>2. run'[a].step = "clean branch" => "branch" \in run'[a].made
      BY <1>4, CleaningIs DEF Cleaner
    <2>3. "branch" \in run'[a].made => run'[a].step = "clean branch"
      BY <1>4, <1>11, CleaningIs DEF Cleaner
    <2>4. run'[a].step = "clean branch" /\ ~run'[a].disturbed => tree'[a].is # "stands"
      <3>1. SUFFICES ASSUME run'[a].step = "clean branch", ~run'[a].disturbed
                     PROVE  tree'[a].is # "stands"
        OBVIOUS
      <3>2. o = "ok" /\ ~run[a].disturbed
        BY <1>4, <3>1 DEF Cleaner
      <3>3. "tree" \in run[a].made
        BY <1>11, <2>1, <2>2, <3>1
      <3>4. QED
        BY <1>5, <1>9, <1>12, <3>2, <3>3
    <2>5. local' = local
      BY <1>2 DEF branches
    <2>6. run'[a].n = run[a].n
      BY <1>4 DEF Cleaner
    <2>7. QED
      BY <1>11, <2>1, <2>3, <2>4, <2>5, <2>6 DEF Held, At
  <1>15. Handed(a)'
    BY <1>2, <1>3, <1>4, <1>11 DEF Sound, Handed, Cleaner, Late, branches
  <1>16. Tracked(a)'
    <2>1. \A p \in {"tab", "branch"} : Told(a, p) => Told(a, p)'
      BY <1>4 DEF Told, Cleaner
    <2>2. TabOf(Fresh(a))' # {} => TabOf(Fresh(a)) # {}
      BY <1>4, <1>6, TabOfIs DEF Shrinks
    <2>3. /\ Owes(a, {"clean checkout", "clean branch", "rest"})'
               => Owes(a, {"clean checkout", "clean branch", "rest"})
          /\ Owes(a, {"clean branch", "rest"}) /\ Owes(a, {"rest"})
          /\ Owes(a, {"clean branch", "rest"})' => o = "ok" /\ ~run[a].disturbed
      BY <1>2, <1>4, <1>11 DEF Owes, Cleaner
    <2>4. ~(Owes(a, {"clean branch", "rest"})' /\ Id(a)' \in SpaceIds')
      BY <1>4, <1>10, <2>3
    <2>5. Owes(a, {"clean branch", "rest"})' /\ tree'[a].by = run'[a].n => Told(a, "tree")'
      <3>1. SUFFICES ASSUME Owes(a, {"clean branch", "rest"})', tree'[a].by = run[a].n
                     PROVE  "tree" \in run[a].unseen
        BY <1>4 DEF Told, Cleaner
      <3>2. tree' = tree
        BY <1>4, <1>5, <3>1
      <3>3. Told(a, "tree")
        BY <1>3, <2>3, <3>1, <3>2 DEF Sound, Tracked
      <3>4. "tree" \notin run[a].made
        BY <1>4, <1>5, <1>9, <1>12, <2>3, <3>1
      <3>5. QED
        BY <3>3, <3>4 DEF Told
    <2>6. local' = local
      BY <1>2 DEF branches
    <2>7. QED
      BY <1>3, <1>4, <2>1, <2>2, <2>3, <2>4, <2>5, <2>6 DEF Sound, Tracked, Cleaner
  <1>17. ASSUME a \in Consultations PROVE Listed(a)'
    <2>1. Listed(a)
      BY <1>3, <1>17 DEF Sound
    <2>2. run'[a].unseen = run[a].unseen /\ run'[a].n = run[a].n
      BY <1>4 DEF Cleaner
    <2>3. CASE ~(stands /\ o = "ok")
      <3>1. rows' = rows
        BY <1>1, <2>3
      <3>2. QED
        BY <1>4, <1>5, <1>6, <2>1, <2>2, <3>1 DEF Listed, Shrinks, SpaceIds
    <2>4. CASE stands /\ o = "ok"
      <3>1. <<Id(a), "tab">> \in rows => <<Id(a), "tab">> \in rows'
        BY <1>8 DEF Parts
      <3>2. \A t \in tabs' : t.by = Id(a) =>
              (LET p == IF t.root THEN "root" ELSE "tab"
               IN <<Id(a), p>> \in rows' \/ p \in run'[a].unseen)
        BY <1>6, <1>10, <2>1, <2>2, <2>4, <3>1 DEF Listed, Shrinks
      <3>3. tree'[a].is # "none" /\ tree'[a].by = run[a].n => "tree" \in run[a].unseen
        <4>1. SUFFICES ASSUME tree'[a].is # "none", tree'[a].by = run[a].n
                       PROVE  "tree" \in run[a].unseen
          OBVIOUS
        <4>2. tree' = tree /\ "tree" \notin run[a].made
          BY <1>5, <1>9, <2>4, <4>1
        <4>3. Owes(a, {"clean branch", "rest"})
          BY <1>2 DEF Owes
        <4>4. Told(a, "tree")
          BY <1>3, <4>1, <4>2, <4>3 DEF Sound, Tracked
        <4>5. QED
          BY <4>2, <4>4 DEF Told
      <3>4. Id(a) \notin SpaceIds'
        BY <1>10, <2>4
      <3>5. QED
        BY <1>4, <2>2, <3>2, <3>3, <3>4 DEF Listed
    <2>5. QED
      BY <2>3, <2>4
  <1>18. /\ UNCHANGED <<remote, memory>> /\ local' = local
         /\ tree'[a] = tree[a] \/ tree'[a].by = 0
         /\ \A b \in Actors \ {a} : tree'[b] = tree[b] /\ local'[b] = local[b]
    BY <1>2, <1>5 DEF branches
  <1>19. \A b \in Actors \ {a} : \A p \in Parts :
           <<Id(b), p>> \in rows => <<Id(b), p>> \in rows'
    BY <1>8
  <1> HIDE DEF parts, stands
  <1>20. QED
    BY <1>1, <1>2, <1>3, <1>5, <1>6, <1>7, <1>8, <1>14, <1>15, <1>16, <1>17, <1>18, <1>19,
       CleanKeeps

--------------------------------------------------------------------------------
(* What happens beside the starts. *)

(* An act that spares every start at work. *)
LEMMA Stirs ==
    ASSUME IInv, TypeOK', Placed', \A a \in Actors : Spared(a) /\ Carries(a) /\ Stays(a)
    PROVE  IInv'
  <1>1. ASSUME NEW a \in Actors PROVE Sound(a)'
    BY <1>1, Carried DEF IInv
  <1>2. QED
    BY <1>1 DEF IInv

LEMMA DisturbsIs ==
    ASSUME TypeOK, Disturbs
    PROVE  /\ RunTyped'
           /\ \A a \in Actors : /\ Carries(a) /\ Stays(a)
                                /\ Running(a) => run'[a].disturbed
  <1>1. run \in [Actors -> Runs]
    BY DEF TypeOK
  <1>2. ASSUME NEW a \in Actors
        PROVE  /\ run'[a] \in Runs /\ run'[a].n <= MaxStarts[a]
               /\ Carries(a) /\ Stays(a) /\ (Running(a) => run'[a].disturbed)
    <2>1. run'[a] = [run[a] EXCEPT !.disturbed = @ \/ ~Resting(a)] /\ run[a] \in Runs
      BY <1>1 DEF Disturbs
    <2>2. PICK q \in Runs : q = run'[a]
      BY <2>1 DEF Runs
    <2>3. /\ q.builds = run[a].builds /\ q.step = run[a].step /\ q.failed = run[a].failed
          /\ q.space = run[a].space
          /\ q.disturbed <=> run[a].disturbed \/ ~Resting(a)
      BY <2>1, <2>2 DEF Runs
    <2>4. /\ q.n = run[a].n /\ q.made = run[a].made /\ q.unseen = run[a].unseen
          /\ q.handed = run[a].handed /\ q.worktree = run[a].worktree
          /\ q.stored = run[a].stored /\ q.continues = run[a].continues
          /\ q.opens = run[a].opens /\ q.ask = run[a].ask /\ q.accepted = run[a].accepted
      BY <2>1, <2>2 DEF Runs
    <2>5. QED
      BY <2>2, <2>3, <2>4 DEF Carries, Stays, Running, TypeOK
  <1>3. run' \in [Actors -> Runs]
    BY <1>1, <1>2 DEF Disturbs
  <1>4. QED
    BY <1>2, <1>3 DEF RunTyped

LEMMA EventIs ==
    ASSUME TypeOK, Event
    PROVE  Counted
  <1>1. spent.events \in 0..MaxEvents /\ MaxEvents \in Nat
    BY StartAssumption DEF TypeOK
  <1>2. PICK k \in 0..MaxEvents : k = spent.events + 1
    BY <1>1 DEF Event
  <1>3. spent' = [spent EXCEPT !.events = k]
    BY <1>2 DEF Event
  <1>4. QED
    BY <1>3 DEF Counted, TypeOK

LEMMA OperatorClosesKeeps ==
    ASSUME IInv, OperatorCloses
    PROVE  IInv'
  <1>1. TypeOK /\ Placed
    BY DEF IInv
  <1>2. UNCHANGED <<tree, branches, memory, rows>> /\ Counted
    BY <1>1, EventIs DEF OperatorCloses
  <1>3. HerdrTyped' /\ Shrinks
    <2>1. CASE \E s \in spaces : Without(s.by)
      BY <1>1, <2>1, WithoutIs
    <2>2. CASE \E t \in tabs : tabs' = tabs \ {t} /\ UNCHANGED spaces
      BY <1>1, <2>2, TabGone
    <2>3. QED
      BY <2>1, <2>2 DEF OperatorCloses
  <1>4. RunTyped' /\ \A a \in Actors : Carries(a) /\ Stays(a) /\ (Running(a) => run'[a].disturbed)
    BY <1>1, DisturbsIs DEF OperatorCloses
  <1>5. TypeOK' /\ Placed'
    BY <1>1, <1>2, <1>3, <1>4, TypeParts, Stands0, PlacedShrinks DEF memory
  <1>6. ASSUME NEW a \in Actors PROVE Spared(a)
    BY <1>2, <1>3, <1>4 DEF Spared, Shrinks, SpaceIds, branches, memory
  <1>7. QED
    BY <1>4, <1>5, <1>6, Stirs

LEMMA AgentEndsKeeps ==
    ASSUME IInv, AgentEnds
    PROVE  IInv'
  <1>1. TypeOK /\ Placed
    BY DEF IInv
  <1>2. UNCHANGED <<spaces, tree, branches, memory, rows>> /\ Counted
    BY <1>1, EventIs DEF AgentEnds
  <1>3. PICK t \in tabs : tabs' = (tabs \ {t}) \cup {[t EXCEPT !.agent = Nothing]}
    BY DEF AgentEnds
  <1>4. PICK u \in [by : Starts, root : BOOLEAN, space : Makers, agent : Seq(Actors \cup Nat)] :
          u = [t EXCEPT !.agent = Nothing]
    <2>1. t \in [by : Starts, root : BOOLEAN, space : Makers, agent : Seq(Actors \cup Nat)]
      BY <1>1 DEF TypeOK
    <2>2. Nothing \in Seq(Actors \cup Nat)
      BY DEF Nothing
    <2>3. QED
      BY <2>1, <2>2
  <1>5. u.by = t.by /\ u.root = t.root /\ u.space = t.space /\ tabs' = (tabs \ {t}) \cup {u}
    BY <1>1, <1>3, <1>4 DEF TypeOK
  <1>6. HerdrTyped' /\ Placed' /\ \A x \in tabs' : \E y \in tabs : y.by = x.by /\ y.root = x.root
    BY <1>1, <1>2, <1>5 DEF HerdrTyped, TypeOK, SpaceIds, Placed, Standing, memory
  <1>7. RunTyped' /\ \A a \in Actors : Carries(a) /\ Stays(a) /\ (Running(a) => run'[a].disturbed)
    BY <1>1, DisturbsIs DEF AgentEnds
  <1>8. TypeOK'
    BY <1>1, <1>2, <1>6, <1>7, TypeParts, Stands0
  <1>9. ASSUME NEW a \in Actors PROVE Spared(a)
    BY <1>2, <1>6, <1>7 DEF Spared, SpaceIds, branches, memory
  <1>10. QED
    BY <1>6, <1>7, <1>8, <1>9, Stirs

LEMMA AgentWorksKeeps ==
    ASSUME IInv, AgentWorks
    PROVE  IInv'
  <1>1. TypeOK /\ Placed
    BY DEF IInv
  <1>2. UNCHANGED <<herdr, memory, rows, drafts>> /\ Counted
    BY <1>1, EventIs DEF AgentWorks, branches
  <1>3. PICK a \in Tickets :
          \/ /\ local' = [local EXCEPT ![a].tip = Lower(@ + 1, MaxTip)]
             /\ remote' = [remote EXCEPT ![a] = local'[a].tip]
             /\ UNCHANGED tree
          \/ tree' = [tree EXCEPT ![a].is = "other"] /\ UNCHANGED <<local, remote>>
    BY DEF AgentWorks, branches
  <1>4. a \in Actors /\ a \notin Consultations
    BY ApartParts
  <1>5. /\ TreeTyped' /\ BranchesTyped'
        /\ \A b \in Actors : /\ tree'[b].by = tree[b].by /\ local'[b].by = local[b].by
                             /\ tree'[b].is \in {tree[b].is, "other"}
                             /\ b # a => tree'[b] = tree[b]
                             /\ local[b].tip > 0 => local'[b].tip > 0
                             /\ remote[b] > 0 => remote'[b] > 0
    <2>1. CASE /\ local' = [local EXCEPT ![a].tip = Lower(@ + 1, MaxTip)]
               /\ remote' = [remote EXCEPT ![a] = local'[a].tip]
               /\ UNCHANGED tree
      <3>1. local[a].tip \in 0..MaxTip /\ Lower(local[a].tip + 1, MaxTip) \in 1..MaxTip
        BY <1>1, <1>4, StartAssumption DEF TypeOK, Lower
      <3>2. PICK x \in 0..MaxTip : x = Lower(local[a].tip + 1, MaxTip) /\ x > 0
        BY <3>1
      <3>3. local[a] \in [tip : 0..MaxTip, by : Nat]
        BY <1>1, <1>4 DEF TypeOK
      <3>4. PICK l \in [tip : 0..MaxTip, by : Nat] : l = [local[a] EXCEPT !.tip = x]
        BY <3>2, <3>3
      <3>5. l.tip = x /\ l.by = local[a].by /\ local' = [local EXCEPT ![a] = l]
        BY <1>1, <1>4, <2>1, <3>2, <3>3, <3>4 DEF TypeOK
      <3>6. /\ local' \in [Actors -> [tip : 0..MaxTip, by : Nat]] /\ local'[a] = l
            /\ \A b \in Actors \ {a} : local'[b] = local[b]
        BY <1>1, <1>4, <3>5 DEF TypeOK
      <3>7. remote' = [remote EXCEPT ![a] = x]
        BY <2>1, <3>5, <3>6
      <3>8. /\ remote' \in [Actors -> 0..MaxTip] /\ remote'[a] = x
            /\ \A b \in Actors \ {a} : remote'[b] = remote[b]
        BY <1>1, <1>4, <3>7 DEF TypeOK
      <3>9. BranchesTyped' /\ TreeTyped'
        BY <1>1, <1>2, <2>1, <3>6, <3>8 DEF TypeOK, BranchesTyped, TreeTyped
      <3>10. QED
        BY <2>1, <3>2, <3>5, <3>6, <3>8, <3>9
    <2>2. CASE tree' = [tree EXCEPT ![a].is = "other"] /\ UNCHANGED <<local, remote>>
      <3>0. tree[a] \in [is : {"none", "stands", "other", "leftover"}, by : Nat]
        BY <1>1, <1>4 DEF TypeOK
      <3>1. PICK x \in [is : {"none", "stands", "other", "leftover"}, by : Nat] :
              x = [tree[a] EXCEPT !.is = "other"]
        BY ONLY <3>0
      <3>2. x.by = tree[a].by /\ x.is = "other" /\ tree' = [tree EXCEPT ![a] = x]
        BY <1>1, <1>4, <2>2, <3>1 DEF TypeOK
      <3>3. TreeTyped' /\ tree'[a] = x /\ \A b \in Actors \ {a} : tree'[b] = tree[b]
        BY <1>1, <1>4, <3>2 DEF TypeOK, TreeTyped
      <3>4. BranchesTyped'
        BY <1>1, <1>2, <2>2 DEF TypeOK, BranchesTyped
      <3>5. QED
        BY <2>2, <3>2, <3>3, <3>4
    <2>3. QED
      BY <1>3, <2>1, <2>2
  <1>6. RunTyped' /\ \A b \in Actors : Carries(b) /\ Stays(b) /\ (Running(b) => run'[b].disturbed)
    BY <1>1, DisturbsIs DEF AgentWorks
  <1>7. TypeOK' /\ Placed'
    <2>1. TypeOK'
      BY <1>1, <1>2, <1>5, <1>6, TypeParts, Stands0
    <2>2. Placed'
      BY <1>1, <1>2 DEF Placed, Standing, herdr, memory
    <2>3. QED
      BY <2>1, <2>2
  <1>8. ASSUME NEW b \in Actors PROVE Spared(b)
    BY <1>2, <1>4, <1>5, <1>6 DEF Spared, SpaceIds, herdr, memory
  <1>9. QED
    BY <1>6, <1>7, <1>8, Stirs

LEMMA LeftoverAppearsKeeps ==
    ASSUME IInv, LeftoverAppears
    PROVE  IInv'
  <1>1. TypeOK /\ Placed
    BY DEF IInv
  <1>2. UNCHANGED <<herdr, branches, memory, rows>> /\ Counted
    BY <1>1, EventIs DEF LeftoverAppears
  <1>3. PICK a \in Tickets : tree' = [tree EXCEPT ![a].is = "leftover"]
    BY DEF LeftoverAppears
  <1>4. a \in Actors /\ a \notin Consultations
    BY ApartParts
  <1>5. /\ TreeTyped'
        /\ \A b \in Actors : /\ tree'[b].by = tree[b].by
                             /\ tree'[b].is \in {tree[b].is, "leftover"}
                             /\ b # a => tree'[b] = tree[b]
    <2>0. tree[a] \in [is : {"none", "stands", "other", "leftover"}, by : Nat]
      BY <1>1, <1>4 DEF TypeOK
    <2>1. PICK x \in [is : {"none", "stands", "other", "leftover"}, by : Nat] :
            x = [tree[a] EXCEPT !.is = "leftover"]
      BY ONLY <2>0
    <2>2. x.by = tree[a].by /\ x.is = "leftover" /\ tree' = [tree EXCEPT ![a] = x]
      BY <1>1, <1>3, <1>4, <2>1 DEF TypeOK
    <2>3. QED
      BY <1>1, <1>4, <2>2 DEF TypeOK, TreeTyped
  <1>6. RunTyped' /\ \A b \in Actors : Carries(b) /\ Stays(b) /\ (Running(b) => run'[b].disturbed)
    BY <1>1, DisturbsIs DEF LeftoverAppears
  <1>7. TypeOK'
    BY <1>1, <1>2, <1>5, <1>6, TypeParts, Stands0
  <1>8. Placed'
    BY <1>1, <1>2 DEF Placed, Standing, herdr, memory
  <1>9. ASSUME NEW b \in Actors PROVE Spared(b)
    BY <1>2, <1>4, <1>5, <1>6 DEF Spared, SpaceIds, herdr, branches, memory
  <1>10. QED
    BY <1>6, <1>7, <1>8, <1>9, Stirs

(* A start that rests is not touched by an act outside it. *)
LEMMA Untouched ==
    ASSUME NEW a \in Actors, TypeOK, run'[a] = run[a]
    PROVE  Carries(a) /\ Stays(a)
  BY DEF TypeOK, Carries, Stays

LEMMA OperatorPrunesKeeps ==
    ASSUME IInv, OperatorPrunes
    PROVE  IInv'
  <1>1. TypeOK /\ Placed
    BY DEF IInv
  <1>2. UNCHANGED <<herdr, tree, remote, drafts, memory, rows>> /\ Counted
    BY <1>1, EventIs DEF OperatorPrunes
  <1>3. PICK a \in Tickets :
          /\ Becomes(a, [run[a] EXCEPT !.disturbed = TRUE])
          /\ Resting(a) /\ local' = [local EXCEPT ![a] = [tip |-> 0, by |-> 0]]
    BY DEF OperatorPrunes
  <1>4. a \in Actors
    BY ApartParts
  <1>5. PICK q \in Runs : q = [run[a] EXCEPT !.disturbed = TRUE]
    <2>1. run[a] \in Runs
      BY <1>1, <1>4 DEF TypeOK
    <2>2. QED
      BY <2>1 DEF Runs
  <1>6. /\ q.builds = run[a].builds /\ q.step = run[a].step /\ q.failed = run[a].failed
        /\ q.space = run[a].space /\ q.disturbed
        /\ q.n = run[a].n /\ q.made = run[a].made /\ q.unseen = run[a].unseen
        /\ q.handed = run[a].handed /\ q.worktree = run[a].worktree
        /\ q.stored = run[a].stored /\ q.continues = run[a].continues
        /\ q.opens = run[a].opens /\ q.ask = run[a].ask /\ q.accepted = run[a].accepted
    BY <1>1, <1>4, <1>5 DEF TypeOK, Runs
  <1>7. RunTyped' /\ run'[a] = q /\ \A b \in Actors \ {a} : run'[b] = run[b]
    BY <1>3, <1>4, <1>5, <1>6, RunGoes
  <1>8. /\ BranchesTyped' /\ local'[a].by = 0
        /\ \A b \in Actors \ {a} : local'[b] = local[b]
    <2>1. 0 \in 0..MaxTip
      BY StartAssumption
    <2>2. PICK l \in [tip : 0..MaxTip, by : Nat] : l = [tip |-> 0, by |-> 0]
      BY <2>1
    <2>3. local' = [local EXCEPT ![a] = l] /\ l.by = 0
      BY <1>3, <2>2
    <2>4. QED
      BY <1>1, <1>2, <1>4, <2>3 DEF TypeOK, BranchesTyped
  <1>9. TypeOK'
    BY <1>1, <1>2, <1>7, <1>8, TypeParts, Stands0
  <1>10. Placed'
    BY <1>1, <1>2 DEF Placed, Standing, herdr, memory
  <1>11. ASSUME NEW b \in Actors PROVE Spared(b) /\ Carries(b) /\ Stays(b)
    <2>1. Carries(b) /\ Stays(b)
      <3>1. CASE b = a
        BY <1>5, <1>6, <1>7, <3>1 DEF Carries, Stays
      <3>2. CASE b # a
        BY <1>1, <1>7, <3>2, Untouched
      <3>3. QED
        BY <3>1, <3>2
    <2>2. Spared(b)
      <3>1. CASE b = a
        BY <1>2, <1>3, <1>6, <1>7, <1>8, <3>1
           DEF Spared, SpaceIds, herdr, memory, Running, Resting, At
      <3>2. CASE b # a
        BY <1>2, <1>7, <1>8, <3>2 DEF Spared, SpaceIds, herdr, memory
      <3>3. QED
        BY <3>1, <3>2
    <2>3. QED
      BY <2>1, <2>2
  <1>12. QED
    BY <1>9, <1>10, <1>11, Stirs

(* A cleanup takes what a recorded start of the ticket stands in. *)
LEMMA CleanupKeeps ==
    ASSUME NEW t \in Tickets, IInv, NEW e \in recorded[t], NEW o \in Outcomes,
           Cleanup(t, e, o), \A u \in Tickets : Resting(u),
           UNCHANGED <<branches, recorded, latest, rows, run>>,
           live' \in [Tickets -> BOOLEAN], cycle' \in [Tickets -> Nat],
           \A u \in Tickets : live'[u] => live[u]
    PROVE  IInv'
  <1>1. TypeOK /\ Placed /\ t \in Actors /\ t \notin Consultations
    BY ApartParts DEF IInv
  <1>2. e \in Entries /\ (e.worktree => e.space \in Of(t))
    BY <1>1 DEF TypeOK, Placed
  <1> DEFINE there == IF e.worktree THEN e.space \in SpaceIds ELSE TabOf(e.tab) # {}
             ends == {x \in recorded[t] :
                        IF e.worktree THEN x.space = e.space ELSE x.tab = e.tab}
  <1>3. /\ IF there THEN Answered(o) ELSE o = "ok" /\ UNCHANGED spent
        /\ IF ~there \/ ~Takes(o) THEN UNCHANGED <<herdr, tree>>
           ELSE IF e.worktree
           THEN /\ Without(e.space)
                /\ tree' = IF tree[t].is \in {"stands", "other"}
                           THEN [tree EXCEPT ![t] = [is |-> "none", by |-> 0]] ELSE tree
           ELSE tabs' = tabs \ TabOf(e.tab) /\ UNCHANGED <<spaces, tree>>
        /\ leftover' = [leftover EXCEPT ![t] = IF o = "ok" THEN @ \ ends ELSE @ \cup {e}]
    BY DEF Cleanup
  <1>4. Counted
    BY <1>1, <1>3, AnsweredIs, Stands0
  <1>5. /\ HerdrTyped' /\ Shrinks /\ \A s \in spaces \ spaces' : s.by \in Of(t)
        /\ \/ tree' = tree
           \/ tree' = [tree EXCEPT ![t] = [is |-> "none", by |-> 0]]
    <2>1. CASE ~there \/ ~Takes(o)
      <3>1. UNCHANGED <<herdr, tree>>
        BY <1>3, <2>1
      <3>2. QED
        BY <1>1, <3>1, Stands0 DEF herdr, Shrinks
    <2>2. CASE ~(~there \/ ~Takes(o)) /\ e.worktree
      <3>1. /\ Without(e.space)
            /\ tree' = IF tree[t].is \in {"stands", "other"}
                       THEN [tree EXCEPT ![t] = [is |-> "none", by |-> 0]] ELSE tree
        BY <1>3, <2>2
      <3>2. /\ HerdrTyped' /\ Shrinks /\ \A s \in spaces \ spaces' : s.by = e.space
        BY <1>1, <3>1, WithoutIs
      <3>3. QED
        BY <1>2, <2>2, <3>1, <3>2
    <2>3. CASE ~(~there \/ ~Takes(o)) /\ ~e.worktree
      <3>1. tabs' = tabs \ TabOf(e.tab) /\ UNCHANGED <<spaces, tree>>
        BY <1>3, <2>3
      <3>2. QED
        BY <1>1, <3>1, TabGone
    <2>4. QED
      BY <2>1, <2>2, <2>3
  <1>6. /\ TreeTyped' /\ \A b \in Actors \ {t} : tree'[b] = tree[b]
        /\ tree'[t] = tree[t] \/ (tree'[t].by = 0 /\ tree'[t].is = "none")
    <2>1. PICK x \in [is : {"none", "stands", "other", "leftover"}, by : Nat] :
            x = [is |-> "none", by |-> 0]
      OBVIOUS
    <2>2. x.by = 0 /\ x.is = "none" /\ (tree' = tree \/ tree' = [tree EXCEPT ![t] = x])
      BY <1>5, <2>1
    <2>3. CASE tree' = tree
      BY <1>1, <2>3, Stands0
    <2>4. CASE tree' = [tree EXCEPT ![t] = x]
      BY <1>1, <2>2, <2>4 DEF TreeTyped, TypeOK
    <2>5. QED
      BY <2>2, <2>3, <2>4
  <1>7. MemoryTyped'
    <2>1. \A u \in Tickets : leftover'[u] \subseteq recorded[u]
      BY <1>1, <1>3 DEF TypeOK
    <2>2. leftover' \in [Tickets -> SUBSET Entries]
      BY <1>1, <1>2, <1>3 DEF TypeOK
    <2>3. QED
      BY <1>1, <2>1, <2>2 DEF MemoryTyped, TypeOK
  <1>8. TypeOK' /\ Placed'
    BY <1>1, <1>4, <1>5, <1>6, <1>7, TypeParts, Stands0, PlacedShrinks
  <1>9. ASSUME NEW b \in Actors PROVE Spared(b) /\ Carries(b) /\ Stays(b)
    <2>1. Carries(b) /\ Stays(b) /\ Id(b) \in Of(b)
      BY <1>1, Untouched, IdFacts
    <2>2. Running(b) => b \notin Tickets
      BY DEF Running
    <2>3. Running(b) /\ Id(b) \in SpaceIds => Id(b) \in SpaceIds'
      <3>1. SUFFICES ASSUME Running(b), NEW s \in spaces, s.by = Id(b)
                     PROVE  s \in spaces'
        BY DEF SpaceIds
      <3>2. s.by \notin Of(t)
        BY <1>1, <2>1, <2>2, <3>1, IdFacts
      <3>3. QED
        BY <1>5, <3>2
    <2>4. b = t => Resting(b) /\ b \notin Consultations
      BY <1>1
    <2>5. Spared(b)
      <3>1. CASE b = t
        BY <1>1, <1>5, <1>6, <2>4, <3>1
           DEF Spared, Shrinks, SpaceIds, branches, Running, Resting, At
      <3>2. CASE b # t
        BY <1>5, <1>6, <2>3, <3>2 DEF Spared, Shrinks, SpaceIds, branches
      <3>3. QED
        BY <3>1, <3>2
    <2>6. QED
      BY <2>1, <2>5
  <1>10. QED
    BY <1>8, <1>9, Stirs

LEMMA CloseCycleKeeps ==
    ASSUME NEW t \in Tickets, IInv, CloseCycle(t)
    PROVE  IInv'
  <1>1. latest[t] \in recorded[t]
    BY DEF CloseCycle, IInv, TypeOK
  <1>2. PICK o \in Outcomes : Cleanup(t, latest[t], o)
    BY DEF CloseCycle
  <1>3. /\ live' \in [Tickets -> BOOLEAN] /\ cycle' \in [Tickets -> Nat]
        /\ \A u \in Tickets : live'[u] => live[u]
    BY DEF CloseCycle, IInv, TypeOK
  <1>4. /\ \A u \in Tickets : Resting(u)
        /\ UNCHANGED <<branches, recorded, latest, rows, run>>
    BY DEF CloseCycle
  <1>5. QED
    BY <1>1, <1>2, <1>3, <1>4, CleanupKeeps

LEMMA ClearLeftoverKeeps ==
    ASSUME NEW t \in Tickets, IInv, ClearLeftover(t)
    PROVE  IInv'
  <1>1. PICK e \in leftover[t], o \in Outcomes : Cleanup(t, e, o)
    BY DEF ClearLeftover
  <1>2. e \in recorded[t]
    BY DEF IInv, TypeOK
  <1>3. /\ live' \in [Tickets -> BOOLEAN] /\ cycle' \in [Tickets -> Nat]
        /\ \A u \in Tickets : live'[u] => live[u]
    BY DEF ClearLeftover, IInv, TypeOK
  <1>4. /\ \A u \in Tickets : Resting(u)
        /\ UNCHANGED <<branches, recorded, latest, rows, run>>
    BY DEF ClearLeftover
  <1>5. QED
    BY <1>1, <1>2, <1>3, <1>4, CleanupKeeps

(* A crash leaves what its starts made, untold. *)
LEMMA CrashKeeps ==
    ASSUME IInv, Crash
    PROVE  IInv'
  <1>1. TypeOK /\ Placed
    BY DEF IInv
  <1>2. /\ UNCHANGED <<world, memory, rows>> /\ UNCHANGED <<herdr, tree, branches>> /\ Counted
    BY <1>1, EventIs DEF Crash, world
  <1>3. ASSUME NEW a \in Actors, ~Resting(a)
        PROVE  LET q == run'[a]  r == run[a] IN
               /\ q \in Runs /\ q.step = "rest" /\ q.failed /\ q.disturbed /\ q.made = {}
               /\ q.unseen = Parts /\ q.n = r.n /\ q.stored = r.stored
               /\ q.continues = r.continues /\ q.opens = r.opens /\ q.ask = r.ask
               /\ q.handed = r.handed
    <2>1. /\ run[a] \in Runs
          /\ run'[a] = [run[a] EXCEPT !.step = "rest", !.failed = TRUE, !.disturbed = TRUE,
                                      !.made = {}, !.unseen = Parts]
      BY <1>1, <1>3 DEF Crash, TypeOK
    <2>2. "rest" \in Steps /\ {} \in SUBSET Parts /\ Parts \in SUBSET Parts
      BY DEF Steps
    <2>3. QED
      BY <2>1, <2>2 DEF Runs
  <1>4. \A a \in Actors : Resting(a) => run'[a] = run[a]
    BY DEF Crash
  <1>5. RunTyped'
    <2>1. \A a \in Actors : run'[a] \in Runs /\ run'[a].n <= MaxStarts[a]
      BY <1>1, <1>3, <1>4 DEF TypeOK
    <2>2. run' \in [Actors -> Runs]
      BY <2>1 DEF Crash
    <2>3. QED
      BY <2>1, <2>2 DEF RunTyped
  <1>6. TypeOK' /\ Placed'
    <2>1. TypeOK'
      BY <1>1, <1>2, <1>5, TypeParts, Stands0
    <2>2. Placed'
      BY <1>1, <1>2 DEF Placed, Standing, herdr, memory
    <2>3. QED
      BY <2>1, <2>2
  <1>7. ASSUME NEW a \in Actors PROVE Sound(a)'
    <2>1. Sound(a) /\ run[a] \in Runs
      BY <1>1 DEF IInv, TypeOK
    <2>2. CASE Resting(a)
      <3>1. Carries(a) /\ Stays(a)
        BY <1>1, <1>4, <2>2, Untouched
      <3>2. Spared(a)
        BY <1>2, <1>4, <2>2 DEF Spared, SpaceIds, herdr, branches, memory, Running
      <3>3. QED
        BY <1>1, <2>1, <3>1, <3>2, Carried
    <2>3. CASE ~Resting(a)
      <3> DEFINE q == run'[a]
      <3>1. /\ q \in Runs /\ q.step = "rest" /\ q.failed /\ q.disturbed /\ q.made = {}
            /\ q.unseen = Parts /\ q.n = run[a].n /\ q.stored = run[a].stored
            /\ q.continues = run[a].continues /\ q.opens = run[a].opens
            /\ q.ask = run[a].ask /\ q.handed = run[a].handed
        BY <1>3, <2>3
      <3>2. Aged(a)'
        BY <1>2, <2>1, <2>3, <3>1 DEF Sound, Aged, Running, herdr, branches
      <3>3. Stepped(a)'
        <4>1. Cleaning({}) = "rest"
          BY DEF Cleaning
        <4>2. QED
          BY <3>1, <4>1 DEF Stepped, Cleans, Early, InSpace, At, Running, Resting
      <3>4. Held(a)'
        BY <3>1 DEF Held, At, Running, Resting
      <3>5. Handed(a)'
        BY <3>1 DEF Handed, Late
      <3>6. Tracked(a)'
        BY <3>1 DEF Tracked, Owes
      <3>7. a \in Consultations => Alone(a)' /\ Listed(a)'
        <4>1. a \in Consultations => Alone(a)'
          BY <2>1, <3>1 DEF Sound, Alone, OfTicket, At
        <4>2. Listed(a)'
          BY <3>1 DEF Listed, Parts
        <4>3. QED
          BY <4>1, <4>2
      <3>8. QED
        BY <3>2, <3>3, <3>4, <3>5, <3>6, <3>7 DEF Sound
    <2>4. QED
      BY <2>2, <2>3
  <1>8. QED
    BY <1>6, <1>7 DEF IInv

(* A new start carries a number nothing carries yet. *)
LEMMA BeginKeeps ==
    ASSUME NEW a \in Actors, IInv, Begin(a)
    PROVE  IInv'
  <1>1. TypeOK /\ Placed /\ Sound(a) /\ run[a] \in Runs /\ run[a].n \in Nat
    BY IdFacts DEF IInv
  <1>2. /\ UNCHANGED <<world, memory, rows, spent>> /\ UNCHANGED <<herdr, tree, branches>>
        /\ run[a].n < MaxStarts[a] /\ MaxStarts[a] \in Nat
    BY StartAssumption DEF Begin, world
  <1>3. PICK worktree, opens, continues, route \in BOOLEAN :
          /\ opens => worktree /\ a \in Tickets
          /\ worktree => \A b \in Actors : run[b].worktree => Resting(b)
          /\ continues <=> a \in Tickets /\ live[a]
          /\ route => continues
          /\ LET r == [NoRun EXCEPT !.n = run[a].n + 1, !.worktree = worktree,
                        !.opens = opens, !.continues = continues,
                        !.stored = continues /\ latest[a].worktree = worktree]
             IN Becomes(a, [r EXCEPT !.step = IF route THEN "route" ELSE FirstStep(r)])
    BY Zenon DEF Begin
  <1>4. PICK stored \in BOOLEAN : stored <=> continues /\ latest[a].worktree = worktree
    OBVIOUS
  <1>5. PICK n \in Nat : n = run[a].n + 1
    BY <1>1
  <1>6. NoRun \in Runs /\ NoRun.ask = 1
    <2>1. NoTab \in Handles
      BY DEF NoTab, Handles
    <2>2. QED
      BY <2>1 DEF NoRun, Runs, Steps
  <1>7. PICK r \in Runs :
          r = [NoRun EXCEPT !.n = n, !.worktree = worktree, !.opens = opens,
                            !.continues = continues, !.stored = stored]
    BY <1>6, ZenonT(60) DEF Runs
  <1>8. /\ r.n = n /\ r.worktree = worktree /\ r.opens = opens /\ r.continues = continues
        /\ r.stored = stored /\ r.made = {} /\ ~r.failed /\ ~r.handed /\ ~r.builds /\ r.ask = 1
    BY <1>6, <1>7 DEF NoRun, Runs
  <1> DEFINE s == IF route THEN "route" ELSE FirstStep(r)
  <1>9. /\ s \in {"route", "branch", "list"} /\ s \in Steps
        /\ s = "route" => continues
        /\ s = "list" => stored \/ ~worktree
    BY <1>3, <1>8 DEF FirstStep, Steps
  <1> HIDE DEF s
  <1>10. PICK q \in Runs : q = [r EXCEPT !.step = s]
    BY <1>9 DEF Runs
  <1>11. /\ q.n = n /\ q.worktree = worktree /\ q.opens = opens /\ q.continues = continues
         /\ q.stored = stored /\ q.made = {} /\ ~q.failed /\ ~q.handed /\ ~q.builds
         /\ q.ask = 1 /\ q.step = s
    BY <1>8, <1>9, <1>10 DEF Runs
  <1>12. Becomes(a, q)
    <2>1. r = [NoRun EXCEPT !.n = run[a].n + 1, !.worktree = worktree,
                        !.opens = opens, !.continues = continues,
                        !.stored = continues /\ latest[a].worktree = worktree]
      BY <1>4, <1>5, <1>7
    <2>2. QED
      BY <1>3, <1>10, <2>1 DEF s
  <1>13. RunTyped' /\ run'[a] = q /\ \A b \in Actors \ {a} : run'[b] = run[b]
    <2>1. run' = [run EXCEPT ![a] = q] /\ run \in [Actors -> Runs]
      BY <1>1, <1>12 DEF Becomes, TypeOK
    <2>2. n <= MaxStarts[a]
      BY <1>1, <1>2, <1>5
    <2>3. QED
      BY <1>1, <1>11, <2>1, <2>2 DEF RunTyped, TypeOK
  <1>14. TypeOK' /\ Placed'
    <2>1. TypeOK'
      BY <1>1, <1>2, <1>13, TypeParts, Stands0
    <2>2. Placed'
      BY <1>1, <1>2 DEF Placed, Standing, herdr, memory
    <2>3. QED
      BY <2>1, <2>2
  <1>15. \A b \in Actors \ {a} : Sound(b)'
    <2>1. OwnOnly(a)
      BY <1>2, <1>13 DEF OwnOnly, herdr, branches, memory
    <2>2. QED
      BY <2>1, Elsewhere
  <1>16. Sound(a)'
    <2>1. n # 0 /\ n > run[a].n
      BY <1>1, <1>5
    <2>2. Id(a)' = <<a, n>> /\ <<a, n>> \in Of(a) /\ <<a, n>>[2] = n
      BY <1>11, <1>13 DEF Id, Of
    <2>3. /\ \A x \in spaces : x.by \in Of(a) => x.by[2] <= run[a].n
          /\ \A t \in tabs : t.by \in Of(a) => t.by[2] <= run[a].n
          /\ tree[a].by <= run[a].n /\ local[a].by <= run[a].n
          /\ tree[a].by \in Nat /\ local[a].by \in Nat
          /\ local[a].tip = 0 => local[a].by = 0
      BY <1>1 DEF Sound, Aged, TypeOK
    <2>4. /\ tree[a].by # n /\ local[a].by # n /\ tree[a].by <= n /\ local[a].by <= n
      BY <1>1, <2>1, <2>3
    <2>5. \A x \in Of(a) : x[2] <= run[a].n => x[2] <= n /\ x # <<a, n>>
      BY <1>1, <2>1 DEF Of
    <2>6. Aged(a)'
      BY <1>2, <1>11, <1>13, <2>1, <2>3, <2>4, <2>5 DEF Aged, herdr, branches
    <2>7. Id(a)' \notin SpaceIds' /\ \A t \in tabs' : t.by # Id(a)'
      BY <1>2, <2>2, <2>3, <2>5 DEF SpaceIds, herdr
    <2>8. Stepped(a)'
      <3>1. s \notin Cleans /\ s \notin InSpace
        BY <1>9 DEF Cleans, InSpace
      <3>2. latest' = latest /\ local' = local
        BY <1>2 DEF memory, branches
      <3>3. QED
        BY <1>3, <1>4, <1>9, <1>11, <1>13, <2>4, <3>1, <3>2 DEF Stepped, At, Running, Resting
    <2>9. Held(a)' /\ Handed(a)'
      BY <1>9, <1>11, <1>13 DEF Held, Handed, At
    <2>10. Tracked(a)'
      <3>1. TabOf(Fresh(a))' = {}
        BY <2>7, TabOfIs
      <3>2. QED
        BY <1>2, <1>11, <1>13, <2>4, <2>7, <3>1 DEF Tracked
    <2>11. ASSUME a \in Consultations PROVE Alone(a)' /\ Listed(a)'
      <3>1. a \notin Tickets
        BY <2>11, ApartParts
      <3>2. Alone(a)'
        BY <1>3, <1>4, <1>9, <1>11, <1>13, <3>1 DEF Alone, OfTicket, At
      <3>3. Listed(a)'
        BY <1>2, <1>11, <1>13, <2>4, <2>7 DEF Listed
      <3>4. QED
        BY <3>2, <3>3
    <2>12. QED
      BY <2>6, <2>8, <2>9, <2>10, <2>11 DEF Sound
  <1>17. QED
    BY <1>14, <1>15, <1>16 DEF IInv

--------------------------------------------------------------------------------
(* The invariant, and what it says. *)

LEMMA InitHolds == Init => IInv
  <1> SUFFICES ASSUME Init PROVE IInv
    OBVIOUS
  <1>1. /\ NoTab \in Handles /\ NoRun \in Runs /\ NoEntry \in Entries /\ 0 \in 0..MaxTip
    <2>1. NoTab \in Handles
      BY DEF NoTab, Handles
    <2>2. QED
      BY <2>1, StartAssumption DEF NoRun, Runs, NoEntry, Entries, Steps
  <1>2. run = [a \in Actors |-> NoRun] /\ \A a \in Actors : run[a] = NoRun /\ MaxStarts[a] \in Nat
    BY StartAssumption DEF Init
  <1>3. /\ NoRun.step = "rest" /\ NoRun.n = 0 /\ ~NoRun.failed /\ ~NoRun.stored
        /\ ~NoRun.continues /\ ~NoRun.opens /\ NoRun.ask = 1 /\ ~NoRun.builds
        /\ ~NoRun.handed /\ NoRun.made = {}
    BY DEF NoRun
  <1>4. RunTyped
    BY <1>1, <1>2, <1>3 DEF RunTyped
  <1>5. spaces \subseteq {Operators} /\ tabs = {}
    BY DEF Init
  <1>6. Operators.by = Operator /\ Operators.at = "checkout"
        /\ Operators \in [by : Makers, at : Actors \cup {"checkout"}]
    BY DEF Operators, Makers
  <1>7. HerdrTyped
    BY <1>5, <1>6 DEF HerdrTyped
  <1>8. TreeTyped /\ BranchesTyped /\ MemoryTyped /\ RowsTyped
        /\ spent \in [faults : 0..MaxFaults, events : 0..MaxEvents]
    <2>1. TreeTyped
      BY DEF Init, TreeTyped
    <2>2. BranchesTyped
      BY <1>1 DEF Init, BranchesTyped
    <2>3. MemoryTyped
      BY <1>1 DEF Init, MemoryTyped
    <2>4. spent \in [faults : 0..MaxFaults, events : 0..MaxEvents]
      BY StartAssumption DEF Init
    <2>5. QED
      BY <2>1, <2>2, <2>3, <2>4 DEF Init, RowsTyped
  <1>9. TypeOK
    BY <1>4, <1>7, <1>8, TypeParts
  <1>10. Placed
    BY <1>5, <1>6, StartAssumption DEF Init, Placed, Standing, NoEntry
  <1>11. ASSUME NEW a \in Actors PROVE Sound(a)
    <2>1. Operator \notin Of(a) /\ Id(a) \in Of(a) /\ Id(a) # Operator
      BY <1>9, <1>11, IdFacts
    <2>2. Id(a) \notin SpaceIds /\ TabOf(Fresh(a)) = {}
      BY <1>5, <1>6, <2>1 DEF SpaceIds, TabOf
    <2>3. /\ tree[a].by = 0 /\ tree[a].is = "none" /\ local[a].by = 0 /\ local[a].tip = 0
      BY DEF Init
    <2>4. run[a] = NoRun
      BY <1>2
    <2>5. Aged(a)
      BY <1>3, <1>5, <1>6, <2>1, <2>3, <2>4 DEF Aged, Running, Resting, At
    <2>6. Stepped(a) /\ Held(a) /\ Handed(a)
      BY <1>3, <2>4 DEF Stepped, Held, Handed, At, Running, Resting, Cleans, Early, InSpace
    <2>7. Tracked(a)
      BY <1>3, <2>2, <2>4 DEF Tracked, Owes
    <2>8. a \in Consultations => Alone(a) /\ Listed(a)
      BY <1>3, <1>5, <2>2, <2>3, <2>4 DEF Alone, Listed, OfTicket, At
    <2>9. QED
      BY <2>5, <2>6, <2>7, <2>8 DEF Sound
  <1>12. QED
    BY <1>9, <1>10, <1>11 DEF IInv

LEMMA StepKeeps ==
    ASSUME NEW a \in Actors, IInv, Step(a)
    PROVE  IInv'
  <1>1. CASE RouteClose(a) BY <1>1, RouteCloseKeeps
  <1>2. CASE ReadWorkspaces(a) BY <1>2, ReadWorkspacesKeeps
  <1>3. CASE CreateSpace(a) BY <1>3, CreateSpaceKeeps
  <1>4. CASE OpenFreshTab(a) BY <1>4, OpenFreshTabKeeps
  <1>5. CASE CheckBranch(a) BY <1>5, CheckBranchKeeps
  <1>6. CASE CheckRemote(a) BY <1>6, CheckRemoteKeeps
  <1>7. CASE FetchBranch(a) BY <1>7, FetchBranchKeeps
  <1>8. CASE OpenWorktree(a) BY <1>8, OpenWorktreeKeeps
  <1>9. CASE FindWorktree(a) BY <1>9, FindWorktreeKeeps
  <1>10. CASE CreateWorktree(a) BY <1>10, CreateWorktreeKeeps
  <1>11. CASE MoveLeftover(a) BY <1>11, MoveLeftoverKeeps
  <1>12. CASE CheckListed(a) BY <1>12, CheckListedKeeps
  <1>13. CASE HoldBranch(a) BY <1>13, HoldBranchKeeps
  <1>14. CASE PushBranch(a) BY <1>14, PushBranchKeeps
  <1>15. CASE ListPullRequests(a) BY <1>15, ListPullRequestsKeeps
  <1>16. CASE OpenDraft(a) BY <1>16, OpenDraftKeeps
  <1>17. CASE StartAgent(a) BY <1>17, StartAgentKeeps
  <1>18. CASE PromptAgent(a) BY <1>18, PromptAgentKeeps
  <1>19. CASE CleanTab(a) BY <1>19, CleanTabKeeps
  <1>20. CASE CleanCheckout(a) BY <1>20, CleanCheckoutKeeps
  <1>21. CASE CleanBranch(a) BY <1>21, CleanBranchKeeps
  <1>22. QED
    BY <1>1, <1>2, <1>3, <1>4, <1>5, <1>6, <1>7, <1>8, <1>9, <1>10, <1>11, <1>12, <1>13,
       <1>14, <1>15, <1>16, <1>17, <1>18, <1>19, <1>20, <1>21 DEF Step

LEMMA Stutters == ASSUME IInv, UNCHANGED vars PROVE IInv'
  <1>1. /\ TypeOK /\ Placed /\ UNCHANGED <<herdr, tree, branches, memory, rows, run, spent>>
    BY DEF IInv, vars, world
  <1>2. TypeOK' /\ Placed'
    BY <1>1, TypeParts, Stands0 DEF Placed, Standing, herdr, memory
  <1>3. ASSUME NEW a \in Actors PROVE Spared(a) /\ Carries(a) /\ Stays(a)
    BY <1>1, <1>3, Untouched DEF Spared, SpaceIds, herdr, branches, memory
  <1>4. QED
    BY <1>2, <1>3, Stirs

LEMMA NextKeeps == IInv /\ [Next]_vars => IInv'
  <1> SUFFICES ASSUME IInv, [Next]_vars PROVE IInv'
    OBVIOUS
  <1>1. CASE \E a \in Actors : Begin(a)
    BY <1>1, BeginKeeps
  <1>2. CASE \E a \in Actors : Step(a)
    BY <1>2, StepKeeps
  <1>3. CASE \E t \in Tickets : CloseCycle(t)
    BY <1>3, CloseCycleKeeps
  <1>4. CASE \E t \in Tickets : ClearLeftover(t)
    BY <1>4, ClearLeftoverKeeps
  <1>5. CASE OperatorCloses
    BY <1>5, OperatorClosesKeeps
  <1>6. CASE AgentEnds
    BY <1>6, AgentEndsKeeps
  <1>7. CASE AgentWorks
    BY <1>7, AgentWorksKeeps
  <1>8. CASE LeftoverAppears
    BY <1>8, LeftoverAppearsKeeps
  <1>9. CASE OperatorPrunes
    BY <1>9, OperatorPrunesKeeps
  <1>10. CASE Crash
    BY <1>10, CrashKeeps
  <1>11. CASE UNCHANGED vars
    BY <1>11, Stutters
  <1>12. QED
    BY <1>1, <1>2, <1>3, <1>4, <1>5, <1>6, <1>7, <1>8, <1>9, <1>10, <1>11 DEF Next

(* What the record of a start names is its own and stands where the record *)
(* says, and what stands of a start that still owes its removal is on that *)
(* record, whatever its commands answered and whoever acts in between.     *)
THEOREM Invariant == Spec => []IInv
  BY InitHolds, NextKeeps, PTL DEF Spec

(* Every reachable state is typed: a tab stands in a workspace that        *)
(* stands, a ticket's leftovers are of the starts it recorded, and an open *)
(* work cycle has one, whatever the commands answered.                     *)
THEOREM StartTypes == Spec => []TypeOK
  <1>1. IInv => TypeOK
    BY DEF IInv
  <1>2. QED
    BY <1>1, Invariant, PTL

(* A start that failed, and whose cleanup met no refusal, leaves nothing   *)
(* of its own but what it was never told of and the branch it handed to    *)
(* the pull request; and a Consultation's resource rows name all that      *)
(* still stands of its start, whatever the cleanup met (removeResidue and  *)
(* the confirmed rows).                                                    *)
THEOREM StartFailedLeavesNothing == Spec => []FailedLeavesNothing
  <1>1. IInv => FailedLeavesNothing
    <2> SUFFICES ASSUME IInv PROVE FailedLeavesNothing
      OBVIOUS
    <2>1. ASSUME NEW a \in Actors, Resting(a), run[a].failed, ~run[a].disturbed
          PROVE  LET n == run[a].n  Known(part) == part \notin run[a].unseen IN
                 /\ Known("space") => \A s \in spaces : s.by # Id(a)
                 /\ Known("tab") => TabOf(Fresh(a)) = {}
                 /\ Known("tree") => tree[a].by # n
                 /\ Known("branch") /\ run[a].builds /\ ~run[a].handed => local[a].by # n
                 /\ a \in Tickets /\ run[a].handed => local[a].tip > 0
      <3>1. Sound(a)
        BY DEF IInv
      <3>2. Cleaning(run[a].made) = "rest"
        BY <2>1, <3>1 DEF Sound, Stepped, Resting, At
      <3>3. /\ "tab" \notin run[a].made /\ "space" \notin run[a].made
            /\ "tree" \notin run[a].made /\ "branch" \notin run[a].made
        BY <3>2, CleaningIs
      <3>4. /\ Owes(a, {"clean checkout", "clean branch", "rest"})
            /\ Owes(a, {"clean branch", "rest"}) /\ Owes(a, {"rest"})
        BY <2>1 DEF Owes
      <3>5. /\ TabOf(Fresh(a)) # {} => "tab" \in run[a].unseen
            /\ Id(a) \in SpaceIds => "space" \in run[a].unseen
            /\ tree[a].by = run[a].n => "tree" \in run[a].unseen
            /\ run[a].builds /\ ~run[a].handed /\ local[a].by = run[a].n
                 => "branch" \in run[a].unseen
        BY <3>1, <3>3, <3>4 DEF Sound, Tracked, Told
      <3>6. \A s \in spaces : s.by \in SpaceIds
        BY DEF SpaceIds
      <3>7. a \in Tickets /\ run[a].handed => local[a].tip > 0
        BY <2>1, <3>1 DEF Sound, Handed
      <3>8. QED
        BY <3>5, <3>6, <3>7
    <2>2. ASSUME NEW c \in Consultations
          PROVE  LET T(part) == <<Id(c), part>> \in rows \/ part \in run[c].unseen IN
                 /\ (\E s \in spaces : s.by = Id(c)) => T("space")
                 /\ \A t \in tabs : t.by = Id(c) => T(IF t.root THEN "root" ELSE "tab")
                 /\ tree[c].is # "none" /\ tree[c].by = run[c].n => T("tree")
      <3>1. Listed(c)
        BY ApartParts DEF IInv, Sound
      <3>2. QED
        BY <3>1 DEF Listed, SpaceIds
    <2>3. QED
      BY <2>1, <2>2 DEF FailedLeavesNothing
  <1>2. QED
    BY <1>1, Invariant, PTL

(* A step moves the record of its own start alone. *)
LEMMA StepsAlone ==
    ASSUME NEW a \in Actors, TypeOK, Step(a)
    PROVE  \A b \in Actors \ {a} : run'[b] = run[b]
  <1>1. \A q : Becomes(a, q) => \A b \in Actors \ {a} : run'[b] = run[b]
    BY DEF Becomes, TypeOK
  <1>2. CASE RouteClose(a) \/ ReadWorkspaces(a) \/ CreateSpace(a) \/ OpenFreshTab(a)
    <2>1. \E q : Becomes(a, q)
      BY <1>2 DEF RouteClose, ReadWorkspaces, CreateSpace, OpenFreshTab
    <2>2. QED
      BY <1>1, <2>1
  <1>3. CASE \/ CheckBranch(a) \/ CheckRemote(a) \/ FetchBranch(a) \/ OpenWorktree(a)
             \/ FindWorktree(a) \/ CreateWorktree(a) \/ MoveLeftover(a)
    <2>1. \E q : Becomes(a, q)
      BY <1>3 DEF CheckBranch, CheckRemote, FetchBranch, OpenWorktree, OpenedWorktree,
                  FindWorktree, CreateWorktree, MoveLeftover
    <2>2. QED
      BY <1>1, <2>1
  <1>4. CASE \/ CheckListed(a) \/ HoldBranch(a) \/ PushBranch(a)
             \/ ListPullRequests(a) \/ OpenDraft(a) \/ StartAgent(a) \/ PromptAgent(a)
    <2>1. \E q : Becomes(a, q)
      BY <1>4 DEF CheckListed, HoldBranch, PushBranch, ListPullRequests, OpenDraft,
                  StartAgent, PromptAgent
    <2>2. QED
      BY <1>1, <2>1
  <1>5. CASE CleanTab(a) \/ CleanCheckout(a) \/ CleanBranch(a)
    <2>1. \E q : Becomes(a, q)
      BY <1>5 DEF CleanTab, CleanCheckout, CleanBranch, Cleaned
    <2>2. QED
      BY <1>1, <2>1
  <1>6. QED
    BY <1>2, <1>3, <1>4, <1>5 DEF Step

--------------------------------------------------------------------------------
(* The retries. *)

Planting == {"open", "find", "reopen", "create", "aside", "again"}
Naming == {"branch", "remote", "fetch"}
Taken == InSpace \ {"tab"}
Before == Planting \cup Naming \cup {"route", "list", "space", "tab"}
Troubles == spent.faults + spent.events
(* The next start would open the worktree of the one before, with no look at the branch. *)
Reopens(a) == live[a] /\ latest[a].worktree

(* What a start at work has chosen. *)
Bound(a) == Running(a) =>
    /\ run[a].continues <=> live[a]
    /\ run[a].stored <=> run[a].continues /\ latest[a].worktree = run[a].worktree
    /\ run[a].builds => run[a].worktree /\ ~run[a].stored
    /\ "branch" \in run[a].made => run[a].builds /\ ~run[a].handed
    /\ At(a, "list") /\ run[a].worktree => run[a].stored
    /\ run[a].step \in Planting => run[a].worktree
    /\ run[a].step \in Naming => run[a].worktree /\ ~run[a].stored
    /\ run[a].step \in Taken => run[a].tab.by = Id(a)

(* The record of the starts that landed names tabs of earlier starts. *)
Older(a) ==
    /\ \A e \in recorded[a] : /\ e.tab.by \in Of(a) /\ e.tab.by[2] <= run[a].n
                              /\ Running(a) => e.tab.by # Id(a)
    /\ latest[a] \in recorded[a] \cup {NoEntry}

(* A tab the record names stands in the workspace it names with it. *)
Homed(a) ==
    /\ run[a].step \in Before => TabOf(Fresh(a)) = {}
    /\ \A t \in tabs : Handle(t) = latest[a].tab => t.space = latest[a].space
    /\ run[a].step \in Taken => \A t \in tabs : Handle(t) = run[a].tab => t.space = run[a].space

(* The name of a start's own is given to no tab before that start asks for it. *)
Unnamed(a) ==
    \A t \in tabs : \A c, m \in Nat : t.agent = <<a, c, m>> =>
        /\ m <= run[a].n
        /\ m = run[a].n => run[a].step \notin Before \cup (Taken \ {"prompt"})

(* Before any trouble. *)
Calm(a) ==
    /\ leftover[a] = {} /\ tree[a].is \in {"none", "stands"}
    /\ Reopens(a) => tree[a].is = "stands"
    /\ run[a].worktree /\ run[a].step \in InSpace => tree[a].is = "stands"
    /\ Running(a) /\ "tree" \in run[a].made => ~Reopens(a)
    /\ local[a].tip = 0 => remote[a] = 0
    /\ Running(a) /\ run[a].builds /\ ~run[a].handed => remote[a] = 0
    /\ Running(a) => run[a].met = NoTab \/ (run[a].continues /\ run[a].met = latest[a].tab)
    /\ \A t \in tabs : t.agent # Nothing /\ t.agent[1] = a =>
         \/ live[a] /\ Handle(t) = latest[a].tab
         \/ At(a, "prompt") /\ Handle(t) = run[a].tab

(* After one trouble at most. *)
Whole(a) ==
    /\ local[a].tip = 0 \/ local[a].tip >= remote[a]
    /\ local[a].tip = 0 /\ remote[a] > 0 =>
         /\ ~Reopens(a) /\ run[a].step \notin Planting
         /\ run[a].worktree => run[a].step \notin InSpace

Healing(a) == /\ Bound(a) /\ Older(a) /\ Homed(a) /\ Unnamed(a)
              /\ Troubles = 0 => Calm(a)
              /\ Troubles <= 1 => Whole(a)
Drafted == \A a \in Actors : drafts[a] <= 1 /\ (At(a, "draft") => drafts[a] = 0)
HInv == Drafted /\ \A a \in Tickets : Healing(a)

--------------------------------------------------------------------------------
(* The steps of a start but its ask for a name and its prompt. *)

SameBranches(a) == local'[a] = local[a] /\ remote'[a] = remote[a]
Branching(a) ==
    \/ SameBranches(a)
    \/ /\ remote'[a] = remote[a] /\ local[a].tip = 0 /\ local'[a].tip = 1
       /\ run[a].step \in Planting
    \/ remote'[a] = remote[a] /\ local'[a].tip = remote[a] /\ At(a, "fetch")
    \/ remote'[a] = remote[a] /\ local[a].tip > 0 /\ local'[a].tip = Lower(local[a].tip + 1, MaxTip)
    \/ /\ local'[a] = local[a] /\ local[a].tip > 0 /\ remote'[a] = local[a].tip
       /\ run'[a].handed \/ Troubles' = Troubles + 1
    \/ /\ remote'[a] = remote[a] /\ local'[a].tip = 0
       /\ At(a, "clean branch") /\ "branch" \in run[a].made

Chosen(a) ==
    LET r == run[a]  q == run'[a] IN
    /\ r.step \notin {"rest", "agent", "prompt"} /\ q.step # "prompt"
    /\ q.n = r.n /\ q.worktree = r.worktree /\ q.stored = r.stored
    /\ q.continues = r.continues /\ q.met = r.met
    /\ r.handed => q.handed
    /\ \/ q.builds = r.builds
       \/ At(a, "remote") /\ SameBranches(a) /\ (remote[a] = 0 \/ Troubles' = Troubles + 1)
    /\ "branch" \in q.made => "branch" \in r.made \/ (r.step \in {"create", "again"} /\ r.builds)
    /\ "tree" \in q.made => "tree" \in r.made \/ (r.step \in Planting /\ tree[a].is = "none")

Stepping(a) ==
    LET r == run[a]  q == run'[a] IN
    /\ q.step = "draft" => r.step = "pulls" /\ drafts[a] = 0
    /\ q.step \in Before => r.step \in Before \ {"tab"}
    /\ q.step = "list" /\ q.worktree => q.stored
    /\ q.step \in Naming => r.step \in Naming \/ (q.worktree /\ ~q.stored)
    /\ q.step \in Planting => \/ r.step \in Planting \/ (r.step = "list" /\ r.worktree)
                              \/ r.step \in Naming /\ \/ local'[a].tip > 0 \/ remote'[a] = 0
                                                      \/ Troubles' = Troubles + 1
    /\ q.step \in Taken => \/ r.step \in Taken /\ q.tab = r.tab /\ q.space = r.space
                           \/ r.step \in Before /\ q.tab = Root(a) /\ q.space = Id(a)
                           \/ r.step = "tab" /\ q.tab = Fresh(a) /\ q.space = r.space
    /\ q.step \in InSpace /\ q.worktree =>
         \/ r.step \in InSpace /\ tree'[a] = tree[a]
         \/ r.step = "list" /\ r.stored /\ tree'[a] = tree[a]
         \/ r.step \in Planting /\ tree'[a].is \in {"stands", "other"}

Worldly(a) ==
    /\ \/ tree'[a] = tree[a] \/ (tree[a].is = "leftover" /\ At(a, "aside"))
       \/ tree'[a].is = "stands"
       \/ tree'[a].is = "none" /\ "tree" \in run[a].made
    /\ Branching(a)
    /\ \A t \in tabs' : \/ t \in tabs
                        \/ /\ t.by = Id(a) /\ t.agent = Nothing /\ run[a].step \in Before
                           /\ ~t.root => run[a].step = "tab" /\ t.space = run[a].space
    /\ \A b \in Actors \ {a} : /\ run'[b] = run[b] /\ tree'[b] = tree[b]
                               /\ local'[b] = local[b] /\ remote'[b] = remote[b]
    /\ UNCHANGED memory /\ Troubles' \in {Troubles, Troubles + 1}

Moves(a) == Worldly(a) /\ (a \in Tickets => Chosen(a) /\ Stepping(a))

LEMMA TroublesAre ==
    ASSUME TypeOK
    PROVE  /\ Troubles \in Nat
           /\ \A o : Answered(o) => Troubles' = IF o = "ok" THEN Troubles ELSE Troubles + 1
           /\ UNCHANGED spent => Troubles' = Troubles
           /\ Event => Troubles' = Troubles + 1
  <1>1. spent.faults \in Nat /\ spent.events \in Nat /\ spent \in [faults : Nat, events : Nat]
    BY StartAssumption DEF TypeOK
  <1>2. ASSUME NEW o, Answered(o) PROVE Troubles' = IF o = "ok" THEN Troubles ELSE Troubles + 1
    BY <1>1, <1>2 DEF Answered, Troubles
  <1>3. Event => Troubles' = Troubles + 1
    BY <1>1 DEF Event, Troubles
  <1>4. QED
    BY <1>1, <1>2, <1>3 DEF Troubles

--------------------------------------------------------------------------------
(* Each of them is such a step. *)

(* q is r at another step, or failed. *)
Still(q, r) ==
    /\ q.n = r.n /\ q.worktree = r.worktree /\ q.stored = r.stored
    /\ q.continues = r.continues /\ q.met = r.met /\ q.builds = r.builds
    /\ q.made = r.made /\ q.handed = r.handed /\ q.space = r.space /\ q.tab = r.tab

LEMMA RunIs ==
    ASSUME NEW a \in Actors, TypeOK, NEW q, Becomes(a, q)
    PROVE  /\ run'[a] = q /\ \A b \in Actors \ {a} : run'[b] = run[b]
           /\ run[a] \in Runs
  BY DEF TypeOK, Becomes

LEMMA StepIs ==
    ASSUME NEW a \in Actors, TypeOK, NEW s, Becomes(a, [run[a] EXCEPT !.step = s])
    PROVE  /\ Still(run'[a], run[a]) /\ run'[a].step = s
           /\ \A b \in Actors \ {a} : run'[b] = run[b]
  <1>1. run'[a] = [run[a] EXCEPT !.step = s] /\ run[a] \in Runs
    BY RunIs
  <1>2. Still(run'[a], run[a]) /\ run'[a].step = s
    BY <1>1 DEF Still, Runs
  <1>3. QED
    BY <1>2, RunIs

LEMMA FailIs ==
    ASSUME NEW a \in Actors, TypeOK, Becomes(a, Fails(run[a]))
    PROVE  /\ Still(run'[a], run[a]) /\ run'[a].step \in Cleans \cup {"rest"}
           /\ \A b \in Actors \ {a} : run'[b] = run[b]
  <1>1. run'[a] = Fails(run[a]) /\ run[a] \in Runs
    BY RunIs
  <1>2. Cleaning(run[a].made) \in Cleans \cup {"rest"}
    BY CleaningIs DEF Cleans
  <1>3. Still(run'[a], run[a]) /\ run'[a].step \in Cleans \cup {"rest"}
    BY <1>1, <1>2 DEF Still, Runs, Fails
  <1>4. QED
    BY <1>3, RunIs

LEMMA AnswerIs ==
    ASSUME TypeOK, NEW o, Answered(o)
    PROVE  /\ Troubles' \in {Troubles, Troubles + 1}
           /\ o # "ok" => Troubles' = Troubles + 1
  BY TroublesAre

(* The start ends, or goes on to its cleanup. *)
LEMMA Falls ==
    ASSUME NEW a \in Actors, run'[a].step \in Cleans \cup {"rest"}
    PROVE  Stepping(a)
  BY DEF Stepping, Cleans, Before, Planting, Naming, Taken, InSpace

(* A command that reads, or that changed nothing. *)
LEMMA Looks ==
    ASSUME NEW a \in Actors, UNCHANGED <<herdr, tree, branches, memory>>,
           \A b \in Actors \ {a} : run'[b] = run[b],
           Troubles' \in {Troubles, Troubles + 1}
    PROVE  Worldly(a)
  BY DEF Worldly, Branching, SameBranches, herdr, branches

LEMMA StillChosen ==
    ASSUME NEW a \in Actors, Still(run'[a], run[a]),
           run[a].step \notin {"rest", "agent", "prompt"}, run'[a].step # "prompt"
    PROVE  Chosen(a)
  BY DEF Still, Chosen

LEMMA RouteCloseMoves ==
    ASSUME NEW a \in Actors, IInv, RouteClose(a)
    PROVE  Moves(a)
  <1> DEFINE s == FirstStep(run[a])
  <1>1. /\ run[a].step = "route" /\ UNCHANGED <<tree, branches, memory>>
        /\ Becomes(a, [run[a] EXCEPT !.step = s]) /\ TypeOK
        /\ Troubles' \in {Troubles, Troubles + 1}
    BY AnswerIs DEF RouteClose, At, IInv
  <1>2. /\ Still(run'[a], run[a]) /\ run'[a].step = s
        /\ \A b \in Actors \ {a} : run'[b] = run[b]
    BY <1>1, StepIs
  <1>3. s \in {"branch", "list"} /\ (s = "branch" <=> run[a].worktree /\ ~run[a].stored)
    BY DEF FirstStep
  <1>4. Chosen(a)
    BY <1>1, <1>2, <1>3, StillChosen
  <1>5. Stepping(a)
    BY <1>1, <1>2, <1>3 DEF Stepping, Still, Before, Planting, Naming, Taken, InSpace
  <1>6. tabs' \subseteq tabs
    BY DEF RouteClose, Without, herdr
  <1>7. Worldly(a)
    BY <1>1, <1>2, <1>6 DEF Worldly, Branching, SameBranches, branches
  <1>8. QED
    BY <1>4, <1>5, <1>7 DEF Moves

LEMMA ReadWorkspacesMoves ==
    ASSUME NEW a \in Actors, IInv, ReadWorkspaces(a)
    PROVE  Moves(a)
  <1>1. /\ run[a].step = "list" /\ UNCHANGED <<herdr, tree, branches, memory>> /\ TypeOK
        /\ Troubles' \in {Troubles, Troubles + 1}
    BY AnswerIs DEF ReadWorkspaces, At, IInv, world
  <1>2. \/ Becomes(a, Fails(run[a]))
        \/ run[a].stored /\ \E x : Becomes(a, [run[a] EXCEPT !.step = "tab", !.space = x])
        \/ ~run[a].worktree /\ \E x : Becomes(a, [run[a] EXCEPT !.step = "tab", !.space = x])
        \/ run[a].worktree /\ Becomes(a, [run[a] EXCEPT !.step = "open"])
        \/ ~run[a].worktree /\ Becomes(a, [run[a] EXCEPT !.step = "space"])
    BY DEF ReadWorkspaces
  <1>3. Worldly(a)
    BY <1>1, <1>2, RunIs, Looks
  <1>4. CASE Becomes(a, Fails(run[a]))
    BY <1>1, <1>3, <1>4, FailIs, StillChosen, Falls DEF Moves, Cleans
  <1>5. ASSUME NEW x, Becomes(a, [run[a] EXCEPT !.step = "tab", !.space = x]),
               run[a].stored \/ ~run[a].worktree
        PROVE  Moves(a)
    <2>1. run'[a] = [run[a] EXCEPT !.step = "tab", !.space = x] /\ run[a] \in Runs
      BY <1>1, <1>5, RunIs
    <2>2. PICK q : q = run'[a] OBVIOUS
    <2>3. /\ q.n = run[a].n /\ q.worktree = run[a].worktree /\ q.stored = run[a].stored
          /\ q.continues = run[a].continues /\ q.met = run[a].met /\ q.builds = run[a].builds
          /\ q.made = run[a].made /\ q.handed = run[a].handed /\ q.step = "tab"
      BY <2>1, <2>2 DEF Runs
    <2>4. Chosen(a)
      BY <1>1, <2>2, <2>3 DEF Chosen
    <2>5. Stepping(a)
      BY <1>1, <1>5, <2>2, <2>3 DEF Stepping, Before, Planting, Naming, Taken, InSpace
    <2>6. QED
      BY <1>3, <2>4, <2>5 DEF Moves
  <1>6. ASSUME NEW s \in {"open", "space"}, Becomes(a, [run[a] EXCEPT !.step = s]),
               s = "open" => run[a].worktree
        PROVE  Moves(a)
    <2>1. Still(run'[a], run[a]) /\ run'[a].step = s
      BY <1>1, <1>6, StepIs
    <2>2. Chosen(a)
      BY <1>1, <2>1, StillChosen
    <2>3. Stepping(a)
      BY <1>1, <1>6, <2>1 DEF Stepping, Still, Before, Planting, Naming, Taken, InSpace
    <2>4. QED
      BY <1>3, <2>2, <2>3 DEF Moves
  <1>7. QED
    BY <1>2, <1>4, <1>5, <1>6

(* On to another step, with what the start remembers. *)
LEMMA OnMoves ==
    ASSUME NEW a \in Actors, TypeOK, NEW s, Becomes(a, [run[a] EXCEPT !.step = s]),
           run[a].step \notin {"rest", "agent", "prompt"}, s # "prompt",
           Worldly(a), a \in Tickets => Stepping(a)
    PROVE  Moves(a)
  BY StepIs, StillChosen DEF Moves

LEMMA FailMoves ==
    ASSUME NEW a \in Actors, TypeOK, Becomes(a, Fails(run[a])),
           run[a].step \notin {"rest", "agent", "prompt"}, Worldly(a)
    PROVE  Moves(a)
  BY FailIs, StillChosen, Falls DEF Moves, Cleans

(* To build the branch. *)
LEMMA BuildMoves ==
    ASSUME NEW a \in Actors, TypeOK, Worldly(a), run[a].step \in {"branch", "remote"},
           Becomes(a, [run[a] EXCEPT !.step = "create", !.builds = TRUE]),
           a \in Tickets => /\ At(a, "remote") /\ UNCHANGED branches
                            /\ remote[a] = 0 \/ Troubles' = Troubles + 1
    PROVE  Moves(a)
  <1> SUFFICES ASSUME a \in Tickets PROVE Chosen(a) /\ Stepping(a)
    BY DEF Moves
  <1>1. PICK q : q = run'[a]
    OBVIOUS
  <1>2. q = [run[a] EXCEPT !.step = "create", !.builds = TRUE] /\ run[a] \in Runs
    BY <1>1, RunIs
  <1>3. /\ q.n = run[a].n /\ q.worktree = run[a].worktree /\ q.stored = run[a].stored
        /\ q.continues = run[a].continues /\ q.met = run[a].met
        /\ q.made = run[a].made /\ q.handed = run[a].handed /\ q.step = "create"
    BY <1>2 DEF Runs
  <1>4. run[a].step = "remote" /\ SameBranches(a) /\ remote'[a] = remote[a]
    BY DEF At, branches, SameBranches
  <1>5. Chosen(a)
    BY <1>1, <1>3, <1>4 DEF Chosen, At
  <1>6. Stepping(a)
    BY <1>1, <1>3, <1>4 DEF Stepping, Before, Planting, Naming, Taken, InSpace
  <1>7. QED
    BY <1>5, <1>6

LEMMA CheckBranchMoves ==
    ASSUME NEW a \in Actors, IInv, CheckBranch(a)
    PROVE  Moves(a)
  <1>1. /\ run[a].step = "branch" /\ UNCHANGED <<herdr, tree, branches, memory>> /\ TypeOK
        /\ Troubles' \in {Troubles, Troubles + 1}
    BY AnswerIs DEF CheckBranch, At, IInv, world
  <1>2. \/ Becomes(a, Fails(run[a]))
        \/ local[a].tip > 0 /\ Becomes(a, [run[a] EXCEPT !.step = "open"])
        \/ Becomes(a, [run[a] EXCEPT !.step = "remote"])
        \/ a \notin Tickets /\ Becomes(a, [run[a] EXCEPT !.step = "create", !.builds = TRUE])
    BY DEF CheckBranch
  <1>3. Worldly(a)
    BY <1>1, <1>2, RunIs, Looks
  <1>4. ASSUME NEW s \in {"open", "remote"}, Becomes(a, [run[a] EXCEPT !.step = s]),
               s = "open" => local[a].tip > 0
        PROVE  Stepping(a)
    <2>1. Still(run'[a], run[a]) /\ run'[a].step = s
      BY <1>1, <1>4, StepIs
    <2>2. local'[a] = local[a]
      BY <1>1 DEF branches
    <2>3. QED
      BY <1>1, <1>4, <2>1, <2>2 DEF Stepping, Still, Before, Planting, Naming, Taken, InSpace
  <1>5. QED
    BY <1>1, <1>2, <1>3, <1>4, FailMoves, OnMoves, BuildMoves

LEMMA CheckRemoteMoves ==
    ASSUME NEW a \in Actors, IInv, CheckRemote(a)
    PROVE  Moves(a)
  <1>1. /\ run[a].step = "remote" /\ UNCHANGED <<herdr, tree, branches, memory>> /\ TypeOK
        /\ Troubles' \in {Troubles, Troubles + 1} /\ At(a, "remote")
    BY AnswerIs DEF CheckRemote, At, IInv, world
  <1>2. remote[a] \in Nat
    BY <1>1, StartAssumption DEF TypeOK
  <1>3. \/ Becomes(a, [run[a] EXCEPT !.step = "fetch"])
        \/ /\ Becomes(a, [run[a] EXCEPT !.step = "create", !.builds = TRUE])
           /\ remote[a] = 0 \/ Troubles' = Troubles + 1
    BY <1>1, <1>2, AnswerIs DEF CheckRemote
  <1>4. Worldly(a)
    BY <1>1, <1>3, RunIs, Looks
  <1>5. ASSUME Becomes(a, [run[a] EXCEPT !.step = "fetch"]) PROVE Stepping(a)
    <2>1. Still(run'[a], run[a]) /\ run'[a].step = "fetch"
      BY <1>1, <1>5, StepIs
    <2>2. QED
      BY <1>1, <2>1 DEF Stepping, Still, Before, Planting, Naming, Taken, InSpace
  <1>6. QED
    BY <1>1, <1>3, <1>4, <1>5, OnMoves, BuildMoves

LEMMA FindWorktreeMoves ==
    ASSUME NEW a \in Actors, IInv, FindWorktree(a)
    PROVE  Moves(a)
  <1>1. /\ run[a].step = "find" /\ UNCHANGED <<herdr, tree, branches, memory>> /\ TypeOK
        /\ Troubles' \in {Troubles, Troubles + 1}
    BY AnswerIs DEF FindWorktree, At, IInv, world
  <1>2. PICK s \in {"reopen", "create"} : Becomes(a, [run[a] EXCEPT !.step = s])
    BY DEF FindWorktree
  <1>3. Worldly(a)
    BY <1>1, <1>2, RunIs, Looks
  <1>4. Stepping(a)
    <2>1. Still(run'[a], run[a]) /\ run'[a].step = s
      BY <1>1, <1>2, StepIs
    <2>2. QED
      BY <1>1, <2>1 DEF Stepping, Still, Before, Planting, Naming, Taken, InSpace
  <1>5. QED
    BY <1>1, <1>2, <1>3, <1>4, OnMoves

LEMMA CheckListedMoves ==
    ASSUME NEW a \in Actors, IInv, CheckListed(a)
    PROVE  Moves(a)
  <1>1. /\ run[a].step = "listed" /\ UNCHANGED <<herdr, tree, branches, memory>> /\ TypeOK
        /\ Troubles' \in {Troubles, Troubles + 1}
    BY AnswerIs DEF CheckListed, At, IInv, world
  <1>2. \/ Becomes(a, Fails(run[a]))
        \/ \E s \in {"push", "hold"} : Becomes(a, [run[a] EXCEPT !.step = s])
    BY DEF CheckListed
  <1>3. Worldly(a)
    BY <1>1, <1>2, RunIs, Looks
  <1>4. ASSUME NEW s \in {"push", "hold"}, Becomes(a, [run[a] EXCEPT !.step = s])
        PROVE  Stepping(a)
    <2>1. Still(run'[a], run[a]) /\ run'[a].step = s
      BY <1>1, <1>4, StepIs
    <2>2. QED
      BY <1>1, <2>1 DEF Stepping, Still, Before, Planting, Naming, Taken, InSpace
  <1>5. QED
    BY <1>1, <1>2, <1>3, <1>4, OnMoves, FailMoves

LEMMA ListPullRequestsMoves ==
    ASSUME NEW a \in Actors, IInv, ListPullRequests(a)
    PROVE  Moves(a)
  <1>1. /\ run[a].step = "pulls" /\ UNCHANGED <<herdr, tree, branches, memory>> /\ TypeOK
        /\ Troubles' \in {Troubles, Troubles + 1}
    BY AnswerIs DEF ListPullRequests, At, IInv, world
  <1>2. drafts[a] = 0 \/ drafts[a] > 0
    <2>1. drafts[a] \in 0..2
      BY <1>1 DEF TypeOK
    <2>2. QED
      BY <2>1
  <1>3. \/ Becomes(a, Fails(run[a]))
        \/ Becomes(a, [run[a] EXCEPT !.step = "agent"])
        \/ drafts[a] = 0 /\ Becomes(a, [run[a] EXCEPT !.step = "draft"])
    BY <1>2 DEF ListPullRequests
  <1>4. Worldly(a)
    BY <1>1, <1>3, RunIs, Looks
  <1>5. ASSUME NEW s \in {"agent", "draft"}, Becomes(a, [run[a] EXCEPT !.step = s]),
               s = "draft" => drafts[a] = 0
        PROVE  Stepping(a)
    <2>1. Still(run'[a], run[a]) /\ run'[a].step = s
      BY <1>1, <1>5, StepIs
    <2>2. QED
      BY <1>1, <1>5, <2>1 DEF Stepping, Still, Before, Planting, Naming, Taken, InSpace
  <1>6. QED
    BY <1>1, <1>3, <1>4, <1>5, OnMoves, FailMoves

LEMMA Branches ==
    ASSUME NEW a \in Actors, UNCHANGED <<herdr, tree, memory>>, Branching(a),
           \A b \in Actors \ {a} : /\ run'[b] = run[b] /\ local'[b] = local[b]
                                   /\ remote'[b] = remote[b],
           Troubles' \in {Troubles, Troubles + 1}
    PROVE  Worldly(a)
  BY DEF Worldly, herdr

LEMMA FetchBranchMoves ==
    ASSUME NEW a \in Actors, IInv, FetchBranch(a)
    PROVE  Moves(a)
  <1>1. PICK o \in {"ok", "refused", "lost"} :
          /\ Answered(o)
          /\ local' = IF Takes(o) THEN [local EXCEPT ![a] = [tip |-> remote[a], by |-> 0]] ELSE local
          /\ Becomes(a, IF o = "ok" THEN [run[a] EXCEPT !.step = "open"] ELSE Fails(run[a]))
    BY DEF FetchBranch
  <1>2. /\ run[a].step = "fetch" /\ At(a, "fetch") /\ UNCHANGED <<herdr, tree, remote, memory>>
        /\ TypeOK /\ Troubles' \in {Troubles, Troubles + 1} /\ remote[a] > 0
    BY <1>1, AnswerIs DEF FetchBranch, At, IInv, Sound, Stepped
  <1>3. /\ \A b \in Actors \ {a} : local'[b] = local[b]
        /\ IF Takes(o) THEN local'[a].tip = remote[a] ELSE local'[a] = local[a]
    BY <1>1, <1>2 DEF TypeOK
  <1>4. Worldly(a)
    BY <1>1, <1>2, <1>3, RunIs, Branches DEF Branching, SameBranches
  <1>5. CASE o = "ok"
    <2>1. Still(run'[a], run[a]) /\ run'[a].step = "open"
      BY <1>1, <1>2, <1>5, StepIs
    <2>2. local'[a].tip > 0
      BY <1>2, <1>3, <1>5 DEF Takes
    <2>3. Stepping(a)
      BY <1>2, <2>1, <2>2 DEF Stepping, Still, Before, Planting, Naming, Taken, InSpace
    <2>4. QED
      BY <1>1, <1>2, <1>4, <1>5, <2>3, OnMoves
  <1>6. CASE o # "ok"
    BY <1>1, <1>2, <1>4, <1>6, FailMoves
  <1>7. QED
    BY <1>5, <1>6

LEMMA HoldBranchMoves ==
    ASSUME NEW a \in Actors, IInv, HoldBranch(a)
    PROVE  Moves(a)
  <1>1. PICK o \in {"ok", "refused", "lost"} :
          IF local[a].tip = 0
          THEN o = "ok" /\ Becomes(a, Fails(run[a])) /\ UNCHANGED <<local, spent>>
          ELSE /\ Answered(o)
               /\ local' = IF Takes(o) THEN [local EXCEPT ![a].tip = Lower(@ + 1, MaxTip)] ELSE local
               /\ Becomes(a, IF o = "ok" THEN [run[a] EXCEPT !.step = "push"] ELSE Fails(run[a]))
    BY DEF HoldBranch
  <1>2. /\ run[a].step = "hold" /\ UNCHANGED <<herdr, tree, remote, memory>> /\ TypeOK
        /\ Troubles' \in {Troubles, Troubles + 1} /\ local[a].tip \in Nat
    <2>1. /\ run[a].step = "hold" /\ UNCHANGED <<herdr, tree, remote, memory>> /\ TypeOK
      BY DEF HoldBranch, At, IInv
    <2>2. local[a].tip \in Nat
      BY <2>1, StartAssumption DEF TypeOK
    <2>3. QED
      BY <1>1, <2>1, <2>2, AnswerIs, TroublesAre
  <1>3. /\ \A b \in Actors \ {a} : local'[b] = local[b]
        /\ \/ local'[a] = local[a]
           \/ local[a].tip > 0 /\ local'[a].tip = Lower(local[a].tip + 1, MaxTip)
    <2>1. CASE UNCHANGED local
      BY <2>1
    <2>2. CASE local[a].tip > 0 /\ local' = [local EXCEPT ![a].tip = Lower(@ + 1, MaxTip)]
      BY <1>2, <2>2 DEF TypeOK
    <2>3. QED
      BY <1>1, <1>2, <2>1, <2>2
  <1>4. Worldly(a)
    BY <1>1, <1>2, <1>3, RunIs, Branches DEF Branching, SameBranches
  <1>5. ASSUME Becomes(a, [run[a] EXCEPT !.step = "push"]) PROVE Stepping(a)
    <2>1. Still(run'[a], run[a]) /\ run'[a].step = "push"
      BY <1>2, <1>5, StepIs
    <2>2. QED
      BY <1>2, <2>1 DEF Stepping, Still, Before, Planting, Naming, Taken, InSpace
  <1>6. QED
    BY <1>1, <1>2, <1>4, <1>5, OnMoves, FailMoves

LEMMA OpenDraftMoves ==
    ASSUME NEW a \in Actors, IInv, OpenDraft(a)
    PROVE  Moves(a)
  <1>1. /\ run[a].step = "draft" /\ UNCHANGED <<herdr, tree, local, remote, memory>> /\ TypeOK
        /\ Troubles' \in {Troubles, Troubles + 1}
    BY AnswerIs DEF OpenDraft, At, IInv
  <1>2. \/ Becomes(a, Fails(run[a]))
        \/ Becomes(a, [run[a] EXCEPT !.step = "agent"])
    BY DEF OpenDraft
  <1>3. Worldly(a)
    BY <1>1, <1>2, RunIs, Branches DEF Branching, SameBranches
  <1>4. ASSUME Becomes(a, [run[a] EXCEPT !.step = "agent"]) PROVE Stepping(a)
    <2>1. Still(run'[a], run[a]) /\ run'[a].step = "agent"
      BY <1>1, <1>4, StepIs
    <2>2. QED
      BY <1>1, <2>1 DEF Stepping, Still, Before, Planting, Naming, Taken, InSpace
  <1>5. QED
    BY <1>1, <1>2, <1>3, <1>4, OnMoves, FailMoves

LEMMA MoveLeftoverMoves ==
    ASSUME NEW a \in Actors, IInv, MoveLeftover(a)
    PROVE  Moves(a)
  <1>1. /\ run[a].step = "aside" /\ At(a, "aside") /\ UNCHANGED <<herdr, branches, memory>>
        /\ TypeOK /\ Troubles' \in {Troubles, Troubles + 1}
    BY AnswerIs DEF MoveLeftover, At, IInv
  <1>2. \/ Becomes(a, Fails(run[a])) /\ UNCHANGED tree
        \/ /\ tree[a].is = "leftover" /\ tree' = [tree EXCEPT ![a].is = "none"]
           /\ Becomes(a, [run[a] EXCEPT !.step = "again"])
    BY DEF MoveLeftover
  <1>3. \A b \in Actors \ {a} : tree'[b] = tree[b]
    BY <1>1, <1>2 DEF TypeOK
  <1>4. Worldly(a)
    BY <1>1, <1>2, <1>3, RunIs DEF Worldly, Branching, SameBranches, herdr, branches
  <1>5. ASSUME Becomes(a, [run[a] EXCEPT !.step = "again"]) PROVE Stepping(a)
    <2>1. Still(run'[a], run[a]) /\ run'[a].step = "again"
      BY <1>1, <1>5, StepIs
    <2>2. QED
      BY <1>1, <2>1 DEF Stepping, Still, Before, Planting, Naming, Taken, InSpace
  <1>6. QED
    BY <1>1, <1>2, <1>4, <1>5, OnMoves, FailMoves

LEMMA PushBranchMoves ==
    ASSUME NEW a \in Actors, IInv, PushBranch(a)
    PROVE  Moves(a)
  <1>1. /\ run[a].step = "push" /\ UNCHANGED <<herdr, tree, local, memory>> /\ TypeOK
        /\ run[a] \in Runs
    BY DEF PushBranch, At, IInv, TypeOK
  <1>2. CASE Becomes(a, Fails(run[a])) /\ UNCHANGED <<remote, spent>>
    <2>1. Worldly(a)
      BY <1>1, <1>2, RunIs, TroublesAre, Branches DEF Branching, SameBranches
    <2>2. QED
      BY <1>1, <1>2, <2>1, FailMoves
  <1>3. CASE \E o \in {"ok", "refused", "lost"}, raised \in BOOLEAN :
            /\ local[a].tip > 0 /\ (raised => o # "ok")
            /\ Answered(o)
            /\ remote' = IF Takes(o) THEN [remote EXCEPT ![a] = local[a].tip] ELSE remote
            /\ Becomes(a, IF o = "ok" THEN [HandsOver(run[a]) EXCEPT !.step = "pulls"]
                          ELSE Fails(IF raised THEN HandsOver(run[a]) ELSE run[a]))
    <2>1. PICK o \in {"ok", "refused", "lost"}, raised \in BOOLEAN :
            /\ local[a].tip > 0 /\ (raised => o # "ok")
            /\ Answered(o)
            /\ remote' = IF Takes(o) THEN [remote EXCEPT ![a] = local[a].tip] ELSE remote
            /\ Becomes(a, IF o = "ok" THEN [HandsOver(run[a]) EXCEPT !.step = "pulls"]
                          ELSE Fails(IF raised THEN HandsOver(run[a]) ELSE run[a]))
      BY <1>3
    <2>2. PICK r \in Runs : r = HandsOver(run[a])
      BY <1>1 DEF HandsOver, Runs
    <2>3. /\ r.n = run[a].n /\ r.worktree = run[a].worktree /\ r.stored = run[a].stored
          /\ r.continues = run[a].continues /\ r.met = run[a].met /\ r.builds = run[a].builds
          /\ r.made = run[a].made \ {"branch"} /\ r.handed
          /\ r.space = run[a].space /\ r.tab = run[a].tab
      BY <1>1, <2>2 DEF HandsOver, Runs
    <2>4. /\ Troubles' \in {Troubles, Troubles + 1} /\ (o # "ok" => Troubles' = Troubles + 1)
          /\ \A b \in Actors \ {a} : run'[b] = run[b] /\ remote'[b] = remote[b]
          /\ IF Takes(o) THEN remote'[a] = local[a].tip ELSE remote'[a] = remote[a]
      BY <1>1, <2>1, AnswerIs, RunIs DEF TypeOK
    <2>5. CASE o = "ok"
      <3>1. run'[a] = [r EXCEPT !.step = "pulls"]
        BY <1>1, <2>1, <2>2, <2>5, RunIs
      <3>2. PICK q : q = run'[a]
        OBVIOUS
      <3>3. /\ q.n = r.n /\ q.worktree = r.worktree /\ q.stored = r.stored
            /\ q.continues = r.continues /\ q.met = r.met /\ q.builds = r.builds
            /\ q.made = r.made /\ q.handed = r.handed /\ q.space = r.space /\ q.tab = r.tab
            /\ q.step = "pulls"
        BY <2>2, <3>1, <3>2 DEF Runs
      <3>4. Worldly(a)
        BY <1>1, <2>1, <2>3, <2>4, <2>5, <3>2, <3>3, Branches DEF Branching, SameBranches
      <3>5. Chosen(a)
        BY <1>1, <2>3, <3>2, <3>3 DEF Chosen
      <3>6. Stepping(a)
        BY <1>1, <2>3, <3>2, <3>3 DEF Stepping, Before, Planting, Naming, Taken, InSpace
      <3>7. QED
        BY <3>4, <3>5, <3>6 DEF Moves
    <2>6. CASE o # "ok"
      <3>1. Worldly(a)
        BY <1>1, <2>1, <2>4, <2>6, Branches DEF Branching, SameBranches
      <3>2. CASE raised
        <4>1. run'[a] = Fails(r)
          BY <1>1, <2>1, <2>2, <2>6, <3>2, RunIs
        <4>2. Cleaning(r.made) \in Cleans \cup {"rest"}
          BY CleaningIs DEF Cleans
        <4>3. PICK q : q = run'[a]
          OBVIOUS
        <4>4. /\ q.n = r.n /\ q.worktree = r.worktree /\ q.stored = r.stored
              /\ q.continues = r.continues /\ q.met = r.met /\ q.builds = r.builds
              /\ q.made = r.made /\ q.handed = r.handed /\ q.step \in Cleans \cup {"rest"}
          BY <2>2, <4>1, <4>2, <4>3 DEF Runs, Fails
        <4>5. Chosen(a)
          BY <1>1, <2>3, <4>3, <4>4 DEF Chosen, Cleans
        <4>6. QED
          BY <3>1, <4>3, <4>4, <4>5, Falls DEF Moves
      <3>3. CASE ~raised
        BY <1>1, <2>1, <2>6, <3>1, <3>3, FailMoves
      <3>4. QED
        BY <3>2, <3>3
    <2>7. QED
      BY <2>5, <2>6
  <1>4. QED
    BY <1>2, <1>3 DEF PushBranch

--------------------------------------------------------------------------------
(* The commands that make something. *)

(* q is a record of the same start as r. *)
Same(q, r) ==
    /\ q.n = r.n /\ q.worktree = r.worktree /\ q.stored = r.stored
    /\ q.continues = r.continues /\ q.met = r.met /\ q.builds = r.builds
    /\ q.handed = r.handed

Fits(parts) == parts \subseteq Parts
LEMMA MadeIs ==
    ASSUME NEW r \in Runs, NEW o, NEW known, NEW parts, Fits(known), Fits(parts),
           NEW g, g = Makes(r, o, known, parts)
    PROVE  /\ g \in Runs /\ Same(g, r) /\ g.made = r.made \cup known
           /\ g.space = r.space /\ g.tab = r.tab
  <1>1. (IF Takes(o) THEN parts \ known ELSE {}) \in SUBSET Parts /\ known \in SUBSET Parts
    BY DEF Fits
  <1>2. QED
    BY <1>1 DEF Makes, Runs, Same

LEMMA AfterIs ==
    ASSUME NEW a \in Actors, TypeOK, NEW g \in Runs
    PROVE  /\ Becomes(a, Fails(g)) =>
                /\ Same(run'[a], g) /\ run'[a].made = g.made
                /\ run'[a].step \in Cleans \cup {"rest"}
           /\ Becomes(a, Stands([g EXCEPT !.space = Id(a), !.tab = Root(a)])) =>
                /\ Same(run'[a], g) /\ run'[a].made = g.made
                /\ run'[a].step \in {"listed", "agent"}
                /\ run'[a].space = Id(a) /\ run'[a].tab = Root(a)
           /\ \A y \in Handles :
                Becomes(a, Stands([g EXCEPT !.tab = y])) =>
                  /\ Same(run'[a], g) /\ run'[a].made = g.made
                  /\ run'[a].step \in {"listed", "agent"}
                  /\ run'[a].space = g.space /\ run'[a].tab = y
           /\ \A x \in Makers : Becomes(a, [g EXCEPT !.step = "tab", !.space = x]) =>
                Same(run'[a], g) /\ run'[a].made = g.made /\ run'[a].step = "tab"
  <1>1. \A q : Becomes(a, q) => run'[a] = q
    BY RunIs
  <1>2. ASSUME Becomes(a, Fails(g))
        PROVE  /\ Same(run'[a], g) /\ run'[a].made = g.made
               /\ run'[a].step \in Cleans \cup {"rest"}
    <2>1. Cleaning(g.made) \in Cleans \cup {"rest"}
      BY CleaningIs DEF Cleans
    <2>2. run'[a] = Fails(g)
      BY <1>1, <1>2
    <2>3. QED
      BY <2>1, <2>2 DEF Fails, Same, Runs
  <1>3. ASSUME Becomes(a, Stands([g EXCEPT !.space = Id(a), !.tab = Root(a)]))
        PROVE  /\ Same(run'[a], g) /\ run'[a].made = g.made
               /\ run'[a].step \in {"listed", "agent"}
               /\ run'[a].space = Id(a) /\ run'[a].tab = Root(a)
    <2>1. PICK h \in Runs : h = [g EXCEPT !.space = Id(a), !.tab = Root(a)]
      BY IdFacts, OwnTabs DEF Runs
    <2>2. Same(h, g) /\ h.made = g.made /\ h.space = Id(a) /\ h.tab = Root(a)
      BY <2>1 DEF Same, Runs
    <2>3. run'[a] = Stands(h)
      BY <1>1, <1>3, <2>1
    <2>4. QED
      BY <2>2, <2>3 DEF Stands, Same, Runs
  <1>4. ASSUME NEW y \in Handles, Becomes(a, Stands([g EXCEPT !.tab = y]))
        PROVE  /\ Same(run'[a], g) /\ run'[a].made = g.made
               /\ run'[a].step \in {"listed", "agent"}
               /\ run'[a].space = g.space /\ run'[a].tab = y
    <2>1. PICK h \in Runs : h = [g EXCEPT !.tab = y]
      BY DEF Runs
    <2>2. Same(h, g) /\ h.made = g.made /\ h.space = g.space /\ h.tab = y
      BY <2>1 DEF Same, Runs
    <2>3. run'[a] = Stands(h)
      BY <1>1, <1>4, <2>1
    <2>4. QED
      BY <2>2, <2>3 DEF Stands, Same, Runs
  <1>5. ASSUME NEW x \in Makers, Becomes(a, [g EXCEPT !.step = "tab", !.space = x])
        PROVE  Same(run'[a], g) /\ run'[a].made = g.made /\ run'[a].step = "tab"
    <2>1. run'[a] = [g EXCEPT !.step = "tab", !.space = x]
      BY <1>1, <1>5
    <2>2. QED
      BY <2>1 DEF Same, Runs
  <1>6. QED
    BY <1>2, <1>3, <1>4, <1>5

LEMMA SameChosen ==
    ASSUME NEW a \in Actors, Same(run'[a], run[a]),
           run'[a].made \subseteq run[a].made \cup {"space", "root", "tab"},
           run[a].step \notin {"rest", "agent", "prompt"}, run'[a].step # "prompt"
    PROVE  Chosen(a)
  BY DEF Same, Chosen

(* What is attached has a root tab without an Agent. *)
LEMMA AttachedTabs ==
    ASSUME NEW a, NEW at, Attaches(a, at)
    PROVE  \A t \in tabs' : t \in tabs \/ (t.by = Id(a) /\ t.agent = Nothing /\ t.root)
  BY DEF Attaches, NewTab

LEMMA CreateSpaceMoves ==
    ASSUME NEW a \in Actors, IInv, CreateSpace(a)
    PROVE  Moves(a)
  <1> DEFINE parts == {"space", "root"}
  <1>1. PICK o \in Answers :
          /\ Answered(o)
          /\ UNCHANGED herdr \/ Attaches(a, "checkout")
          /\ LET known == IF o \in {"ok", "partial"} THEN parts ELSE {}
                 r == Makes(run[a], o, known, parts)
             IN IF known = {} THEN Becomes(a, Fails(r))
                ELSE IF a \in Tickets
                THEN Becomes(a, [r EXCEPT !.step = "tab", !.space = Id(a)])
                ELSE IF o = "partial" THEN Becomes(a, Fails(r))
                ELSE Becomes(a, Stands([r EXCEPT !.space = Id(a), !.tab = Root(a)]))
    BY DEF CreateSpace, Attaches, Answers
  <1> DEFINE known == IF o \in {"ok", "partial"} THEN parts ELSE {}
             g == Makes(run[a], o, known, parts)
  <1>2. /\ run[a].step = "space" /\ UNCHANGED <<tree, branches, memory>> /\ TypeOK
        /\ run[a] \in Runs /\ Id(a) \in Makers /\ ~run[a].worktree
        /\ \A b \in Actors \ {a} : run'[b] = run[b]
    <2>1. run[a].step = "space" /\ UNCHANGED <<tree, branches, memory>> /\ TypeOK /\ Sound(a)
      BY DEF CreateSpace, At, IInv
    <2>2. QED
      BY <1>1, <2>1, RunIs, IdFacts DEF Sound, Stepped, At
  <1>3. Worldly(a)
    <2>1. \A t \in tabs' : t \in tabs \/ (t.by = Id(a) /\ t.agent = Nothing /\ t.root)
      BY <1>1, AttachedTabs DEF herdr
    <2>2. Troubles' \in {Troubles, Troubles + 1}
      BY <1>1, <1>2, AnswerIs
    <2>3. run[a].step \in Before
      BY <1>2 DEF Before
    <2>4. QED
      BY <1>2, <2>1, <2>2, <2>3 DEF Worldly, Branching, SameBranches, branches
  <1>4. Fits(known) /\ Fits(parts) /\ known \subseteq {"space", "root", "tab"}
    BY DEF Fits, Parts
  <1>5. g \in Runs /\ Same(g, run[a]) /\ g.made = run[a].made \cup known
    <2>1. g = Makes(run[a], o, known, parts)
      OBVIOUS
    <2> HIDE DEF parts, known, g
    <2>2. QED
      BY <1>2, <1>4, <2>1, MadeIs
  <1> HIDE DEF parts, known, g
  <1>6. SUFFICES ASSUME a \in Tickets PROVE Chosen(a) /\ Stepping(a)
    BY <1>3 DEF Moves
  <1>7. \/ Becomes(a, Fails(g))
        \/ Becomes(a, [g EXCEPT !.step = "tab", !.space = Id(a)])
    BY <1>1, <1>6 DEF known, g, parts
  <1>8. Same(run'[a], g) /\ run'[a].made = g.made /\ run'[a].step \in Cleans \cup {"rest", "tab"}
    BY <1>2, <1>5, <1>7, AfterIs
  <1>9. Same(run'[a], run[a]) /\ run'[a].made = run[a].made \cup known
    BY <1>5, <1>8 DEF Same
  <1>10. Chosen(a)
    BY <1>2, <1>4, <1>8, <1>9, SameChosen DEF Cleans
  <1>11. Stepping(a)
    <2>1. CASE run'[a].step = "tab"
      BY <1>2, <1>9, <2>1 DEF Same, Stepping, Before, Planting, Naming, Taken, InSpace
    <2>2. QED
      BY <1>8, <2>1, Falls
  <1>12. QED
    BY <1>10, <1>11

LEMMA OpenFreshTabMoves ==
    ASSUME NEW a \in Actors, IInv, OpenFreshTab(a)
    PROVE  Moves(a)
  <1>1. /\ run[a].step = "tab" /\ UNCHANGED <<tree, branches, memory>> /\ TypeOK
        /\ run[a] \in Runs /\ Fresh(a) \in Handles
    BY OwnTabs DEF OpenFreshTab, At, IInv, TypeOK
  <1>2. CASE Becomes(a, Fails(run[a])) /\ UNCHANGED <<herdr, spent>>
    <2>1. Worldly(a)
      BY <1>1, <1>2, RunIs, TroublesAre, Looks
    <2>2. QED
      BY <1>1, <1>2, <2>1, FailMoves
  <1>3. CASE \E o \in Answers :
            LET known == IF o \in {"ok", "partial"} THEN {"tab"} ELSE {}
                r == Makes(run[a], o, known, {"tab"})
            IN /\ Answered(o)
               /\ tabs' = IF Takes(o) THEN tabs \cup {NewTab(a, FALSE, run[a].space)} ELSE tabs
               /\ Becomes(a, IF o = "ok" THEN Stands([r EXCEPT !.tab = Fresh(a)]) ELSE Fails(r))
    <2>1. PICK o \in Answers :
            LET known == IF o \in {"ok", "partial"} THEN {"tab"} ELSE {}
                r == Makes(run[a], o, known, {"tab"})
            IN /\ Answered(o)
               /\ tabs' = IF Takes(o) THEN tabs \cup {NewTab(a, FALSE, run[a].space)} ELSE tabs
               /\ Becomes(a, IF o = "ok" THEN Stands([r EXCEPT !.tab = Fresh(a)]) ELSE Fails(r))
      BY <1>3
    <2> DEFINE parts == {"tab"}
               known == IF o \in {"ok", "partial"} THEN {"tab"} ELSE {}
               g == Makes(run[a], o, known, parts)
    <2>2. Fits(known) /\ Fits(parts) /\ known \subseteq {"space", "root", "tab"}
      BY DEF Fits, Parts
    <2>3. g \in Runs /\ Same(g, run[a]) /\ g.made = run[a].made \cup known /\ g.space = run[a].space
      <3>1. g = Makes(run[a], o, known, parts)
        OBVIOUS
      <3>2. run[a] \in Runs
        BY <1>1
      <3> HIDE DEF known, parts, g
      <3>3. QED
        BY <2>2, <3>1, <3>2, MadeIs
    <2>4. Becomes(a, Fails(g)) \/ Becomes(a, Stands([g EXCEPT !.tab = Fresh(a)]))
      BY <2>1
    <2> HIDE DEF known, parts, g
    <2>5. Worldly(a)
      <3>1. \A t \in tabs' : \/ t \in tabs
                             \/ t.by = Id(a) /\ t.agent = Nothing /\ t.space = run[a].space
        BY <2>1 DEF NewTab
      <3>2. \A b \in Actors \ {a} : run'[b] = run[b]
        BY <1>1, <2>4, RunIs
      <3>3. Troubles' \in {Troubles, Troubles + 1}
        BY <1>1, <2>1, AnswerIs
      <3>4. run[a].step \in Before
        BY <1>1 DEF Before
      <3>5. QED
        BY <1>1, <3>1, <3>2, <3>3, <3>4 DEF Worldly, Branching, SameBranches, branches
    <2>6. /\ Same(run'[a], g) /\ run'[a].made = g.made
          /\ \/ run'[a].step \in Cleans \cup {"rest"}
             \/ /\ run'[a].step \in {"listed", "agent"}
                /\ run'[a].space = run[a].space /\ run'[a].tab = Fresh(a)
      BY <1>1, <2>3, <2>4, AfterIs
    <2>7. Same(run'[a], run[a]) /\ run'[a].made = run[a].made \cup known
      BY <2>3, <2>6 DEF Same
    <2>8. Chosen(a)
      BY <1>1, <2>2, <2>6, <2>7, SameChosen DEF Cleans
    <2>9. Stepping(a)
      <3>1. CASE run'[a].step \in {"listed", "agent"}
        BY <1>1, <2>6, <2>7, <3>1
           DEF Same, Stepping, Before, Planting, Naming, Taken, InSpace, Cleans
      <3>2. QED
        BY <2>6, <3>1, Falls
    <2>10. QED
      BY <2>5, <2>8, <2>9 DEF Moves
  <1>4. QED
    BY <1>2, <1>3 DEF OpenFreshTab, Answers

LEMMA OpenWorktreeMoves ==
    ASSUME NEW a \in Actors, IInv, OpenWorktree(a)
    PROVE  Moves(a)
  <1> DEFINE there == tree[a].is \in {"stands", "other"}
  <1>1. /\ run[a].step \in Planting /\ UNCHANGED <<tree, branches, memory>> /\ TypeOK
        /\ run[a].step \notin {"rest", "agent", "prompt"}
        /\ run[a] \in Runs /\ Root(a) \in Handles /\ Id(a) \in Makers
    BY OwnTabs, IdFacts DEF OpenWorktree, Planting, IInv
  <1>2. \/ /\ UNCHANGED <<herdr, spent>>
           /\ \E s \in {"find", "create"} : Becomes(a, [run[a] EXCEPT !.step = s])
        \/ there /\ OpenedWorktree(a)
    <2>1. CASE At(a, "open")
      BY <2>1 DEF OpenWorktree
    <2>2. CASE ~At(a, "open")
      BY <2>2 DEF OpenWorktree
    <2>3. QED
      BY <2>1, <2>2
  <1>3. CASE /\ UNCHANGED <<herdr, spent>>
             /\ \E s \in {"find", "create"} : Becomes(a, [run[a] EXCEPT !.step = s])
    <2>1. PICK s \in {"find", "create"} : Becomes(a, [run[a] EXCEPT !.step = s])
      BY <1>3
    <2>2. Worldly(a)
      BY <1>1, <1>3, <2>1, RunIs, TroublesAre, Looks
    <2>3. Still(run'[a], run[a]) /\ run'[a].step = s
      BY <1>1, <2>1, StepIs
    <2>4. Stepping(a)
      BY <1>1, <2>3 DEF Stepping, Still, Before, Planting, Naming, Taken, InSpace
    <2>5. QED
      BY <1>1, <2>1, <2>2, <2>4, OnMoves
  <1>4. CASE there /\ OpenedWorktree(a)
    <2> DEFINE parts == {"space"}
    <2>1. PICK o \in Answers :
            LET known == IF o \in {"ok", "partial"} THEN parts ELSE {}
                r == Makes(run[a], o, known, parts)
            IN /\ Answered(o)
               /\ \/ /\ UNCHANGED herdr
                     /\ \/ \E s \in Standing(a) :
                             Becomes(a, [run[a] EXCEPT !.step = "tab", !.space = s.by])
                        \/ Becomes(a, Fails(run[a]))
                  \/ /\ UNCHANGED herdr \/ Attaches(a, a)
                     /\ \/ Becomes(a, Stands([r EXCEPT !.space = Id(a), !.tab = Root(a)]))
                        \/ Becomes(a, Fails(r))
      BY <1>4 DEF OpenedWorktree, Attaches, Answers
    <2> DEFINE known == IF o \in {"ok", "partial"} THEN parts ELSE {}
               g == Makes(run[a], o, known, parts)
    <2>2. Fits(known) /\ Fits(parts) /\ known \subseteq {"space", "root", "tab"}
      BY DEF Fits, Parts
    <2>3. g \in Runs /\ Same(g, run[a]) /\ g.made = run[a].made \cup known
      <3>1. g = Makes(run[a], o, known, parts)
        OBVIOUS
      <3>2. run[a] \in Runs
        BY <1>1
      <3> HIDE DEF known, parts, g
      <3>3. QED
        BY <2>2, <3>1, <3>2, MadeIs
    <2>4. /\ UNCHANGED herdr \/ Attaches(a, a)
          /\ \/ \E s \in Standing(a) : Becomes(a, [run[a] EXCEPT !.step = "tab", !.space = s.by])
             \/ Becomes(a, Fails(run[a]))
             \/ Becomes(a, Stands([g EXCEPT !.space = Id(a), !.tab = Root(a)]))
             \/ Becomes(a, Fails(g))
      BY <2>1
    <2>5. Answered(o)
      BY <2>1
    <2> HIDE DEF known, parts, g
    <2>6. Worldly(a)
      <3>1. \A t \in tabs' : t \in tabs \/ (t.by = Id(a) /\ t.agent = Nothing /\ t.root)
        BY <2>4, AttachedTabs DEF herdr
      <3>2. \A b \in Actors \ {a} : run'[b] = run[b]
        BY <1>1, <2>4, RunIs
      <3>3. Troubles' \in {Troubles, Troubles + 1}
        BY <1>1, <2>5, AnswerIs
      <3>4. run[a].step \in Before
        BY <1>1 DEF Before
      <3>5. QED
        BY <1>1, <3>1, <3>2, <3>3, <3>4 DEF Worldly, Branching, SameBranches, branches
    <2>7. \A s \in Standing(a) : s.by \in Makers
      BY <1>1 DEF Standing, TypeOK
    <2>8. /\ Same(run'[a], run[a]) /\ run'[a].made \subseteq run[a].made \cup known
          /\ \/ run'[a].step \in Cleans \cup {"rest"}
             \/ run'[a].step = "tab"
             \/ /\ run'[a].step \in {"listed", "agent"}
                /\ run'[a].space = Id(a) /\ run'[a].tab = Root(a)
      <3>1. CASE \E s \in Standing(a) : Becomes(a, [run[a] EXCEPT !.step = "tab", !.space = s.by])
        BY <1>1, <2>7, <3>1, AfterIs
      <3>2. CASE Becomes(a, Fails(run[a]))
        BY <1>1, <3>2, AfterIs
      <3>3. CASE Becomes(a, Stands([g EXCEPT !.space = Id(a), !.tab = Root(a)]))
        BY <1>1, <2>3, <3>3, AfterIs DEF Same
      <3>4. CASE Becomes(a, Fails(g))
        BY <1>1, <2>3, <3>4, AfterIs DEF Same
      <3>5. QED
        BY <2>4, <3>1, <3>2, <3>3, <3>4
    <2>9. Chosen(a)
      BY <1>1, <2>2, <2>8, SameChosen DEF Cleans
    <2>10. Stepping(a)
      <3>1. CASE run'[a].step \in {"tab", "listed", "agent"}
        <4>1. tree'[a].is \in {"stands", "other"} /\ run[a].step \in Before
          BY <1>1, <1>4 DEF Before
        <4>2. QED
          BY <1>1, <2>8, <3>1, <4>1
             DEF Same, Stepping, Before, Planting, Naming, Taken, InSpace, Cleans
      <3>2. QED
        BY <2>8, <3>1, Falls
    <2>11. QED
      BY <2>6, <2>9, <2>10 DEF Moves
  <1>5. QED
    BY <1>2, <1>3, <1>4

LEMMA CreateWorktreeMoves ==
    ASSUME NEW a \in Actors, IInv, CreateWorktree(a)
    PROVE  Moves(a)
  <1> DEFINE parts == WorktreeParts(a)
             refused == IF At(a, "create") THEN [run[a] EXCEPT !.step = "aside"] ELSE Fails(run[a])
  <1>1. /\ run[a].step \in Planting /\ UNCHANGED <<remote, drafts, memory>> /\ TypeOK
        /\ run[a].step \in {"create", "again"}
        /\ run[a] \in Runs /\ Root(a) \in Handles /\ Id(a) \in Makers /\ run[a].n \in Nat
    BY OwnTabs, IdFacts DEF CreateWorktree, Planting, IInv
  <1>2. \/ Becomes(a, refused) /\ UNCHANGED <<herdr, tree, local, spent>>
        \/ /\ tree[a].is = "none"
           /\ \E o \in Answers :
                LET known == IF o \in {"ok", "partial"} THEN parts ELSE {}
                    r == Makes(run[a], o, known, parts)
                IN /\ Answered(o)
                   /\ IF ~Takes(o) THEN UNCHANGED <<herdr, tree, local>> ELSE Plants(a)
                   /\ \/ o = "ok" /\ Becomes(a, Stands([r EXCEPT !.space = Id(a), !.tab = Root(a)]))
                      \/ Becomes(a, Fails(r))
                      \/ Becomes(a, [r EXCEPT !.step = refused.step, !.failed = refused.failed])
    <2>1. CASE tree[a].is = "none" /\ (run[a].builds => local[a].tip = 0)
      <3>1. PICK o \in Answers :
              LET known == IF o \in {"ok", "partial"} THEN parts ELSE {}
                  r == Makes(run[a], o, known, parts)
              IN /\ Answered(o)
                 /\ IF ~Takes(o) THEN UNCHANGED <<herdr, tree, local>> ELSE Plants(a)
                 /\ Becomes(a, CASE o = "ok" -> Stands([r EXCEPT !.space = Id(a), !.tab = Root(a)])
                                 [] o = "partial" -> Fails(r)
                                 [] OTHER -> [r EXCEPT !.step = refused.step,
                                                       !.failed = refused.failed])
        BY <2>1 DEF CreateWorktree, Plants, Attaches, Answers
      <3> HIDE DEF parts, refused
      <3>2. QED
        BY <2>1, <3>1
    <2>2. CASE ~(tree[a].is = "none" /\ (run[a].builds => local[a].tip = 0))
      BY <2>2 DEF CreateWorktree
    <2>3. QED
      BY <2>1, <2>2
  <1>3. CASE Becomes(a, refused) /\ UNCHANGED <<herdr, tree, local, spent>>
    <2>1. Worldly(a)
      BY <1>1, <1>3, RunIs, TroublesAre, Looks DEF branches, Worldly, Branching, SameBranches, herdr
    <2>2. CASE Becomes(a, Fails(run[a]))
      BY <1>1, <2>1, <2>2, FailMoves
    <2>3. CASE Becomes(a, [run[a] EXCEPT !.step = "aside"])
      <3>1. Still(run'[a], run[a]) /\ run'[a].step = "aside"
        BY <1>1, <2>3, StepIs
      <3>2. Stepping(a)
        BY <1>1, <3>1 DEF Stepping, Still, Before, Planting, Naming, Taken, InSpace
      <3>3. QED
        BY <1>1, <2>1, <2>3, <3>2, OnMoves
    <2>4. QED
      BY <1>3, <2>2, <2>3
  <1>4. ASSUME tree[a].is = "none", NEW o \in Answers, NEW known, NEW g,
               known = (IF o \in {"ok", "partial"} THEN parts ELSE {}),
               g = Makes(run[a], o, known, parts), Answered(o),
               IF ~Takes(o) THEN UNCHANGED <<herdr, tree, local>> ELSE Plants(a),
               \/ o = "ok" /\ Becomes(a, Stands([g EXCEPT !.space = Id(a), !.tab = Root(a)]))
               \/ Becomes(a, Fails(g))
               \/ Becomes(a, [g EXCEPT !.step = refused.step, !.failed = refused.failed])
        PROVE  Moves(a)
    <2>1. /\ Fits(known) /\ Fits(parts)
          /\ known \subseteq {"space", "root", "tree"} \cup (IF run[a].builds THEN {"branch"} ELSE {})
      BY <1>4 DEF Fits, Parts, WorktreeParts
    <2>2. g \in Runs /\ Same(g, run[a]) /\ g.made = run[a].made \cup known
      <3> HIDE DEF parts
      <3>1. QED
        BY <1>1, <1>4, <2>1, MadeIs
    <2>3. /\ refused.step \in Cleans \cup {"rest", "aside"} /\ refused.step \in Steps
          /\ refused.failed \in BOOLEAN
      <3>1. CASE At(a, "create")
        BY <1>1, <3>1 DEF Runs, Steps
      <3>2. CASE ~At(a, "create")
        <4>1. Cleaning(run[a].made) \in Cleans \cup {"rest"} /\ Cleaning(run[a].made) \in Steps
          BY CleaningIs DEF Cleans
        <4>2. QED
          BY <1>1, <3>2, <4>1 DEF Runs, Fails
      <3>3. QED
        BY <3>1, <3>2
    <2> HIDE DEF parts, refused
    <2>4. /\ Same(run'[a], run[a]) /\ run'[a].made = run[a].made \cup known
          /\ \/ run'[a].step \in Cleans \cup {"rest", "aside"}
             \/ /\ run'[a].step \in {"listed", "agent"} /\ o = "ok"
                /\ run'[a].space = Id(a) /\ run'[a].tab = Root(a)
      <3>1. CASE o = "ok" /\ Becomes(a, Stands([g EXCEPT !.space = Id(a), !.tab = Root(a)]))
        BY <1>1, <2>2, <3>1, AfterIs DEF Same
      <3>2. CASE Becomes(a, Fails(g))
        BY <1>1, <2>2, <3>2, AfterIs DEF Same
      <3>3. CASE Becomes(a, [g EXCEPT !.step = refused.step, !.failed = refused.failed])
        <4>1. run'[a] = [g EXCEPT !.step = refused.step, !.failed = refused.failed]
          BY <1>1, <3>3, RunIs
        <4>2. Same(run'[a], g) /\ run'[a].made = g.made /\ run'[a].step = refused.step
          BY <2>2, <4>1 DEF Same, Runs
        <4>3. QED
          BY <2>2, <2>3, <4>2 DEF Same
      <3>4. QED
        BY <1>4, <3>1, <3>2, <3>3
    <2>5. /\ \A b \in Actors \ {a} : run'[b] = run[b]
          /\ Troubles' \in {Troubles, Troubles + 1}
      BY <1>1, <1>4, RunIs, AnswerIs
    <2>6. Worldly(a) /\ (o = "ok" => tree'[a].is = "stands")
      <3>1. CASE ~Takes(o) /\ UNCHANGED <<herdr, tree, local>>
        <4>1. Worldly(a)
          BY <1>1, <2>5, <3>1 DEF Worldly, Branching, SameBranches, herdr
        <4>2. QED
          BY <3>1, <4>1 DEF Takes
      <3>2. CASE Plants(a)
        <4>1. /\ \A b \in Actors \ {a} : tree'[b] = tree[b] /\ local'[b] = local[b]
              /\ local[a].tip > 0 => local'[a] = local[a]
          BY <1>1, <3>2, PlantsIs
        <4>2. tree'[a].is = "stands"
          BY <1>1, <3>2 DEF Plants, TypeOK
        <4>3. local[a].tip = 0 => local'[a].tip = 1
          BY <1>1, <3>2 DEF Plants, TypeOK
        <4>4. local[a].tip \in Nat
          BY <1>1, StartAssumption DEF TypeOK
        <4>5. \A t \in tabs' : t \in tabs \/ (t.by = Id(a) /\ t.agent = Nothing /\ t.root)
          <5>1. Attaches(a, a)
            BY <3>2 DEF Plants
          <5>2. QED
            BY <5>1, AttachedTabs
        <4>6. Branching(a)
          <5>1. remote' = remote /\ run[a].step \in Planting
            BY <1>1
          <5>2. CASE local[a].tip > 0
            BY <4>1, <5>1, <5>2 DEF Branching, SameBranches
          <5>3. CASE local[a].tip = 0
            BY <4>3, <5>1, <5>3 DEF Branching
          <5>4. QED
            BY <4>4, <5>2, <5>3
        <4>7. run[a].step \in Before
          BY <1>1 DEF Before
        <4>8. QED
          BY <1>1, <2>5, <4>1, <4>2, <4>5, <4>6, <4>7 DEF Worldly
      <3>3. QED
        BY <1>4, <3>1, <3>2
    <2>7. Chosen(a)
      <3>1. \A p \in known : p = "branch" => run[a].builds
        BY <2>1
      <3>2. "branch" \in run'[a].made => "branch" \in run[a].made \/ run[a].builds
        BY <2>4, <3>1
      <3>3. run'[a].step # "prompt"
        BY <2>4 DEF Cleans
      <3>4. QED
        BY <1>1, <1>4, <2>4, <3>2, <3>3 DEF Chosen, Same
    <2>8. Stepping(a)
      <3>1. CASE run'[a].step = "aside"
        BY <1>1, <2>4, <3>1 DEF Same, Stepping, Before, Planting, Naming, Taken, InSpace
      <3>2. CASE run'[a].step \in {"listed", "agent"}
        <4>1. tree'[a].is = "stands" /\ run'[a].space = Id(a) /\ run'[a].tab = Root(a)
          BY <2>4, <2>6, <3>2 DEF Cleans
        <4>2. QED
          BY <1>1, <3>2, <4>1 DEF Stepping, Before, Planting, Naming, Taken, InSpace
      <3>3. QED
        BY <2>4, <3>1, <3>2, Falls
    <2>9. QED
      BY <2>6, <2>7, <2>8 DEF Moves
  <1>5. CASE /\ tree[a].is = "none"
             /\ \E o \in Answers :
                  LET known == IF o \in {"ok", "partial"} THEN parts ELSE {}
                      r == Makes(run[a], o, known, parts)
                  IN /\ Answered(o)
                     /\ IF ~Takes(o) THEN UNCHANGED <<herdr, tree, local>> ELSE Plants(a)
                     /\ \/ o = "ok" /\ Becomes(a, Stands([r EXCEPT !.space = Id(a), !.tab = Root(a)]))
                        \/ Becomes(a, Fails(r))
                        \/ Becomes(a, [r EXCEPT !.step = refused.step, !.failed = refused.failed])
    <2> HIDE DEF parts, refused
    <2>1. QED
      BY <1>4, <1>5 DEF parts, refused
  <1>6. QED
    BY <1>2, <1>3, <1>5

--------------------------------------------------------------------------------
(* The cleanup. *)

LEMMA CleanedMoves ==
    ASSUME NEW a \in Actors, IInv, run[a].step \in Cleans, NEW parts, NEW o,
           Cleaned(a, parts, o)
    PROVE  /\ Chosen(a) /\ Stepping(a) /\ \A b \in Actors \ {a} : run'[b] = run[b]
  <1>1. TypeOK /\ run[a] \in Runs
    BY DEF IInv, TypeOK
  <1>2. run'[a] = [run[a] EXCEPT !.made = @ \ parts, !.step = Cleaning(run[a].made \ parts),
                                 !.disturbed = @ \/ o # "ok"]
    BY <1>1, RunIs DEF Cleaned
  <1>3. Cleaning(run[a].made \ parts) \in Cleans \cup {"rest"}
    BY CleaningIs DEF Cleans
  <1>4. PICK q : q = run'[a]
    OBVIOUS
  <1>5. /\ q.n = run[a].n /\ q.worktree = run[a].worktree /\ q.stored = run[a].stored
        /\ q.continues = run[a].continues /\ q.met = run[a].met /\ q.builds = run[a].builds
        /\ q.handed = run[a].handed /\ q.made = run[a].made \ parts
        /\ q.step \in Cleans \cup {"rest"}
    BY <1>1, <1>2, <1>3, <1>4 DEF Runs
  <1>6. Chosen(a)
    BY <1>4, <1>5 DEF Chosen, Cleans
  <1>7. QED
    BY <1>1, <1>4, <1>5, <1>6, Falls, RunIs DEF Cleaned

LEMMA CleanTabMoves ==
    ASSUME NEW a \in Actors, IInv, CleanTab(a)
    PROVE  Moves(a)
  <1>1. PICK o : /\ Answered(o) \/ UNCHANGED spent
                 /\ Cleaned(a, {"tab"}, o)
    BY DEF CleanTab
  <1>2. /\ run[a].step \in Cleans /\ UNCHANGED <<tree, branches, memory>> /\ TypeOK
        /\ tabs' \subseteq tabs
    BY DEF CleanTab, At, Cleans, IInv
  <1>3. Troubles' \in {Troubles, Troubles + 1}
    BY <1>1, <1>2, AnswerIs, TroublesAre
  <1>4. Chosen(a) /\ Stepping(a) /\ \A b \in Actors \ {a} : run'[b] = run[b]
    BY <1>1, <1>2, CleanedMoves
  <1>5. Worldly(a)
    BY <1>2, <1>3, <1>4 DEF Worldly, Branching, SameBranches, branches
  <1>6. QED
    BY <1>4, <1>5 DEF Moves

LEMMA CleanCheckoutMoves ==
    ASSUME NEW a \in Actors, IInv, CleanCheckout(a)
    PROVE  Moves(a)
  <1>1. PICK o : /\ Answered(o) \/ UNCHANGED spent
                 /\ Cleaned(a, {"tree", "space", "root"}, o)
    BY DEF CleanCheckout
  <1>2. /\ run[a].step \in Cleans /\ UNCHANGED <<branches, memory>> /\ TypeOK
        /\ tabs' \subseteq tabs
        /\ \/ tree' = tree
           \/ "tree" \in run[a].made /\ tree' = [tree EXCEPT ![a] = [is |-> "none", by |-> 0]]
    BY DEF CleanCheckout, At, Cleans, IInv, Without, herdr
  <1>3. Troubles' \in {Troubles, Troubles + 1}
    BY <1>1, <1>2, AnswerIs, TroublesAre
  <1>4. Chosen(a) /\ Stepping(a) /\ \A b \in Actors \ {a} : run'[b] = run[b]
    BY <1>1, <1>2, CleanedMoves
  <1>5. /\ tree'[a] = tree[a] \/ (tree'[a].is = "none" /\ "tree" \in run[a].made)
        /\ \A b \in Actors \ {a} : tree'[b] = tree[b]
    <2>1. CASE tree' = tree
      BY <2>1
    <2>2. CASE "tree" \in run[a].made /\ tree' = [tree EXCEPT ![a] = [is |-> "none", by |-> 0]]
      BY <1>2, <2>2 DEF TypeOK
    <2>3. QED
      BY <1>2, <2>1, <2>2
  <1>6. Worldly(a)
    BY <1>2, <1>3, <1>4, <1>5 DEF Worldly, Branching, SameBranches, branches
  <1>7. QED
    BY <1>4, <1>6 DEF Moves

LEMMA CleanBranchMoves ==
    ASSUME NEW a \in Actors, IInv, CleanBranch(a)
    PROVE  Moves(a)
  <1>1. PICK o : /\ Answered(o) \/ UNCHANGED spent
                 /\ Cleaned(a, {"branch"}, o)
    BY DEF CleanBranch
  <1>2. /\ run[a].step = "clean branch" /\ run[a].step \in Cleans /\ At(a, "clean branch")
        /\ UNCHANGED <<herdr, tree, remote, memory>> /\ TypeOK /\ Sound(a)
        /\ local' = local \/ local' = [local EXCEPT ![a] = [tip |-> 0, by |-> 0]]
    BY DEF CleanBranch, At, Cleans, IInv
  <1>3. Troubles' \in {Troubles, Troubles + 1}
    BY <1>1, <1>2, AnswerIs, TroublesAre
  <1>4. Chosen(a) /\ Stepping(a) /\ \A b \in Actors \ {a} : run'[b] = run[b]
    BY <1>1, <1>2, CleanedMoves
  <1>5. "branch" \in run[a].made
    BY <1>2, CleaningIs DEF Sound, Stepped
  <1>6. /\ local'[a] = local[a] \/ local'[a].tip = 0
        /\ \A b \in Actors \ {a} : local'[b] = local[b]
    <2>1. CASE local' = local
      BY <2>1
    <2>2. CASE local' = [local EXCEPT ![a] = [tip |-> 0, by |-> 0]]
      BY <1>2, <2>2 DEF TypeOK
    <2>3. QED
      BY <1>2, <2>1, <2>2
  <1>7. Worldly(a)
    BY <1>2, <1>3, <1>4, <1>5, <1>6, Branches DEF Branching, SameBranches
  <1>8. QED
    BY <1>4, <1>7 DEF Moves

LEMMA StepMoves ==
    ASSUME NEW a \in Actors, IInv, Step(a), ~StartAgent(a), ~PromptAgent(a)
    PROVE  Moves(a)
  BY RouteCloseMoves, ReadWorkspacesMoves, CreateSpaceMoves, OpenFreshTabMoves,
     CheckBranchMoves, CheckRemoteMoves, FetchBranchMoves, OpenWorktreeMoves,
     FindWorktreeMoves, CreateWorktreeMoves, MoveLeftoverMoves, CheckListedMoves,
     HoldBranchMoves, PushBranchMoves, ListPullRequestsMoves, OpenDraftMoves,
     CleanTabMoves, CleanCheckoutMoves, CleanBranchMoves DEF Step

--------------------------------------------------------------------------------
(* What such a step keeps of its own start. *)

LEMMA MovesFacts ==
    ASSUME NEW a \in Tickets, IInv, IInv', Moves(a)
    PROVE  /\ a \in Actors /\ run[a] \in Runs /\ run'[a] \in Runs /\ run[a].n \in Nat
           /\ Running(a) /\ run'[a].n = run[a].n
           /\ Id(a)' = Id(a) /\ Fresh(a)' = Fresh(a) /\ Root(a)' = Root(a) /\ Id(a) # Nothing
           /\ Chosen(a) /\ Stepping(a) /\ Worldly(a) /\ UNCHANGED memory
           /\ Troubles \in Nat /\ Troubles' \in {Troubles, Troubles + 1}
           /\ local[a].tip \in 0..MaxTip /\ local'[a].tip \in 0..MaxTip
           /\ remote[a] \in 0..MaxTip /\ remote'[a] \in 0..MaxTip /\ MaxTip \in Nat \ {0, 1}
  <1>1. a \in Actors /\ TypeOK /\ TypeOK'
    BY DEF Actors, IInv
  <1>2. run[a] \in Runs /\ run'[a] \in Runs
    BY <1>1 DEF TypeOK
  <1>3. /\ local[a].tip \in 0..MaxTip /\ local'[a].tip \in 0..MaxTip
        /\ remote[a] \in 0..MaxTip /\ remote'[a] \in 0..MaxTip
    BY <1>1 DEF TypeOK
  <1>4. Chosen(a) /\ Stepping(a) /\ Worldly(a)
    BY DEF Moves
  <1>5. run[a].n \in Nat /\ run'[a].n = run[a].n /\ Running(a)
    BY <1>2, <1>4 DEF Runs, Chosen, Running, Resting, At
  <1>6. Id(a)' = Id(a) /\ Fresh(a)' = Fresh(a) /\ Root(a)' = Root(a) /\ Id(a) # Nothing
    BY <1>5 DEF Id, Fresh, Root, Nothing
  <1>7. UNCHANGED memory /\ Troubles \in Nat /\ Troubles' \in {Troubles, Troubles + 1}
    BY <1>1, <1>4, TroublesAre DEF Worldly
  <1>8. QED
    BY <1>1, <1>2, <1>3, <1>4, <1>5, <1>6, <1>7, StartAssumption

LEMMA BoundMoves ==
    ASSUME NEW a \in Tickets, IInv, IInv', Healing(a), Moves(a)
    PROVE  Bound(a)'
  <1> DEFINE r == run[a]  q == run'[a]
  <1>1. /\ a \in Actors /\ r \in Runs /\ q \in Runs /\ Running(a) /\ Id(a)' = Id(a)
        /\ Chosen(a) /\ Stepping(a) /\ live' = live /\ latest' = latest
    BY MovesFacts DEF memory
  <1>2. /\ r.continues <=> live[a]
        /\ r.stored <=> r.continues /\ latest[a].worktree = r.worktree
        /\ r.builds => r.worktree /\ ~r.stored
        /\ "branch" \in r.made => r.builds /\ ~r.handed
        /\ r.step = "list" /\ r.worktree => r.stored
        /\ r.step \in Planting => r.worktree
        /\ r.step \in Naming => r.worktree /\ ~r.stored
        /\ r.step \in Taken => r.tab.by = Id(a)
    BY <1>1 DEF Healing, Bound, At
  <1>3. Stepped(a) /\ Handed(a)'
    BY <1>1 DEF IInv, Sound
  <1>4. q.worktree = r.worktree /\ q.stored = r.stored /\ q.continues = r.continues
    BY <1>1 DEF Chosen
  <1>5. q.builds => q.worktree /\ ~q.stored
    BY <1>1, <1>2, <1>4 DEF Chosen, Naming, At
  <1>6. "branch" \in q.made => q.builds /\ ~q.handed
    <2>1. ASSUME "branch" \in q.made PROVE q.builds
      <3>1. CASE q.builds = r.builds
        BY <1>1, <1>2, <2>1, <3>1 DEF Chosen
      <3>2. CASE At(a, "remote")
        BY <1>1, <1>3, <2>1, <3>2 DEF Chosen, At, Stepped, Early
      <3>3. QED
        BY <1>1, <3>1, <3>2 DEF Chosen
    <2>2. QED
      BY <1>3, <2>1 DEF Handed
  <1>7. q.step = "list" /\ q.worktree => q.stored
    BY <1>1 DEF Stepping
  <1>8. q.step \in Planting => q.worktree
    BY <1>1, <1>2, <1>4 DEF Stepping
  <1>9. q.step \in Naming => q.worktree /\ ~q.stored
    BY <1>1, <1>2, <1>4 DEF Stepping
  <1>10. q.step \in Taken => q.tab.by = Id(a)
    BY <1>1, <1>2 DEF Stepping, Root, Fresh
  <1>11. QED
    BY <1>1, <1>2, <1>4, <1>5, <1>6, <1>7, <1>8, <1>9, <1>10 DEF Bound, At

LEMMA OlderMoves ==
    ASSUME NEW a \in Tickets, IInv, IInv', Healing(a), Moves(a)
    PROVE  Older(a)'
  <1>1. /\ Running(a) /\ Id(a)' = Id(a) /\ run'[a].n = run[a].n
        /\ recorded' = recorded /\ latest' = latest
    BY MovesFacts DEF memory
  <1>2. Older(a)
    BY DEF Healing
  <1>3. QED
    BY <1>1, <1>2 DEF Older

(* The tab of the newest start that landed is of no start at work. *)
LEMMA LatestIsNotOwn ==
    ASSUME NEW a \in Tickets, TypeOK, Older(a), Running(a)
    PROVE  latest[a].tab.by # Id(a)
  BY DEF Older, NoEntry, NoTab, Id, Nothing

LEMMA HomedMoves ==
    ASSUME NEW a \in Tickets, IInv, IInv', Healing(a), Moves(a)
    PROVE  Homed(a)'
  <1> DEFINE r == run[a]  q == run'[a]
  <1>1. /\ Running(a) /\ Id(a)' = Id(a) /\ Fresh(a)' = Fresh(a) /\ Stepping(a) /\ Worldly(a)
        /\ latest' = latest
    BY MovesFacts DEF memory
  <1>2. Homed(a) /\ Older(a) /\ TypeOK /\ Placed'
    BY DEF Healing, IInv
  <1>3. \A t \in tabs' : \/ t \in tabs
                         \/ /\ t.by = Id(a) /\ t.agent = Nothing /\ r.step \in Before
                            /\ ~t.root => r.step = "tab" /\ t.space = r.space
    BY <1>1 DEF Worldly
  <1>4. ASSUME q.step \in Before, NEW t \in tabs', Handle(t) = Fresh(a) PROVE FALSE
    <2>1. r.step \in Before /\ r.step # "tab" /\ ~t.root
      BY <1>1, <1>4 DEF Stepping, Handle, Fresh
    <2>2. t \in tabs
      BY <1>3, <2>1
    <2>3. QED
      BY <1>2, <1>4, <2>1, <2>2 DEF Homed, TabOf
  <1>5. ASSUME NEW t \in tabs', Handle(t) = latest[a].tab
        PROVE  t.space = latest[a].space
    <2>1. t.by # Id(a)
      BY <1>1, <1>2, <1>5, LatestIsNotOwn DEF Handle
    <2>2. QED
      BY <1>2, <1>3, <1>5, <2>1 DEF Homed
  <1>6. ASSUME q.step \in Taken, NEW t \in tabs', Handle(t) = q.tab
        PROVE  t.space = q.space
    <2>1. CASE r.step \in Taken /\ q.tab = r.tab /\ q.space = r.space
      <3>1. t \in tabs
        BY <1>3, <2>1 DEF Before, Planting, Naming, Taken, InSpace
      <3>2. QED
        BY <1>2, <1>6, <2>1, <3>1 DEF Homed
    <2>2. CASE q.tab = Root(a) /\ q.space = Id(a)
      <3>1. t.by = Id(a) /\ t.root
        BY <1>6, <2>2 DEF Handle, Root
      <3>2. QED
        BY <1>2, <2>2, <3>1 DEF Placed
    <2>3. CASE r.step = "tab" /\ q.tab = Fresh(a) /\ q.space = r.space
      <3>1. Handle(t) = Fresh(a) /\ ~t.root
        BY <1>6, <2>3 DEF Handle, Fresh
      <3>2. t \notin tabs
        BY <1>2, <2>3, <3>1 DEF Homed, TabOf, Before
      <3>3. QED
        BY <1>3, <2>3, <3>1, <3>2
    <2>4. QED
      BY <1>1, <1>6, <2>1, <2>2, <2>3 DEF Stepping
  <1>7. QED
    BY <1>1, <1>4, <1>5, <1>6 DEF Homed, TabOf, Handle

LEMMA UnnamedMoves ==
    ASSUME NEW a \in Tickets, IInv, IInv', Healing(a), Moves(a)
    PROVE  Unnamed(a)'
  <1> DEFINE r == run[a]  q == run'[a]
  <1>1. Stepping(a) /\ Worldly(a) /\ Chosen(a) /\ q.n = r.n /\ Unnamed(a)
    BY MovesFacts DEF Healing
  <1>2. SUFFICES ASSUME NEW t \in tabs', NEW c \in Nat, NEW m \in Nat, t.agent = <<a, c, m>>
                 PROVE  /\ m <= q.n
                        /\ m = q.n => q.step \notin Before \cup (Taken \ {"prompt"})
    BY DEF Unnamed
  <1>3. t \in tabs
    <2>1. t.agent # Nothing
      BY <1>2 DEF Nothing
    <2>2. QED
      BY <1>1, <2>1 DEF Worldly
  <1>4. /\ m <= r.n
        /\ m = r.n => r.step \notin Before \cup (Taken \ {"prompt"})
    BY <1>1, <1>2, <1>3 DEF Unnamed
  <1>5. q.step \in Before => r.step \in Before
    BY <1>1 DEF Stepping
  <1>6. q.step \in Taken => r.step \in (Taken \ {"prompt"}) \cup Before
    <2>1. "tab" \in Before /\ r.step # "prompt"
      BY <1>1 DEF Before, Chosen
    <2>2. QED
      BY <1>1, <2>1 DEF Stepping
  <1>7. QED
    BY <1>1, <1>4, <1>5, <1>6

(* A start that reopens the worktree of the one before. *)
LEMMA StoredReopens ==
    ASSUME NEW a \in Tickets, TypeOK, Bound(a), Running(a)
    PROVE  /\ run[a].stored /\ run[a].worktree => Reopens(a)
           /\ run[a].builds => ~Reopens(a)
  <1>1. a \in Actors /\ run[a] \in Runs /\ latest[a] \in Entries
    BY DEF Actors, TypeOK
  <1>2. run[a].worktree \in BOOLEAN /\ latest[a].worktree \in BOOLEAN
    BY <1>1 DEF Runs, Entries
  <1>3. QED
    BY <1>2 DEF Bound, Reopens

LEMMA CalmMoves ==
    ASSUME NEW a \in Tickets, IInv, IInv', Healing(a), Moves(a), Troubles' = 0
    PROVE  Calm(a)'
  <1> DEFINE r == run[a]  q == run'[a]
  <1>1. /\ a \in Actors /\ r \in Runs /\ q \in Runs /\ Running(a)
        /\ Chosen(a) /\ Stepping(a) /\ Worldly(a) /\ TypeOK
        /\ live' = live /\ latest' = latest /\ leftover' = leftover
    BY MovesFacts DEF memory, IInv
  <1>2. Troubles = 0 /\ Troubles' # Troubles + 1
    BY MovesFacts
  <1>3. Calm(a) /\ Bound(a)
    BY <1>2 DEF Healing
  <1>4. Reopens(a)' <=> Reopens(a)
    BY <1>1 DEF Reopens
  <1>5. /\ \/ tree'[a] = tree[a] \/ tree'[a].is = "stands"
           \/ tree'[a].is = "none" /\ "tree" \in r.made
        /\ tree'[a].is \in {"none", "stands"}
    BY <1>1, <1>3 DEF Worldly, Calm
  <1>6. Reopens(a) => tree'[a].is = "stands"
    BY <1>1, <1>3, <1>5 DEF Calm
  <1>7. q.worktree /\ q.step \in InSpace => tree'[a].is = "stands"
    <2>1. q.worktree = r.worktree /\ q.stored = r.stored
      BY <1>1 DEF Chosen
    <2>2. r.stored /\ r.worktree => Reopens(a)
      BY <1>1, <1>3, StoredReopens
    <2>3. QED
      BY <1>1, <1>3, <1>5, <2>1, <2>2 DEF Stepping, Calm
  <1>8. "tree" \in q.made => ~Reopens(a)
    <2>1. CASE "tree" \in r.made
      BY <1>1, <1>3, <2>1 DEF Calm
    <2>2. CASE tree[a].is = "none"
      BY <1>3, <2>2 DEF Calm
    <2>3. QED
      BY <1>1, <2>1, <2>2 DEF Chosen
  <1>9. \/ SameBranches(a)
        \/ remote'[a] = remote[a] /\ local'[a].tip > 0
        \/ remote'[a] = remote[a] /\ local'[a].tip = remote[a]
        \/ local'[a].tip > 0 /\ q.handed
        \/ remote'[a] = remote[a] /\ remote[a] = 0
    <2>1. ASSUME local[a].tip > 0, local'[a].tip = Lower(local[a].tip + 1, MaxTip)
          PROVE  local'[a].tip > 0
      BY <2>1, MovesFacts DEF Lower
    <2>2. ASSUME At(a, "clean branch"), "branch" \in r.made PROVE remote[a] = 0
      BY <1>1, <1>3, <2>2 DEF Bound, Calm
    <2>3. Branching(a) /\ Troubles' # Troubles + 1
      BY <1>1, <1>2 DEF Worldly
    <2>4. local'[a].tip = 1 => local'[a].tip > 0
      OBVIOUS
    <2>5. local'[a] = local[a] /\ local[a].tip > 0 => local'[a].tip > 0
      OBVIOUS
    <2>6. QED
      BY <2>1, <2>2, <2>3, <2>4, <2>5, Zenon DEF Branching
  <1>10. local'[a].tip = 0 => remote'[a] = 0
    BY <1>3, <1>9 DEF SameBranches, Calm
  <1>11. q.builds /\ ~q.handed => remote'[a] = 0
    <2>1. SUFFICES ASSUME q.builds, ~q.handed PROVE remote'[a] = 0
      OBVIOUS
    <2>2. ~r.handed
      BY <1>1, <2>1 DEF Chosen
    <2>3. remote'[a] = remote[a]
      BY <1>9, <2>1 DEF SameBranches
    <2>4. CASE q.builds = r.builds
      BY <1>1, <1>3, <2>1, <2>2, <2>3, <2>4 DEF Calm
    <2>5. QED
      BY <1>1, <1>2, <2>3, <2>4 DEF Chosen
  <1>12. q.met = NoTab \/ (q.continues /\ q.met = latest[a].tab)
    BY <1>1, <1>3 DEF Chosen, Calm
  <1>13. ASSUME NEW t \in tabs', t.agent # Nothing, t.agent[1] = a
         PROVE  live[a] /\ Handle(t) = latest[a].tab
    BY <1>1, <1>3, <1>13 DEF Worldly, Calm, Chosen, At
  <1>14. QED
    BY <1>1, <1>3, <1>4, <1>5, <1>6, <1>7, <1>8, <1>10, <1>11, <1>12, <1>13 DEF Calm, Handle

LEMMA WholeMoves ==
    ASSUME NEW a \in Tickets, IInv, IInv', Healing(a), Moves(a), Troubles' <= 1
    PROVE  Whole(a)'
  <1> DEFINE r == run[a]  q == run'[a]
  <1>1. /\ a \in Actors /\ r \in Runs /\ q \in Runs /\ Running(a)
        /\ Chosen(a) /\ Stepping(a) /\ Worldly(a) /\ TypeOK
        /\ live' = live /\ latest' = latest
    BY MovesFacts DEF memory, IInv
  <1>2. /\ local[a].tip \in Nat /\ remote[a] \in Nat /\ remote[a] <= MaxTip /\ MaxTip \in Nat
        /\ local'[a].tip \in Nat /\ remote'[a] \in Nat /\ MaxTip > 1
    BY MovesFacts
  <1>3. Troubles <= 1 /\ (Troubles' = Troubles + 1 => Troubles = 0)
    BY MovesFacts
  <1>4. /\ Whole(a) /\ Bound(a)
        /\ Troubles' = Troubles + 1 => Calm(a)
    BY <1>3 DEF Healing
  <1>5. Reopens(a)' <=> Reopens(a)
    BY <1>1 DEF Reopens
  <1>6. local'[a].tip = 0 \/ local'[a].tip >= remote'[a]
    <2>1. CASE SameBranches(a)
      BY <1>4, <2>1 DEF SameBranches, Whole
    <2>2. CASE /\ remote'[a] = remote[a] /\ local[a].tip = 0 /\ local'[a].tip = 1
               /\ r.step \in Planting
      <3>1. remote[a] = 0
        BY <1>2, <1>4, <2>2 DEF Whole
      <3>2. QED
        BY <2>2, <3>1
    <2>3. CASE remote'[a] = remote[a] /\ local'[a].tip = remote[a]
      BY <1>2, <2>3
    <2>4. CASE /\ remote'[a] = remote[a] /\ local[a].tip > 0
               /\ local'[a].tip = Lower(local[a].tip + 1, MaxTip)
      <3>1. local[a].tip >= remote[a]
        BY <1>2, <1>4, <2>4 DEF Whole
      <3>2. QED
        BY <1>2, <2>4, <3>1 DEF Lower
    <2>5. CASE local'[a] = local[a] /\ remote'[a] = local[a].tip
      BY <1>2, <2>5
    <2>6. CASE local'[a].tip = 0
      BY <2>6
    <2>7. QED
      BY <1>1, <2>1, <2>2, <2>3, <2>4, <2>5, <2>6 DEF Worldly, Branching
  <1>7. ASSUME local'[a].tip = 0, remote'[a] > 0
        PROVE  /\ ~Reopens(a) /\ q.step \notin Planting
               /\ q.worktree => q.step \notin InSpace
    <2>1. CASE SameBranches(a)
      <3>1. local[a].tip = 0 /\ remote[a] > 0
        BY <1>7, <2>1 DEF SameBranches
      <3>2. /\ ~Reopens(a) /\ r.step \notin Planting
            /\ r.worktree => r.step \notin InSpace
        BY <1>4, <3>1 DEF Whole
      <3>3. ~(local'[a].tip > 0) /\ remote'[a] # 0 /\ Troubles' # Troubles + 1
        BY <1>2, <1>4, <1>7, <3>1 DEF Calm
      <3>4. q.worktree = r.worktree /\ (r.stored /\ r.worktree => Reopens(a))
        BY <1>1, <1>4, StoredReopens DEF Chosen
      <3>5. r.step = "list" /\ r.worktree => r.stored
        BY <1>1, <1>4 DEF Bound, At
      <3>6. q.step \notin Planting
        BY <1>1, <3>2, <3>3, <3>4, <3>5 DEF Stepping
      <3>7. q.worktree => q.step \notin InSpace
        BY <1>1, <3>2, <3>4 DEF Stepping
      <3>8. QED
        BY <3>2, <3>6, <3>7
    <2>2. CASE At(a, "clean branch") /\ "branch" \in r.made
      <3>1. r.step = "clean branch" /\ r.builds
        BY <1>1, <1>4, <2>2 DEF Bound, At
      <3>2. ~Reopens(a)
        BY <1>1, <1>4, <3>1, StoredReopens
      <3>3. q.step \notin Planting /\ (q.worktree => q.step \notin InSpace)
        BY <1>1, <3>1 DEF Stepping, Planting, Naming, InSpace
      <3>4. QED
        BY <3>2, <3>3
    <2>3. SameBranches(a) \/ (At(a, "clean branch") /\ "branch" \in r.made)
      <3>1. ASSUME local[a].tip > 0, local'[a].tip = Lower(local[a].tip + 1, MaxTip)
            PROVE  FALSE
        BY <1>2, <1>7, <3>1 DEF Lower
      <3>2. ~(local'[a] = local[a] /\ local[a].tip > 0)
        BY <1>7
      <3>3. ~(remote'[a] = remote[a] /\ local'[a].tip = remote[a])
        BY <1>7
      <3>4. local'[a].tip # 1
        BY <1>7
      <3>5. Branching(a)
        BY <1>1 DEF Worldly
      <3>6. QED
        BY <3>1, <3>2, <3>3, <3>4, <3>5, Zenon DEF Branching
    <2>4. QED
      BY <2>1, <2>2, <2>3
  <1>8. QED
    BY <1>1, <1>5, <1>6, <1>7 DEF Whole

LEMMA HealsOwn ==
    ASSUME NEW a \in Tickets, IInv, IInv', Healing(a), Moves(a)
    PROVE  Healing(a)'
  <1>1. Troubles' = 0 => Calm(a)'
    BY CalmMoves
  <1>2. Troubles' <= 1 => Whole(a)'
    BY WholeMoves
  <1>3. QED
    BY <1>1, <1>2, BoundMoves, OlderMoves, HomedMoves, UnnamedMoves DEF Healing

--------------------------------------------------------------------------------
(* What the steps of the others, and the events, leave of a start. *)

Apart(b) ==
    /\ run'[b].n = run[b].n
    /\ \/ run'[b].step = run[b].step /\ Still(run'[b], run[b])
       \/ run'[b].step = "rest" /\ Troubles' = Troubles + 1
    /\ recorded'[b] = recorded[b] /\ latest'[b] = latest[b] /\ live'[b] = live[b]
    /\ leftover'[b] = leftover[b]
    /\ \A t \in tabs' :
         \/ \E u \in tabs : /\ Handle(u) = Handle(t) /\ u.space = t.space
                            /\ u.agent = t.agent \/ t.agent = Nothing \/ t.agent[1] # b
         \/ t.by \notin Of(b) /\ t.agent = Nothing
    /\ Troubles' \in {Troubles, Troubles + 1}

LEMMA ApartKeeps ==
    ASSUME NEW b \in Tickets, TypeOK, TypeOK', Healing(b), Apart(b)
    PROVE  Bound(b)' /\ Older(b)' /\ Homed(b)' /\ Unnamed(b)'
  <1> DEFINE r == run[b]  q == run'[b]
  <1>1. /\ b \in Actors /\ r \in Runs /\ q \in Runs /\ r.n \in Nat
        /\ Id(b) \in Of(b) /\ Operator \notin Of(b)
    <2>1. b \in Actors
      BY DEF Actors
    <2>2. QED
      BY <2>1, IdFacts DEF TypeOK
  <1>2. q.n = r.n /\ Id(b)' = Id(b) /\ Fresh(b)' = Fresh(b)
    BY DEF Apart, Id, Fresh
  <1>3. Running(b)' => /\ q.step = r.step /\ Still(q, r) /\ Running(b)
    BY DEF Apart, Running, Resting, At
  <1>4. recorded'[b] = recorded[b] /\ latest'[b] = latest[b] /\ live'[b] = live[b]
    BY DEF Apart
  <1>5. Bound(b)'
    BY <1>2, <1>3, <1>4 DEF Healing, Bound, Still, At
  <1>6. Older(b)'
    BY <1>2, <1>3, <1>4 DEF Healing, Older
  <1>7. \A t \in tabs' :
          \/ \E u \in tabs : /\ Handle(u) = Handle(t) /\ u.space = t.space
                             /\ u.agent = t.agent \/ t.agent = Nothing \/ t.agent[1] # b
          \/ t.by \notin Of(b) /\ t.agent = Nothing
    BY DEF Apart
  <1>8. \A t \in tabs' : t.by \in Of(b) \cup {Nothing} =>
          \E u \in tabs : Handle(u) = Handle(t) /\ u.space = t.space
    <2>1. \A t \in tabs' : t.by \in Starts
      BY DEF TypeOK
    <2>2. Nothing \notin Starts
      BY DEF Starts, Nothing
    <2>3. QED
      BY <1>7, <2>1, <2>2
  <1>9. Homed(b)'
    <2>1. q.step \in Before => TabOf(Fresh(b))' = {}
      <3>1. SUFFICES ASSUME q.step \in Before, NEW t \in tabs', Handle(t) = Fresh(b)
                     PROVE  FALSE
        BY <1>2 DEF TabOf, Handle
      <3>2. t.by \in Of(b)
        BY <1>1, <3>1 DEF Handle, Fresh
      <3>3. PICK u \in tabs : Handle(u) = Fresh(b)
        BY <1>8, <3>1, <3>2
      <3>4. r.step \in Before
        BY <1>3, <3>1 DEF Running, Resting, At, Before, Planting, Naming
      <3>5. QED
        BY <3>3, <3>4 DEF Healing, Homed, TabOf
    <2>2. ASSUME NEW t \in tabs', Handle(t) = latest[b].tab
          PROVE  t.space = latest[b].space
      <3>1. t.by \in Of(b) \cup {Nothing}
        BY <2>2 DEF Healing, Older, NoEntry, NoTab, Handle
      <3>2. PICK u \in tabs : Handle(u) = Handle(t) /\ u.space = t.space
        BY <1>8, <3>1
      <3>3. QED
        BY <2>2, <3>2 DEF Healing, Homed
    <2>3. ASSUME q.step \in Taken, NEW t \in tabs', Handle(t) = q.tab
          PROVE  t.space = q.space
      <3>1. Running(b)'
        BY <2>3 DEF Running, Resting, At, Taken, InSpace
      <3>2. r.step \in Taken /\ q.tab = r.tab /\ q.space = r.space /\ Running(b)
        BY <1>3, <2>3, <3>1 DEF Still
      <3>3. r.tab.by = Id(b)
        BY <3>2 DEF Healing, Bound
      <3>4. t.by \in Of(b)
        BY <1>1, <2>3, <3>2, <3>3 DEF Handle
      <3>5. PICK u \in tabs : Handle(u) = Handle(t) /\ u.space = t.space
        BY <1>8, <3>4
      <3>6. QED
        BY <2>3, <3>2, <3>5 DEF Healing, Homed
    <2>4. QED
      BY <1>4, <2>1, <2>2, <2>3 DEF Homed, Handle
  <1>10. Unnamed(b)'
    <2>1. SUFFICES ASSUME NEW t \in tabs', NEW c \in Nat, NEW m \in Nat, t.agent = <<b, c, m>>
                   PROVE  /\ m <= q.n
                          /\ m = q.n => q.step \notin Before \cup (Taken \ {"prompt"})
      BY DEF Unnamed
    <2>2. t.agent # Nothing /\ t.agent[1] = b
      BY <2>1 DEF Nothing
    <2>3. PICK u \in tabs : u.agent = <<b, c, m>>
      BY <1>7, <2>1, <2>2
    <2>4. /\ m <= r.n
          /\ m = r.n => r.step \notin Before \cup (Taken \ {"prompt"})
      BY <2>3 DEF Healing, Unnamed
    <2>5. q.step = r.step \/ q.step = "rest"
      BY DEF Apart
    <2>6. "rest" \notin Before \cup Taken
      BY DEF Before, Planting, Naming, Taken, InSpace
    <2>7. QED
      BY <1>2, <2>4, <2>5, <2>6
  <1>11. QED
    BY <1>5, <1>6, <1>9, <1>10

LEMMA ApartHeals ==
    ASSUME NEW b \in Tickets, TypeOK, TypeOK', Healing(b), Apart(b),
           local'[b] = local[b], remote'[b] = remote[b],
           tree'[b] = tree[b] \/ Troubles' = Troubles + 1
    PROVE  Healing(b)'
  <1> DEFINE r == run[b]  q == run'[b]
  <1>1. /\ Troubles \in Nat /\ Troubles' \in {Troubles, Troubles + 1}
        /\ latest'[b] = latest[b] /\ live'[b] = live[b] /\ leftover'[b] = leftover[b]
    BY TroublesAre DEF Apart
  <1>2. Reopens(b)' <=> Reopens(b)
    BY <1>1 DEF Reopens
  <1>3. Troubles' = 0 => Calm(b)'
    <2>1. SUFFICES ASSUME Troubles' = 0 PROVE Calm(b)'
      OBVIOUS
    <2>2. Troubles = 0 /\ Troubles' # Troubles + 1
      BY <1>1, <2>1
    <2>3. Calm(b) /\ tree'[b] = tree[b] /\ q.step = r.step /\ Still(q, r)
      BY <2>2 DEF Healing, Apart
    <2>4. Running(b)' <=> Running(b)
      BY <2>3 DEF Running, Resting, At
    <2>5. ASSUME NEW t \in tabs', t.agent # Nothing, t.agent[1] = b
          PROVE  \/ live[b] /\ Handle(t) = latest[b].tab
                 \/ q.step = "prompt" /\ Handle(t) = q.tab
      <3>1. PICK u \in tabs : Handle(u) = Handle(t) /\ u.agent = t.agent
        BY <2>5 DEF Apart
      <3>2. QED
        BY <2>3, <2>5, <3>1 DEF Calm, At, Still
    <2>6. QED
      BY <1>1, <1>2, <2>3, <2>4, <2>5 DEF Calm, Still, At, Handle
  <1>4. Troubles' <= 1 => Whole(b)'
    <2>1. SUFFICES ASSUME Troubles' <= 1 PROVE Whole(b)'
      OBVIOUS
    <2>2. Whole(b)
      BY <1>1, <2>1 DEF Healing
    <2>3. CASE Troubles' = Troubles + 1
      <3>1. Calm(b)
        BY <1>1, <2>1, <2>3 DEF Healing
      <3>2. b \in Actors /\ remote[b] \in Nat
        BY StartAssumption DEF TypeOK, Actors
      <3>3. ~(local'[b].tip = 0 /\ remote'[b] > 0)
        BY <3>1, <3>2 DEF Calm
      <3>4. QED
        BY <2>2, <3>3 DEF Whole
    <2>4. CASE Troubles' # Troubles + 1
      BY <1>2, <2>2, <2>4 DEF Apart, Whole, Still
    <2>5. QED
      BY <2>3, <2>4
  <1>5. QED
    BY <1>3, <1>4, ApartKeeps DEF Healing

(* A step of another actor's start. *)
LEMMA MovesElsewhere ==
    ASSUME NEW a \in Actors, NEW b \in Tickets, a # b, IInv, TypeOK', Healing(b), Moves(a)
    PROVE  Healing(b)'
  <1>1. b \in Actors /\ TypeOK /\ run[b] \in Runs
    BY DEF IInv, TypeOK, Actors
  <1>2. Worldly(a) /\ Id(a) \notin Of(b)
    BY <1>1, IdFacts DEF Moves
  <1>3. /\ run'[b] = run[b] /\ tree'[b] = tree[b] /\ local'[b] = local[b]
        /\ remote'[b] = remote[b] /\ UNCHANGED memory /\ Troubles' \in {Troubles, Troubles + 1}
    BY <1>1, <1>2 DEF Worldly
  <1>4. \A t \in tabs' : t \in tabs \/ (t.by \notin Of(b) /\ t.agent = Nothing)
    BY <1>2 DEF Worldly
  <1>5. Apart(b)
    BY <1>3, <1>4 DEF Apart, Still, memory
  <1>6. QED
    BY <1>1, <1>3, <1>5, ApartHeals

--------------------------------------------------------------------------------
(* The ask for a name. *)

(* A name is of its actor, and the third a ticket asks for of its start. *)
LEMMA NameIs ==
    ASSUME NEW a \in Actors, IInv
    PROVE  LET name == Names(a)[run[a].ask] IN
           /\ name # Nothing /\ name[1] = a
           /\ \A c, m \in Nat : name = <<a, c, m>> => m = run[a].n
           /\ a \in Tickets => run[a].ask < 3 \/ name = <<a, cycle[a], run[a].n>>
           /\ a \in Tickets => Len(Names(a)) = 3 /\ cycle[a] \in Nat
  <1>1. /\ run[a] \in Runs /\ run[a].n \in Nat /\ run[a].ask \in 1..3
        /\ a \in Consultations => run[a].ask = 1
        /\ a \in Tickets => cycle[a] \in Nat
    BY IdFacts DEF IInv, TypeOK, Sound, Alone, Runs
  <1>2. CASE a \in Consultations
    <2>1. Names(a) = << <<a>> >>
      BY <1>2 DEF Names
    <2>2. Names(a)[1] = <<a>>
      BY <2>1
    <2>3. a \notin Tickets
      BY <1>2, ApartParts
    <2>4. <<a>> # Nothing /\ \A c, m \in Nat : <<a>> # <<a, c, m>>
      BY DEF Nothing
    <2>5. QED
      BY <1>1, <1>2, <2>2, <2>3, <2>4
  <1>3. CASE a \in Tickets /\ a \notin Consultations
    <2>1. Names(a) = << <<a>>, <<a, cycle[a]>>, <<a, cycle[a], run[a].n>> >>
      BY <1>3 DEF Names
    <2>2. /\ Names(a)[1] = <<a>> /\ Names(a)[2] = <<a, cycle[a]>>
          /\ Names(a)[3] = <<a, cycle[a], run[a].n>> /\ Len(Names(a)) = 3
      BY <2>1
    <2>3. \/ run[a].ask = 1 \/ run[a].ask = 2 \/ run[a].ask = 3
      BY <1>1
    <2>4. CASE run[a].ask = 1
      <3>1. <<a>> # Nothing /\ \A c, m \in Nat : <<a>> # <<a, c, m>>
        BY DEF Nothing
      <3>2. QED
        BY <1>1, <1>3, <2>2, <2>4, <3>1
    <2>5. CASE run[a].ask = 2
      <3>1. <<a, cycle[a]>> # Nothing /\ \A c, m \in Nat : <<a, cycle[a]>> # <<a, c, m>>
        BY DEF Nothing
      <3>2. QED
        BY <1>1, <1>3, <2>2, <2>5, <3>1
    <2>6. CASE run[a].ask = 3
      <3>1. <<a, cycle[a], run[a].n>> # Nothing
        BY DEF Nothing
      <3>2. QED
        BY <1>1, <1>3, <2>2, <2>6, <3>1
    <2>7. QED
      BY <2>3, <2>4, <2>5, <2>6
  <1>4. QED
    BY <1>2, <1>3, ApartParts

(* What an ask does to the record of the start, and to the tabs. *)
Alike(q, r) ==
    /\ q.n = r.n /\ q.worktree = r.worktree /\ q.stored = r.stored
    /\ q.continues = r.continues /\ q.builds = r.builds /\ q.handed = r.handed
    /\ q.made = r.made /\ q.space = r.space /\ q.tab = r.tab
Falling(a) == run'[a].step \in Cleans \cup {"rest"}

LEMMA AlikeFails ==
    ASSUME NEW r \in Runs, NEW h \in Handles, NEW g, g = [r EXCEPT !.met = h]
    PROVE  /\ Alike(Fails(g), r) /\ Fails(g).met = h /\ Fails(g).step \in Cleans \cup {"rest"}
           /\ g.ask = r.ask /\ g \in Runs
  <1>1. /\ g \in Runs /\ Alike(g, r) /\ g.met = h /\ g.step = r.step /\ g.ask = r.ask
    BY DEF Runs, Alike
  <1>2. Cleaning(g.made) \in Cleans \cup {"rest"}
    BY <1>1, CleaningIs DEF Cleans
  <1>3. Alike(Fails(g), r) /\ Fails(g).met = h /\ Fails(g).step = Cleaning(g.made)
    BY <1>1 DEF Runs, Alike, Fails
  <1>4. QED
    BY <1>1, <1>2, <1>3

AskEnds(a, name, holders, own) ==
    \/ /\ UNCHANGED <<tabs, spent, leftover>> /\ TabOf(run[a].tab) = {}
       /\ run'[a].met = run[a].met /\ Falling(a)
    \/ /\ UNCHANGED <<tabs, spent>> /\ holders # {}
       /\ own => \E t \in holders : OwnHolder(a, t) /\ run'[a].met = Handle(t)
       /\ ~own => run'[a].met = run[a].met
       /\ IF own /\ run[a].ask < Len(Names(a))
          THEN run'[a].step = "agent" /\ UNCHANGED leftover
          ELSE Falling(a) /\ \E h : Remembers(a, h)
    \/ /\ holders = {} /\ run'[a].met = run[a].met
       /\ \/ /\ tabs' = Named(run[a].tab, name) /\ UNCHANGED <<spent, leftover>>
             /\ run'[a].step = "prompt" /\ run'[a].accepted
          \/ /\ UNCHANGED tabs \/ tabs' = Named(run[a].tab, name)
             /\ Falling(a) /\ spent' # spent
             /\ Troubles' = Troubles + 1 /\ \E h : Remembers(a, h)

LEMMA StartAgentIs ==
    ASSUME NEW a \in Actors, IInv, StartAgent(a),
           NEW name, name = Names(a)[run[a].ask],
           NEW holders, holders = {t \in tabs : t.agent = name},
           NEW own \in BOOLEAN, own <=> \E t \in holders : OwnHolder(a, t)
    PROVE  /\ Alike(run'[a], run[a]) /\ run[a].step = "agent"
           /\ \A b \in Actors \ {a} : run'[b] = run[b]
           /\ UNCHANGED <<spaces, tree, branches, recorded, latest, live, cycle>>
           /\ AskEnds(a, name, holders, own)
  <1>1. /\ run[a].step = "agent" /\ TypeOK /\ run[a] \in Runs
        /\ UNCHANGED <<spaces, tree, branches, recorded, latest, live, cycle>>
    BY DEF StartAgent, At, IInv, TypeOK
  <1> DEFINE met == IF own THEN Handle(CHOOSE t \in holders : OwnHolder(a, t)) ELSE run[a].met
             r == [run[a] EXCEPT !.met = met]
  <1>2. /\ met \in Handles
        /\ own => \E t \in holders : OwnHolder(a, t) /\ met = Handle(t)
        /\ ~own => met = run[a].met
    <2>1. CASE own
      <3>1. PICK t \in holders : OwnHolder(a, t) /\ met = Handle(t)
        BY <2>1
      <3>2. \A u \in tabs : Handle(u) \in Handles
        BY <1>1 DEF TypeOK, Handle, Handles
      <3>3. QED
        BY <2>1, <3>1, <3>2
    <2>2. CASE ~own
      BY <1>1, <2>2 DEF Runs
    <2>3. QED
      BY <2>1, <2>2
  <1>3. CASE TabOf(run[a].tab) = {}
    <2>1. Becomes(a, Fails(run[a])) /\ UNCHANGED <<tabs, spent, leftover>>
      BY <1>3 DEF StartAgent
    <2>2. /\ Still(run'[a], run[a]) /\ Falling(a)
          /\ \A b \in Actors \ {a} : run'[b] = run[b]
      BY <1>1, <2>1, FailIs DEF Falling
    <2>3. Alike(run'[a], run[a]) /\ run'[a].met = run[a].met
      BY <2>2 DEF Still, Alike
    <2>4. QED
      BY <1>1, <1>3, <2>1, <2>2, <2>3 DEF AskEnds
  <1>4. CASE TabOf(run[a].tab) # {} /\ holders # {}
    <2>1. /\ UNCHANGED <<tabs, spent>>
          /\ IF own /\ run[a].ask < Len(Names(a))
             THEN Becomes(a, [r EXCEPT !.ask = @ + 1]) /\ UNCHANGED leftover
             ELSE Becomes(a, Fails(r)) /\ Remembers(a, met)
      <3>1. LET nm == Names(a)[run[a].ask]
                hs == {t \in tabs : t.agent = nm}
                ow == \E t \in hs : OwnHolder(a, t)
                mt == IF ow THEN Handle(CHOOSE t \in hs : OwnHolder(a, t)) ELSE run[a].met
                rr == [run[a] EXCEPT !.met = mt]
            IN /\ UNCHANGED <<tabs, spent>>
               /\ IF ow /\ run[a].ask < Len(Names(a))
                  THEN Becomes(a, [rr EXCEPT !.ask = @ + 1]) /\ UNCHANGED leftover
                  ELSE Becomes(a, Fails(rr)) /\ Remembers(a, mt)
        BY <1>4 DEF StartAgent
      <3>2. QED
        BY <3>1
    <2> HIDE DEF met
    <2>2. CASE own /\ run[a].ask < Len(Names(a))
      <3>1. PICK k : k = r.ask + 1
        OBVIOUS
      <3>2. Becomes(a, [r EXCEPT !.ask = k]) /\ UNCHANGED leftover
        BY <2>1, <2>2, <3>1
      <3>3. run'[a] = [r EXCEPT !.ask = k] /\ \A b \in Actors \ {a} : run'[b] = run[b]
        BY <1>1, <3>2, RunIs
      <3>4. Alike(run'[a], run[a]) /\ run'[a].met = met /\ run'[a].step = run[a].step
        <4>1. PICK h \in Handles : h = met
          BY <1>2
        <4>2. PICK g : g = [run[a] EXCEPT !.met = h]
          OBVIOUS
        <4>3. PICK q : q = [g EXCEPT !.ask = k]
          OBVIOUS
        <4>4. run'[a] = q
          BY <3>3, <4>1, <4>2, <4>3
        <4>5. Alike(q, run[a]) /\ q.met = h /\ q.step = run[a].step
          BY <1>1, <4>2, <4>3 DEF Runs, Alike
        <4>6. QED
          BY <4>1, <4>4, <4>5
      <3>5. QED
        BY <1>1, <1>2, <1>4, <2>1, <2>2, <3>2, <3>3, <3>4 DEF AskEnds
    <2>3. CASE ~(own /\ run[a].ask < Len(Names(a)))
      <3>1. Becomes(a, Fails(r)) /\ Remembers(a, met)
        BY <2>1, <2>3
      <3>2. run'[a] = Fails(r) /\ \A b \in Actors \ {a} : run'[b] = run[b]
        BY <1>1, <3>1, RunIs
      <3>3. Alike(run'[a], run[a]) /\ run'[a].met = met /\ Falling(a)
        BY <1>1, <1>2, <3>2, AlikeFails DEF Falling
      <3>4. QED
        BY <1>1, <1>2, <1>4, <2>1, <2>3, <3>1, <3>2, <3>3 DEF AskEnds
    <2>4. QED
      BY <2>2, <2>3
  <1>5. CASE TabOf(run[a].tab) # {} /\ holders = {}
    <2>1. PICK o \in {"ok", "refused", "lost"} :
            /\ Answered(o)
            /\ tabs' = IF Takes(o) THEN Named(run[a].tab, name) ELSE tabs
            /\ IF o = "ok"
               THEN Becomes(a, [run[a] EXCEPT !.step = "prompt", !.accepted = TRUE])
                    /\ UNCHANGED leftover
               ELSE Becomes(a, Fails(run[a])) /\ Remembers(a, run[a].met)
      BY <1>5 DEF StartAgent, Named
    <2>2. CASE o = "ok"
      <3>1. run'[a] = [run[a] EXCEPT !.step = "prompt", !.accepted = TRUE]
            /\ \A b \in Actors \ {a} : run'[b] = run[b]
        BY <1>1, <2>1, <2>2, RunIs
      <3>2. Alike(run'[a], run[a]) /\ run'[a].met = run[a].met /\ run'[a].step = "prompt"
            /\ run'[a].accepted
        BY <1>1, <3>1 DEF Runs, Alike
      <3>3. UNCHANGED <<spent, leftover>> /\ tabs' = Named(run[a].tab, name)
        BY <2>1, <2>2 DEF Answered, Takes
      <3>4. QED
        BY <1>1, <1>5, <3>1, <3>2, <3>3 DEF AskEnds
    <2>3. CASE o # "ok"
      <3>1. Becomes(a, Fails(run[a])) /\ Remembers(a, run[a].met)
        BY <2>1, <2>3
      <3>2. /\ Still(run'[a], run[a]) /\ Falling(a)
            /\ \A b \in Actors \ {a} : run'[b] = run[b]
        BY <1>1, <3>1, FailIs DEF Falling
      <3>3. Alike(run'[a], run[a]) /\ run'[a].met = run[a].met
        BY <3>2 DEF Still, Alike
      <3>4. Troubles' = Troubles + 1 /\ Troubles \in Nat
        BY <1>1, <2>1, <2>3, TroublesAre
      <3>5. spent' # spent
        BY <3>4 DEF Troubles
      <3>6. QED
        BY <1>1, <1>5, <2>1, <3>1, <3>2, <3>3, <3>4, <3>5 DEF AskEnds
    <2>4. QED
      BY <2>2, <2>3
  <1>6. QED
    BY <1>3, <1>4, <1>5

LEMMA NamedHas ==
    ASSUME TypeOK, NEW h, NEW name, tabs' = Named(h, name)
    PROVE  \A t \in tabs' : \E u \in tabs :
             /\ Handle(u) = Handle(t) /\ u.space = t.space
             /\ u.agent = t.agent \/ (Handle(t) = h /\ t.agent = name)
  <1> SUFFICES ASSUME NEW t \in tabs'
               PROVE  \E u \in tabs :
                        /\ Handle(u) = Handle(t) /\ u.space = t.space
                        /\ u.agent = t.agent \/ (Handle(t) = h /\ t.agent = name)
    OBVIOUS
  <1>1. PICK u \in tabs : t = IF Handle(u) = h THEN [u EXCEPT !.agent = name] ELSE u
    BY DEF Named
  <1>2. u \in [by : Starts, root : BOOLEAN, space : Makers, agent : Seq(Actors \cup Nat)]
    BY DEF TypeOK
  <1>3. CASE Handle(u) = h
    <2>1. t = [u EXCEPT !.agent = name]
      BY <1>1, <1>3
    <2>2. t.by = u.by /\ t.root = u.root /\ t.space = u.space /\ t.agent = name
      BY <1>2, <2>1
    <2>3. QED
      BY <1>3, <2>2 DEF Handle
  <1>4. CASE Handle(u) # h
    BY <1>1, <1>4
  <1>5. QED
    BY <1>3, <1>4

LEMMA RemembersOwn ==
    ASSUME NEW a \in Actors, TypeOK, NEW b \in Tickets, a # b,
           UNCHANGED leftover \/ \E h : Remembers(a, h)
    PROVE  leftover'[b] = leftover[b]
  BY DEF Remembers, TypeOK

(* The ask of another start. *)
LEMMA StartAgentElsewhere ==
    ASSUME NEW a \in Actors, NEW b \in Tickets, a # b, IInv, TypeOK', Healing(b), StartAgent(a)
    PROVE  Healing(b)'
  <1>1. PICK name : name = Names(a)[run[a].ask]
    OBVIOUS
  <1>2. PICK holders : holders = {t \in tabs : t.agent = name}
    OBVIOUS
  <1>3. PICK own \in BOOLEAN : own <=> \E t \in holders : OwnHolder(a, t)
    OBVIOUS
  <1>4. /\ \A c \in Actors \ {a} : run'[c] = run[c]
        /\ UNCHANGED <<spaces, tree, branches, recorded, latest, live, cycle>>
        /\ UNCHANGED tabs \/ tabs' = Named(run[a].tab, name)
        /\ UNCHANGED leftover \/ \E h : Remembers(a, h)
        /\ UNCHANGED spent \/ Troubles' = Troubles + 1
    BY <1>1, <1>2, <1>3, StartAgentIs DEF AskEnds
  <1>5. TypeOK /\ b \in Actors /\ run'[b] = run[b]
    BY <1>4 DEF IInv, Actors
  <1>6. Troubles' \in {Troubles, Troubles + 1}
    BY <1>4, <1>5, TroublesAre
  <1>7. leftover'[b] = leftover[b]
    BY <1>4, <1>5, RemembersOwn
  <1>8. name[1] = a
    BY <1>1, NameIs
  <1>9. \A t \in tabs' :
          \E u \in tabs : /\ Handle(u) = Handle(t) /\ u.space = t.space
                          /\ u.agent = t.agent \/ t.agent = Nothing \/ t.agent[1] # b
    <2>1. CASE UNCHANGED tabs
      BY <2>1
    <2>2. CASE tabs' = Named(run[a].tab, name)
      BY <1>5, <1>8, <2>2, NamedHas
    <2>3. QED
      BY <1>4, <2>1, <2>2
  <1>10. Apart(b)
    BY <1>4, <1>5, <1>6, <1>7, <1>9 DEF Apart, Still
  <1>11. QED
    BY <1>4, <1>5, <1>10, ApartHeals DEF branches

(* Before any trouble, and at the third name at any time, an ask that meets *)
(* a holder of the ticket's own asks on.                                   *)
LEMMA AsksOn ==
    ASSUME NEW a \in Tickets, IInv, Unnamed(a), At(a, "agent"),
           NEW t \in tabs, t.agent = Names(a)[run[a].ask]
    PROVE  run[a].ask < Len(Names(a))
  <1>1. a \in Actors /\ run[a].n \in Nat
    BY IdFacts DEF Actors, IInv
  <1>2. /\ run[a].ask < 3 \/ t.agent = <<a, cycle[a], run[a].n>>
        /\ Len(Names(a)) = 3 /\ cycle[a] \in Nat
    BY <1>1, NameIs
  <1>3. run[a].step \in Taken \ {"prompt"}
    BY DEF At, Taken, InSpace
  <1>4. t.agent # <<a, cycle[a], run[a].n>>
    BY <1>1, <1>2, <1>3 DEF Unnamed
  <1>5. QED
    BY <1>2, <1>4

(* What the ask of a start's own leaves of it. *)
LEMMA StartAgentOwn ==
    ASSUME NEW a \in Tickets, IInv, IInv', Healing(a), StartAgent(a)
    PROVE  Healing(a)'
  <1> DEFINE r == run[a]  q == run'[a]
  <1>1. PICK name : name = Names(a)[run[a].ask]
    OBVIOUS
  <1>2. PICK holders : holders = {t \in tabs : t.agent = name}
    OBVIOUS
  <1>3. PICK own \in BOOLEAN : own <=> \E t \in holders : OwnHolder(a, t)
    OBVIOUS
  <1>4. a \in Actors /\ TypeOK /\ r.n \in Nat /\ Id(a) \in Of(a)
    <2>1. a \in Actors /\ TypeOK
      BY DEF IInv, Actors
    <2>2. QED
      BY <2>1, IdFacts
  <1>5. /\ Alike(q, r) /\ r.step = "agent"
        /\ UNCHANGED <<spaces, tree, branches, recorded, latest, live, cycle>>
    BY <1>1, <1>2, <1>3, <1>4, StartAgentIs
  <1>6. \/ /\ UNCHANGED <<tabs, spent, leftover>> /\ q.met = r.met /\ Falling(a)
        \/ /\ UNCHANGED <<tabs, spent>> /\ holders # {}
           /\ own => \E t \in holders : OwnHolder(a, t) /\ q.met = Handle(t)
           /\ ~own => q.met = r.met
           /\ IF own /\ r.ask < Len(Names(a))
              THEN q.step = "agent" /\ UNCHANGED leftover ELSE Falling(a)
        \/ /\ tabs' = Named(r.tab, name) /\ UNCHANGED <<spent, leftover>>
           /\ q.step = "prompt" /\ q.met = r.met
        \/ /\ UNCHANGED tabs \/ tabs' = Named(r.tab, name)
           /\ Falling(a) /\ Troubles' = Troubles + 1
    <2>1. AskEnds(a, name, holders, own)
      BY <1>1, <1>2, <1>3, <1>4, StartAgentIs
    <2>2. QED
      BY <2>1 DEF AskEnds
  <1>7. /\ Troubles \in Nat /\ Troubles' \in {Troubles, Troubles + 1}
        /\ q.step \in {"agent", "prompt"} \cup Cleans \cup {"rest"}
        /\ q.n = r.n /\ Id(a)' = Id(a) /\ Running(a)
    BY <1>4, <1>5, <1>6, TroublesAre DEF Falling, Alike, Id, Running, Resting, At
  <1>8. /\ q.step \notin Before /\ q.step \notin Planting /\ q.step \notin Naming
        /\ q.step # "list" /\ "agent" \in Taken /\ "agent" \in InSpace
    BY <1>7 DEF Before, Planting, Naming, Cleans, Taken, InSpace
  <1>9. name[1] = a /\ \A c, m \in Nat : name = <<a, c, m>> => m = r.n
    BY <1>1, <1>4, NameIs
  <1>10. \A t \in tabs' : \E u \in tabs :
           /\ Handle(u) = Handle(t) /\ u.space = t.space
           /\ \/ u.agent = t.agent
              \/ Handle(t) = r.tab /\ t.agent = name /\ q.step # "agent"
    <2>1. CASE UNCHANGED tabs
      BY <2>1
    <2>2. CASE tabs' = Named(r.tab, name) /\ q.step # "agent"
      BY <1>4, <2>2, NamedHas
    <2>3. Falling(a) => q.step # "agent"
      BY DEF Falling, Cleans
    <2>4. QED
      BY <1>6, <2>1, <2>2, <2>3
  <1>11. Bound(a)'
    BY <1>5, <1>7, <1>8 DEF Healing, Bound, Alike, At
  <1>12. Older(a)'
    BY <1>5, <1>7 DEF Healing, Older
  <1>13. Homed(a)'
    <2>1. ASSUME NEW t \in tabs'
          PROVE  /\ Handle(t) = latest[a].tab => t.space = latest[a].space
                 /\ Handle(t) = r.tab => t.space = r.space
      <3>1. PICK u \in tabs : Handle(u) = Handle(t) /\ u.space = t.space
        BY <1>10
      <3>2. QED
        BY <1>5, <1>8, <3>1 DEF Healing, Homed
    <2>2. q.tab = r.tab /\ q.space = r.space
      BY <1>5 DEF Alike
    <2>3. QED
      BY <1>5, <1>8, <2>1, <2>2 DEF Homed, Handle
  <1>14. Unnamed(a)'
    <2>1. SUFFICES ASSUME NEW t \in tabs', NEW c \in Nat, NEW m \in Nat, t.agent = <<a, c, m>>
                   PROVE  /\ m <= q.n
                          /\ m = q.n => q.step \notin Before \cup (Taken \ {"prompt"})
      BY DEF Unnamed
    <2>2. PICK u \in tabs :
            \/ u.agent = t.agent
            \/ t.agent = name /\ q.step # "agent"
      BY <1>10
    <2>3. CASE u.agent = t.agent
      BY <1>5, <1>7, <1>8, <2>1, <2>3 DEF Healing, Unnamed
    <2>4. CASE t.agent = name /\ q.step # "agent"
      <3>1. m = r.n
        BY <1>9, <2>1, <2>4
      <3>2. q.step \notin Taken \ {"prompt"}
        BY <1>7, <2>4 DEF Taken, InSpace, Cleans
      <3>3. QED
        BY <1>4, <1>7, <1>8, <3>1, <3>2
    <2>5. QED
      BY <2>2, <2>3, <2>4
  <1>15. Reopens(a)' <=> Reopens(a)
    BY <1>5 DEF Reopens
  <1>16. Troubles' = 0 => Calm(a)'
    <2>1. SUFFICES ASSUME Troubles' = 0 PROVE Calm(a)'
      OBVIOUS
    <2>2. Calm(a) /\ Troubles' # Troubles + 1 /\ Bound(a)
      BY <1>7, <2>1 DEF Healing
    <2>3. ASSUME NEW t \in holders PROVE live[a] /\ Handle(t) = latest[a].tab /\ OwnHolder(a, t)
      <3>1. t \in tabs /\ t.agent = name /\ t.agent # Nothing
        BY <1>1, <1>2, <1>4, NameIs
      <3>2. live[a] /\ Handle(t) = latest[a].tab
        BY <1>5, <1>9, <2>2, <3>1 DEF Calm, At
      <3>3. latest[a] \in recorded[a]
        BY <1>4, <3>2 DEF TypeOK
      <3>4. QED
        BY <3>2, <3>3 DEF OwnHolder
    <2>4. ASSUME NEW t \in holders PROVE r.ask < Len(Names(a))
      BY <1>1, <1>2, <1>5, AsksOn DEF Healing, At
    <2>5. holders # {} => own
      BY <1>3, <2>3
    <2>6. leftover' = leftover
      BY <1>6, <2>2, <2>4, <2>5
    <2>7. q.met = NoTab \/ (q.continues /\ q.met = latest[a].tab)
      <3>1. q.met = r.met \/ (live[a] /\ q.met = latest[a].tab)
        BY <1>6, <2>2, <2>3
      <3>2. q.continues = r.continues /\ (live[a] => r.continues)
        BY <1>5, <1>7, <2>2 DEF Bound, Alike
      <3>3. QED
        BY <1>7, <2>2, <3>1, <3>2 DEF Calm
    <2>8. ASSUME NEW t \in tabs', t.agent # Nothing, t.agent[1] = a
          PROVE  \/ live[a] /\ Handle(t) = latest[a].tab
                 \/ q.step = "prompt" /\ Handle(t) = q.tab
      <3>1. PICK u \in tabs : /\ Handle(u) = Handle(t)
                              /\ \/ u.agent = t.agent
                                 \/ Handle(t) = r.tab /\ t.agent = name /\ q.step # "agent"
        BY <1>10
      <3>2. CASE u.agent = t.agent
        BY <1>5, <2>2, <2>8, <3>1, <3>2 DEF Calm, At
      <3>3. CASE tabs' # tabs
        BY <1>5, <1>6, <2>2, <3>1, <3>2, <3>3 DEF Alike
      <3>4. CASE tabs' = tabs
        BY <1>5, <2>2, <2>8, <3>4 DEF Calm, At
      <3>5. QED
        BY <3>3, <3>4
    <2>9. q.worktree /\ q.step \in InSpace => tree'[a].is = "stands"
      BY <1>5, <1>8, <2>2 DEF Calm, Alike
    <2>10. QED
      BY <1>5, <1>7, <1>15, <2>2, <2>6, <2>7, <2>8, <2>9 DEF Calm, Alike, At, branches, Handle
  <1>17. Troubles' <= 1 => Whole(a)'
    BY <1>5, <1>7, <1>8, <1>15 DEF Healing, Whole, Alike, branches
  <1>18. QED
    BY <1>11, <1>12, <1>13, <1>14, <1>16, <1>17 DEF Healing

--------------------------------------------------------------------------------
(* The prompt, and the record of the start that landed. *)

LEMMA PromptAgentIs ==
    ASSUME NEW a \in Actors, IInv, PromptAgent(a)
    PROVE  /\ run[a].step = "prompt" /\ run'[a].step = "rest" /\ Still(run'[a], run[a])
           /\ \A b \in Actors \ {a} : run'[b] = run[b]
           /\ UNCHANGED <<spaces, tree, branches, cycle>> /\ tabs' \subseteq tabs
           /\ Troubles' \in {Troubles, Troubles + 1}
           /\ \A b \in Tickets \ {a} : /\ recorded'[b] = recorded[b] /\ latest'[b] = latest[b]
                                       /\ live'[b] = live[b] /\ leftover'[b] = leftover[b]
           /\ a \in Tickets =>
                /\ recorded'[a] = recorded[a] \cup {Entry(a)} /\ latest'[a] = Entry(a) /\ live'[a]
                /\ \E h \in {NoTab, run[a].met} :
                     /\ leftover'[a] = leftover[a] \cup EntriesOf(a, h)
                     /\ /\ run[a].continues /\ latest[a].tab \notin {NoTab, run[a].tab}
                        /\ Troubles' = Troubles
                        => /\ \A t \in tabs' : Handle(t) # latest[a].tab
                           /\ run[a].met = latest[a].tab => h = NoTab
  <1>1. /\ run[a].step = "prompt" /\ UNCHANGED <<spaces, tree, branches, cycle>>
        /\ Becomes(a, [run[a] EXCEPT !.step = "rest"]) /\ TypeOK
    BY DEF PromptAgent, At, IInv
  <1>2. /\ Still(run'[a], run[a]) /\ run'[a].step = "rest"
        /\ \A b \in Actors \ {a} : run'[b] = run[b]
    BY <1>1, StepIs
  <1> DEFINE previous == IF a \in Tickets /\ run[a].continues THEN latest[a].tab ELSE NoTab
             closes == previous # NoTab /\ previous # run[a].tab
  <1>3. PICK o \in {"ok", "refused", "lost"}, h \in {NoTab, run[a].met} :
          /\ h = IF (closes /\ (o = "ok" \/ TabOf(previous) = {})) /\ run[a].met = previous
                 THEN NoTab ELSE run[a].met
          /\ IF closes /\ TabOf(previous) # {}
             THEN Answered(o) /\ tabs' = (IF Takes(o) THEN tabs \ TabOf(previous) ELSE tabs)
             ELSE o = "ok" /\ UNCHANGED <<tabs, spent>>
          /\ IF a \in Tickets
             THEN /\ recorded' = [recorded EXCEPT ![a] = @ \cup {Entry(a)}]
                  /\ latest' = [latest EXCEPT ![a] = Entry(a)]
                  /\ live' = [live EXCEPT ![a] = TRUE]
                  /\ Remembers(a, h)
             ELSE UNCHANGED <<recorded, latest, live, leftover>>
    BY DEF PromptAgent
  <1> HIDE DEF previous, closes
  <1>4. tabs' \subseteq tabs /\ Answered(o)
    BY <1>3 DEF Answered
  <1>5. Troubles' \in {Troubles, Troubles + 1} /\ (Troubles' = Troubles => o = "ok")
    <2>1. Troubles \in Nat /\ (o # "ok" => Troubles' = Troubles + 1)
      BY <1>1, <1>4, TroublesAre
    <2>2. QED
      BY <1>1, <1>4, <2>1, AnswerIs
  <1>6. /\ \A b \in Tickets \ {a} : /\ recorded'[b] = recorded[b] /\ latest'[b] = latest[b]
                                    /\ live'[b] = live[b] /\ leftover'[b] = leftover[b]
        /\ a \in Tickets =>
             /\ recorded'[a] = recorded[a] \cup {Entry(a)} /\ latest'[a] = Entry(a) /\ live'[a]
             /\ leftover'[a] = leftover[a] \cup EntriesOf(a, h)
    <2>1. CASE a \in Tickets
      <3>1. /\ recorded' = [recorded EXCEPT ![a] = @ \cup {Entry(a)}]
            /\ latest' = [latest EXCEPT ![a] = Entry(a)]
            /\ live' = [live EXCEPT ![a] = TRUE]
            /\ leftover' = [leftover EXCEPT ![a] = @ \cup EntriesOf(a, h)]
        BY <1>3, <2>1 DEF Remembers
      <3>2. QED
        BY <1>1, <2>1, <3>1 DEF TypeOK
    <2>2. CASE a \notin Tickets
      BY <1>3, <2>2
    <2>3. QED
      BY <2>1, <2>2
  <1>7. ASSUME a \in Tickets, run[a].continues, latest[a].tab \notin {NoTab, run[a].tab},
               Troubles' = Troubles
        PROVE  /\ \A t \in tabs' : Handle(t) # latest[a].tab
               /\ run[a].met = latest[a].tab => h = NoTab
    <2>1. previous = latest[a].tab /\ closes /\ o = "ok"
      BY <1>5, <1>7 DEF previous, closes
    <2>2. run[a].met = latest[a].tab => h = NoTab
      BY <1>3, <2>1
    <2>3. \A t \in tabs' : Handle(t) # latest[a].tab
      BY <1>3, <2>1 DEF TabOf, Takes
    <2>4. QED
      BY <2>2, <2>3
  <1>8. QED
    BY <1>1, <1>2, <1>4, <1>5, <1>6, <1>7

LEMMA PromptAgentElsewhere ==
    ASSUME NEW a \in Actors, NEW b \in Tickets, a # b, IInv, TypeOK', Healing(b), PromptAgent(a)
    PROVE  Healing(b)'
  <1>1. TypeOK /\ b \in Actors
    BY DEF IInv, Actors
  <1>2. /\ run'[b] = run[b] /\ UNCHANGED <<spaces, tree, branches>> /\ tabs' \subseteq tabs
        /\ Troubles' \in {Troubles, Troubles + 1}
        /\ recorded'[b] = recorded[b] /\ latest'[b] = latest[b]
        /\ live'[b] = live[b] /\ leftover'[b] = leftover[b]
    BY <1>1, PromptAgentIs
  <1>3. Apart(b)
    BY <1>2 DEF Apart, Still
  <1>4. QED
    BY <1>1, <1>2, <1>3, ApartHeals DEF branches

LEMMA PromptAgentOwn ==
    ASSUME NEW a \in Tickets, IInv, IInv', Healing(a), PromptAgent(a)
    PROVE  Healing(a)'
  <1> DEFINE r == run[a]  q == run'[a]
  <1>1. a \in Actors /\ TypeOK /\ r.n \in Nat /\ Id(a) \in Of(a) /\ Id(a)[2] = r.n
        /\ Id(a) # Nothing
    <2>1. a \in Actors /\ TypeOK
      BY DEF IInv, Actors
    <2>2. QED
      BY <2>1, IdFacts DEF Nothing
  <1>2. /\ r.step = "prompt" /\ q.step = "rest" /\ Still(q, r)
        /\ UNCHANGED <<spaces, tree, branches>> /\ tabs' \subseteq tabs
        /\ Troubles' \in {Troubles, Troubles + 1} /\ Troubles \in Nat
        /\ recorded'[a] = recorded[a] \cup {Entry(a)} /\ latest'[a] = Entry(a) /\ live'[a]
    BY <1>1, PromptAgentIs, TroublesAre
  <1>3. PICK h \in {NoTab, r.met} :
          /\ leftover'[a] = leftover[a] \cup EntriesOf(a, h)
          /\ r.continues /\ latest[a].tab \notin {NoTab, r.tab} /\ Troubles' = Troubles
             => /\ \A t \in tabs' : Handle(t) # latest[a].tab
                /\ r.met = latest[a].tab => h = NoTab
    BY <1>1, PromptAgentIs
  <1>4. /\ "rest" \notin Before \cup Taken /\ "rest" \notin Planting \cup Naming
        /\ "rest" \notin InSpace /\ "prompt" \in Taken /\ "prompt" \in InSpace
    BY DEF Before, Planting, Naming, Taken, InSpace
  <1>5. /\ Running(a) /\ ~Running(a)' /\ q.n = r.n /\ Id(a)' = Id(a)
        /\ r.tab.by = Id(a) /\ (r.continues <=> live[a]) /\ latest[a].tab.by # Id(a)
    <2>1. Running(a) /\ ~Running(a)' /\ q.n = r.n
      BY <1>2 DEF Running, Resting, At, Still
    <2>2. QED
      BY <1>1, <1>2, <1>4, <2>1, LatestIsNotOwn DEF Healing, Bound, Id
  <1>6. Entry(a).tab = r.tab /\ Entry(a).space = r.space /\ Entry(a).worktree = r.worktree
    BY DEF Entry
  <1>7. Bound(a)'
    BY <1>5 DEF Bound
  <1>8. Older(a)'
    BY <1>1, <1>2, <1>5, <1>6 DEF Healing, Older
  <1>9. Homed(a)'
    BY <1>2, <1>4, <1>6 DEF Healing, Homed, Handle
  <1>10. Unnamed(a)'
    BY <1>2, <1>4, <1>5 DEF Healing, Unnamed
  <1>11. Reopens(a)' <=> r.worktree
    BY <1>2, <1>6 DEF Reopens
  <1>12. Troubles' = 0 => Calm(a)'
    <2>1. SUFFICES ASSUME Troubles' = 0 PROVE Calm(a)'
      OBVIOUS
    <2>2. Calm(a) /\ Troubles' = Troubles
      BY <1>2, <2>1 DEF Healing
    <2>3. latest[a].tab \notin {NoTab} /\ r.continues =>
            /\ \A t \in tabs' : Handle(t) # latest[a].tab
            /\ r.met = latest[a].tab => h = NoTab
      BY <1>3, <1>5, <2>2
    <2>4. h = NoTab
      BY <1>5, <2>2, <2>3 DEF Calm
    <2>5. EntriesOf(a, NoTab) = {}
      <3>1. \A e \in recorded[a] : e.tab.by \in Of(a)
        BY DEF Healing, Older
      <3>2. NoTab.by = Nothing /\ Nothing \notin Of(a)
        BY DEF NoTab, Nothing, Of
      <3>3. QED
        BY <3>1, <3>2 DEF EntriesOf
    <2>6. leftover'[a] = {}
      BY <1>3, <2>2, <2>4, <2>5 DEF Calm
    <2>7. ASSUME NEW t \in tabs', t.agent # Nothing, t.agent[1] = a
          PROVE  Handle(t) = r.tab
      <3>1. Handle(t) # NoTab
        <4>1. t.by \in Starts /\ Nothing \notin Starts
          BY <1>1, <1>2 DEF TypeOK, Starts, Nothing
        <4>2. QED
          BY <4>1 DEF Handle, NoTab
      <3>2. ~(live[a] /\ Handle(t) = latest[a].tab)
        BY <1>5, <2>3, <3>1
      <3>3. QED
        BY <1>2, <2>2, <2>7, <3>2 DEF Calm
    <2>8. r.worktree => tree'[a].is = "stands"
      BY <1>2, <1>4, <2>2 DEF Calm
    <2>9. QED
      BY <1>2, <1>4, <1>5, <1>6, <1>11, <2>2, <2>6, <2>7, <2>8
         DEF Calm, branches, Handle, Running, Resting, At, Still
  <1>13. Troubles' <= 1 => Whole(a)'
    BY <1>2, <1>4, <1>11 DEF Healing, Whole, branches, Still
  <1>14. QED
    BY <1>7, <1>8, <1>9, <1>10, <1>12, <1>13 DEF Healing

--------------------------------------------------------------------------------
(* A start begins. *)

LEMMA BeginIs ==
    ASSUME NEW a \in Actors, IInv, Begin(a)
    PROVE  LET r == run[a]  q == run'[a] IN
           /\ Resting(a) /\ q.n = r.n + 1 /\ q.made = {} /\ ~q.builds /\ ~q.handed /\ q.met = NoTab
           /\ q.continues <=> a \in Tickets /\ live[a]
           /\ q.stored <=> q.continues /\ latest[a].worktree = q.worktree
           /\ q.step \in {"route", "branch", "list"}
           /\ q.step = "branch" => q.worktree /\ ~q.stored
           /\ q.step = "list" /\ q.worktree => q.stored
           /\ \A b \in Actors \ {a} : run'[b] = run[b]
           /\ UNCHANGED <<herdr, tree, branches, memory, spent>>
  <1>1. TypeOK /\ run[a] \in Runs /\ run[a].n \in Nat
    BY IdFacts DEF IInv
  <1>2. Resting(a) /\ UNCHANGED <<herdr, tree, branches, memory, spent>>
    BY DEF Begin, world
  <1>3. PICK worktree, opens, continues, route \in BOOLEAN :
          /\ opens => worktree /\ a \in Tickets
          /\ worktree => \A b \in Actors : run[b].worktree => Resting(b)
          /\ continues <=> a \in Tickets /\ live[a]
          /\ route => continues
          /\ LET r == [NoRun EXCEPT !.n = run[a].n + 1, !.worktree = worktree,
                        !.opens = opens, !.continues = continues,
                        !.stored = continues /\ latest[a].worktree = worktree]
             IN Becomes(a, [r EXCEPT !.step = IF route THEN "route" ELSE FirstStep(r)])
    BY Zenon DEF Begin
  <1>4. PICK stored \in BOOLEAN : stored <=> continues /\ latest[a].worktree = worktree
    OBVIOUS
  <1>5. PICK n \in Nat : n = run[a].n + 1
    BY <1>1
  <1>6. NoRun \in Runs
    <2>1. NoTab \in Handles
      BY DEF NoTab, Handles
    <2>2. QED
      BY <2>1 DEF NoRun, Runs, Steps
  <1>7. PICK r \in Runs :
          r = [NoRun EXCEPT !.n = n, !.worktree = worktree, !.opens = opens,
                            !.continues = continues, !.stored = stored]
    BY <1>6, ZenonT(60) DEF Runs
  <1>8. /\ r.n = n /\ r.worktree = worktree /\ r.continues = continues /\ r.stored = stored
        /\ r.made = {} /\ ~r.handed /\ ~r.builds /\ r.met = NoTab
    BY <1>6, <1>7 DEF NoRun, Runs
  <1> DEFINE s == IF route THEN "route" ELSE FirstStep(r)
  <1>9. /\ s \in {"route", "branch", "list"} /\ s \in Steps
        /\ s = "branch" => worktree /\ ~stored
        /\ s = "list" /\ worktree => stored
    BY <1>8 DEF FirstStep, Steps
  <1> HIDE DEF s
  <1>10. PICK q \in Runs : q = [r EXCEPT !.step = s]
    BY <1>9 DEF Runs
  <1>11. /\ q.n = n /\ q.worktree = worktree /\ q.continues = continues /\ q.stored = stored
         /\ q.made = {} /\ ~q.handed /\ ~q.builds /\ q.met = NoTab /\ q.step = s
    BY <1>8, <1>9, <1>10 DEF Runs
  <1>12. Becomes(a, q)
    <2>1. r = [NoRun EXCEPT !.n = run[a].n + 1, !.worktree = worktree,
                        !.opens = opens, !.continues = continues,
                        !.stored = continues /\ latest[a].worktree = worktree]
      BY <1>4, <1>5, <1>7
    <2>2. QED
      BY <1>3, <1>10, <2>1 DEF s
  <1>13. run'[a] = q /\ \A b \in Actors \ {a} : run'[b] = run[b]
    BY <1>1, <1>12, RunIs
  <1>14. QED
    BY <1>2, <1>3, <1>4, <1>5, <1>9, <1>11, <1>13

LEMMA BeginElsewhere ==
    ASSUME NEW a \in Actors, NEW b \in Tickets, a # b, IInv, TypeOK', Healing(b), Begin(a)
    PROVE  Healing(b)'
  <1>1. TypeOK /\ b \in Actors
    BY DEF IInv, Actors
  <1>2. run'[b] = run[b] /\ UNCHANGED <<herdr, tree, branches, memory, spent>>
    BY <1>1, BeginIs
  <1>3. Apart(b)
    BY <1>1, <1>2, TroublesAre DEF Apart, Still, memory, herdr
  <1>4. QED
    BY <1>1, <1>2, <1>3, ApartHeals DEF branches

LEMMA BeginOwn ==
    ASSUME NEW a \in Tickets, IInv, Healing(a), Begin(a)
    PROVE  Healing(a)'
  <1> DEFINE r == run[a]  q == run'[a]
  <1>1. a \in Actors /\ TypeOK /\ r.n \in Nat /\ Sound(a)
    <2>1. a \in Actors /\ TypeOK
      BY DEF IInv, Actors
    <2>2. QED
      BY <2>1, IdFacts DEF IInv
  <1>2. /\ Resting(a) /\ q.n = r.n + 1 /\ q.made = {} /\ ~q.builds /\ ~q.handed /\ q.met = NoTab
        /\ q.continues <=> live[a]
        /\ q.stored <=> q.continues /\ latest[a].worktree = q.worktree
        /\ q.step \in {"route", "branch", "list"}
        /\ q.step = "branch" => q.worktree /\ ~q.stored
        /\ q.step = "list" /\ q.worktree => q.stored
    BY <1>1, BeginIs
  <1>3. UNCHANGED <<spaces, tabs, tree, local, remote, recorded, latest, live, leftover, spent>>
    BY <1>1, BeginIs DEF herdr, branches, memory
  <1>4. /\ q.step \notin Taken /\ q.step \notin Planting /\ q.step \notin InSpace
        /\ q.step \in Naming => q.step = "branch"
    BY <1>2 DEF Taken, Planting, InSpace, Naming
  <1>5. Id(a)' = <<a, r.n + 1>>
    BY <1>2 DEF Id
  <1>6. Bound(a)'
    BY <1>2, <1>3, <1>4 DEF Bound, At
  <1>7. Older(a)'
    <2>1. ASSUME NEW e \in recorded[a]
          PROVE  e.tab.by \in Of(a) /\ e.tab.by[2] <= r.n + 1 /\ e.tab.by # <<a, r.n + 1>>
      <3>1. e.tab.by \in Of(a) /\ e.tab.by[2] <= r.n
        BY DEF Healing, Older
      <3>2. e.tab.by[2] \in Nat /\ <<a, r.n + 1>>[2] = r.n + 1
        BY <3>1 DEF Of
      <3>3. e.tab.by[2] # r.n + 1 /\ e.tab.by[2] <= r.n + 1
        BY <1>1, <3>1, <3>2
      <3>4. QED
        BY <3>1, <3>2, <3>3
    <2>2. QED
      BY <1>2, <1>3, <1>5, <2>1 DEF Healing, Older
  <1>8. Homed(a)'
    <2>1. ASSUME NEW t \in tabs PROVE t.by # <<a, r.n + 1>>
      <3>1. SUFFICES ASSUME t.by = <<a, r.n + 1>> PROVE FALSE
        OBVIOUS
      <3>2. t.by \in Of(a) /\ t.by[2] = r.n + 1
        BY <1>1, <3>1 DEF Of
      <3>3. QED
        BY <1>1, <3>2 DEF Sound, Aged
    <2>2. TabOf(Fresh(a))' = {}
      BY <1>3, <1>5, <2>1 DEF TabOf, Fresh, Handle
    <2>3. QED
      BY <1>3, <1>4, <2>2 DEF Healing, Homed, Handle
  <1>9. Unnamed(a)'
    <2>1. SUFFICES ASSUME NEW t \in tabs, NEW c \in Nat, NEW m \in Nat, t.agent = <<a, c, m>>
                   PROVE  m <= q.n /\ m # q.n
      BY <1>3 DEF Unnamed
    <2>2. m <= r.n
      BY <2>1 DEF Healing, Unnamed
    <2>3. QED
      BY <1>1, <1>2, <2>2
  <1>10. /\ Reopens(a)' <=> Reopens(a)
         /\ Troubles' = Troubles
    BY <1>1, <1>3, TroublesAre DEF Reopens
  <1>11. Troubles' = 0 => Calm(a)'
    <2>1. SUFFICES ASSUME Troubles' = 0 PROVE Calm(a)'
      OBVIOUS
    <2>2. Calm(a) /\ ~At(a, "prompt")
      BY <1>2, <1>10, <2>1 DEF Healing, Resting, At
    <2>3. QED
      BY <1>2, <1>3, <1>4, <1>10, <2>2 DEF Calm, Handle
  <1>12. Troubles' <= 1 => Whole(a)'
    BY <1>3, <1>4, <1>10 DEF Healing, Whole
  <1>13. QED
    BY <1>6, <1>7, <1>8, <1>9, <1>11, <1>12 DEF Healing

--------------------------------------------------------------------------------
(* The cleanups of a ticket at rest. *)

LEMMA CleanupIs ==
    ASSUME NEW t \in Tickets, TypeOK, NEW e, NEW o \in Outcomes, Cleanup(t, e, o)
    PROVE  /\ tabs' \subseteq tabs /\ Troubles' \in {Troubles, Troubles + 1} /\ Troubles \in Nat
           /\ \A b \in Actors \ {t} : tree'[b] = tree[b]
           /\ tree'[t] = tree[t] \/ tree'[t].is = "none"
           /\ \A b \in Tickets \ {t} : leftover'[b] = leftover[b]
           /\ Troubles' = Troubles =>
                /\ leftover'[t] \subseteq leftover[t]
                /\ IF e.worktree THEN \A x \in tabs' : x.space # e.space
                   ELSE \A x \in tabs' : Handle(x) # e.tab
  <1> DEFINE there == IF e.worktree THEN e.space \in SpaceIds ELSE TabOf(e.tab) # {}
             ends == {x \in recorded[t] :
                        IF e.worktree THEN x.space = e.space ELSE x.tab = e.tab}
  <1>1. /\ IF there THEN Answered(o) ELSE o = "ok" /\ UNCHANGED spent
        /\ IF ~there \/ ~Takes(o) THEN UNCHANGED <<herdr, tree>>
           ELSE IF e.worktree
           THEN /\ Without(e.space)
                /\ tree' = IF tree[t].is \in {"stands", "other"}
                           THEN [tree EXCEPT ![t] = [is |-> "none", by |-> 0]] ELSE tree
           ELSE tabs' = tabs \ TabOf(e.tab) /\ UNCHANGED <<spaces, tree>>
        /\ leftover' = [leftover EXCEPT ![t] = IF o = "ok" THEN @ \ ends ELSE @ \cup {e}]
    BY DEF Cleanup
  <1> HIDE DEF there, ends
  <1>2. Answered(o)
    BY <1>1 DEF Answered
  <1>3. /\ Troubles \in Nat /\ Troubles' \in {Troubles, Troubles + 1}
        /\ Troubles' = Troubles => o = "ok"
    <2>1. Troubles \in Nat /\ Troubles' = IF o = "ok" THEN Troubles ELSE Troubles + 1
      BY <1>2, TroublesAre
    <2>2. QED
      BY <2>1
  <1>4. tabs' \subseteq tabs
    BY <1>1 DEF herdr, Without
  <1>5. /\ \A b \in Actors \ {t} : tree'[b] = tree[b]
        /\ tree'[t] = tree[t] \/ tree'[t].is = "none"
    <2>1. tree' = tree \/ tree' = [tree EXCEPT ![t] = [is |-> "none", by |-> 0]]
      BY <1>1
    <2>2. tree \in [Actors -> [is : {"none", "stands", "other", "leftover"}, by : Nat]]
          /\ t \in Actors
      BY DEF TypeOK, Actors
    <2>3. QED
      BY <2>1, <2>2
  <1>6. \A b \in Tickets \ {t} : leftover'[b] = leftover[b]
    BY <1>1 DEF TypeOK
  <1>7. ASSUME Troubles' = Troubles
        PROVE  /\ leftover'[t] \subseteq leftover[t]
               /\ IF e.worktree THEN \A x \in tabs' : x.space # e.space
                  ELSE \A x \in tabs' : Handle(x) # e.tab
    <2>1. o = "ok" /\ Takes(o)
      BY <1>3, <1>7 DEF Takes
    <2>2. leftover'[t] \subseteq leftover[t]
      BY <1>1, <2>1 DEF TypeOK
    <2>3. CASE ~there
      <3>1. tabs' = tabs
        BY <1>1, <2>3 DEF herdr
      <3>2. \A x \in tabs : x.space \in SpaceIds
        BY DEF TypeOK, SpaceIds
      <3>3. QED
        BY <2>2, <2>3, <3>1, <3>2 DEF there, TabOf
    <2>4. CASE there /\ e.worktree
      BY <1>1, <2>1, <2>2, <2>4 DEF Without
    <2>5. CASE there /\ ~e.worktree
      BY <1>1, <2>1, <2>2, <2>5 DEF TabOf
    <2>6. QED
      BY <2>3, <2>4, <2>5
  <1>8. QED
    BY <1>3, <1>4, <1>5, <1>6, <1>7

LEMMA RestKeeps ==
    ASSUME NEW t \in Tickets, Healing(t), Resting(t), run'[t] = run[t], tabs' \subseteq tabs,
           recorded'[t] = recorded[t], latest'[t] = latest[t]
    PROVE  /\ Bound(t)' /\ Older(t)' /\ Homed(t)' /\ Unnamed(t)' /\ Resting(t)'
           /\ run[t].step \notin InSpace \cup Planting
  <1>1. run[t].step = "rest" /\ run'[t].step = "rest" /\ Resting(t)'
    BY DEF Resting, At
  <1>2. "rest" \notin Before \cup Taken /\ "rest" \notin InSpace \cup Planting
    BY DEF Before, Planting, Naming, Taken, InSpace
  <1>3. Bound(t)' /\ Older(t)'
    BY <1>1 DEF Healing, Bound, Older, Running, Id
  <1>4. Homed(t)' /\ Unnamed(t)'
    BY <1>1, <1>2 DEF Healing, Homed, Unnamed, Handle
  <1>5. QED
    BY <1>1, <1>2, <1>3, <1>4

LEMMA CloseCycleHeals ==
    ASSUME NEW t \in Tickets, NEW b \in Tickets, IInv, TypeOK', Healing(b), CloseCycle(t)
    PROVE  Healing(b)'
  <1>1. TypeOK /\ b \in Actors
    BY DEF IInv, Actors
  <1>2. PICK o \in Outcomes : Cleanup(t, latest[t], o)
    BY DEF CloseCycle
  <1>3. /\ Resting(b) /\ UNCHANGED <<branches, recorded, latest, run>>
        /\ live' = [live EXCEPT ![t] = FALSE]
    BY DEF CloseCycle
  <1>4. /\ tabs' \subseteq tabs /\ Troubles' \in {Troubles, Troubles + 1} /\ Troubles \in Nat
        /\ tree'[t] = tree[t] \/ tree'[t].is = "none"
        /\ Troubles' = Troubles =>
             /\ leftover'[t] \subseteq leftover[t]
             /\ IF latest[t].worktree THEN \A x \in tabs' : x.space # latest[t].space
                ELSE \A x \in tabs' : Handle(x) # latest[t].tab
    BY <1>1, <1>2, CleanupIs
  <1>5. CASE b # t
    <2>1. tree'[b] = tree[b] /\ leftover'[b] = leftover[b]
      BY <1>1, <1>2, <1>5, CleanupIs
    <2>2. live'[b] = live[b]
      BY <1>1, <1>3, <1>5 DEF TypeOK
    <2>3. Apart(b)
      BY <1>3, <1>4, <2>1, <2>2 DEF Apart, Still
    <2>4. QED
      BY <1>1, <1>3, <2>1, <2>3, ApartHeals DEF branches
  <1>6. CASE b = t
    <2>1. ~live'[b] /\ ~Reopens(b)'
      BY <1>1, <1>3, <1>6 DEF TypeOK, Reopens
    <2>2. /\ Bound(b)' /\ Older(b)' /\ Homed(b)' /\ Unnamed(b)' /\ Resting(b)'
          /\ run[b].step \notin InSpace \cup Planting
      BY <1>3, <1>4, RestKeeps
    <2>3. Troubles' = 0 => Calm(b)'
      <3>1. SUFFICES ASSUME Troubles' = 0 PROVE Calm(b)'
        OBVIOUS
      <3>2. Calm(b) /\ Troubles' = Troubles
        BY <1>4, <3>1 DEF Healing
      <3>3. leftover'[b] = {}
        BY <1>4, <1>6, <3>2 DEF Calm
      <3>4. \A x \in tabs' : ~(x.agent # Nothing /\ x.agent[1] = b)
        <4>1. SUFFICES ASSUME NEW x \in tabs', x.agent # Nothing, x.agent[1] = b PROVE FALSE
          OBVIOUS
        <4>2. Handle(x) = latest[b].tab
          BY <1>3, <1>4, <3>2, <4>1 DEF Calm, Resting, At
        <4>3. x.space = latest[b].space
          BY <1>4, <4>1, <4>2 DEF Healing, Homed
        <4>4. QED
          BY <1>4, <1>6, <3>2, <4>1, <4>2, <4>3
      <3>5. tree'[b].is \in {"none", "stands"}
        BY <1>4, <1>6, <3>2 DEF Calm
      <3>6. QED
        BY <1>3, <2>1, <2>2, <3>2, <3>3, <3>4, <3>5 DEF Calm, Running, branches
    <2>4. Troubles' <= 1 => Whole(b)'
      BY <1>3, <1>4, <2>1, <2>2 DEF Healing, Whole, branches
    <2>5. QED
      BY <2>2, <2>3, <2>4 DEF Healing
  <1>7. QED
    BY <1>5, <1>6

LEMMA ClearLeftoverHeals ==
    ASSUME NEW t \in Tickets, NEW b \in Tickets, IInv, TypeOK', Healing(b), Healing(t),
           ClearLeftover(t)
    PROVE  Healing(b)'
  <1>1. TypeOK /\ b \in Actors
    BY DEF IInv, Actors
  <1>2. PICK e \in leftover[t], o \in Outcomes : Cleanup(t, e, o)
    BY DEF ClearLeftover
  <1>3. Resting(b) /\ UNCHANGED <<branches, recorded, latest, live, run>>
    BY DEF ClearLeftover
  <1>4. tabs' \subseteq tabs /\ Troubles' \in {Troubles, Troubles + 1} /\ Troubles \in Nat
    BY <1>1, <1>2, CleanupIs
  <1>5. CASE b # t
    <2>1. tree'[b] = tree[b] /\ leftover'[b] = leftover[b]
      BY <1>1, <1>2, <1>5, CleanupIs
    <2>2. Apart(b)
      BY <1>3, <1>4, <2>1 DEF Apart, Still
    <2>3. QED
      BY <1>1, <1>3, <2>1, <2>2, ApartHeals DEF branches
  <1>6. CASE b = t
    <2>1. Troubles # 0 /\ Troubles' # 0
      BY <1>2, <1>4 DEF Healing, Calm
    <2>2. Bound(b)' /\ Older(b)' /\ Homed(b)' /\ Unnamed(b)'
      BY <1>3, <1>4, RestKeeps
    <2>3. Troubles' <= 1 => Whole(b)'
      BY <1>3, <1>4 DEF Healing, Whole, Reopens, branches
    <2>4. QED
      BY <2>1, <2>2, <2>3 DEF Healing
  <1>7. QED
    BY <1>5, <1>6

--------------------------------------------------------------------------------
(* What happens beside the starts. *)

(* An act outside the starts: what it does to the record, and to the tabs. *)
Stirred(b) ==
    /\ run'[b].n = run[b].n /\ run'[b].worktree = run[b].worktree
    /\ \/ run'[b].step = run[b].step /\ Still(run'[b], run[b])
       \/ run'[b].step = "rest"
Thinned ==
    \A t \in tabs' : \E u \in tabs : /\ Handle(u) = Handle(t) /\ u.space = t.space
                                     /\ u.agent = t.agent \/ t.agent = Nothing

LEMMA EventApart ==
    ASSUME NEW b \in Tickets, TypeOK, Event, Stirred(b), Thinned, UNCHANGED memory
    PROVE  Apart(b) /\ Troubles' = Troubles + 1 /\ Troubles \in Nat
  <1>1. Troubles' = Troubles + 1 /\ Troubles \in Nat
    BY TroublesAre
  <1>2. \A t \in tabs' :
          \E u \in tabs : /\ Handle(u) = Handle(t) /\ u.space = t.space
                          /\ u.agent = t.agent \/ t.agent = Nothing \/ t.agent[1] # b
    BY DEF Thinned
  <1>3. Apart(b)
    BY <1>1, <1>2 DEF Apart, Stirred, memory
  <1>4. QED
    BY <1>1, <1>3

LEMMA EventHeals ==
    ASSUME NEW b \in Tickets, TypeOK, TypeOK', Healing(b), Event, Stirred(b), Thinned,
           UNCHANGED memory, local'[b] = local[b], remote'[b] = remote[b]
    PROVE  Healing(b)'
  BY EventApart, ApartHeals

LEMMA DisturbsStirs ==
    ASSUME NEW b \in Actors, TypeOK, Disturbs
    PROVE  Stirred(b)
  <1>1. run'[b] = [run[b] EXCEPT !.disturbed = @ \/ ~Resting(b)] /\ run[b] \in Runs
    BY DEF Disturbs, TypeOK
  <1>2. run'[b].n = run[b].n /\ run'[b].step = run[b].step /\ Still(run'[b], run[b])
    BY <1>1 DEF Runs, Still
  <1>3. QED
    BY <1>2 DEF Stirred, Still

LEMMA OperatorClosesHeals ==
    ASSUME NEW b \in Tickets, IInv, TypeOK', Healing(b), OperatorCloses
    PROVE  Healing(b)'
  <1>1. b \in Actors /\ TypeOK
    BY DEF IInv, Actors
  <1>2. Event /\ Stirred(b) /\ UNCHANGED <<branches, memory>>
    BY <1>1, DisturbsStirs DEF OperatorCloses
  <1>3. Thinned
    BY DEF OperatorCloses, Without, Thinned
  <1>4. QED
    BY <1>1, <1>2, <1>3, EventHeals DEF branches

LEMMA AgentEndsHeals ==
    ASSUME NEW b \in Tickets, IInv, TypeOK', Healing(b), AgentEnds
    PROVE  Healing(b)'
  <1>1. b \in Actors /\ TypeOK
    BY DEF IInv, Actors
  <1>2. Event /\ Stirred(b) /\ UNCHANGED <<branches, memory>>
    BY <1>1, DisturbsStirs DEF AgentEnds
  <1>3. Thinned
    <2>1. PICK t \in tabs : tabs' = (tabs \ {t}) \cup {[t EXCEPT !.agent = Nothing]}
      BY DEF AgentEnds
    <2>2. PICK u : u = [t EXCEPT !.agent = Nothing]
      OBVIOUS
    <2>3. Handle(u) = Handle(t) /\ u.space = t.space /\ u.agent = Nothing
      BY <1>1, <2>2 DEF TypeOK, Handle
    <2>4. tabs' = (tabs \ {t}) \cup {u}
      BY <2>1, <2>2
    <2>5. QED
      BY <2>3, <2>4 DEF Thinned
  <1>4. QED
    BY <1>1, <1>2, <1>3, EventHeals DEF branches

LEMMA LeftoverAppearsHeals ==
    ASSUME NEW b \in Tickets, IInv, TypeOK', Healing(b), LeftoverAppears
    PROVE  Healing(b)'
  <1>1. b \in Actors /\ TypeOK
    BY DEF IInv, Actors
  <1>2. Event /\ Stirred(b) /\ UNCHANGED <<herdr, branches, memory>>
    BY <1>1, DisturbsStirs DEF LeftoverAppears
  <1>3. Thinned
    BY <1>2 DEF herdr, Thinned
  <1>4. QED
    BY <1>1, <1>2, <1>3, EventHeals DEF branches

LEMMA CrashStirs ==
    ASSUME NEW b \in Actors, TypeOK, Crash
    PROVE  Stirred(b)
  <1>1. run' = [a \in Actors |->
                  IF Resting(a) THEN run[a]
                  ELSE [run[a] EXCEPT !.step = "rest", !.failed = TRUE, !.disturbed = TRUE,
                                      !.made = {}, !.unseen = Parts]]
    BY DEF Crash
  <1>2. CASE Resting(b)
    BY <1>1, <1>2 DEF Stirred, Still
  <1>3. CASE ~Resting(b)
    <2>1. run'[b] = [run[b] EXCEPT !.step = "rest", !.failed = TRUE, !.disturbed = TRUE,
                                   !.made = {}, !.unseen = Parts]
      BY <1>1, <1>3
    <2>2. run'[b].n = run[b].n /\ run'[b].step = "rest" /\ run'[b].worktree = run[b].worktree
      BY <2>1 DEF TypeOK, Runs
    <2>3. QED
      BY <2>2 DEF Stirred
  <1>4. QED
    BY <1>2, <1>3

LEMMA CrashHeals ==
    ASSUME NEW b \in Tickets, IInv, TypeOK', Healing(b), Crash
    PROVE  Healing(b)'
  <1>1. b \in Actors /\ TypeOK
    BY DEF IInv, Actors
  <1>2. Event /\ UNCHANGED <<herdr, branches, memory>>
    BY DEF Crash, world
  <1>3. Thinned
    BY <1>2 DEF herdr, Thinned
  <1>4. QED
    BY <1>1, <1>2, <1>3, CrashStirs, EventHeals DEF branches

(* The agent that pushes leaves the branch at its copy. *)
LEMMA AgentWorksHeals ==
    ASSUME NEW b \in Tickets, IInv, TypeOK', Healing(b), AgentWorks
    PROVE  Healing(b)'
  <1>1. b \in Actors /\ TypeOK
    BY DEF IInv, Actors
  <1>2. Event /\ Stirred(b) /\ UNCHANGED <<herdr, memory>>
    BY <1>1, DisturbsStirs DEF AgentWorks
  <1>3. Thinned
    BY <1>2 DEF herdr, Thinned
  <1>4. PICK a \in Tickets :
          \/ /\ local' = [local EXCEPT ![a].tip = Lower(@ + 1, MaxTip)]
             /\ remote' = [remote EXCEPT ![a] = local'[a].tip]
          \/ UNCHANGED branches
    BY DEF AgentWorks
  <1>5. CASE local'[b] = local[b] /\ remote'[b] = remote[b]
    BY <1>1, <1>2, <1>3, <1>5, EventHeals
  <1>6. CASE /\ a = b /\ local' = [local EXCEPT ![a].tip = Lower(@ + 1, MaxTip)]
             /\ remote' = [remote EXCEPT ![a] = local'[a].tip]
    <2>1. Apart(b) /\ Troubles' = Troubles + 1 /\ Troubles \in Nat
      BY <1>1, <1>2, <1>3, EventApart
    <2>2. Bound(b)' /\ Older(b)' /\ Homed(b)' /\ Unnamed(b)'
      BY <1>1, <2>1, ApartKeeps
    <2>3. local[b].tip \in Nat /\ MaxTip \in Nat /\ MaxTip > 1
      BY <1>1, StartAssumption DEF TypeOK
    <2>4. local'[b].tip = Lower(local[b].tip + 1, MaxTip) /\ remote'[b] = local'[b].tip
      BY <1>1, <1>6 DEF TypeOK
    <2>5. local'[b].tip > 0 /\ local'[b].tip >= remote'[b]
      BY <2>3, <2>4 DEF Lower
    <2>6. Whole(b)'
      BY <2>5 DEF Whole
    <2>7. Troubles' # 0
      BY <2>1
    <2>8. QED
      BY <2>2, <2>6, <2>7 DEF Healing
  <1>7. QED
    <2>1. CASE UNCHANGED branches
      BY <1>5, <2>1 DEF branches
    <2>2. CASE a # b /\ local' = [local EXCEPT ![a].tip = Lower(@ + 1, MaxTip)]
               /\ remote' = [remote EXCEPT ![a] = local'[a].tip]
      BY <1>1, <1>5, <2>2 DEF TypeOK
    <2>3. QED
      BY <1>4, <1>6, <2>1, <2>2

LEMMA PrunesStirs ==
    ASSUME NEW b \in Actors, TypeOK, OperatorPrunes
    PROVE  Stirred(b)
  <1>1. PICK a \in Tickets : Becomes(a, [run[a] EXCEPT !.disturbed = TRUE])
    BY DEF OperatorPrunes
  <1>2. a \in Actors
    BY DEF Actors
  <1>3. /\ run'[a] = [run[a] EXCEPT !.disturbed = TRUE] /\ run[a] \in Runs
        /\ \A c \in Actors \ {a} : run'[c] = run[c]
    BY <1>1, <1>2, RunIs
  <1>4. CASE b = a
    <2>1. run'[b].n = run[b].n /\ run'[b].step = run[b].step /\ Still(run'[b], run[b])
      BY <1>3, <1>4 DEF Runs, Still
    <2>2. QED
      BY <2>1 DEF Stirred, Still
  <1>5. CASE b # a
    BY <1>3, <1>5 DEF Stirred, Still
  <1>6. QED
    BY <1>4, <1>5

(* A branch is pruned where no worktree stands. *)
LEMMA OperatorPrunesHeals ==
    ASSUME NEW b \in Tickets, IInv, TypeOK', Healing(b), OperatorPrunes
    PROVE  Healing(b)'
  <1>1. b \in Actors /\ TypeOK /\ run[b] \in Runs
    BY DEF IInv, Actors, TypeOK
  <1>2. Event /\ UNCHANGED <<herdr, tree, remote, memory>>
    BY DEF OperatorPrunes
  <1>3. PICK a \in Tickets :
          /\ Resting(a) /\ tree[a].is # "stands"
          /\ local' = [local EXCEPT ![a] = [tip |-> 0, by |-> 0]]
    BY DEF OperatorPrunes
  <1>4. Stirred(b)
    BY <1>1, PrunesStirs
  <1>5. Thinned
    BY <1>2 DEF herdr, Thinned
  <1>6. CASE b # a
    <2>1. local'[b] = local[b]
      BY <1>1, <1>3, <1>6 DEF TypeOK
    <2>2. QED
      BY <1>1, <1>2, <1>4, <1>5, <2>1, EventHeals
  <1>7. CASE b = a
    <2>1. Apart(b) /\ Troubles' = Troubles + 1 /\ Troubles \in Nat
      BY <1>1, <1>2, <1>4, <1>5, EventApart
    <2>2. Bound(b)' /\ Older(b)' /\ Homed(b)' /\ Unnamed(b)'
      BY <1>1, <2>1, ApartKeeps
    <2>3. Troubles' <= 1 => Whole(b)'
      <3>1. SUFFICES ASSUME Troubles' <= 1 PROVE Whole(b)'
        OBVIOUS
      <3>2. ~Reopens(b)
        BY <1>3, <1>7, <2>1, <3>1 DEF Healing, Calm
      <3>3. local'[b].tip = 0 /\ ~Reopens(b)'
        BY <1>1, <1>2, <1>3, <1>7, <3>2 DEF TypeOK, Reopens, memory
      <3>4. run'[b].step = "rest"
        BY <1>3, <1>4, <1>7 DEF Resting, At, Stirred
      <3>5. QED
        BY <3>3, <3>4 DEF Whole, Planting, InSpace
    <2>4. Troubles' # 0
      BY <2>1
    <2>5. QED
      BY <2>2, <2>3, <2>4 DEF Healing
  <1>8. QED
    BY <1>6, <1>7

LEMMA StutterHeals ==
    ASSUME NEW b \in Tickets, IInv, TypeOK', Healing(b), UNCHANGED vars
    PROVE  Healing(b)'
  <1>1. TypeOK /\ UNCHANGED <<herdr, tree, branches, memory, run, spent>>
    BY DEF IInv, vars, world
  <1>2. Apart(b)
    BY <1>1, TroublesAre DEF Apart, Still, herdr, memory
  <1>3. QED
    BY <1>1, <1>2, ApartHeals DEF branches

--------------------------------------------------------------------------------
(* The open pull requests. *)

LEMMA DraftsStay ==
    ASSUME NEW a \in Actors, Step(a), ~OpenDraft(a)
    PROVE  drafts' = drafts
  <1>1. CASE RouteClose(a) \/ ReadWorkspaces(a) \/ CreateSpace(a) \/ OpenFreshTab(a)
    BY <1>1 DEF RouteClose, ReadWorkspaces, CreateSpace, OpenFreshTab, world, branches
  <1>2. CASE CheckBranch(a) \/ CheckRemote(a) \/ FetchBranch(a) \/ OpenWorktree(a)
    BY <1>2 DEF CheckBranch, CheckRemote, FetchBranch, OpenWorktree, world, branches
  <1>3. CASE FindWorktree(a) \/ CreateWorktree(a) \/ MoveLeftover(a) \/ CheckListed(a)
    BY <1>3 DEF FindWorktree, CreateWorktree, MoveLeftover, CheckListed, world, branches
  <1>4. CASE HoldBranch(a) \/ PushBranch(a) \/ ListPullRequests(a)
    BY <1>4 DEF HoldBranch, PushBranch, ListPullRequests, world, branches
  <1>5. CASE StartAgent(a) \/ PromptAgent(a)
    BY <1>5 DEF StartAgent, PromptAgent, branches
  <1>6. CASE CleanTab(a) \/ CleanCheckout(a) \/ CleanBranch(a)
    BY <1>6 DEF CleanTab, CleanCheckout, CleanBranch, branches
  <1>7. QED
    BY <1>1, <1>2, <1>3, <1>4, <1>5, <1>6 DEF Step

LEMMA StepDrafts ==
    ASSUME NEW a \in Actors, IInv, IInv', Drafted, Step(a)
    PROVE  Drafted'
  <1>1. TypeOK /\ \A b \in Actors \ {a} : run'[b] = run[b]
    <2>1. TypeOK
      BY DEF IInv
    <2>2. QED
      BY <2>1, StepsAlone
  <1>2. CASE OpenDraft(a)
    <2>1. At(a, "draft") /\ drafts[a] = 0
      BY <1>2 DEF OpenDraft, Drafted
    <2>2. drafts' = drafts \/ drafts' = [drafts EXCEPT ![a] = Lower(@ + 1, 2)]
      BY <1>2 DEF OpenDraft
    <2>3. drafts'[a] <= 1 /\ \A b \in Actors \ {a} : drafts'[b] = drafts[b]
      <3>1. Lower(0 + 1, 2) = 1
        BY DEF Lower
      <3>2. QED
        BY <1>1, <2>1, <2>2, <3>1 DEF TypeOK
    <2>4. run'[a].step # "draft"
      <3>1. Becomes(a, [run[a] EXCEPT !.step = "agent"]) \/ Becomes(a, Fails(run[a]))
        BY <1>2 DEF OpenDraft
      <3>2. CASE Becomes(a, [run[a] EXCEPT !.step = "agent"])
        <4>1. run'[a].step = "agent"
          BY <1>1, <3>2, StepIs
        <4>2. QED
          BY <4>1
      <3>3. CASE Becomes(a, Fails(run[a]))
        <4>1. run'[a].step \in Cleans \cup {"rest"}
          BY <1>1, <3>3, FailIs
        <4>2. QED
          BY <4>1 DEF Cleans
      <3>4. QED
        BY <3>1, <3>2, <3>3
    <2>5. QED
      BY <1>1, <2>3, <2>4 DEF Drafted, At
  <1>3. CASE ~OpenDraft(a)
    <2>1. drafts' = drafts
      BY <1>3, DraftsStay
    <2>2. run'[a].step = "draft" => drafts[a] = 0
      <3>1. SUFFICES ASSUME run'[a].step = "draft" PROVE drafts[a] = 0
        OBVIOUS
      <3>2. a \in Tickets
        BY <3>1 DEF IInv, Sound, Alone, OfTicket, Actors
      <3>3. ~StartAgent(a)
        <4>1. PICK name : name = Names(a)[run[a].ask]
          OBVIOUS
        <4>2. PICK holders : holders = {t \in tabs : t.agent = name}
          OBVIOUS
        <4>3. PICK own \in BOOLEAN : own <=> \E t \in holders : OwnHolder(a, t)
          OBVIOUS
        <4>4. StartAgent(a) => AskEnds(a, name, holders, own)
          BY <4>1, <4>2, <4>3, StartAgentIs
        <4>5. QED
          BY <3>1, <4>4 DEF AskEnds, Falling, Cleans
      <3>4. ~PromptAgent(a)
        BY <3>1, PromptAgentIs
      <3>5. Stepping(a)
        BY <3>2, <3>3, <3>4, StepMoves DEF Moves
      <3>6. QED
        BY <3>1, <3>5 DEF Stepping
    <2>3. QED
      BY <1>1, <2>1, <2>2 DEF Drafted, At
  <1>4. QED
    BY <1>2, <1>3

LEMMA NextDrafts ==
    ASSUME IInv, IInv', Drafted, [Next]_vars
    PROVE  Drafted'
  <1>1. TypeOK
    BY DEF IInv
  <1>2. CASE \E a \in Actors : Step(a)
    BY <1>2, StepDrafts
  <1>3. CASE \E a \in Actors : Begin(a)
    <2>1. PICK a \in Actors : Begin(a)
      BY <1>3
    <2>2. /\ run'[a].step \in {"route", "branch", "list"} /\ UNCHANGED branches
          /\ \A b \in Actors \ {a} : run'[b] = run[b]
      BY <2>1, BeginIs
    <2>3. QED
      BY <2>2 DEF Drafted, At, branches
  <1>4. CASE \E t \in Tickets : CloseCycle(t) \/ ClearLeftover(t)
    BY <1>4 DEF CloseCycle, ClearLeftover, branches, Drafted, At
  <1>5. CASE \/ OperatorCloses \/ AgentEnds \/ AgentWorks \/ LeftoverAppears
             \/ OperatorPrunes \/ Crash
    <2>1. drafts' = drafts
      BY <1>5 DEF OperatorCloses, AgentEnds, AgentWorks, LeftoverAppears, OperatorPrunes,
                  Crash, branches, world
    <2>2. ASSUME NEW b \in Actors PROVE Stirred(b)
      <3>1. OperatorPrunes \/ Crash \/ Disturbs
        BY <1>5 DEF OperatorCloses, AgentEnds, AgentWorks, LeftoverAppears
      <3>2. QED
        BY <1>1, <3>1, DisturbsStirs, PrunesStirs, CrashStirs
    <2>3. QED
      BY <2>1, <2>2 DEF Drafted, At, Stirred
  <1>6. CASE UNCHANGED vars
    BY <1>6 DEF vars, world, branches, Drafted, At
  <1>7. QED
    BY <1>2, <1>3, <1>4, <1>5, <1>6 DEF Next

--------------------------------------------------------------------------------
(* The retries heal. *)

LEMMA InitHeals == Init => HInv
  <1> SUFFICES ASSUME Init PROVE HInv
    OBVIOUS
  <1>1. \A a \in Actors : run[a] = NoRun /\ drafts[a] = 0
    BY DEF Init
  <1>2. /\ NoRun.step = "rest" /\ ~NoRun.worktree
    BY DEF NoRun
  <1>3. Drafted
    BY <1>1, <1>2 DEF Drafted, At
  <1>4. ASSUME NEW a \in Tickets PROVE Healing(a)
    <2>1. /\ run[a] = NoRun /\ tabs = {} /\ recorded[a] = {} /\ latest[a] = NoEntry
          /\ ~live[a] /\ leftover[a] = {} /\ remote[a] = 0
          /\ tree[a].is = "none" /\ local[a].tip = 0
      BY <1>4 DEF Init, Actors
    <2>2. ~Running(a) /\ ~Reopens(a)
      BY <1>2, <2>1 DEF Running, Resting, At, Reopens
    <2>3. Bound(a) /\ Older(a) /\ Homed(a) /\ Unnamed(a)
      BY <2>1, <2>2 DEF Bound, Older, Homed, Unnamed, TabOf
    <2>4. Calm(a)
      BY <1>2, <2>1, <2>2 DEF Calm
    <2>5. Whole(a)
      BY <2>1 DEF Whole
    <2>6. QED
      BY <2>3, <2>4, <2>5 DEF Healing
  <1>5. QED
    BY <1>3, <1>4 DEF HInv

LEMMA StepHeals ==
    ASSUME NEW a \in Actors, NEW b \in Tickets, IInv, IInv', Healing(b), Step(a)
    PROVE  Healing(b)'
  <1>1. TypeOK'
    BY DEF IInv
  <1>2. CASE StartAgent(a)
    BY <1>1, <1>2, StartAgentOwn, StartAgentElsewhere
  <1>3. CASE PromptAgent(a)
    BY <1>1, <1>3, PromptAgentOwn, PromptAgentElsewhere
  <1>4. CASE ~StartAgent(a) /\ ~PromptAgent(a)
    <2>1. Moves(a)
      BY <1>4, StepMoves
    <2>2. QED
      BY <1>1, <2>1, HealsOwn, MovesElsewhere
  <1>5. QED
    BY <1>2, <1>3, <1>4

LEMMA NextHeals ==
    ASSUME IInv, IInv', HInv, [Next]_vars
    PROVE  HInv'
  <1>1. Drafted'
    BY NextDrafts DEF HInv
  <1>2. ASSUME NEW b \in Tickets PROVE Healing(b)'
    <2>1. TypeOK' /\ Healing(b) /\ \A t \in Tickets : Healing(t)
      BY <1>2 DEF IInv, HInv
    <2>2. CASE \E a \in Actors : Begin(a)
      BY <2>1, <2>2, BeginOwn, BeginElsewhere
    <2>3. CASE \E a \in Actors : Step(a)
      BY <2>1, <2>3, StepHeals
    <2>4. CASE \E t \in Tickets : CloseCycle(t)
      BY <2>1, <2>4, CloseCycleHeals
    <2>5. CASE \E t \in Tickets : ClearLeftover(t)
      BY <2>1, <2>5, ClearLeftoverHeals
    <2>6. CASE OperatorCloses
      BY <2>1, <2>6, OperatorClosesHeals
    <2>7. CASE AgentEnds
      BY <2>1, <2>7, AgentEndsHeals
    <2>8. CASE AgentWorks
      BY <2>1, <2>8, AgentWorksHeals
    <2>9. CASE LeftoverAppears
      BY <2>1, <2>9, LeftoverAppearsHeals
    <2>10. CASE OperatorPrunes
      BY <2>1, <2>10, OperatorPrunesHeals
    <2>11. CASE Crash
      BY <2>1, <2>11, CrashHeals
    <2>12. CASE UNCHANGED vars
      BY <2>1, <2>12, StutterHeals
    <2>13. QED
      BY <2>2, <2>3, <2>4, <2>5, <2>6, <2>7, <2>8, <2>9, <2>10, <2>11, <2>12 DEF Next
  <1>3. QED
    BY <1>1, <1>2 DEF HInv

(* An ask that ends its start, and that herdr refused for a name alone, met *)
(* a holder that is not the ticket's own.                                  *)
Foreign(a) == \E t \in tabs : t.agent = Names(a)[run[a].ask] /\ ~OwnHolder(a, t)
EndsAsking(a) == /\ At(a, "agent") /\ ~At(a, "agent")' /\ ~run'[a].accepted
                 /\ TabOf(run[a].tab) # {} /\ spent' = spent

LEMMA AskEndsForeign ==
    ASSUME NEW a \in Tickets, IInv, Unnamed(a), StartAgent(a), EndsAsking(a)
    PROVE  Foreign(a)
  <1>1. PICK name : name = Names(a)[run[a].ask]
    OBVIOUS
  <1>2. PICK holders : holders = {t \in tabs : t.agent = name}
    OBVIOUS
  <1>3. PICK own \in BOOLEAN : own <=> \E t \in holders : OwnHolder(a, t)
    OBVIOUS
  <1>4. a \in Actors
    BY DEF Actors
  <1>5. AskEnds(a, name, holders, own)
    BY <1>1, <1>2, <1>3, <1>4, StartAgentIs
  <1>6. holders # {} /\ ~(own /\ run[a].ask < Len(Names(a)))
    BY <1>5 DEF AskEnds, EndsAsking, At
  <1>7. ASSUME NEW t \in holders PROVE run[a].ask < Len(Names(a))
    BY <1>1, <1>2, <1>7, AsksOn DEF EndsAsking
  <1>8. ~own
    BY <1>6, <1>7
  <1>9. QED
    BY <1>1, <1>2, <1>3, <1>6, <1>8 DEF Foreign

LEMMA NextAsks ==
    ASSUME IInv, HInv, Next, NEW a \in Tickets, EndsAsking(a)
    PROVE  Foreign(a)
  <1>1. /\ run[a].step = "agent" /\ run'[a] # run[a] /\ spent' = spent
        /\ TypeOK /\ a \in Actors /\ Unnamed(a)
    BY DEF EndsAsking, At, IInv, HInv, Healing, Actors
  <1>2. CASE \E b \in Actors : Begin(b)
    <2>1. PICK b \in Actors : Begin(b)
      BY <1>2
    <2>2. b = a
      BY <1>1, <2>1, BeginIs
    <2>3. QED
      BY <1>1, <2>1, <2>2 DEF Begin, Resting, At
  <1>3. CASE \E b \in Actors : Step(b)
    <2>1. PICK b \in Actors : Step(b)
      BY <1>3
    <2>2. b = a
      BY <1>1, <2>1, StepsAlone
    <2>3. ~PromptAgent(a)
      BY <1>1 DEF PromptAgent, At
    <2>4. ~Moves(a)
      BY <1>1 DEF Moves, Chosen
    <2>5. StartAgent(a)
      BY <2>1, <2>2, <2>3, <2>4, StepMoves
    <2>6. QED
      BY <1>1, <2>5, AskEndsForeign
  <1>4. CASE \E t \in Tickets : CloseCycle(t) \/ ClearLeftover(t)
    BY <1>1, <1>4 DEF CloseCycle, ClearLeftover
  <1>5. CASE Event
    <2>1. Troubles' = Troubles + 1 /\ Troubles \in Nat /\ Troubles' = Troubles
      BY <1>1, <1>5, TroublesAre
    <2>2. QED
      BY <2>1
  <1>6. QED
    BY <1>2, <1>3, <1>4, <1>5 DEF Next, OperatorCloses, AgentEnds, AgentWorks,
       LeftoverAppears, OperatorPrunes, Crash

(* What a failed start leaves never stands in the way of the retry: one    *)
(* failed command, one crash or one act of an agent never leaves a         *)
(* ticket's branch behind its copy on origin, no retry opens a second pull *)
(* request, and a name the ticket's own recorded starts still hold never   *)
(* ends a start (startAgentUnderAvailableName, pushFactoryBranch,          *)
(* openedPullRequestForBranch).                                            *)
THEOREM StartRetriesHeal == Spec => RetriesHeal
  <1> DEFINE A == /\ \A a \in Tickets :
                       Resting(a) /\ 0 < local[a].tip /\ local[a].tip < remote[a]
                         => spent.faults + spent.events > 1
                  /\ \A a \in Actors : drafts[a] <= 1
             C == \A a \in Tickets :
                    At(a, "agent") /\ ~At(a, "agent")' /\ ~run'[a].accepted
                       /\ TabOf(run[a].tab) # {} /\ spent' = spent
                    => \E t \in tabs : t.agent = Names(a)[run[a].ask] /\ ~OwnHolder(a, t)
  <1>1. Spec => [](IInv /\ HInv)
    <2>1. Init => IInv /\ HInv
      BY InitHolds, InitHeals
    <2>2. IInv /\ HInv /\ [Next]_vars => IInv' /\ HInv'
      BY NextKeeps, NextHeals
    <2>3. QED
      BY <2>1, <2>2, PTL DEF Spec
  <1>2. IInv /\ HInv => A
    <2> SUFFICES ASSUME IInv, HInv PROVE A
      OBVIOUS
    <2>1. ASSUME NEW a \in Tickets, 0 < local[a].tip, local[a].tip < remote[a]
          PROVE  spent.faults + spent.events > 1
      <3>1. TypeOK /\ Troubles \in Nat
        BY TroublesAre DEF IInv
      <3>2. local[a].tip \in Nat /\ remote[a] \in Nat
        BY <3>1, StartAssumption DEF TypeOK, Actors
      <3>3. ~Whole(a)
        BY <2>1, <3>2 DEF Whole
      <3>4. ~(Troubles <= 1)
        BY <3>3 DEF HInv, Healing
      <3>5. QED
        BY <3>1, <3>4 DEF Troubles
    <2>2. QED
      BY <2>1 DEF HInv, Drafted
  <1>3. IInv /\ HInv /\ [Next]_vars => [C]_vars
    BY NextAsks DEF EndsAsking, Foreign
  <1>4. Spec => []A /\ [][C]_vars
    BY <1>1, <1>2, <1>3, PTL DEF Spec
  <1>5. QED
    BY <1>4 DEF RetriesHeal

--------------------------------------------------------------------------------
(* What stands in a worktree's workspace. *)

(* The workspaces that stand at the checkout, or that a start works in there: *)
(* by the id they carry.                                                      *)
Shared(x) ==
    \/ \E s \in Standing("checkout") : s.by = x
    \/ \E a \in Actors : run[a].step \in InSpace /\ ~run[a].worktree /\ run[a].space = x
    \/ \E t \in Tickets : ~latest[t].worktree /\ latest[t].space = x
(* And those of the worktrees. *)
Planted(x) == \E s \in spaces : s.at # "checkout" /\ s.by = x

(* No workspace is both, the one a start made is what its Environment says, and *)
(* a worktree's workspace holds no tab of another actor or of an earlier start. *)
Lodged ==
    /\ \A b \in Actors, k \in Nat : Shared(<<b, k>>) =>
         ~Planted(<<b, k>>) /\ k <= run[b].n /\ (k = run[b].n => ~run[b].worktree)
    /\ \A b \in Actors, k \in Nat : Planted(<<b, k>>) =>
         k <= run[b].n /\ (k = run[b].n => run[b].worktree)
    /\ \A s \in spaces, t \in tabs : s.at # "checkout" /\ t.space = s.by =>
         t.by[1] = s.by[1] /\ s.by[2] <= t.by[2]
    /\ \A a \in Actors : run[a].step \in Planting \cup Naming => run[a].worktree

(* A record whose workspace is known for what it is. *)
Knows(a, q) ==
    /\ q.n = run[a].n /\ q.worktree = run[a].worktree
    /\ q.step \in InSpace /\ ~q.worktree => Shared(q.space) \/ q.space = Id(a)
    /\ q.step \in Planting \cup Naming => q.worktree

(* Workspaces and tabs are made by a start in A alone, and in its own. *)
Furnishes(A) ==
    /\ \A s \in spaces' : s \in spaces
                       \/ \E a \in A : s.by = Id(a) /\ (s.at # "checkout" <=> run[a].worktree)
    /\ \A t \in tabs' :
         \/ \E u \in tabs : u.by = t.by /\ u.space = t.space
         \/ \E a \in A : t.by = Id(a) /\ (t.space = Id(a) \/ (At(a, "tab") /\ t.space = run[a].space))

Renews(b) ==
    /\ run'[b].n = run[b].n + 1 /\ run'[b].step \notin InSpace
    /\ run'[b].step \in Planting \cup Naming => run'[b].worktree
Records(A) ==
    /\ \A b \in Actors : \/ run'[b].step = "rest" /\ Knows(b, run'[b])
                         \/ run'[b] \in Runs /\ run'[b].step = run[b].step
                            /\ run'[b].space = run[b].space /\ run'[b].n = run[b].n
                            /\ run'[b].worktree = run[b].worktree
                         \/ b \in A /\ Knows(b, run'[b])
                         \/ A = {} /\ Renews(b)
    /\ \A t \in Tickets : ~latest'[t].worktree => Shared(latest'[t].space)

LEMMA SharedOf ==
    /\ \A a \in Actors : run[a].step \in InSpace /\ ~run[a].worktree => Shared(run[a].space)
    /\ \A t \in Tickets : ~latest[t].worktree => Shared(latest[t].space)
    /\ \A s \in spaces : s.at = "checkout" => Shared(s.by)
  BY DEF Shared, Standing

(* The id of a worktree's workspace is a start's. *)
LEMMA PlantedIs ==
    ASSUME IInv, NEW s \in spaces, s.at # "checkout"
    PROVE  \E b \in Actors, k \in Nat : s.by = <<b, k>>
  <1>1. s.at \in Actors /\ s \in Standing(s.at)
    BY DEF IInv, TypeOK, Standing
  <1>2. s.by \in Of(s.at)
    BY <1>1 DEF IInv, Placed
  <1>3. QED
    BY <1>1, <1>2 DEF Of

LEMMA LodgedKeeps ==
    ASSUME IInv, IInv', Lodged, NEW A \in SUBSET Actors, \A a, b \in A : a = b,
           Furnishes(A), Records(A)
    PROVE  Lodged'
  <1>1. /\ TypeOK /\ TypeOK' /\ run \in [Actors -> Runs] /\ run' \in [Actors -> Runs]
        /\ \A b \in Actors : run[b].n \in Nat /\ run'[b].n \in Nat
    BY DEF IInv, TypeOK, Runs
  <1>2. \A b \in Actors : \/ run'[b].n = run[b].n /\ run'[b].worktree = run[b].worktree
                          \/ A = {} /\ run'[b].n = run[b].n + 1
    BY DEF Records, Knows, Renews
  <1>3. ASSUME NEW x, Shared(x)'
        PROVE  Shared(x) \/ \E a \in A : x = Id(a) /\ ~run[a].worktree
    <2>1. CASE \E s \in Standing("checkout")' : s.by = x
      <3>1. PICK s \in spaces' : s.at = "checkout" /\ s.by = x
        BY <2>1 DEF Standing
      <3>2. QED
        BY <3>1, SharedOf DEF Furnishes
    <2>2. CASE \E b \in Actors : run'[b].step \in InSpace /\ ~run'[b].worktree /\ run'[b].space = x
      <3>1. PICK b \in Actors : run'[b].step \in InSpace /\ ~run'[b].worktree /\ run'[b].space = x
        BY <2>2
      <3>2. "rest" \notin InSpace
        BY DEF InSpace
      <3>3. \/ /\ run'[b].step = run[b].step /\ run'[b].space = run[b].space
               /\ run'[b].worktree = run[b].worktree
            \/ b \in A /\ Knows(b, run'[b])
        BY <3>1, <3>2 DEF Records, Renews
      <3>4. QED
        BY <3>1, <3>3, SharedOf DEF Knows
    <2>3. CASE \E t \in Tickets : ~latest'[t].worktree /\ latest'[t].space = x
      BY <2>3 DEF Records
    <2>4. QED
      BY <1>3, <2>1, <2>2, <2>3 DEF Shared
  <1>4. ASSUME NEW x, Planted(x)'
        PROVE  Planted(x) \/ \E a \in A : x = Id(a) /\ run[a].worktree
    BY <1>4 DEF Planted, Furnishes
  <1>5. ASSUME NEW b \in Actors, NEW k \in Nat, NEW a \in A, <<b, k>> = Id(a)
        PROVE  a = b /\ k = run[b].n
    BY <1>5 DEF Id
  <1>6. ASSUME NEW b \in Actors, NEW k \in Nat, Shared(<<b, k>>)'
        PROVE  /\ ~Planted(<<b, k>>)' /\ k <= run'[b].n
               /\ k = run'[b].n => ~run'[b].worktree
    <2>1. Shared(<<b, k>>) \/ (b \in A /\ k = run[b].n /\ ~run[b].worktree)
      BY <1>3, <1>5, <1>6
    <2>2. k <= run[b].n /\ (k = run[b].n => ~run[b].worktree)
      BY <1>1, <2>1 DEF Lodged
    <2>3. ~Planted(<<b, k>>)
      <3>1. CASE Shared(<<b, k>>)
        BY <3>1 DEF Lodged
      <3>2. CASE b \in A /\ k = run[b].n /\ ~run[b].worktree
        BY <3>2 DEF Lodged
      <3>3. QED
        BY <2>1, <3>1, <3>2
    <2>4. ~Planted(<<b, k>>)'
      BY <1>4, <1>5, <2>2, <2>3
    <2>5. QED
      BY <1>1, <1>2, <2>2, <2>4
  <1>7. ASSUME NEW b \in Actors, NEW k \in Nat, Planted(<<b, k>>)'
        PROVE  k <= run'[b].n /\ (k = run'[b].n => run'[b].worktree)
    <2>1. Planted(<<b, k>>) \/ (b \in A /\ k = run[b].n /\ run[b].worktree)
      BY <1>4, <1>5, <1>7
    <2>2. k <= run[b].n /\ (k = run[b].n => run[b].worktree)
      BY <1>1, <2>1 DEF Lodged
    <2>3. QED
      BY <1>1, <1>2, <2>2
  <1>8. ASSUME NEW s \in spaces', NEW t \in tabs', s.at # "checkout", t.space = s.by
        PROVE  t.by[1] = s.by[1] /\ s.by[2] <= t.by[2]
    <2>1. \A a \in A : Id(a) = <<a, run[a].n>> /\ run[a].n \in Nat
      BY <1>1 DEF Id
    <2>2. CASE \E a \in A : t.by = Id(a) /\ t.space = Id(a)
      BY <1>8, <2>1, <2>2
    <2>3. CASE s \in spaces /\ \E u \in tabs : u.by = t.by /\ u.space = t.space
      BY <1>8, <2>3 DEF Lodged
    <2>4. CASE s \in spaces /\ \E a \in A : t.by = Id(a) /\ At(a, "tab") /\ t.space = run[a].space
      <3>1. PICK a \in A : t.by = Id(a) /\ At(a, "tab") /\ t.space = run[a].space
        BY <2>4
      <3>2. PICK b \in Actors, k \in Nat : s.by = <<b, k>>
        BY <1>8, <2>4, PlantedIs
      <3>3. Planted(<<b, k>>)
        BY <1>8, <2>4, <3>2 DEF Planted
      <3>4. run[a].step \in InSpace /\ run[a].space = <<b, k>>
        BY <1>8, <3>1, <3>2 DEF At, InSpace
      <3>5. run[a].worktree
        BY <3>3, <3>4, SharedOf DEF Lodged
      <3>6. run[a].space \in Of(a)
        BY <3>4, <3>5 DEF IInv, Sound, Stepped
      <3>7. b = a
        BY <3>4, <3>6 DEF Of
      <3>8. k <= run[a].n
        BY <3>3, <3>7 DEF Lodged
      <3>9. QED
        BY <2>1, <3>1, <3>2, <3>7, <3>8
    <2>5. CASE s \notin spaces
      <3>1. PICK a \in A : s.by = Id(a) /\ run[a].worktree
        BY <1>8, <2>5 DEF Furnishes
      <3>2. CASE \E c \in A : t.by = Id(c)
        BY <2>1, <3>1, <3>2
      <3>3. CASE \E u \in tabs : u.by = t.by /\ u.space = t.space
        <4>1. PICK u \in tabs : u.by = t.by /\ u.space = Id(a)
          BY <1>8, <3>1, <3>3
        <4>2. PICK z \in spaces : z.by = Id(a)
          BY <1>1, <4>1 DEF TypeOK
        <4>3. z.at # "checkout"
          <5>1. Id(a) = <<a, run[a].n>> /\ run[a].n \in Nat /\ a \in Actors
            BY <2>1
          <5>2. ~Shared(<<a, run[a].n>>)
            BY <3>1, <5>1 DEF Lodged
          <5>3. QED
            BY <4>2, <5>1, <5>2, SharedOf
        <4>4. QED
          BY <3>1, <4>1, <4>2, <4>3 DEF Lodged
      <3>4. QED
        BY <3>2, <3>3 DEF Furnishes
    <2>6. QED
      BY <2>2, <2>3, <2>4, <2>5 DEF Furnishes
  <1>9. ASSUME NEW b \in Actors, run'[b].step \in Planting \cup Naming
        PROVE  run'[b].worktree
    <2>1. "rest" \notin Planting \cup Naming
      BY DEF Planting, Naming
    <2>2. QED
      BY <1>9, <2>1 DEF Records, Renews, Knows, Lodged
  <1>10. QED
    BY <1>6, <1>7, <1>8, <1>9 DEF Lodged

(* The record of a start whose Environment stays what it is. *)
Kept(a, q) == q.n = run[a].n /\ q.worktree = run[a].worktree

LEMMA KnowsIs ==
    ASSUME NEW a \in Actors, Lodged, NEW q, Kept(a, q),
           \/ q.step \in Cleans \cup {"rest"}
           \/ run[a].worktree
           \/ /\ q.step \in InSpace
              /\ \/ q.space = run[a].space /\ run[a].step \in InSpace
                 \/ q.space = Id(a) \/ Shared(q.space)
    PROVE  Knows(a, q)
  <1>1. CASE run[a].worktree
    BY <1>1 DEF Knows, Kept
  <1>2. CASE q.step \in Cleans \cup {"rest"}
    <2>1. q.step \notin InSpace \cup Planting \cup Naming
      BY <1>2, ZenonT(60) DEF Cleans, InSpace, Planting, Naming
    <2>2. QED
      BY <2>1 DEF Knows, Kept
  <1>3. CASE /\ q.step \in InSpace /\ ~run[a].worktree
             /\ \/ q.space = run[a].space /\ run[a].step \in InSpace
                \/ q.space = Id(a) \/ Shared(q.space)
    <2>1. q.step \notin Planting \cup Naming
      BY <1>3 DEF InSpace, Planting, Naming
    <2>2. Shared(q.space) \/ q.space = Id(a)
      BY <1>3, SharedOf
    <2>3. QED
      BY <2>1, <2>2 DEF Knows, Kept
  <1>4. QED
    BY <1>1, <1>2, <1>3

(* A command that makes no workspace and no tab. *)
Thins == spaces' \subseteq spaces
         /\ \A t \in tabs' : \E u \in tabs : u.by = t.by /\ u.space = t.space
Lodges(a) == Furnishes({a}) /\ Records({a})

LEMMA LodgesBy ==
    ASSUME NEW a \in Actors, IInv', Step(a), TypeOK, Knows(a, run'[a]),
           Thins \/ Furnishes({a}), UNCHANGED latest
    PROVE  Lodges(a)
  <1>1. Furnishes({a})
    BY DEF Thins, Furnishes
  <1>2. \A b \in Actors \ {a} : run'[b] = run[b]
    BY StepsAlone
  <1>3. \A b \in Actors : run'[b] \in Runs
    BY DEF IInv, TypeOK
  <1>4. Records({a})
    BY <1>2, <1>3, SharedOf DEF Records
  <1>5. QED
    BY <1>1, <1>4 DEF Lodges

LEMMA ThinsIs == (UNCHANGED <<spaces, tabs>> \/ Shrinks) => Thins
  BY DEF Thins, Shrinks

(* q, a record of the same start with more made or handed over, goes on or fails. *)
LEMMA GoesKnown ==
    ASSUME NEW a \in Actors, TypeOK, Lodged, NEW q \in Runs, Kept(a, q)
    PROVE  /\ Becomes(a, Fails(q)) => Knows(a, run'[a])
           /\ \A x : /\ Becomes(a, [q EXCEPT !.step = "tab", !.space = x])
                     /\ run[a].worktree \/ x = Id(a) \/ Shared(x)
                    => Knows(a, run'[a])
           /\ Becomes(a, Stands([q EXCEPT !.space = Id(a), !.tab = Root(a)]))
                => Knows(a, run'[a])
           /\ \A y \in Handles :
                /\ Becomes(a, Stands([q EXCEPT !.tab = y]))
                /\ run[a].worktree \/ (q.space = run[a].space /\ run[a].step \in InSpace)
                => Knows(a, run'[a])
  <1>1. ASSUME Becomes(a, Fails(q)) PROVE Knows(a, run'[a])
    <2>1. Same(run'[a], q) /\ run'[a].step \in Cleans \cup {"rest"}
      BY <1>1, AfterIs
    <2>2. Kept(a, run'[a])
      BY <2>1 DEF Same, Kept
    <2>3. QED
      BY <2>1, <2>2, KnowsIs
  <1>2. ASSUME NEW x, Becomes(a, [q EXCEPT !.step = "tab", !.space = x]),
               run[a].worktree \/ x = Id(a) \/ Shared(x)
        PROVE  Knows(a, run'[a])
    <2>1. run'[a] = [q EXCEPT !.step = "tab", !.space = x]
      BY <1>2, RunIs
    <2>2. Kept(a, run'[a]) /\ run'[a].step \in InSpace /\ run'[a].space = x
      BY <2>1 DEF Kept, Runs, InSpace
    <2>3. QED
      BY <1>2, <2>2, KnowsIs
  <1>3. ASSUME Becomes(a, Stands([q EXCEPT !.space = Id(a), !.tab = Root(a)]))
        PROVE  Knows(a, run'[a])
    <2>1. /\ Same(run'[a], q) /\ run'[a].step \in {"listed", "agent"}
          /\ run'[a].space = Id(a)
      BY <1>3, AfterIs
    <2>2. Kept(a, run'[a]) /\ run'[a].step \in InSpace
      BY <2>1 DEF Same, Kept, InSpace
    <2>3. QED
      BY <2>1, <2>2, KnowsIs
  <1>4. ASSUME NEW y \in Handles, Becomes(a, Stands([q EXCEPT !.tab = y])),
               run[a].worktree \/ (q.space = run[a].space /\ run[a].step \in InSpace)
        PROVE  Knows(a, run'[a])
    <2>1. /\ Same(run'[a], q) /\ run'[a].step \in {"listed", "agent"}
          /\ run'[a].space = q.space
      BY <1>4, AfterIs
    <2>2. Kept(a, run'[a]) /\ run'[a].step \in InSpace
      BY <2>1 DEF Same, Kept, InSpace
    <2>3. QED
      BY <1>4, <2>1, <2>2, KnowsIs
  <1>5. QED
    BY <1>1, <1>2, <1>3, <1>4

LEMMA FailKnows ==
    ASSUME NEW a \in Actors, TypeOK, Lodged, Becomes(a, Fails(run[a]))
    PROVE  Knows(a, run'[a])
  BY FailIs, KnowsIs DEF Still, Kept

LEMMA StepKnows ==
    ASSUME NEW a \in Actors, TypeOK, Lodged, NEW s, Becomes(a, [run[a] EXCEPT !.step = s]),
           run[a].worktree \/ (s \in InSpace /\ run[a].step \in InSpace)
    PROVE  Knows(a, run'[a])
  BY StepIs, KnowsIs DEF Still, Kept

(* The steps that work out a branch and a worktree. *)
LEMMA TreeLodges ==
    ASSUME NEW a \in Actors, IInv, IInv', Lodged, Step(a),
           \/ CheckBranch(a) \/ CheckRemote(a) \/ FetchBranch(a) \/ FindWorktree(a)
           \/ MoveLeftover(a)
    PROVE  Lodges(a)
  <1>1. /\ TypeOK /\ run[a] \in Runs /\ run[a].step \in Planting \cup Naming
        /\ UNCHANGED <<spaces, tabs, latest>>
    BY DEF IInv, TypeOK, CheckBranch, CheckRemote, FetchBranch, FindWorktree, MoveLeftover,
           At, Planting, Naming, world, herdr, memory
  <1>2. run[a].worktree
    BY <1>1 DEF Lodged
  <1>3. \/ Becomes(a, Fails(run[a]))
        \/ \E s : Becomes(a, [run[a] EXCEPT !.step = s])
        \/ Becomes(a, [run[a] EXCEPT !.step = "create", !.builds = TRUE])
    BY DEF CheckBranch, CheckRemote, FetchBranch, FindWorktree, MoveLeftover
  <1>4. ASSUME Becomes(a, [run[a] EXCEPT !.step = "create", !.builds = TRUE])
        PROVE  Knows(a, run'[a])
    <2>1. run'[a] = [run[a] EXCEPT !.step = "create", !.builds = TRUE]
      BY <1>1, <1>4, RunIs
    <2>2. Kept(a, run'[a])
      BY <1>1, <2>1 DEF Kept, Runs
    <2>3. QED
      BY <1>2, <2>2, KnowsIs
  <1>5. Knows(a, run'[a])
    BY <1>1, <1>2, <1>3, <1>4, FailKnows, StepKnows
  <1>6. QED
    BY <1>1, <1>5, ThinsIs, LodgesBy

(* The steps of a start that stands in its workspace. *)
LEMMA PullLodges ==
    ASSUME NEW a \in Actors, IInv, IInv', Lodged, Step(a),
           \/ CheckListed(a) \/ HoldBranch(a) \/ PushBranch(a) \/ ListPullRequests(a)
           \/ OpenDraft(a)
    PROVE  Lodges(a)
  <1>1. /\ TypeOK /\ run[a] \in Runs /\ run[a].step \in InSpace
        /\ UNCHANGED <<spaces, tabs, latest>>
    BY DEF IInv, TypeOK, CheckListed, HoldBranch, PushBranch, ListPullRequests, OpenDraft,
           At, InSpace, world, herdr, memory
  <1>2. \/ Becomes(a, Fails(run[a]))
        \/ \E s \in InSpace : Becomes(a, [run[a] EXCEPT !.step = s])
        \/ Becomes(a, [HandsOver(run[a]) EXCEPT !.step = "pulls"])
        \/ Becomes(a, Fails(HandsOver(run[a])))
    BY DEF CheckListed, HoldBranch, PushBranch, ListPullRequests, OpenDraft, InSpace
  <1>3. PICK g \in Runs : g = HandsOver(run[a])
    BY <1>1 DEF HandsOver, Runs
  <1>4. g.n = run[a].n /\ g.worktree = run[a].worktree /\ g.space = run[a].space
    BY <1>1, <1>3 DEF HandsOver, Runs
  <1>5. ASSUME Becomes(a, [HandsOver(run[a]) EXCEPT !.step = "pulls"]) PROVE Knows(a, run'[a])
    <2>1. run'[a] = [g EXCEPT !.step = "pulls"]
      BY <1>1, <1>3, <1>5, RunIs
    <2>2. Kept(a, run'[a]) /\ run'[a].step \in InSpace /\ run'[a].space = run[a].space
      BY <1>4, <2>1 DEF Kept, Runs, InSpace
    <2>3. QED
      BY <1>1, <2>2, KnowsIs
  <1>6. ASSUME Becomes(a, Fails(HandsOver(run[a]))) PROVE Knows(a, run'[a])
    <2>1. Becomes(a, Fails(g)) /\ Kept(a, g) /\ TypeOK
      BY <1>1, <1>3, <1>4, <1>6 DEF Kept
    <2>2. QED
      BY <2>1, GoesKnown
  <1>7. Knows(a, run'[a])
    BY <1>1, <1>2, <1>5, <1>6, FailKnows, StepKnows
  <1>8. QED
    BY <1>1, <1>7, ThinsIs, LodgesBy

LEMMA RouteCloseLodges ==
    ASSUME NEW a \in Actors, IInv, IInv', Lodged, Step(a), RouteClose(a)
    PROVE  Lodges(a)
  <1>1. /\ TypeOK /\ Becomes(a, [run[a] EXCEPT !.step = FirstStep(run[a])])
        /\ UNCHANGED latest /\ Shrinks
    BY DEF IInv, RouteClose, memory, Shrinks, Without, herdr
  <1>2. Still(run'[a], run[a]) /\ run'[a].step = FirstStep(run[a])
    BY <1>1, StepIs
  <1>3. Knows(a, run'[a])
    BY <1>2 DEF Knows, Still, FirstStep, InSpace, Planting, Naming
  <1>4. QED
    BY <1>1, <1>3, ThinsIs, LodgesBy

LEMMA ReadWorkspacesLodges ==
    ASSUME NEW a \in Actors, IInv, IInv', Lodged, Step(a), ReadWorkspaces(a)
    PROVE  Lodges(a)
  <1>1. TypeOK /\ run[a] \in Runs /\ Kept(a, run[a])
    BY DEF IInv, TypeOK, Kept
  <1>2. /\ spaces' = spaces /\ tabs' = tabs /\ latest' = latest
    BY DEF ReadWorkspaces, world, herdr, memory
  <1>3. run[a].stored => a \in Tickets /\ latest[a].worktree = run[a].worktree
    BY DEF IInv, Sound, Stepped, Running, Resting, At, ReadWorkspaces
  <1>4. /\ \A s \in Standing("checkout") : Shared(s.by)
        /\ run[a].stored => run[a].worktree \/ Shared(latest[a].space)
    BY <1>3, SharedOf DEF Standing
  <1>5. \/ Becomes(a, Fails(run[a]))
        \/ /\ run[a].stored
           /\ Becomes(a, [run[a] EXCEPT !.step = "tab", !.space = latest[a].space])
        \/ run[a].worktree /\ Becomes(a, [run[a] EXCEPT !.step = "open"])
        \/ Becomes(a, [run[a] EXCEPT !.step = "space"])
        \/ \E s \in Standing("checkout") :
             Becomes(a, [run[a] EXCEPT !.step = "tab", !.space = s.by])
    BY DEF ReadWorkspaces
  <1>6. ASSUME Becomes(a, [run[a] EXCEPT !.step = "space"]) PROVE Knows(a, run'[a])
    <2>1. Still(run'[a], run[a]) /\ run'[a].step = "space"
      BY <1>1, <1>6, StepIs
    <2>2. "space" \notin InSpace \cup Planting \cup Naming
      BY DEF InSpace, Planting, Naming
    <2>3. QED
      BY <2>1, <2>2 DEF Still, Knows
  <1>7. ASSUME NEW x, Becomes(a, [run[a] EXCEPT !.step = "tab", !.space = x]),
               run[a].worktree \/ Shared(x)
        PROVE  Knows(a, run'[a])
    BY <1>1, <1>7, GoesKnown
  <1>8. Knows(a, run'[a])
    BY <1>1, <1>4, <1>5, <1>6, <1>7, FailKnows, StepKnows
  <1>9. QED
    BY <1>1, <1>2, <1>8, ThinsIs, LodgesBy

(* A workspace of the start's own, where its Environment has it. *)
LEMMA AttachedFurnishes ==
    ASSUME NEW a \in Actors, NEW at \in {a, "checkout"}, Attaches(a, at),
           at # "checkout" <=> run[a].worktree
    PROVE  Furnishes({a})
  <1>1. PICK s, t : /\ s = [by |-> Id(a), at |-> at] /\ t = NewTab(a, TRUE, Id(a))
                    /\ spaces' = spaces \cup {s} /\ tabs' = tabs \cup {t}
    BY DEF Attaches
  <1>2. s.by = Id(a) /\ s.at = at /\ t.by = Id(a) /\ t.space = Id(a)
    BY <1>1 DEF NewTab
  <1>3. QED
    BY <1>1, <1>2 DEF Furnishes

LEMMA CreateSpaceLodges ==
    ASSUME NEW a \in Actors, IInv, IInv', Lodged, Step(a), CreateSpace(a)
    PROVE  Lodges(a)
  <1> DEFINE parts == {"space", "root"}
  <1>1. PICK o \in Answers :
          /\ UNCHANGED herdr \/ Attaches(a, "checkout")
          /\ LET known == IF o \in {"ok", "partial"} THEN parts ELSE {}
                 r == Makes(run[a], o, known, parts)
             IN \/ Becomes(a, Fails(r))
                \/ Becomes(a, [r EXCEPT !.step = "tab", !.space = Id(a)])
                \/ Becomes(a, Stands([r EXCEPT !.space = Id(a), !.tab = Root(a)]))
    BY DEF CreateSpace, Attaches, Answers
  <1> DEFINE known == IF o \in {"ok", "partial"} THEN parts ELSE {}
             g == Makes(run[a], o, known, parts)
  <1>2. /\ TypeOK /\ run[a] \in Runs /\ ~run[a].worktree /\ UNCHANGED latest
    BY DEF CreateSpace, At, IInv, TypeOK, Sound, Stepped, memory
  <1>3. Fits(known) /\ Fits(parts)
    BY DEF Fits, Parts
  <1>4. g \in Runs /\ Same(g, run[a])
    <2>1. g = Makes(run[a], o, known, parts)
      OBVIOUS
    <2> HIDE DEF parts, known, g
    <2>2. QED
      BY <1>2, <1>3, <2>1, MadeIs
  <1>5. \/ Becomes(a, Fails(g))
        \/ Becomes(a, [g EXCEPT !.step = "tab", !.space = Id(a)])
        \/ Becomes(a, Stands([g EXCEPT !.space = Id(a), !.tab = Root(a)]))
    BY <1>1
  <1> HIDE DEF parts, known, g
  <1>6. Kept(a, g)
    BY <1>4 DEF Same, Kept
  <1>7. Knows(a, run'[a])
    BY <1>2, <1>4, <1>5, <1>6, GoesKnown
  <1>8. Thins \/ Furnishes({a})
    BY <1>1, <1>2, ThinsIs, AttachedFurnishes DEF herdr
  <1>9. QED
    BY <1>2, <1>7, <1>8, LodgesBy

LEMMA OpenFreshTabLodges ==
    ASSUME NEW a \in Actors, IInv, IInv', Lodged, Step(a), OpenFreshTab(a)
    PROVE  Lodges(a)
  <1>1. /\ run[a].step = "tab" /\ At(a, "tab") /\ TypeOK /\ run[a] \in Runs /\ UNCHANGED latest
        /\ Fresh(a) \in Handles
    BY OwnTabs DEF OpenFreshTab, At, IInv, TypeOK, memory
  <1>2. CASE Becomes(a, Fails(run[a])) /\ UNCHANGED herdr
    BY <1>1, <1>2, FailKnows, ThinsIs, LodgesBy DEF herdr
  <1>3. CASE \E o \in Answers :
            LET known == IF o \in {"ok", "partial"} THEN {"tab"} ELSE {}
                r == Makes(run[a], o, known, {"tab"})
            IN /\ tabs' = IF Takes(o) THEN tabs \cup {NewTab(a, FALSE, run[a].space)} ELSE tabs
               /\ UNCHANGED spaces
               /\ Becomes(a, IF o = "ok" THEN Stands([r EXCEPT !.tab = Fresh(a)]) ELSE Fails(r))
    <2>1. PICK o \in Answers :
            LET known == IF o \in {"ok", "partial"} THEN {"tab"} ELSE {}
                r == Makes(run[a], o, known, {"tab"})
            IN /\ tabs' = IF Takes(o) THEN tabs \cup {NewTab(a, FALSE, run[a].space)} ELSE tabs
               /\ UNCHANGED spaces
               /\ Becomes(a, IF o = "ok" THEN Stands([r EXCEPT !.tab = Fresh(a)]) ELSE Fails(r))
      BY <1>3
    <2> DEFINE parts == {"tab"}
               known == IF o \in {"ok", "partial"} THEN {"tab"} ELSE {}
               g == Makes(run[a], o, known, parts)
    <2>2. Fits(known) /\ Fits(parts)
      BY DEF Fits, Parts
    <2>3. g \in Runs /\ Same(g, run[a]) /\ g.space = run[a].space
      <3>1. g = Makes(run[a], o, known, parts)
        OBVIOUS
      <3>2. run[a] \in Runs
        BY <1>1
      <3> HIDE DEF known, parts, g
      <3>3. QED
        BY <2>2, <3>1, <3>2, MadeIs
    <2>4. Becomes(a, Fails(g)) \/ Becomes(a, Stands([g EXCEPT !.tab = Fresh(a)]))
      BY <2>1
    <2> HIDE DEF known, parts, g
    <2>5. Kept(a, g) /\ run[a].step \in InSpace
      BY <1>1, <2>3 DEF Same, Kept, InSpace
    <2>7. Knows(a, run'[a])
      BY <1>1, <2>3, <2>4, <2>5, GoesKnown
    <2>8. Furnishes({a})
      <3>1. \A t \in tabs' : t \in tabs \/ (t.by = Id(a) /\ t.space = run[a].space)
        BY <2>1 DEF NewTab
      <3>2. QED
        BY <1>1, <2>1, <3>1 DEF Furnishes
    <2>9. QED
      BY <1>1, <2>7, <2>8, LodgesBy
  <1>4. QED
    BY <1>2, <1>3 DEF OpenFreshTab, Answers

(* A worktree's workspace, opened or made. *)
LEMMA OpenWorktreeLodges ==
    ASSUME NEW a \in Actors, IInv, IInv', Lodged, Step(a), OpenWorktree(a)
    PROVE  Lodges(a)
  <1> DEFINE parts == {"space"}
  <1>1. /\ run[a].step \in Planting /\ TypeOK /\ run[a] \in Runs /\ UNCHANGED latest
        /\ a # "checkout" /\ Kept(a, run[a])
    BY StartAssumption DEF OpenWorktree, Planting, IInv, TypeOK, memory, Kept
  <1>2. run[a].worktree
    BY <1>1 DEF Lodged
  <1>3. \/ UNCHANGED herdr /\ \E s : Becomes(a, [run[a] EXCEPT !.step = s])
        \/ OpenedWorktree(a)
    BY DEF OpenWorktree
  <1>4. CASE UNCHANGED herdr /\ \E s : Becomes(a, [run[a] EXCEPT !.step = s])
    <2>1. Knows(a, run'[a])
      BY <1>1, <1>2, <1>4, StepKnows
    <2>2. QED
      BY <1>1, <1>4, <2>1, ThinsIs, LodgesBy DEF herdr
  <1>5. CASE OpenedWorktree(a)
    <2>1. PICK o \in Answers :
            LET known == IF o \in {"ok", "partial"} THEN parts ELSE {}
                r == Makes(run[a], o, known, parts)
            IN \/ /\ UNCHANGED herdr
                  /\ \/ \E s \in Standing(a) :
                          Becomes(a, [run[a] EXCEPT !.step = "tab", !.space = s.by])
                     \/ Becomes(a, Fails(run[a]))
               \/ /\ UNCHANGED herdr \/ Attaches(a, a)
                  /\ \/ Becomes(a, Stands([r EXCEPT !.space = Id(a), !.tab = Root(a)]))
                     \/ Becomes(a, Fails(r))
      BY <1>5 DEF OpenedWorktree, Attaches, Answers
    <2> DEFINE known == IF o \in {"ok", "partial"} THEN parts ELSE {}
               g == Makes(run[a], o, known, parts)
    <2>2. Fits(known) /\ Fits(parts)
      BY DEF Fits, Parts
    <2>3. g \in Runs /\ Same(g, run[a])
      <3>1. g = Makes(run[a], o, known, parts)
        OBVIOUS
      <3>2. run[a] \in Runs
        BY <1>1
      <3> HIDE DEF known, parts, g
      <3>3. QED
        BY <2>2, <3>1, <3>2, MadeIs
    <2>4. /\ UNCHANGED herdr \/ Attaches(a, a)
          /\ \/ \E x : Becomes(a, [run[a] EXCEPT !.step = "tab", !.space = x])
             \/ Becomes(a, Fails(run[a]))
             \/ Becomes(a, Stands([g EXCEPT !.space = Id(a), !.tab = Root(a)]))
             \/ Becomes(a, Fails(g))
      BY <2>1
    <2> HIDE DEF known, parts, g
    <2>5. Kept(a, g)
      BY <2>3 DEF Same, Kept
    <2>6. Knows(a, run'[a])
      BY <1>1, <1>2, <2>3, <2>4, <2>5, GoesKnown
    <2>7. Thins \/ Furnishes({a})
      BY <1>1, <1>2, <2>4, ThinsIs, AttachedFurnishes DEF herdr
    <2>8. QED
      BY <1>1, <2>6, <2>7, LodgesBy
  <1>6. QED
    BY <1>3, <1>4, <1>5

LEMMA CreateWorktreeLodges ==
    ASSUME NEW a \in Actors, IInv, IInv', Lodged, Step(a), CreateWorktree(a)
    PROVE  Lodges(a)
  <1> DEFINE parts == WorktreeParts(a)
             refused == IF At(a, "create") THEN [run[a] EXCEPT !.step = "aside"] ELSE Fails(run[a])
  <1>1. /\ run[a].step \in Planting /\ TypeOK /\ run[a] \in Runs /\ UNCHANGED latest
        /\ a # "checkout" /\ Kept(a, run[a])
    BY StartAssumption DEF CreateWorktree, Planting, IInv, TypeOK, memory, Kept
  <1>2. run[a].worktree
    BY <1>1 DEF Lodged
  <1>3. \/ Becomes(a, refused) /\ UNCHANGED herdr
        \/ \E o \in Answers :
             LET known == IF o \in {"ok", "partial"} THEN parts ELSE {}
                 r == Makes(run[a], o, known, parts)
             IN /\ UNCHANGED herdr \/ Attaches(a, a)
                /\ \/ Becomes(a, Stands([r EXCEPT !.space = Id(a), !.tab = Root(a)]))
                   \/ Becomes(a, Fails(r))
                   \/ Becomes(a, [r EXCEPT !.step = refused.step, !.failed = refused.failed])
    <2> DEFINE free == tree[a].is = "none" /\ (run[a].builds => local[a].tip = 0)
    <2>1. CASE free
      <3>1. PICK o \in Answers :
              LET known == IF o \in {"ok", "partial"} THEN parts ELSE {}
                  r == Makes(run[a], o, known, parts)
              IN /\ UNCHANGED herdr \/ Attaches(a, a)
                 /\ Becomes(a, CASE o = "ok" -> Stands([r EXCEPT !.space = Id(a), !.tab = Root(a)])
                                 [] o = "partial" -> Fails(r)
                                 [] OTHER -> [r EXCEPT !.step = refused.step,
                                                       !.failed = refused.failed])
        BY <2>1 DEF CreateWorktree, Attaches, Answers
      <3> HIDE DEF parts, refused
      <3>2. QED
        BY <3>1
    <2>2. CASE ~free
      BY <2>2 DEF CreateWorktree
    <2>3. QED
      BY <2>1, <2>2
  <1>4. CASE Becomes(a, refused) /\ UNCHANGED herdr
    <2>1. \/ Becomes(a, Fails(run[a]))
          \/ Becomes(a, [run[a] EXCEPT !.step = "aside"])
      BY <1>4
    <2>2. Knows(a, run'[a])
      BY <1>1, <1>2, <2>1, FailKnows, StepKnows
    <2>3. QED
      BY <1>1, <1>4, <2>2, ThinsIs, LodgesBy DEF herdr
  <1>5. ASSUME NEW o \in Answers, NEW known, NEW g,
               known = (IF o \in {"ok", "partial"} THEN parts ELSE {}),
               g = Makes(run[a], o, known, parts),
               UNCHANGED herdr \/ Attaches(a, a),
               \/ Becomes(a, Stands([g EXCEPT !.space = Id(a), !.tab = Root(a)]))
               \/ Becomes(a, Fails(g))
               \/ Becomes(a, [g EXCEPT !.step = refused.step, !.failed = refused.failed])
        PROVE  Lodges(a)
    <2>1. Fits(known) /\ Fits(parts)
      BY <1>5 DEF Fits, Parts, WorktreeParts
    <2>2. g \in Runs /\ Same(g, run[a])
      <3> HIDE DEF parts
      <3>1. QED
        BY <1>1, <1>5, <2>1, MadeIs
    <2>3. Kept(a, g)
      BY <2>2 DEF Same, Kept
    <2> HIDE DEF parts, refused
    <2>4. ASSUME Becomes(a, [g EXCEPT !.step = refused.step, !.failed = refused.failed])
          PROVE  Knows(a, run'[a])
      <3>1. run'[a] = [g EXCEPT !.step = refused.step, !.failed = refused.failed]
        BY <1>1, <2>4, RunIs
      <3>2. run'[a].n = g.n /\ run'[a].worktree = g.worktree
        BY <2>2, <3>1 DEF Runs
      <3>3. Kept(a, run'[a])
        BY <2>3, <3>2 DEF Kept
      <3>4. QED
        BY <1>2, <3>3, KnowsIs
    <2>5. Knows(a, run'[a])
      BY <1>1, <1>5, <2>2, <2>3, <2>4, GoesKnown
    <2>6. Thins \/ Furnishes({a})
      BY <1>1, <1>2, <1>5, ThinsIs, AttachedFurnishes DEF herdr
    <2>7. QED
      BY <1>1, <2>5, <2>6, LodgesBy
  <1>6. QED
    <2> HIDE DEF parts, refused
    <2>1. QED
      BY <1>3, <1>4, <1>5

LEMMA StartAgentLodges ==
    ASSUME NEW a \in Actors, IInv, IInv', Lodged, Step(a), StartAgent(a)
    PROVE  Lodges(a)
  <1> DEFINE name == Names(a)[run[a].ask]
             holders == {t \in tabs : t.agent = name}
             own == \E t \in holders : OwnHolder(a, t)
  <1>1. own \in BOOLEAN
    OBVIOUS
  <1>2. /\ Alike(run'[a], run[a]) /\ run[a].step = "agent" /\ UNCHANGED <<spaces, latest>>
        /\ AskEnds(a, name, holders, own) /\ TypeOK
    <2>1. TypeOK
      BY DEF IInv
    <2>2. QED
      BY <1>1, <2>1, StartAgentIs
  <1>3. run'[a].step \in InSpace \cup Cleans \cup {"rest"}
    BY <1>2 DEF AskEnds, Falling, InSpace
  <1>4. Kept(a, run'[a]) /\ run'[a].space = run[a].space /\ run[a].step \in InSpace
    BY <1>2 DEF Alike, Kept, InSpace
  <1>5. Knows(a, run'[a])
    BY <1>3, <1>4, KnowsIs
  <1>6. UNCHANGED tabs \/ tabs' = Named(run[a].tab, name)
    BY <1>2 DEF AskEnds
  <1>7. ASSUME NEW h, NEW m, tabs' = Named(h, m), NEW t \in tabs'
        PROVE  \E u \in tabs : u.by = t.by /\ u.space = t.space
    <2>1. PICK u \in tabs : t = IF Handle(u) = h THEN [u EXCEPT !.agent = m] ELSE u
      BY <1>7 DEF Named
    <2>2. u \in [by : Starts, root : BOOLEAN, space : Makers, agent : Seq(Actors \cup Nat)]
      BY <1>2 DEF TypeOK
    <2>3. t.by = u.by /\ t.space = u.space
      BY <2>1, <2>2
    <2>4. QED
      BY <2>3
  <1>8. Thins
    <2> HIDE DEF name
    <2>1. QED
      BY <1>2, <1>6, <1>7 DEF Thins
  <1>9. QED
    BY <1>2, <1>5, <1>8, LodgesBy

LEMMA PromptAgentLodges ==
    ASSUME NEW a \in Actors, IInv, IInv', Lodged, Step(a), PromptAgent(a)
    PROVE  Lodges(a)
  <1>1. /\ run[a].step = "prompt" /\ run'[a].step = "rest" /\ Still(run'[a], run[a])
        /\ \A b \in Actors \ {a} : run'[b] = run[b]
        /\ spaces' = spaces /\ tabs' \subseteq tabs
        /\ \A b \in Tickets \ {a} : latest'[b] = latest[b]
        /\ a \in Tickets => latest'[a] = Entry(a)
    BY PromptAgentIs
  <1>2. Knows(a, run'[a])
    BY <1>1, KnowsIs DEF Still, Kept
  <1>3. Furnishes({a})
    BY <1>1 DEF Furnishes
  <1>4. \A b \in Actors : run'[b] \in Runs
    BY DEF IInv, TypeOK
  <1>5. run[a].worktree \/ Shared(run[a].space)
    BY <1>1, SharedOf DEF InSpace
  <1>6. Entry(a).worktree = run[a].worktree /\ Entry(a).space = run[a].space
    BY DEF Entry
  <1>7. \A t \in Tickets : ~latest'[t].worktree => Shared(latest'[t].space)
    BY <1>1, <1>5, <1>6, SharedOf
  <1>8. QED
    BY <1>1, <1>2, <1>3, <1>4, <1>7 DEF Lodges, Records

(* The cleanup. *)
LEMMA CleanLodges ==
    ASSUME NEW a \in Actors, IInv, IInv', Lodged, Step(a),
           CleanTab(a) \/ CleanCheckout(a) \/ CleanBranch(a)
    PROVE  Lodges(a)
  <1>1. PICK parts \in SUBSET Parts, o \in Answers : Cleaned(a, parts, o)
    BY DEF CleanTab, CleanCheckout, CleanBranch, Parts, Answers
  <1>2. run[a].step \in Cleans /\ TypeOK /\ latest' = latest
    BY DEF CleanTab, CleanCheckout, CleanBranch, At, Cleans, IInv, memory
  <1>3. Cleaner(run'[a], run[a], parts, o)
    BY <1>1, <1>2, CleanedIs
  <1>4. run'[a].step \in Cleans \cup {"rest"}
    BY <1>3, CleaningIs DEF Cleaner, Cleans
  <1>5. Kept(a, run'[a])
    BY <1>3 DEF Cleaner, Kept
  <1>6. Knows(a, run'[a])
    BY <1>4, <1>5, KnowsIs
  <1>7. Shrinks
    BY DEF CleanTab, CleanCheckout, CleanBranch, Shrinks, Without, herdr
  <1>8. QED
    BY <1>2, <1>6, <1>7, ThinsIs, LodgesBy

LEMMA StepLodges ==
    ASSUME NEW a \in Actors, IInv, IInv', Lodged, Step(a)
    PROVE  Lodges(a)
  BY TreeLodges, PullLodges, RouteCloseLodges, ReadWorkspacesLodges, CreateSpaceLodges,
     OpenFreshTabLodges, OpenWorktreeLodges, CreateWorktreeLodges, StartAgentLodges,
     PromptAgentLodges, CleanLodges DEF Step

(* What makes nothing and moves no start, or begins one. *)
LEMMA QuietLodges ==
    ASSUME IInv, IInv', Lodged, Thins, UNCHANGED latest,
           \A b \in Actors : run'[b] = run[b] \/ Stirred(b) \/ Renews(b)
    PROVE  Lodged'
  <1>1. Furnishes({})
    BY DEF Thins, Furnishes
  <1>2. ASSUME NEW b \in Actors
        PROVE  \/ run'[b].step = "rest" /\ Knows(b, run'[b])
               \/ run'[b] \in Runs /\ run'[b].step = run[b].step
                  /\ run'[b].space = run[b].space /\ run'[b].n = run[b].n
                  /\ run'[b].worktree = run[b].worktree
               \/ Renews(b)
    <2>1. run'[b] \in Runs
      BY DEF IInv, TypeOK
    <2>2. CASE Stirred(b)
      <3>1. Kept(b, run'[b])
        BY <2>2 DEF Stirred, Kept
      <3>2. CASE run'[b].step = "rest"
        BY <3>1, <3>2, KnowsIs
      <3>3. CASE run'[b].step = run[b].step /\ Still(run'[b], run[b])
        BY <2>1, <3>3 DEF Still
      <3>4. QED
        BY <2>2, <3>2, <3>3 DEF Stirred
    <2>3. QED
      BY <1>2, <2>1, <2>2
  <1>3. Records({})
    BY <1>2, SharedOf DEF Records
  <1>4. QED
    BY <1>1, <1>3, LodgedKeeps

LEMMA NextLodges ==
    ASSUME IInv, IInv', Lodged, [Next]_vars
    PROVE  Lodged'
  <1>1. TypeOK
    BY DEF IInv
  <1>2. CASE \E a \in Actors : Step(a)
    <2>1. PICK a \in Actors : Step(a)
      BY <1>2
    <2>2. Furnishes({a}) /\ Records({a})
      BY <2>1, StepLodges DEF Lodges
    <2>3. QED
      BY <2>2, LodgedKeeps
  <1>3. CASE \E a \in Actors : Begin(a)
    <2>1. PICK a \in Actors : Begin(a)
      BY <1>3
    <2>2. /\ run'[a].n = run[a].n + 1 /\ run'[a].step \in {"route", "branch", "list"}
          /\ run'[a].step = "branch" => run'[a].worktree
          /\ \A b \in Actors \ {a} : run'[b] = run[b]
          /\ UNCHANGED <<herdr, memory>>
      BY <2>1, BeginIs
    <2>3. Renews(a)
      BY <2>2 DEF Renews, InSpace, Planting, Naming
    <2>4. Thins /\ UNCHANGED latest
      BY <2>2, ThinsIs DEF herdr, memory
    <2>5. \A b \in Actors : run'[b] = run[b] \/ Renews(b)
      BY <2>2, <2>3
    <2>6. QED
      BY <2>4, <2>5, QuietLodges
  <1>4. CASE \E t \in Tickets : CloseCycle(t) \/ ClearLeftover(t)
    <2>1. UNCHANGED <<run, latest>>
      BY <1>4 DEF CloseCycle, ClearLeftover
    <2>2. \E t, e, o : Cleanup(t, e, o)
      BY <1>4 DEF CloseCycle, ClearLeftover
    <2>3. Shrinks
      BY <2>2 DEF Cleanup, Shrinks, Without, herdr
    <2>4. QED
      BY <2>1, <2>3, ThinsIs, QuietLodges
  <1>5. CASE OperatorCloses \/ AgentWorks \/ LeftoverAppears
    <2>1. \A b \in Actors : Stirred(b)
      BY <1>1, <1>5, DisturbsStirs DEF OperatorCloses, AgentWorks, LeftoverAppears
    <2>2. Shrinks /\ UNCHANGED latest
      BY <1>5 DEF OperatorCloses, AgentWorks, LeftoverAppears, Shrinks, Without, herdr, memory
    <2>3. QED
      BY <2>1, <2>2, ThinsIs, QuietLodges
  <1>6. CASE AgentEnds
    <2>1. \A b \in Actors : Stirred(b)
      BY <1>1, <1>6, DisturbsStirs DEF AgentEnds
    <2>2. PICK t \in tabs : tabs' = (tabs \ {t}) \cup {[t EXCEPT !.agent = Nothing]}
      BY <1>6 DEF AgentEnds
    <2>3. PICK u : u = [t EXCEPT !.agent = Nothing]
      OBVIOUS
    <2>4. u.by = t.by /\ u.space = t.space
      BY <1>1, <2>3 DEF TypeOK
    <2>5. tabs' = (tabs \ {t}) \cup {u} /\ spaces' = spaces /\ latest' = latest
      BY <1>6, <2>2, <2>3 DEF AgentEnds, memory
    <2>6. Thins
      BY <2>4, <2>5 DEF Thins
    <2>7. QED
      BY <2>1, <2>5, <2>6, QuietLodges
  <1>7. CASE OperatorPrunes \/ Crash
    <2>1. \A b \in Actors : Stirred(b)
      BY <1>1, <1>7, PrunesStirs, CrashStirs
    <2>2. UNCHANGED <<spaces, tabs, latest>>
      BY <1>7 DEF OperatorPrunes, Crash, world, herdr, memory
    <2>3. QED
      BY <2>1, <2>2, ThinsIs, QuietLodges
  <1>8. CASE UNCHANGED vars
    <2>1. UNCHANGED <<spaces, tabs, latest, run>>
      BY <1>8 DEF vars, world, herdr, memory
    <2>2. QED
      BY <2>1, ThinsIs, QuietLodges
  <1>9. QED
    BY <1>2, <1>3, <1>4, <1>5, <1>6, <1>7, <1>8 DEF Next

LEMMA InitLodges == Init => Lodged
  <1> SUFFICES ASSUME Init PROVE Lodged
    OBVIOUS
  <1>1. /\ \A s \in spaces : s.by = Operator /\ s.at = "checkout"
        /\ tabs = {} /\ \A a \in Actors : run[a] = NoRun /\ \A t \in Tickets : latest[t] = NoEntry
    BY DEF Init, Operators
  <1>2. NoRun.step = "rest" /\ NoEntry.space = Nothing
    BY DEF NoRun, NoEntry
  <1>3. "rest" \notin InSpace \cup Planting \cup Naming
    BY DEF InSpace, Planting, Naming
  <1>4. ASSUME NEW b \in Actors, NEW k \in Nat PROVE ~Shared(<<b, k>>) /\ ~Planted(<<b, k>>)
    <2>1. <<b, k>> # Operator /\ <<b, k>> # Nothing
      BY DEF Operator, Nothing
    <2>2. QED
      BY <1>1, <1>2, <1>3, <2>1 DEF Shared, Planted, Standing
  <1>5. QED
    BY <1>1, <1>2, <1>3, <1>4 DEF Lodged

(* Where a worktree's workspace stands no other start works, and it holds no *)
(* tab but its own and those of the later starts of its actor.               *)
LEMMA AllLodged == Spec => [](IInv /\ Lodged)
  <1>1. Init => IInv /\ Lodged
    BY InitHolds, InitLodges
  <1>2. IInv /\ Lodged /\ [Next]_vars => (IInv /\ Lodged)'
    BY NextKeeps, NextLodges
  <1>3. QED
    BY <1>1, <1>2, PTL DEF Spec

--------------------------------------------------------------------------------
(* What a start's own commands take down. *)

TakesOwn(a) ==
    /\ \A s \in spaces \ spaces' : s.by = Id(a)
    /\ \A t \in tabs : Vanishes(t) =>
         \/ t.by = Id(a) \/ Replaces(a, t)
         \/ t.space = Id(a) /\ ~run[a].worktree
    /\ \A b \in Actors : tree[b].is # "leftover" /\ tree'[b].is = "none" =>
         tree[b].is = "none" \/ (b = a /\ tree[b].by = run[a].n)
    /\ \A b \in Actors : local[b].tip > 0 /\ local'[b].tip = 0 =>
         b = a /\ local[b].by = run[a].n

(* A tab that still stands under its handle has not vanished. *)
LEMMA StaysTab ==
    ASSUME NEW t \in tabs, NEW u \in tabs', u.by = t.by, u.root = t.root
    PROVE  ~Vanishes(t)
  BY DEF Vanishes, Handle

(* A step that takes nothing down. *)
LEMMA TakesNone ==
    ASSUME NEW a \in Actors, spaces \subseteq spaces',
           \A t \in tabs : \E u \in tabs' : u.by = t.by /\ u.root = t.root,
           \A b \in Actors : tree'[b].is = "none" => tree[b].is \in {"none", "leftover"},
           \A b \in Actors : local[b].tip > 0 => local'[b].tip > 0
    PROVE  TakesOwn(a)
  <1>1. \A t \in tabs : ~Vanishes(t)
    BY StaysTab
  <1>2. \A b \in Actors : ~(local[b].tip > 0 /\ local'[b].tip = 0)
    OBVIOUS
  <1>3. QED
    BY <1>1, <1>2 DEF TakesOwn

(* The workspace a start made on its worktree holds that start's tabs alone. *)
LEMMA OwnWorktreeTabs ==
    ASSUME NEW a \in Actors, IInv, Lodged, run[a].worktree, NEW t \in tabs, t.space = Id(a)
    PROVE  t.by = Id(a)
  <1>1. TypeOK /\ Aged(a) /\ Id(a) = <<a, run[a].n>> /\ run[a].n \in Nat
    BY IdFacts DEF IInv, Sound, Id
  <1>2. PICK s \in spaces : s.by = Id(a)
    <2>1. \A u \in tabs : u.space \in {s.by : s \in spaces}
      BY <1>1 DEF TypeOK
    <2>2. Id(a) \in {s.by : s \in spaces}
      BY <2>1
    <2>3. QED
      BY <2>2
  <1>3. s.at # "checkout"
    <2>1. ~Shared(<<a, run[a].n>>)
      BY <1>1 DEF Lodged
    <2>2. QED
      BY <1>1, <1>2, <2>1, SharedOf
  <1>4. t.by[1] = a /\ run[a].n <= t.by[2]
    BY <1>1, <1>2, <1>3 DEF Lodged
  <1>5. t.by \in Actors \X Nat
    BY <1>1 DEF TypeOK, Starts
  <1>6. t.by = <<t.by[1], t.by[2]>> /\ t.by[2] \in Nat
    BY <1>5
  <1>7. t.by \in Of(a)
    BY <1>4, <1>6 DEF Of
  <1>8. t.by[2] <= run[a].n
    BY <1>1, <1>7 DEF Aged
  <1>9. QED
    BY <1>1, <1>4, <1>6, <1>8

LEMMA StepTakesOwn ==
    ASSUME NEW a \in Actors, IInv, Lodged, Step(a), ~At(a, "route")
    PROVE  TakesOwn(a)
  <1>1. TypeOK /\ Placed /\ Sound(a) /\ run[a] \in Runs
    BY DEF IInv, TypeOK
  <1>2. CASE \/ ReadWorkspaces(a) \/ CheckBranch(a) \/ CheckRemote(a) \/ FindWorktree(a)
             \/ CheckListed(a) \/ ListPullRequests(a) \/ PushBranch(a) \/ OpenDraft(a)
    <2>1. UNCHANGED <<herdr, tree, local>>
      BY <1>2 DEF ReadWorkspaces, CheckBranch, CheckRemote, FindWorktree, CheckListed,
                  ListPullRequests, PushBranch, OpenDraft, world, branches
    <2>2. QED
      BY <2>1, TakesNone DEF herdr
  <1>3. CASE CreateSpace(a) \/ OpenFreshTab(a) \/ OpenWorktree(a)
    <2>1. UNCHANGED <<tree, local>> /\ spaces \subseteq spaces' /\ tabs \subseteq tabs'
      <3>1. CASE CreateSpace(a)
        BY <3>1 DEF CreateSpace, herdr, branches
      <3>2. CASE OpenFreshTab(a)
        BY <3>2 DEF OpenFreshTab, herdr, branches
      <3>3. CASE OpenWorktree(a)
        BY <3>3 DEF OpenWorktree, OpenedWorktree, herdr, branches
      <3>4. QED
        BY <1>3, <3>1, <3>2, <3>3
    <2>2. QED
      BY <2>1, TakesNone
  <1>4. CASE FetchBranch(a)
    <2>1. /\ run[a].step = "fetch" /\ UNCHANGED <<herdr, tree>>
          /\ UNCHANGED local \/ local' = [local EXCEPT ![a] = [tip |-> remote[a], by |-> 0]]
      BY <1>4 DEF FetchBranch, At
    <2>2. remote[a] > 0
      BY <1>1, <2>1 DEF Sound, Stepped, At
    <2>3. \A b \in Actors : local[b].tip > 0 => local'[b].tip > 0
      <3>1. CASE UNCHANGED local
        BY <3>1
      <3>2. CASE local' = [local EXCEPT ![a] = [tip |-> remote[a], by |-> 0]]
        BY <1>1, <2>2, <3>2 DEF TypeOK
      <3>3. QED
        BY <2>1, <3>1, <3>2
    <2>4. QED
      BY <2>1, <2>3, TakesNone DEF herdr
  <1>5. CASE CreateWorktree(a)
    <2>1. UNCHANGED <<herdr, tree, local>> \/ (Plants(a) /\ UNCHANGED <<remote, drafts>>)
      BY <1>5 DEF CreateWorktree, Plants, Attaches
    <2>2. CASE UNCHANGED <<herdr, tree, local>>
      BY <2>2, TakesNone DEF herdr
    <2>3. CASE Plants(a) /\ UNCHANGED <<remote, drafts>>
      <3>1. /\ \A b \in Actors \ {a} : tree'[b] = tree[b] /\ local'[b] = local[b]
            /\ local[a].tip > 0 => local'[a] = local[a]
        BY <2>3, PlantsIs
      <3>2. tree'[a].is = "stands"
        BY <1>1, <2>3 DEF Plants, TypeOK
      <3>3. spaces \subseteq spaces' /\ tabs \subseteq tabs'
        BY <2>3 DEF Plants, Attaches
      <3>4. QED
        BY <3>1, <3>2, <3>3, TakesNone
    <2>4. QED
      BY <2>1, <2>2, <2>3
  <1>6. CASE MoveLeftover(a)
    <2>1. UNCHANGED <<herdr, local>>
      BY <1>6 DEF MoveLeftover, branches
    <2>2. \A b \in Actors : tree'[b].is = "none" => tree[b].is \in {"none", "leftover"}
      <3>1. CASE UNCHANGED tree
        BY <3>1
      <3>2. CASE tree[a].is = "leftover" /\ tree' = [tree EXCEPT ![a].is = "none"]
        BY <1>1, <3>2 DEF TypeOK
      <3>3. QED
        BY <1>6, <3>1, <3>2 DEF MoveLeftover
    <2>3. QED
      BY <2>1, <2>2, TakesNone DEF herdr
  <1>7. CASE HoldBranch(a)
    <2>1. /\ UNCHANGED <<herdr, tree>>
          /\ UNCHANGED local \/ local' = [local EXCEPT ![a].tip = Lower(@ + 1, MaxTip)]
      BY <1>7 DEF HoldBranch
    <2>2. \A b \in Actors : local[b].tip > 0 => local'[b].tip > 0
      <3>1. CASE UNCHANGED local
        BY <3>1
      <3>2. CASE local' = [local EXCEPT ![a].tip = Lower(@ + 1, MaxTip)]
        <4>1. local[a].tip \in 0..MaxTip /\ Lower(local[a].tip + 1, MaxTip) > 0
          BY <1>1, StartAssumption DEF TypeOK, Lower
        <4>2. QED
          BY <1>1, <3>2, <4>1 DEF TypeOK
      <3>3. QED
        BY <2>1, <3>1, <3>2
    <2>3. QED
      BY <2>1, <2>2, TakesNone DEF herdr
  <1>8. CASE StartAgent(a)
    <2>1. UNCHANGED <<spaces, tree, local>>
      BY <1>8 DEF StartAgent, branches
    <2>2. UNCHANGED tabs \/ tabs' = Named(run[a].tab, Names(a)[run[a].ask])
      BY <1>8 DEF StartAgent, Named
    <2>3. \A t \in tabs : \E u \in tabs' : u.by = t.by /\ u.root = t.root
      <3>1. CASE UNCHANGED tabs
        BY <3>1
      <3>2. CASE tabs' = Named(run[a].tab, Names(a)[run[a].ask])
        <4>1. SUFFICES ASSUME NEW t \in tabs
                       PROVE  \E u \in tabs' : u.by = t.by /\ u.root = t.root
          OBVIOUS
        <4> DEFINE name == Names(a)[run[a].ask]
        <4> HIDE DEF name
        <4>2. t \in [by : Starts, root : BOOLEAN, space : Makers, agent : Seq(Actors \cup Nat)]
          BY <1>1 DEF TypeOK
        <4>3. (IF Handle(t) = run[a].tab THEN [t EXCEPT !.agent = name] ELSE t) \in tabs'
          BY <3>2 DEF Named, name
        <4>4. QED
          BY <4>2, <4>3
      <3>3. QED
        BY <2>2, <3>1, <3>2
    <2>4. QED
      BY <2>1, <2>3, TakesNone
  <1>9. CASE PromptAgent(a)
    <2>1. run[a].step = "prompt" /\ UNCHANGED <<spaces, tree, local>>
      BY <1>9 DEF PromptAgent, At, branches
    <2>2. run[a].accepted
      BY <1>1, <2>1 DEF Sound, Stepped, At
    <2>3. UNCHANGED tabs \/ (run[a].continues /\ tabs' = tabs \ TabOf(latest[a].tab))
      <3> DEFINE previous == IF a \in Tickets /\ run[a].continues THEN latest[a].tab ELSE NoTab
      <3>1. \/ UNCHANGED tabs
            \/ previous # NoTab /\ tabs' = tabs \ TabOf(previous)
        BY <1>9 DEF PromptAgent
      <3>2. previous # NoTab => run[a].continues /\ previous = latest[a].tab
        OBVIOUS
      <3>3. QED
        BY <3>1, <3>2
    <2>4. \A t \in tabs : Vanishes(t) => Replaces(a, t)
      BY <2>2, <2>3 DEF Vanishes, TabOf, Replaces
    <2>5. QED
      BY <2>1, <2>4 DEF TakesOwn
  <1>10. CASE CleanTab(a)
    <2>1. UNCHANGED <<spaces, tree, local>>
      BY <1>10 DEF CleanTab, branches
    <2>2. UNCHANGED tabs \/ tabs' = tabs \ TabOf(Fresh(a))
      BY <1>10 DEF CleanTab
    <2>3. \A t \in tabs : Vanishes(t) => t.by = Id(a)
      BY <2>2 DEF Vanishes, TabOf, Handle, Fresh
    <2>4. QED
      BY <2>1, <2>3 DEF TakesOwn
  <1>11. CASE CleanCheckout(a)
    <2>1. /\ run[a].step = "clean checkout" /\ UNCHANGED local
          /\ UNCHANGED herdr \/ Without(Id(a))
          /\ tree' = tree \/ ("tree" \in run[a].made
                               /\ tree' = [tree EXCEPT ![a] = [is |-> "none", by |-> 0]])
      BY <1>11 DEF CleanCheckout, At, branches
    <2>2. "tree" \in run[a].made => tree[a].by = run[a].n
      BY <1>1, <2>1 DEF Sound, Held, Running, Resting, At
    <2>3. /\ \A s \in spaces \ spaces' : s.by = Id(a)
          /\ \A t \in tabs : Vanishes(t) => t.space = Id(a)
      BY <2>1 DEF Without, Vanishes, herdr
    <2>4. \A b \in Actors : tree'[b].is = "none" =>
            tree[b].is = "none" \/ (b = a /\ tree[b].by = run[a].n)
      <3>1. CASE tree' = tree
        BY <3>1
      <3>2. CASE "tree" \in run[a].made /\ tree' = [tree EXCEPT ![a] = [is |-> "none", by |-> 0]]
        BY <1>1, <2>2, <3>2 DEF TypeOK
      <3>3. QED
        BY <2>1, <3>1, <3>2
    <2>5. \A b \in Actors : ~(local[b].tip > 0 /\ local'[b].tip = 0)
      <3>1. local' = local
        BY <2>1
      <3>2. \A b \in Actors : local[b].tip \in Nat
        BY <1>1, StartAssumption DEF TypeOK
      <3>3. QED
        BY <3>1, <3>2
    <2>6. ASSUME run[a].worktree, NEW t \in tabs, t.space = Id(a) PROVE t.by = Id(a)
      BY <2>6, OwnWorktreeTabs
    <2>7. QED
      BY <2>3, <2>4, <2>5, <2>6 DEF TakesOwn
  <1>12. CASE CleanBranch(a)
    <2>1. /\ run[a].step = "clean branch" /\ UNCHANGED <<herdr, tree>>
          /\ local' = local \/ local' = [local EXCEPT ![a] = [tip |-> 0, by |-> 0]]
      BY <1>12 DEF CleanBranch, At
    <2>2. "branch" \in run[a].made
      BY <1>1, <2>1, CleaningIs DEF Sound, Stepped, Cleans
    <2>3. local[a].by = run[a].n
      BY <1>1, <2>1, <2>2 DEF Sound, Held, Running, Resting, At
    <2>4. \A b \in Actors : local[b].tip > 0 /\ local'[b].tip = 0 =>
            b = a /\ local[b].by = run[a].n
      <3>1. CASE local' = local
        BY <3>1
      <3>2. CASE local' = [local EXCEPT ![a] = [tip |-> 0, by |-> 0]]
        <4>1. \A b \in Actors \ {a} : local'[b] = local[b]
          BY <1>1, <3>2 DEF TypeOK
        <4>2. QED
          BY <2>3, <4>1
      <3>3. QED
        BY <2>1, <3>1, <3>2
    <2>5. \A t \in tabs : ~Vanishes(t)
      BY <2>1 DEF Vanishes, herdr
    <2>6. QED
      BY <2>1, <2>4, <2>5 DEF TakesOwn, herdr
  <1>13. CASE RouteClose(a)
    BY <1>13 DEF RouteClose
  <1>14. QED
    BY <1>2, <1>3, <1>4, <1>5, <1>6, <1>7, <1>8, <1>9, <1>10, <1>11, <1>12, <1>13 DEF Step

(* What earlier starts left is not a start's to remove: its own commands   *)
(* take down only the tabs, the worktree and the branch that this start    *)
(* made and the tab it replaces, in a workspace it reopened as in one of   *)
(* its own, whatever the other starts, the operator and the agents do in   *)
(* between.  Nothing is said of the tabs of others in a workspace that the *)
(* start made in the live checkout (removeResidue, reuseBranch,            *)
(* startPrompt, closePreviousTab).                                         *)
THEOREM StartKeepsEarlierWork == Spec => KeepsEarlierWork
  <1> DEFINE A == \A a \in Actors : Commands(a) => TakesOwn(a)
  <1>1. IInv /\ Lodged /\ [Next]_vars => [A]_vars
    <2> SUFFICES ASSUME IInv, Lodged, Next, NEW a \in Actors, Commands(a) PROVE TakesOwn(a)
      BY DEF vars
    <2>1. /\ run'[a] # run[a] /\ spent'.events = spent.events
          /\ run[a].step # "rest" /\ run[a].step # "route"
      BY DEF Commands
    <2>2. TypeOK /\ run \in [Actors -> Runs] /\ spent.events \in Nat
      <3>1. TypeOK
        BY DEF IInv
      <3>2. run \in [Actors -> Runs]
        BY <3>1 DEF TypeOK
      <3>3. spent.events \in 0..MaxEvents
        BY <3>1 DEF TypeOK
      <3>4. QED
        BY <3>1, <3>2, <3>3, StartAssumption
    <2>3. \A b \in Actors : \A q : Becomes(b, q) => b = a
      BY <2>1, <2>2 DEF Becomes
    <2>4. CASE \E b \in Actors : Begin(b)
      <3>1. PICK b \in Actors : Begin(b)
        BY <2>4
      <3>2. PICK q : Becomes(b, q)
        BY <3>1 DEF Begin
      <3>3. QED
        BY <2>1, <2>3, <3>1, <3>2 DEF Begin, Resting, At
    <2>5. CASE \E b \in Actors : Step(b)
      <3>1. PICK b \in Actors : Step(b)
        BY <2>5
      <3>2. \A c \in Actors \ {b} : run'[c] = run[c]
        BY <2>2, <3>1, StepsAlone
      <3>3. a = b
        BY <2>1, <3>2
      <3>4. QED
        BY <2>1, <3>1, <3>3, StepTakesOwn DEF At
    <2>6. CASE \E t \in Tickets : CloseCycle(t) \/ ClearLeftover(t)
      BY <2>1, <2>6 DEF CloseCycle, ClearLeftover
    <2>7. CASE Event
      <3>1. spent'.events = spent.events + 1
        BY <2>2, <2>7 DEF Event, TypeOK
      <3>2. QED
        BY <2>1, <2>2, <3>1
    <2>8. QED
      BY <2>4, <2>5, <2>6, <2>7 DEF Next, OperatorCloses, AgentEnds, AgentWorks,
         LeftoverAppears, OperatorPrunes, Crash
  <1>2. Spec => [][A]_vars
    BY <1>1, AllLodged, PTL DEF Spec
  <1>3. QED
    BY <1>2 DEF KeepsEarlierWork, TakesOwn

================================================================================
