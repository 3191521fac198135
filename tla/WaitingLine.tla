------------------------------ MODULE WaitingLine ------------------------------
(***************************************************************************)
(* What the Work queue promises whoever waits in it: a line of starts, one *)
(* per ticket or Consultation, in which nobody is overtaken except by the  *)
(* operator's own key.  A start joins behind everybody who stands, save    *)
(* the two the factory owes: a continuation joins behind routes alone, and *)
(* a restart behind owed continuations alone.                              *)
(***************************************************************************)
EXTENDS FiniteSets

CONSTANT Rows \* the starts that may wait: id, origin, automatic and more

VARIABLES
    waiting, \* the rows that stand
    ahead    \* <<a, b>>: the row of a stands ahead of the row of b

lineVars == <<waiting, ahead>>

Ids(S) == {r.id : r \in S}
Route(r) == r.origin = "workflow"
Owed(r) == Route(r) /\ r.automatic

(* A strict total order of the ids: the line has no ties and no gaps. *)
IsLine(I, R) ==
    /\ R \subseteq I \X I
    /\ \A a, b \in I : a # b => (<<a, b>> \in R <=> <<b, a>> \notin R)
    /\ \A a \in I : <<a, a>> \notin R
    /\ \A a, b, c \in I : <<a, b>> \in R /\ <<b, c>> \in R => <<a, c>> \in R

Among(I) == ahead \cap (I \X I)

Init == waiting = {} /\ ahead = {}

MayStandBehind(r, s) ==
    CASE r.automatic /\ r.origin = "workflow" -> Route(s)
      [] r.automatic /\ r.origin = "restart" -> Owed(s)
      [] OTHER -> TRUE

Join(r) ==
    /\ r.id \notin Ids(waiting)
    /\ waiting' = waiting \cup {r}
    /\ IsLine(Ids(waiting'), ahead')
    /\ ahead' \cap (Ids(waiting) \X Ids(waiting)) = ahead
    /\ \A s \in waiting :
          <<s.id, r.id>> \in ahead' => MayStandBehind(r, s)
    /\ ~(r.automatic /\ r.origin \in {"workflow", "restart"})
          => \A s \in waiting : <<s.id, r.id>> \in ahead'

Leave(S) ==
    /\ waiting' = waiting \ S
    /\ ahead' = Among(Ids(waiting'))

Swap(a, b) ==
    /\ <<a, b>> \in ahead
    /\ ~\E c \in Ids(waiting) : <<a, c>> \in ahead /\ <<c, b>> \in ahead
    /\ ahead' = (ahead \ {<<a, b>>}) \cup {<<b, a>>}
    /\ UNCHANGED waiting

Next ==
    \/ \E r \in Rows : Join(r)
    \/ \E S \in SUBSET waiting : Leave(S)
    \/ \E a, b \in Ids(waiting) : Swap(a, b)

Spec == Init /\ [][Next]_lineVars
================================================================================
