----------------------------- MODULE RankedSet -----------------------------
(***************************************************************************)
(* What the skip list promises: a set of elements in order, in which an    *)
(* object occurs once, that tells the rank of an element, counted from 1,  *)
(* and the element of a rank.  Each call is asked and then answered.       *)
(***************************************************************************)
EXTENDS Naturals, FiniteSets

CONSTANTS
    Elements,   \* pairs of a score and an object
    Order,      \* the pairs <<a, b>> of elements with a before b
    Ranks,      \* the ranks that are asked for
    Nil

VARIABLES
    members,
    call,       \* the function and its argument
    open,       \* the call is not answered yet
    ret         \* its answer

HasObject(obj) == \E a \in members : a[2] = obj
RankIn(e) == Cardinality({a \in members : <<e, a>> \notin Order})

Init == members = {} /\ call = [op |-> "none"] /\ ~open /\ ret = Nil

Ask(op, arg) ==
    /\ ~open /\ open'
    /\ call' = [op |-> op, arg |-> arg] /\ ret' = Nil
    /\ UNCHANGED members

Answers(op, answer) ==
    /\ open /\ ~open'
    /\ call.op = op /\ ret' = answer
    /\ UNCHANGED call

Insert == Answers("insert", call.arg) /\ members' = members \cup {call.arg}

Delete ==
    /\ Answers("delete", IF call.arg \in members THEN 1 ELSE 0)
    /\ members' = members \ {call.arg}

\* The object in the list under another score may answer for the element.
Rank ==
    /\ \/ Answers("rank", 0) /\ call.arg \notin members
       \/ \E a \in members : Answers("rank", RankIn(a)) /\ a[2] = call.arg[2]
    /\ UNCHANGED members

Element ==
    /\ \/ \E a \in members : Answers("element", a) /\ RankIn(a) = call.arg
       \/ Answers("element", Nil) /\ \A a \in members : RankIn(a) # call.arg
    /\ UNCHANGED members

Next ==
    \/ \E e \in Elements : \/ ~HasObject(e[2]) /\ Ask("insert", e)
                           \/ Ask("delete", e) \/ Ask("rank", e)
    \/ \E r \in Ranks : Ask("element", r)
    \/ Insert \/ Delete \/ Rank \/ Element

Spec == Init /\ [][Next]_<<members, call, open, ret>>
=============================================================================
