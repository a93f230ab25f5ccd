----------------------------- MODULE TimerLists -----------------------------
(***************************************************************************)
(* The lists of the timer wheel of time/uc_time.c at the level of          *)
(* pointers.  TimerWheel says when a timer goes to which list; here it may *)
(* go from any list to any other, and the question is what the lists look  *)
(* like.  Timers are allocated and linked by uc_timer_add, unlinked and    *)
(* linked elsewhere by a tick, unlinked for good when their ttl is spent,  *)
(* and unlinked and freed by uc_timer_delete.  A freed node may be         *)
(* allocated again with what is left in it.  All of it happens under       *)
(* uc_timer_mtx.                                                           *)
(***************************************************************************)
EXTENDS ListHead, FiniteSets, SequencesExt

CONSTANTS
    Nodes,         \* the memory timers are allocated in
    Heads,         \* the list heads of the wheel
    DeletesSpent   \* whether handles of spent timers are deleted, as uc_time.h asks

ASSUME ListsAssumption ==
    /\ Heads \cap Nodes = {} /\ Heads # {}
    /\ DeletesSpent \in BOOLEAN

VARIABLES
    heap,     \* the pointers of the heads and the nodes
    state,    \* "free", "linked" or "spent"
    order     \* history: the timers that should be in each list, in order

listVars == <<heap, state, order>>

Cells == Nodes \cup Heads

\* uc_timer_init_do links every head to itself; what malloc returns holds
\* anything.
ListsInit ==
    /\ \E g \in Cells :
        heap = [next |-> [x \in Cells |-> IF x \in Heads THEN x ELSE g],
                prev |-> [x \in Cells |-> IF x \in Heads THEN x ELSE g]]
    /\ state = [n \in Nodes |-> "free"]
    /\ order = [h \in Heads |-> <<>>]

OrderWithout(n) == [h \in Heads |-> RemoveFirst(order[h], n)]

\* uc_timer_add
AddTimer(n, h) ==
    /\ state[n] = "free"
    /\ heap' = ListAddTail(heap, n, h)
    /\ state' = [state EXCEPT ![n] = "linked"]
    /\ order' = [order EXCEPT ![h] = Append(@, n)]

\* A tick moves the timer down a level, or fires and reinserts it.
MoveTimer(n, h) ==
    /\ state[n] = "linked"
    /\ heap' = ListAddTail(ListDel(heap, n), n, h)
    /\ order' = [OrderWithout(n) EXCEPT ![h] = Append(@, n)]
    /\ UNCHANGED state

\* The timer fires for the last time: unlinked, not freed.
SpendTimer(n) ==
    /\ state[n] = "linked"
    /\ heap' = ListDel(heap, n)
    /\ state' = [state EXCEPT ![n] = "spent"]
    /\ order' = OrderWithout(n)

\* uc_timer_delete
DeleteTimer(n) ==
    /\ state[n] = "linked" \/ (DeletesSpent /\ state[n] = "spent")
    /\ heap' = ListDel(heap, n)
    /\ state' = [state EXCEPT ![n] = "free"]
    /\ order' = OrderWithout(n)

ListsNext ==
    \E n \in Nodes :
        \/ \E h \in Heads : AddTimer(n, h) \/ MoveTimer(n, h)
        \/ SpendTimer(n)
        \/ DeleteTimer(n)

ListsSpec == ListsInit /\ [][ListsNext]_listVars

-----------------------------------------------------------------------------
ListsTypeOK ==
    /\ heap \in [next : [Cells -> Cells], prev : [Cells -> Cells]]
    /\ state \in [Nodes -> {"free", "linked", "spent"}]
    /\ order \in [Heads -> Seq(Nodes)]

\* Every list holds the timers that were put there and neither moved, deleted
\* nor spent, in the order they are to fire in.  list_del leaves the pointers
\* of the node it unlinks in place: unlinking a node a second time by them
\* would take timers out that were linked since.
ListsIntact == \A h \in Heads : ListIs(heap, h, order[h])
=============================================================================
