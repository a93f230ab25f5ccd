------------------------------ MODULE ListHead ------------------------------
(***************************************************************************)
(* The circular doubly linked list of include/list.h, pointer by pointer.  *)
(* A heap l gives the next and the prev pointer of every node; a list is   *)
(* known by its head, which is a node too.                                 *)
(***************************************************************************)
EXTENDS Naturals, Sequences

\* __list_add
LinkBetween(l, n, p, q) ==
    [next |-> [l.next EXCEPT ![n] = q, ![p] = n],
     prev |-> [l.prev EXCEPT ![q] = n, ![n] = p]]

\* list_add_tail
ListAddTail(l, n, h) == LinkBetween(l, n, l.prev[h], h)

\* Slip: the node before n is not relinked.
ListDelHalf(l, n) == [l EXCEPT !.prev[l.next[n]] = l.prev[n]]

\* list_del relinks the neighbours; n keeps its own pointers.
ListDel(l, n) ==
    [next |-> [l.next EXCEPT ![l.prev[n]] = l.next[n]],
     prev |-> [l.prev EXCEPT ![l.next[n]] = l.prev[n]]]

\* The nodes of s, in this order and no others, hang on the head h, followed
\* forwards or backwards.
ListIs(l, h, s) ==
    LET ring == <<h>> \o s \o <<h>>
    IN  \A i \in 1 .. Len(s) + 1 :
            l.next[ring[i]] = ring[i + 1] /\ l.prev[ring[i + 1]] = ring[i]
=============================================================================
