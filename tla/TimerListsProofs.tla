-------------------------- MODULE TimerListsProofs --------------------------
(***************************************************************************)
(* Proofs about the timers' lists: while no handle of a spent timer is     *)
(* deleted, the pointers of every list are those of the timers that should *)
(* be in it, whatever was in the memory they were allocated in.            *)
(***************************************************************************)
EXTENDS TimerLists, TLAPS

Heaps == [next : [Cells -> Cells], prev : [Cells -> Cells]]

\* The i-th cell of the ring of the head h and the nodes of s
Cell(h, s, i) == IF i \in 1 .. Len(s) THEN s[i] ELSE h

In(n, s) == \E i \in 1 .. Len(s) : s[i] = n

\* Every timer is in one list, once.
Apart(o) == \A g, h \in Heads : \A i \in 1 .. Len(o[g]), j \in 1 .. Len(o[h]) :
    o[g][i] = o[h][j] => g = h /\ i = j

Rings(l, o) == \A h \in Heads : ListIs(l, h, o[h])

\* The timers in the lists are those that are linked.
Linked == \A n \in Nodes : state[n] = "linked" <=> \E h \in Heads : In(n, order[h])

ListsInv == ListsTypeOK /\ Apart(order) /\ Linked /\ ListsIntact

-----------------------------------------------------------------------------
(* Rings *)

LEMMA RingCells ==
    ASSUME NEW h \in Heads, NEW s \in Seq(Nodes), NEW i \in 1 .. Len(s) + 2
    PROVE  (<<h>> \o s \o <<h>>)[i] = Cell(h, s, i - 1)
BY DEF Cell

LEMMA RingIs ==
    ASSUME NEW h \in Heads, NEW s \in Seq(Nodes), NEW l \in Heaps
    PROVE  ListIs(l, h, s) <=>
             \A i \in 0 .. Len(s) : /\ l.next[Cell(h, s, i)] = Cell(h, s, i + 1)
                                    /\ l.prev[Cell(h, s, i + 1)] = Cell(h, s, i)
<1>1. ListIs(l, h, s) <=>
        \A i \in 1 .. Len(s) + 1 :
            /\ l.next[(<<h>> \o s \o <<h>>)[i]] = (<<h>> \o s \o <<h>>)[i + 1]
            /\ l.prev[(<<h>> \o s \o <<h>>)[i + 1]] = (<<h>> \o s \o <<h>>)[i]
  BY DEF ListIs
<1>2. \A i \in 1 .. Len(s) + 1 :
            /\ (<<h>> \o s \o <<h>>)[i] = Cell(h, s, i - 1)
            /\ (<<h>> \o s \o <<h>>)[i + 1] = Cell(h, s, i)
  <2>1. SUFFICES ASSUME NEW i \in 1 .. Len(s) + 1
                 PROVE  /\ (<<h>> \o s \o <<h>>)[i] = Cell(h, s, i - 1)
                        /\ (<<h>> \o s \o <<h>>)[i + 1] = Cell(h, s, i)
    OBVIOUS
  <2>2. i \in 1 .. Len(s) + 2 /\ i + 1 \in 1 .. Len(s) + 2 /\ i + 1 - 1 = i
    OBVIOUS
  <2> QED BY <2>2, RingCells
<1>3. ListIs(l, h, s) <=>
        \A i \in 1 .. Len(s) + 1 : /\ l.next[Cell(h, s, i - 1)] = Cell(h, s, i)
                                   /\ l.prev[Cell(h, s, i)] = Cell(h, s, i - 1)
  BY <1>1, <1>2
<1>4. ASSUME ListIs(l, h, s), NEW i \in 0 .. Len(s)
      PROVE  /\ l.next[Cell(h, s, i)] = Cell(h, s, i + 1)
             /\ l.prev[Cell(h, s, i + 1)] = Cell(h, s, i)
  <2>1. i + 1 \in 1 .. Len(s) + 1 /\ i + 1 - 1 = i
    OBVIOUS
  <2> QED BY <1>3, <1>4, <2>1
<1>5. ASSUME \A i \in 0 .. Len(s) : /\ l.next[Cell(h, s, i)] = Cell(h, s, i + 1)
                                    /\ l.prev[Cell(h, s, i + 1)] = Cell(h, s, i),
             NEW i \in 1 .. Len(s) + 1
      PROVE  /\ l.next[Cell(h, s, i - 1)] = Cell(h, s, i)
             /\ l.prev[Cell(h, s, i)] = Cell(h, s, i - 1)
  <2>1. i - 1 \in 0 .. Len(s) /\ i - 1 + 1 = i
    OBVIOUS
  <2> QED BY <1>5, <2>1
<1> QED BY <1>3, <1>4, <1>5

\* No cell is in two rings, nor twice in one.
LEMMA CellsApart ==
    ASSUME NEW g \in Heads, NEW h \in Heads, NEW s \in Seq(Nodes), NEW t \in Seq(Nodes),
           g = h => s = t,
           \A i \in 1 .. Len(s), j \in 1 .. Len(t) : s[i] = t[j] => g = h /\ i = j
    PROVE  /\ \A i \in 0 .. Len(s), j \in 0 .. Len(t) :
                 Cell(g, s, i) = Cell(h, t, j) => g = h /\ i = j
           /\ \A i \in 1 .. Len(s) + 1, j \in 1 .. Len(t) + 1 :
                 Cell(g, s, i) = Cell(h, t, j) => g = h /\ i = j
<1>1. /\ \A i \in 1 .. Len(s) : s[i] \in Nodes /\ s[i] \notin Heads
      /\ \A i \in 1 .. Len(t) : t[i] \in Nodes /\ t[i] \notin Heads
  BY ListsAssumption
<1>2. Len(s) \in Nat /\ Len(t) \in Nat
  OBVIOUS
<1>3. ASSUME NEW i \in 0 .. Len(s), NEW j \in 0 .. Len(t), Cell(g, s, i) = Cell(h, t, j)
      PROVE  g = h /\ i = j
  BY <1>1, <1>2, <1>3 DEF Cell
<1>4. ASSUME NEW i \in 1 .. Len(s) + 1, NEW j \in 1 .. Len(t) + 1, Cell(g, s, i) = Cell(h, t, j)
      PROVE  g = h /\ i = j
  BY <1>1, <1>2, <1>4 DEF Cell
<1> QED BY <1>3, <1>4

LEMMA CellTypes ==
    ASSUME NEW h \in Heads, NEW s \in Seq(Nodes), NEW i \in Nat
    PROVE  Cell(h, s, i) \in Cells
BY DEF Cell, Cells

LEMMA RemoveAtIs ==
    ASSUME NEW h \in Heads, NEW s \in Seq(Nodes), NEW k \in 1 .. Len(s)
    PROVE  /\ RemoveAt(s, k) \in Seq(Nodes)
           /\ Len(RemoveAt(s, k)) = Len(s) - 1
           /\ \A i \in 1 .. Len(s) - 1 : RemoveAt(s, k)[i] = IF i < k THEN s[i] ELSE s[i + 1]
           /\ \A i \in 0 .. Len(s) : Cell(h, RemoveAt(s, k), i)
                                        = IF i < k THEN Cell(h, s, i) ELSE Cell(h, s, i + 1)
<1>1. /\ SubSeq(s, 1, k - 1) \in Seq(Nodes) /\ Len(SubSeq(s, 1, k - 1)) = k - 1
      /\ SubSeq(s, k + 1, Len(s)) \in Seq(Nodes) /\ Len(SubSeq(s, k + 1, Len(s))) = Len(s) - k
      /\ \A i \in 1 .. k - 1 : SubSeq(s, 1, k - 1)[i] = s[i]
      /\ \A i \in 1 .. Len(s) - k : SubSeq(s, k + 1, Len(s))[i] = s[i + k]
  OBVIOUS
<1>2. PICK a \in Seq(Nodes), b \in Seq(Nodes) :
        a = SubSeq(s, 1, k - 1) /\ b = SubSeq(s, k + 1, Len(s))
  BY <1>1, Zenon
<1>3. /\ Len(a) = k - 1 /\ Len(b) = Len(s) - k
      /\ \A i \in 1 .. k - 1 : a[i] = s[i]
      /\ \A i \in 1 .. Len(s) - k : b[i] = s[i + k]
  BY <1>1, <1>2, Zenon
<1>4. /\ a \o b \in Seq(Nodes) /\ Len(a \o b) = Len(s) - 1
      /\ \A i \in 1 .. Len(s) - 1 : (a \o b)[i] = IF i < k THEN s[i] ELSE s[i + 1]
  <2>1. a \o b \in Seq(Nodes) /\ Len(a \o b) = Len(s) - 1
    <3>1. a \o b \in Seq(Nodes) /\ Len(a \o b) = Len(a) + Len(b)
      OBVIOUS
    <3>2. Len(s) \in Nat /\ k \in Nat
      OBVIOUS
    <3> QED BY <1>3, <3>1, <3>2
  <2>2. ASSUME NEW i \in 1 .. Len(s) - 1
        PROVE  (a \o b)[i] = IF i < k THEN s[i] ELSE s[i + 1]
    <3>1. CASE i < k
      BY <1>3, <3>1
    <3>2. CASE i >= k
      <4>1. i - (k - 1) \in 1 .. Len(s) - k /\ i - (k - 1) + k = i + 1
        BY <3>2
      <4>2. (a \o b)[i] = b[i - (k - 1)]
        BY <1>3, <3>2
      <4> QED BY <1>3, <3>2, <4>1, <4>2
    <3>3. i < k \/ i >= k
      OBVIOUS
    <3> QED BY <3>1, <3>2, <3>3, Zenon
  <2> QED BY <2>1, <2>2
<1>5. PICK c \in Seq(Nodes) : c = RemoveAt(s, k)
  BY <1>2, <1>4, Zenon DEF RemoveAt
<1>6. /\ Len(c) = Len(s) - 1
      /\ \A i \in 1 .. Len(s) - 1 : c[i] = IF i < k THEN s[i] ELSE s[i + 1]
  BY <1>2, <1>4, <1>5, Zenon DEF RemoveAt
<1>7. \A i \in 0 .. Len(s) : Cell(h, c, i) = IF i < k THEN Cell(h, s, i) ELSE Cell(h, s, i + 1)
  BY <1>6 DEF Cell
<1> QED BY <1>5, <1>6, <1>7, Zenon

\* list_del of the k-th node of a ring
LEMMA DelIs ==
    ASSUME NEW h \in Heads, NEW s \in Seq(Nodes), NEW k \in 1 .. Len(s), NEW l \in Heaps,
           ListIs(l, h, s)
    PROVE  /\ ListDel(l, s[k]) \in Heaps
           /\ \A x \in Cells :
                /\ ListDel(l, s[k]).next[x] = IF x = Cell(h, s, k - 1) THEN Cell(h, s, k + 1)
                                                                       ELSE l.next[x]
                /\ ListDel(l, s[k]).prev[x] = IF x = Cell(h, s, k + 1) THEN Cell(h, s, k - 1)
                                                                       ELSE l.prev[x]
<1>1. Cell(h, s, k) = s[k] /\ k - 1 \in 0 .. Len(s) /\ k \in 0 .. Len(s) /\ k - 1 + 1 = k
  BY DEF Cell
<1>2. l.next[s[k]] = Cell(h, s, k + 1) /\ l.prev[s[k]] = Cell(h, s, k - 1)
  BY <1>1, RingIs
<1>3. PICK p \in Cells, q \in Cells : p = Cell(h, s, k - 1) /\ q = Cell(h, s, k + 1)
  <2>1. k - 1 \in Nat /\ k + 1 \in Nat
    OBVIOUS
  <2> QED BY <2>1, CellTypes
<1>4. PICK f \in [Cells -> Cells], b \in [Cells -> Cells] : f = l.next /\ b = l.prev
  BY DEF Heaps
<1>5. ListDel(l, s[k]) = [next |-> [f EXCEPT ![p] = q], prev |-> [b EXCEPT ![q] = p]]
  BY <1>2, <1>3, <1>4, Zenon DEF ListDel
<1> QED BY <1>3, <1>4, <1>5 DEF Heaps

LEMMA DelRing ==
    ASSUME NEW h \in Heads, NEW s \in Seq(Nodes), NEW k \in 1 .. Len(s), NEW l \in Heaps,
           ListIs(l, h, s),
           \A i, j \in 1 .. Len(s) : s[i] = s[j] => i = j
    PROVE  ListIs(ListDel(l, s[k]), h, RemoveAt(s, k))
<1>1. PICK c \in Seq(Nodes) : c = RemoveAt(s, k)
  BY RemoveAtIs
<1>2. /\ Len(c) = Len(s) - 1
      /\ \A i \in 0 .. Len(s) : Cell(h, c, i) = IF i < k THEN Cell(h, s, i) ELSE Cell(h, s, i + 1)
  BY <1>1, RemoveAtIs, Zenon
<1>3. PICK m \in Heaps : /\ m = ListDel(l, s[k])
      /\ \A x \in Cells :
            /\ m.next[x] = IF x = Cell(h, s, k - 1) THEN Cell(h, s, k + 1) ELSE l.next[x]
            /\ m.prev[x] = IF x = Cell(h, s, k + 1) THEN Cell(h, s, k - 1) ELSE l.prev[x]
  BY DelIs
<1>4. ASSUME NEW i \in 0 .. Len(c)
      PROVE  m.next[Cell(h, c, i)] = Cell(h, c, i + 1) /\ m.prev[Cell(h, c, i + 1)] = Cell(h, c, i)
  <2>1. /\ i \in 0 .. Len(s) /\ i + 1 \in 0 .. Len(s) /\ i \in Nat /\ i + 1 \in Nat /\ i + 2 \in Nat
        /\ i + 1 + 1 = i + 2
    BY <1>2
  <2>2. /\ \A j \in 0 .. Len(s) : Cell(h, s, j) = Cell(h, s, k - 1) => j = k - 1
        /\ \A j \in 1 .. Len(s) + 1 : Cell(h, s, j) = Cell(h, s, k + 1) => j = k + 1
    <3>1. k - 1 \in 0 .. Len(s) /\ k + 1 \in 1 .. Len(s) + 1
      OBVIOUS
    <3> QED BY <3>1, CellsApart
  <2>3. /\ Cell(h, s, i) \in Cells /\ Cell(h, s, i + 1) \in Cells /\ Cell(h, s, i + 2) \in Cells
    BY <2>1, CellTypes
  <2>4. \A j \in 0 .. Len(s) : l.next[Cell(h, s, j)] = Cell(h, s, j + 1)
                            /\ l.prev[Cell(h, s, j + 1)] = Cell(h, s, j)
    BY RingIs
  <2>5. \A x \in Cells :
            /\ m.next[x] = IF x = Cell(h, s, k - 1) THEN Cell(h, s, k + 1) ELSE l.next[x]
            /\ m.prev[x] = IF x = Cell(h, s, k + 1) THEN Cell(h, s, k - 1) ELSE l.prev[x]
    BY <1>3
  <2>6. CASE i < k - 1
    <3>1. /\ Cell(h, c, i) = Cell(h, s, i) /\ Cell(h, c, i + 1) = Cell(h, s, i + 1)
          /\ i # k - 1 /\ i + 1 # k + 1 /\ i + 1 \in 1 .. Len(s) + 1
      BY <1>2, <2>1, <2>6
    <3>2. Cell(h, s, i) # Cell(h, s, k - 1) /\ Cell(h, s, i + 1) # Cell(h, s, k + 1)
      BY <2>1, <2>2, <3>1
    <3> QED BY <2>1, <2>3, <2>4, <2>5, <3>1, <3>2, Zenon
  <2>7. CASE i = k - 1
    <3>1. /\ Cell(h, c, i) = Cell(h, s, k - 1) /\ Cell(h, c, i + 1) = Cell(h, s, k + 1)
      BY <1>2, <2>1, <2>7
    <3>2. Cell(h, s, k - 1) \in Cells /\ Cell(h, s, k + 1) \in Cells
      BY <2>3, <2>7
    <3> QED BY <2>5, <3>1, <3>2, Zenon
  <2>8. CASE i > k - 1
    <3>1. /\ Cell(h, c, i) = Cell(h, s, i + 1) /\ Cell(h, c, i + 1) = Cell(h, s, i + 2)
          /\ i + 1 # k - 1 /\ i + 2 # k + 1 /\ i + 2 \in 1 .. Len(s) + 1
      BY <1>2, <2>1, <2>8
    <3>2. Cell(h, s, i + 1) # Cell(h, s, k - 1) /\ Cell(h, s, i + 2) # Cell(h, s, k + 1)
      BY <2>1, <2>2, <3>1
    <3>3. l.next[Cell(h, s, i + 1)] = Cell(h, s, i + 2) /\ l.prev[Cell(h, s, i + 2)] = Cell(h, s, i + 1)
      BY <2>1, <2>4, Zenon
    <3> QED BY <2>3, <2>5, <3>1, <3>2, <3>3, Zenon
  <2>9. i < k - 1 \/ i = k - 1 \/ i > k - 1
    BY <2>1
  <2> QED BY <2>6, <2>7, <2>8, <2>9, Zenon
<1>5. ListIs(m, h, c)
  BY <1>4, RingIs
<1> QED BY <1>1, <1>3, <1>5

\* The other rings stay as they are.
LEMMA DelElsewhere ==
    ASSUME NEW h \in Heads, NEW s \in Seq(Nodes), NEW k \in 1 .. Len(s), NEW l \in Heaps,
           ListIs(l, h, s),
           NEW g \in Heads \ {h}, NEW t \in Seq(Nodes), ListIs(l, g, t),
           \A i \in 1 .. Len(t), j \in 1 .. Len(s) : t[i] # s[j]
    PROVE  ListIs(ListDel(l, s[k]), g, t)
<1>1. PICK m \in Heaps : /\ m = ListDel(l, s[k])
      /\ \A x \in Cells :
            /\ m.next[x] = IF x = Cell(h, s, k - 1) THEN Cell(h, s, k + 1) ELSE l.next[x]
            /\ m.prev[x] = IF x = Cell(h, s, k + 1) THEN Cell(h, s, k - 1) ELSE l.prev[x]
  BY DelIs
<1>3. ASSUME NEW i \in 0 .. Len(t)
      PROVE  m.next[Cell(g, t, i)] = Cell(g, t, i + 1) /\ m.prev[Cell(g, t, i + 1)] = Cell(g, t, i)
  <2>1. Cell(g, t, i) \in Cells /\ Cell(g, t, i + 1) \in Cells
    BY CellTypes
  <2>2. /\ k - 1 \in 0 .. Len(s) /\ k + 1 \in 1 .. Len(s) + 1 /\ i + 1 \in 1 .. Len(t) + 1
    OBVIOUS
  <2>3. Cell(g, t, i) # Cell(h, s, k - 1) /\ Cell(g, t, i + 1) # Cell(h, s, k + 1)
    BY <2>2, CellsApart
  <2>4. l.next[Cell(g, t, i)] = Cell(g, t, i + 1) /\ l.prev[Cell(g, t, i + 1)] = Cell(g, t, i)
    BY RingIs
  <2> QED BY <1>1, <2>1, <2>3, <2>4, Zenon
<1>4. ListIs(m, g, t)
  BY <1>3, RingIs
<1> QED BY <1>1, <1>4

\* list_add_tail to a ring
LEMMA AddIs ==
    ASSUME NEW h \in Heads, NEW s \in Seq(Nodes), NEW n \in Nodes, NEW l \in Heaps,
           ListIs(l, h, s)
    PROVE  /\ ListAddTail(l, n, h) \in Heaps
           /\ \A x \in Cells :
                /\ ListAddTail(l, n, h).next[x] = IF x = Cell(h, s, Len(s)) THEN n
                                                  ELSE IF x = n THEN h ELSE l.next[x]
                /\ ListAddTail(l, n, h).prev[x] = IF x = n THEN Cell(h, s, Len(s))
                                                  ELSE IF x = h THEN n ELSE l.prev[x]
<1>1. Len(s) \in 0 .. Len(s) /\ Cell(h, s, Len(s) + 1) = h
  BY DEF Cell
<1>2. l.prev[h] = Cell(h, s, Len(s))
  BY <1>1, RingIs
<1>3. PICK p \in Cells : p = Cell(h, s, Len(s))
  BY CellTypes
<1>4. PICK f \in [Cells -> Cells], b \in [Cells -> Cells] : f = l.next /\ b = l.prev
  BY DEF Heaps
<1>5. ListAddTail(l, n, h) = [next |-> [f EXCEPT ![n] = h, ![p] = n],
                              prev |-> [b EXCEPT ![h] = n, ![n] = p]]
  BY <1>2, <1>3, <1>4, Zenon DEF ListAddTail, LinkBetween
<1>6. n \in Cells /\ h \in Cells /\ n # h
  BY ListsAssumption DEF Cells
<1> QED BY <1>3, <1>4, <1>5, <1>6 DEF Heaps

LEMMA AppendIs ==
    ASSUME NEW s \in Seq(Nodes), NEW n \in Nodes
    PROVE  \E c \in Seq(Nodes) :
             /\ c = Append(s, n)
             /\ Len(c) = Len(s) + 1
             /\ \A i \in 1 .. Len(s) : c[i] = s[i]
             /\ c[Len(s) + 1] = n
<1>1. /\ Append(s, n) \in Seq(Nodes)
      /\ Len(Append(s, n)) = Len(s) + 1
      /\ \A i \in 1 .. Len(s) : Append(s, n)[i] = s[i]
      /\ Append(s, n)[Len(s) + 1] = n
  OBVIOUS
<1> QED BY <1>1, Zenon

LEMMA AppendCells ==
    ASSUME NEW h \in Heads, NEW s \in Seq(Nodes), NEW n \in Nodes, NEW c \in Seq(Nodes),
           Len(c) = Len(s) + 1, \A i \in 1 .. Len(s) : c[i] = s[i], c[Len(s) + 1] = n
    PROVE  \A i \in 0 .. Len(s) + 2 : Cell(h, c, i) = IF i = Len(s) + 1 THEN n ELSE Cell(h, s, i)
  BY DEF Cell

LEMMA AddRing ==
    ASSUME NEW h \in Heads, NEW s \in Seq(Nodes), NEW n \in Nodes, NEW l \in Heaps,
           ListIs(l, h, s), ~In(n, s),
           \A i, j \in 1 .. Len(s) : s[i] = s[j] => i = j
    PROVE  ListIs(ListAddTail(l, n, h), h, Append(s, n))
<1>1. PICK m \in Heaps : /\ m = ListAddTail(l, n, h)
        /\ \A x \in Cells :
             /\ m.next[x] = IF x = Cell(h, s, Len(s)) THEN n ELSE IF x = n THEN h ELSE l.next[x]
             /\ m.prev[x] = IF x = n THEN Cell(h, s, Len(s)) ELSE IF x = h THEN n ELSE l.prev[x]
  BY AddIs
<1>2. PICK c \in Seq(Nodes) :
        /\ c = Append(s, n)
        /\ Len(c) = Len(s) + 1
        /\ \A i \in 1 .. Len(s) : c[i] = s[i]
        /\ c[Len(s) + 1] = n
  BY AppendIs, Zenon
<1>3. /\ Len(c) = Len(s) + 1
      /\ \A i \in 0 .. Len(s) + 2 : Cell(h, c, i) = IF i = Len(s) + 1 THEN n ELSE Cell(h, s, i)
  <2>1. Len(c) = Len(s) + 1 /\ (\A i \in 1 .. Len(s) : c[i] = s[i]) /\ c[Len(s) + 1] = n
    BY <1>2, Zenon
  <2> QED BY <2>1, AppendCells
<1>4. /\ n \in Cells /\ h \in Cells /\ n # h /\ Len(s) \in Nat
      /\ \A i \in Nat : Cell(h, s, i) \in Cells /\ Cell(h, s, i) # n
  BY ListsAssumption, CellTypes DEF Cells, In, Cell
<1>5. ASSUME NEW i \in 0 .. Len(c)
      PROVE  m.next[Cell(h, c, i)] = Cell(h, c, i + 1) /\ m.prev[Cell(h, c, i + 1)] = Cell(h, c, i)
  <2>1. CASE i < Len(s)
    <3>1. /\ i \in Nat /\ i + 1 \in Nat /\ i \in 0 .. Len(s) /\ i + 1 \in 1 .. Len(s)
          /\ Cell(h, c, i) = Cell(h, s, i) /\ Cell(h, c, i + 1) = Cell(h, s, i + 1)
      BY <1>3, <1>4, <2>1
    <3>2. Cell(h, s, i) # Cell(h, s, Len(s))
      <4>1. Len(s) \in 0 .. Len(s) /\ i # Len(s)
        BY <1>4, <2>1
      <4> QED BY <3>1, <4>1, CellsApart
    <3>3. Cell(h, s, i + 1) # h
      BY <3>1, ListsAssumption DEF Cell
    <3>4. l.next[Cell(h, s, i)] = Cell(h, s, i + 1) /\ l.prev[Cell(h, s, i + 1)] = Cell(h, s, i)
      BY <3>1, RingIs
    <3> QED BY <1>1, <1>4, <3>1, <3>2, <3>3, <3>4, Zenon
  <2>2. CASE i = Len(s)
    <3>1. Cell(h, c, i) = Cell(h, s, Len(s)) /\ Cell(h, c, i + 1) = n
      BY <1>3, <1>4, <2>2
    <3> QED BY <1>1, <1>4, <3>1, Zenon
  <2>3. CASE i = Len(s) + 1
    <3>1. Cell(h, c, i) = n /\ Cell(h, c, i + 1) = Cell(h, s, Len(s) + 2)
      BY <1>3, <1>4, <2>3
    <3>2. Cell(h, s, Len(s) + 2) = h
      BY <1>4 DEF Cell
    <3> QED BY <1>1, <1>4, <3>1, <3>2, Zenon
  <2>4. i < Len(s) \/ i = Len(s) \/ i = Len(s) + 1
    BY <1>3, <1>4
  <2> QED BY <2>1, <2>2, <2>3, <2>4, Zenon
<1>6. ListIs(m, h, c)
  BY <1>5, RingIs
<1> QED BY <1>1, <1>2, <1>6

LEMMA AddElsewhere ==
    ASSUME NEW h \in Heads, NEW s \in Seq(Nodes), NEW n \in Nodes, NEW l \in Heaps,
           ListIs(l, h, s),
           NEW g \in Heads \ {h}, NEW t \in Seq(Nodes), ListIs(l, g, t), ~In(n, t),
           \A i \in 1 .. Len(t), j \in 1 .. Len(s) : t[i] # s[j]
    PROVE  ListIs(ListAddTail(l, n, h), g, t)
<1>1. PICK m \in Heaps : /\ m = ListAddTail(l, n, h)
        /\ \A x \in Cells :
             /\ m.next[x] = IF x = Cell(h, s, Len(s)) THEN n ELSE IF x = n THEN h ELSE l.next[x]
             /\ m.prev[x] = IF x = n THEN Cell(h, s, Len(s)) ELSE IF x = h THEN n ELSE l.prev[x]
  BY AddIs
<1>2. ASSUME NEW i \in 0 .. Len(t)
      PROVE  m.next[Cell(g, t, i)] = Cell(g, t, i + 1) /\ m.prev[Cell(g, t, i + 1)] = Cell(g, t, i)
  <2>1. Cell(g, t, i) \in Cells /\ Cell(g, t, i + 1) \in Cells
    BY CellTypes
  <2>2. /\ Len(s) \in 0 .. Len(s) /\ Len(s) + 1 \in 1 .. Len(s) + 1 /\ i + 1 \in 1 .. Len(t) + 1
        /\ Cell(h, s, Len(s) + 1) = h
    BY DEF Cell
  <2>3. Cell(g, t, i) # Cell(h, s, Len(s)) /\ Cell(g, t, i + 1) # h
    <3>1. /\ \A a \in 0 .. Len(t), b \in 0 .. Len(s) : Cell(g, t, a) # Cell(h, s, b)
          /\ \A a \in 1 .. Len(t) + 1, b \in 1 .. Len(s) + 1 : Cell(g, t, a) # Cell(h, s, b)
      BY CellsApart
    <3> QED BY <2>2, <3>1
  <2>4. Cell(g, t, i) # n /\ Cell(g, t, i + 1) # n
    BY ListsAssumption DEF Cell, In
  <2>5. l.next[Cell(g, t, i)] = Cell(g, t, i + 1) /\ l.prev[Cell(g, t, i + 1)] = Cell(g, t, i)
    BY RingIs
  <2> QED BY <1>1, <2>1, <2>3, <2>4, <2>5, Zenon
<1>3. ListIs(m, g, t)
  BY <1>2, RingIs
<1> QED BY <1>1, <1>3

\* RemoveFirst of a sequence that has n once, or not at all
LEMMA RemoveFirstIs ==
    ASSUME NEW s \in Seq(Nodes), NEW n \in Nodes
    PROVE  /\ ~In(n, s) => RemoveFirst(s, n) = s
           /\ \A k \in 1 .. Len(s) :
                s[k] = n /\ (\A i \in 1 .. Len(s) : s[i] = n => i = k) =>
                    RemoveFirst(s, n) = RemoveAt(s, k)
<1>1. ~In(n, s) => RemoveFirst(s, n) = s
  BY DEF RemoveFirst, In
<1>2. ASSUME NEW k \in 1 .. Len(s), s[k] = n, \A i \in 1 .. Len(s) : s[i] = n => i = k
      PROVE  RemoveFirst(s, n) = RemoveAt(s, k)
  <2>1. {i \in 1 .. Len(s) : s[i] = n} = {k}
    BY <1>2
  <2>2. Min({k}) = k
    BY DEF Min
  <2>3. SelectInSeq(s, LAMBDA v : v = n) = k
    BY <2>1, <2>2 DEF SelectInSeq
  <2> QED BY <1>2, <2>3, Zenon DEF RemoveFirst
<1> QED BY <1>1, <1>2

-----------------------------------------------------------------------------
(* All lists together *)

Orders == [Heads -> Seq(Nodes)]
Listed(n, o) == \E h \in Heads : In(n, o[h])

LEMMA Adding ==
    ASSUME NEW l \in Heaps, NEW o \in Orders, Apart(o), Rings(l, o),
           NEW n \in Nodes, ~Listed(n, o), NEW h \in Heads,
           NEW p, p = [o EXCEPT ![h] = Append(@, n)]
    PROVE  /\ ListAddTail(l, n, h) \in Heaps /\ p \in Orders
           /\ Apart(p) /\ Rings(ListAddTail(l, n, h), p)
           /\ \A m \in Nodes : Listed(m, p) <=> m = n \/ Listed(m, o)
<1>1. PICK s \in Seq(Nodes) : s = o[h]
  BY DEF Orders
<1>2. PICK c \in Seq(Nodes) :
        /\ c = Append(s, n)
        /\ Len(c) = Len(s) + 1
        /\ \A i \in 1 .. Len(s) : c[i] = s[i]
        /\ c[Len(s) + 1] = n
  BY AppendIs, Zenon
<1>3. /\ p \in Orders /\ p[h] = c /\ \A g \in Heads \ {h} : p[g] = o[g]
  BY <1>1, <1>2 DEF Orders
<1>4. ~In(n, s) /\ \A g \in Heads : ~In(n, o[g])
  BY <1>1 DEF Listed
<1>5. \A i, j \in 1 .. Len(s) : s[i] = s[j] => i = j
  BY <1>1 DEF Apart
<1>6. ASSUME NEW g \in Heads, NEW i \in 1 .. Len(p[g]), NEW j \in 1 .. Len(c), p[g][i] = c[j]
      PROVE  g = h /\ i = j
  <2>1. CASE g = h
    <3>1. i \in 1 .. Len(c) /\ c[i] = c[j]
      BY <1>3, <1>6, <2>1
    <3>2. \A a \in 1 .. Len(s) : s[a] # n
      BY <1>4 DEF In
    <3>3. i = j
      BY <1>2, <1>5, <3>1, <3>2
    <3> QED BY <2>1, <3>3
  <2>2. CASE g # h
    <3>1. PICK t \in Seq(Nodes) : t = o[g]
      BY DEF Orders
    <3>2. i \in 1 .. Len(t) /\ t[i] = c[j]
      BY <1>3, <1>6, <2>2, <3>1
    <3>3. j # Len(s) + 1
      BY <1>2, <1>4, <3>1, <3>2 DEF In
    <3>4. j \in 1 .. Len(s) /\ t[i] = s[j]
      BY <1>2, <3>2, <3>3
    <3> QED BY <1>1, <2>2, <3>1, <3>2, <3>4 DEF Apart
  <2> QED BY <2>1, <2>2
<1>7. Apart(p)
  <2>1. SUFFICES ASSUME NEW f \in Heads, NEW g \in Heads, NEW i \in 1 .. Len(p[f]),
                        NEW j \in 1 .. Len(p[g]), p[f][i] = p[g][j]
                 PROVE  f = g /\ i = j
    BY DEF Apart
  <2>2. CASE g = h
    BY <1>3, <1>6, <2>1, <2>2
  <2>3. CASE f = h
    BY <1>3, <1>6, <2>1, <2>3
  <2>4. CASE f # h /\ g # h
    BY <1>3, <2>1, <2>4 DEF Apart
  <2> QED BY <2>2, <2>3, <2>4
<1>8. Rings(ListAddTail(l, n, h), p)
  <2>1. ListIs(ListAddTail(l, n, h), h, c)
    BY <1>1, <1>2, <1>4, <1>5, AddRing DEF Rings
  <2>2. ASSUME NEW g \in Heads \ {h} PROVE ListIs(ListAddTail(l, n, h), g, p[g])
    <3>1. PICK t \in Seq(Nodes) : t = o[g]
      BY DEF Orders
    <3>2. \A i \in 1 .. Len(t), j \in 1 .. Len(s) : t[i] # s[j]
      BY <1>1, <3>1 DEF Apart
    <3>3. ListIs(l, h, s) /\ ListIs(l, g, t) /\ ~In(n, t)
      BY <1>1, <1>4, <3>1 DEF Rings
    <3> QED BY <1>3, <3>1, <3>2, <3>3, AddElsewhere
  <2> QED BY <1>3, <2>1, <2>2 DEF Rings
<1>9. ASSUME NEW m \in Nodes PROVE Listed(m, p) <=> m = n \/ Listed(m, o)
  <2>1. In(m, c) <=> m = n \/ In(m, s)
    <3>1. \A i \in 1 .. Len(s) : i \in 1 .. Len(c)
      BY <1>2
    <3>2. \A i \in 1 .. Len(c) : i \in 1 .. Len(s) \/ i = Len(s) + 1
      BY <1>2
    <3>3. Len(s) + 1 \in 1 .. Len(c)
      BY <1>2
    <3>4. m = n \/ In(m, s) => In(m, c)
      BY <1>2, <3>1, <3>3 DEF In
    <3>5. ASSUME NEW i \in 1 .. Len(c), c[i] = m PROVE m = n \/ In(m, s)
      BY <1>2, <3>2, <3>5 DEF In
    <3> QED BY <3>4, <3>5 DEF In
  <2> QED BY <1>1, <1>3, <2>1 DEF Listed
<1>10. ListAddTail(l, n, h) \in Heaps
  BY <1>1, AddIs DEF Rings
<1> QED BY <1>3, <1>7, <1>8, <1>9, <1>10

LEMMA Removing ==
    ASSUME NEW l \in Heaps, NEW o \in Orders, Apart(o), Rings(l, o),
           NEW n \in Nodes, Listed(n, o),
           NEW p, p = [h \in Heads |-> RemoveFirst(o[h], n)]
    PROVE  /\ ListDel(l, n) \in Heaps /\ p \in Orders
           /\ Apart(p) /\ Rings(ListDel(l, n), p)
           /\ \A m \in Nodes : Listed(m, p) <=> m # n /\ Listed(m, o)
<1>1. PICK h \in Heads : \E k \in 1 .. Len(o[h]) : o[h][k] = n
  BY DEF Listed, In
<1>. PICK k \in 1 .. Len(o[h]) : o[h][k] = n
  BY <1>1
<1>2. PICK s \in Seq(Nodes) : s = o[h]
  BY DEF Orders
<1>3. k \in 1 .. Len(s) /\ s[k] = n /\ \A i, j \in 1 .. Len(s) : s[i] = s[j] => i = j
  BY <1>1, <1>2 DEF Apart
<1>4. PICK c \in Seq(Nodes) : /\ c = RemoveAt(s, k) /\ Len(c) = Len(s) - 1
        /\ \A i \in 1 .. Len(s) - 1 : c[i] = IF i < k THEN s[i] ELSE s[i + 1]
  BY <1>3, RemoveAtIs
<1>5. RemoveFirst(s, n) = c
  BY <1>3, <1>4, RemoveFirstIs
<1>6. ASSUME NEW g \in Heads \ {h} PROVE ~In(n, o[g]) /\ RemoveFirst(o[g], n) = o[g]
  <2>1. ~In(n, o[g])
    BY <1>1, <1>6 DEF In, Apart
  <2>2. o[g] \in Seq(Nodes)
    BY DEF Orders
  <2> QED BY <2>1, <2>2, RemoveFirstIs
<1>7. p \in Orders /\ p[h] = c /\ \A g \in Heads \ {h} : p[g] = o[g]
  <2>1. \A g \in Heads : RemoveFirst(o[g], n) \in Seq(Nodes)
    BY <1>2, <1>5, <1>6 DEF Orders
  <2> QED BY <1>2, <1>5, <1>6, <2>1 DEF Orders
<1>8. \A i \in 1 .. Len(c) : \E j \in 1 .. Len(s) :
        j = (IF i < k THEN i ELSE i + 1) /\ c[i] = s[j] /\ j # k
  BY <1>3, <1>4
<1>9. Apart(p)
  <2>1. SUFFICES ASSUME NEW f \in Heads, NEW g \in Heads, NEW i \in 1 .. Len(p[f]),
                        NEW j \in 1 .. Len(p[g]), p[f][i] = p[g][j]
                 PROVE  f = g /\ i = j
    BY DEF Apart
  <2>2. CASE f = h /\ g = h
    <3>1. i \in 1 .. Len(c) /\ j \in 1 .. Len(c) /\ c[i] = c[j]
      BY <1>7, <2>1, <2>2
    <3>2. (IF i < k THEN i ELSE i + 1) = (IF j < k THEN j ELSE j + 1)
      BY <1>3, <1>8, <3>1
    <3> QED BY <2>2, <3>1, <3>2
  <2>3. CASE f = h /\ g # h
    <3>1. i \in 1 .. Len(c) /\ c[i] = p[g][j]
      BY <1>7, <2>1, <2>3
    <3>2. PICK a \in 1 .. Len(s) : c[i] = s[a]
      BY <1>8, <3>1
    <3>3. j \in 1 .. Len(o[g]) /\ o[g][j] = s[a]
      BY <1>7, <2>1, <2>3, <3>1, <3>2
    <3> QED BY <1>2, <2>3, <3>3 DEF Apart
  <2>4. CASE f # h /\ g = h
    <3>1. j \in 1 .. Len(c) /\ c[j] = p[f][i]
      BY <1>7, <2>1, <2>4
    <3>2. PICK a \in 1 .. Len(s) : c[j] = s[a]
      BY <1>8, <3>1
    <3>3. i \in 1 .. Len(o[f]) /\ o[f][i] = s[a]
      BY <1>7, <2>1, <2>4, <3>1, <3>2
    <3> QED BY <1>2, <2>4, <3>3 DEF Apart
  <2>5. CASE f # h /\ g # h
    BY <1>7, <2>1, <2>5 DEF Apart
  <2> QED BY <2>2, <2>3, <2>4, <2>5
<1>10. ListIs(l, h, s)
  BY <1>2 DEF Rings
<1>11. Rings(ListDel(l, n), p)
  <2>1. ListIs(ListDel(l, n), h, c)
    BY <1>3, <1>4, <1>10, DelRing
  <2>2. ASSUME NEW g \in Heads \ {h} PROVE ListIs(ListDel(l, n), g, p[g])
    <3>1. PICK t \in Seq(Nodes) : t = o[g]
      BY DEF Orders
    <3>2. \A i \in 1 .. Len(t), j \in 1 .. Len(s) : t[i] # s[j]
      BY <1>2, <3>1 DEF Apart
    <3>3. ListIs(l, g, t)
      BY <3>1 DEF Rings
    <3>4. ListIs(ListDel(l, s[k]), g, t)
      BY <1>3, <1>10, <3>2, <3>3, DelElsewhere
    <3> QED BY <1>3, <1>7, <3>1, <3>4
  <2> QED BY <1>7, <2>1, <2>2 DEF Rings
<1>12. ASSUME NEW m \in Nodes PROVE Listed(m, p) <=> m # n /\ Listed(m, o)
  <2>1. In(m, c) <=> m # n /\ In(m, s)
    <3>1. ASSUME NEW j \in 1 .. Len(s), j # k PROVE \E i \in 1 .. Len(c) : c[i] = s[j]
      <4>1. CASE j < k
        <5>1. j \in 1 .. Len(c) /\ c[j] = s[j]
          BY <1>3, <1>4, <4>1
        <5> QED BY <5>1
      <4>2. CASE j > k
        <5>1. j - 1 \in 1 .. Len(c) /\ ~(j - 1 < k) /\ j - 1 + 1 = j
          BY <1>3, <1>4, <4>2
        <5>2. c[j - 1] = s[j]
          BY <1>4, <5>1
        <5> QED BY <5>1, <5>2
      <4> QED BY <1>3, <3>1, <4>1, <4>2
    <3>2. In(m, c) => m # n /\ In(m, s)
      BY <1>3, <1>8 DEF In
    <3>3. m # n /\ In(m, s) => In(m, c)
      BY <1>3, <3>1 DEF In
    <3> QED BY <3>2, <3>3
  <2>2. \A g \in Heads \ {h} : In(m, o[g]) => m # n
    BY <1>6
  <2> QED BY <1>2, <1>7, <2>1, <2>2 DEF Listed
<1>13. ListDel(l, n) \in Heaps
  BY <1>3, <1>10, DelIs
<1> QED BY <1>7, <1>9, <1>11, <1>12, <1>13

-----------------------------------------------------------------------------
(* The invariant *)

LEMMA InvIs ==
    ListsInv <=> /\ heap \in Heaps /\ order \in Orders
                 /\ state \in [Nodes -> {"free", "linked", "spent"}]
                 /\ Apart(order) /\ Rings(heap, order)
                 /\ \A n \in Nodes : state[n] = "linked" <=> Listed(n, order)
BY DEF ListsInv, ListsTypeOK, Heaps, Orders, Linked, Listed, ListsIntact, Rings

LEMMA ListsInitHolds == ASSUME ListsInit PROVE ListsInv
<1>1. heap \in Heaps
  BY DEF ListsInit, Heaps, Cells
<1>2. /\ order \in Orders /\ \A h \in Heads : order[h] = <<>> /\ Len(order[h]) = 0
  BY DEF ListsInit, Orders
<1>3. state \in [Nodes -> {"free", "linked", "spent"}] /\ \A n \in Nodes : state[n] = "free"
  BY DEF ListsInit
<1>4. Apart(order) /\ \A n \in Nodes : ~Listed(n, order)
  BY <1>2 DEF Apart, Listed, In
<1>5. ASSUME NEW h \in Heads PROVE ListIs(heap, h, order[h])
  <2>1. PICK s \in Seq(Nodes) : s = order[h] /\ Len(s) = 0
    BY <1>2 DEF Orders
  <2>2. heap.next[h] = h /\ heap.prev[h] = h
    BY DEF ListsInit, Cells
  <2>3. \A i \in Nat : Cell(h, s, i) = h
    BY <2>1 DEF Cell
  <2>4. ListIs(heap, h, s)
    BY <1>1, <2>1, <2>2, <2>3, RingIs
  <2> QED BY <2>1, <2>4
<1> QED BY <1>1, <1>2, <1>3, <1>4, <1>5, InvIs DEF Rings

LEMMA ListsStep == ASSUME ListsInv, ListsNext, DeletesSpent = FALSE PROVE ListsInv'
<1>. /\ heap \in Heaps /\ order \in Orders /\ state \in [Nodes -> {"free", "linked", "spent"}]
     /\ Apart(order) /\ Rings(heap, order)
     /\ \A n \in Nodes : state[n] = "linked" <=> Listed(n, order)
  BY InvIs
<1>1. ListsInv' <=> (/\ heap \in Heaps /\ order \in Orders
                     /\ state \in [Nodes -> {"free", "linked", "spent"}]
                     /\ Apart(order) /\ Rings(heap, order)
                     /\ \A n \in Nodes : state[n] = "linked" <=> Listed(n, order))'
  BY InvIs, PTL
<1>2. ASSUME NEW n \in Nodes, NEW h \in Heads, AddTimer(n, h)
      PROVE  /\ heap' \in Heaps /\ order' \in Orders
             /\ state' \in [Nodes -> {"free", "linked", "spent"}]
             /\ Apart(order') /\ Rings(heap', order')
             /\ \A m \in Nodes : state'[m] = "linked" <=> Listed(m, order')
  <2>1. ~Listed(n, order) /\ order' = [order EXCEPT ![h] = Append(@, n)]
    BY <1>2 DEF AddTimer
  <2>2. /\ heap' \in Heaps /\ order' \in Orders
        /\ Apart(order') /\ Rings(heap', order')
        /\ \A m \in Nodes : Listed(m, order') <=> m = n \/ Listed(m, order)
    BY <1>2, <2>1, Adding DEF AddTimer
  <2> QED BY <1>2, <2>2 DEF AddTimer
<1>3. ASSUME NEW n \in Nodes, NEW h \in Heads, MoveTimer(n, h)
      PROVE  /\ heap' \in Heaps /\ order' \in Orders
             /\ state' \in [Nodes -> {"free", "linked", "spent"}]
             /\ Apart(order') /\ Rings(heap', order')
             /\ \A m \in Nodes : state'[m] = "linked" <=> Listed(m, order')
  <2>1. PICK o : o = OrderWithout(n)
    OBVIOUS
  <2>2. PICK l : l = ListDel(heap, n)
    OBVIOUS
  <2>3. Listed(n, order) /\ order' = [o EXCEPT ![h] = Append(@, n)] /\ heap' = ListAddTail(l, n, h)
        /\ state' = state
    BY <1>3, <2>1, <2>2 DEF MoveTimer
  <2>4. /\ l \in Heaps /\ o \in Orders /\ Apart(o) /\ Rings(l, o)
        /\ \A m \in Nodes : Listed(m, o) <=> m # n /\ Listed(m, order)
    BY <2>1, <2>2, <2>3, Removing DEF OrderWithout
  <2>5. /\ heap' \in Heaps /\ order' \in Orders
        /\ Apart(order') /\ Rings(heap', order')
        /\ \A m \in Nodes : Listed(m, order') <=> m = n \/ Listed(m, o)
    <3>1. ~Listed(n, o)
      BY <2>4
    <3>2. \A p : p = [o EXCEPT ![h] = Append(@, n)] =>
            /\ ListAddTail(l, n, h) \in Heaps /\ p \in Orders
            /\ Apart(p) /\ Rings(ListAddTail(l, n, h), p)
            /\ \A m \in Nodes : Listed(m, p) <=> m = n \/ Listed(m, o)
      BY <2>4, <3>1, Adding
    <3> QED BY <2>3, <3>2
  <2> QED BY <2>3, <2>4, <2>5
<1>4. ASSUME NEW n \in Nodes, SpendTimer(n) \/ DeleteTimer(n)
      PROVE  /\ heap' \in Heaps /\ order' \in Orders
             /\ state' \in [Nodes -> {"free", "linked", "spent"}]
             /\ Apart(order') /\ Rings(heap', order')
             /\ \A m \in Nodes : state'[m] = "linked" <=> Listed(m, order')
  <2>1. /\ Listed(n, order) /\ order' = OrderWithout(n) /\ heap' = ListDel(heap, n)
        /\ state' = [state EXCEPT ![n] = "spent"] \/ state' = [state EXCEPT ![n] = "free"]
    BY <1>4, DeletesSpent = FALSE DEF SpendTimer, DeleteTimer
  <2>2. /\ heap' \in Heaps /\ order' \in Orders
        /\ Apart(order') /\ Rings(heap', order')
        /\ \A m \in Nodes : Listed(m, order') <=> m # n /\ Listed(m, order)
    BY <2>1, Removing DEF OrderWithout
  <2> QED BY <2>1, <2>2
<1> QED BY <1>1, <1>2, <1>3, <1>4 DEF ListsNext

LEMMA ListsInvAlways == ASSUME DeletesSpent = FALSE PROVE ListsSpec => []ListsInv
<1>1. ListsInit => ListsInv
  BY ListsInitHolds
<1>2. ListsInv /\ [ListsNext]_listVars => ListsInv'
  <2>1. ListsInv /\ UNCHANGED listVars => ListsInv'
    BY DEF listVars, ListsInv, ListsTypeOK, Apart, Linked, In, ListsIntact
  <2> QED BY <2>1, ListsStep
<1> QED BY <1>1, <1>2, PTL DEF ListsSpec

-----------------------------------------------------------------------------
(* The theorems *)

\* While uc_timer_delete is only called for timers that are linked, no pointer of
\* the wheel leads out of the memory of its timers and its list heads: not in what
\* list_del leaves in a node, nor in what malloc hands out again.
THEOREM ListsTypeCorrect == ASSUME DeletesSpent = FALSE PROVE ListsSpec => []ListsTypeOK
<1>1. ListsInv => ListsTypeOK
  BY DEF ListsInv
<1> QED BY <1>1, ListsInvAlways, PTL

\* Then every list of the wheel, followed forwards or backwards, has exactly the
\* timers that uc_timer_add_do and the ticks put there and nobody took out, in this
\* order, for any number of timers and lists.
THEOREM ListsIntactAlways == ASSUME DeletesSpent = FALSE PROVE ListsSpec => []ListsIntact
<1>1. ListsInv => ListsIntact
  BY DEF ListsInv
<1> QED BY <1>1, ListsInvAlways, PTL
=============================================================================
