-------------------------- MODULE HashTableProofs --------------------------
(***************************************************************************)
(* Proofs about the hash table: it implements the map that uc_hash.h       *)
(* promises, frees every value once, and its loops visit every node.       *)
(***************************************************************************)
EXTENDS HashTable, FiniteSetTheorems, SequenceTheorems, WellFoundedInduction, TLAPS

Node == [key : Keys, val : Values]

-----------------------------------------------------------------------------
(* One chain *)

Pos(c, k) == SelectInSeq(c, LAMBDA n : n.key = k)
Distinct(c) == \A i, j \in 1..Len(c) : c[i].key = c[j].key => i = j

LEMMA NodeTypes ==
    ASSUME NEW c \in Seq(Node), NEW i \in 1..Len(c)
    PROVE  c[i] \in Node /\ c[i].key \in Keys /\ c[i].val \in Values
<1>1. c[i] \in Node
  OBVIOUS
<1>2. \A n \in Node : n.key \in Keys /\ n.val \in Values
  BY DEF Node
<1> QED BY <1>1, <1>2

\* The position of a key is that of the one node that has it.
LEMMA PosIs ==
    ASSUME NEW c \in Seq(Node), Distinct(c)
    PROVE  /\ \A i \in 1..Len(c) : Pos(c, c[i].key) = i
           /\ \A k : k \notin KeysOf(c) => Pos(c, k) = 0
           /\ \A k \in KeysOf(c) : Pos(c, k) \in 1..Len(c) /\ c[Pos(c, k)].key = k
<1>1. ASSUME NEW i \in 1..Len(c) PROVE Pos(c, c[i].key) = i
  <2>1. {j \in 1..Len(c) : c[j].key = c[i].key} = {i}
    BY DEF Distinct
  <2>2. Min({i}) = i
    BY DEF Min
  <2> QED BY <2>1, <2>2 DEF Pos, SelectInSeq
<1>2. ASSUME NEW k, k \notin KeysOf(c) PROVE Pos(c, k) = 0
  <2>1. {j \in 1..Len(c) : c[j].key = k} = {}
    BY <1>2 DEF KeysOf
  <2> QED BY <2>1 DEF Pos, SelectInSeq
<1>3. ASSUME NEW k \in KeysOf(c) PROVE Pos(c, k) \in 1..Len(c) /\ c[Pos(c, k)].key = k
  <2>1. PICK i \in 1..Len(c) : c[i].key = k
    BY DEF KeysOf
  <2> QED BY <1>1, <2>1
<1> QED BY <1>1, <1>2, <1>3

\* A new node in front, and a new value in the node of a key
InFront(c, k, v) == <<[key |-> k, val |-> v]>> \o c
Revalued(c, k, v) == [c EXCEPT ![Pos(c, k)].val = v]

LEMMA PutInFront ==
    ASSUME NEW c \in Seq(Node), Distinct(c), NEW k \in Keys, NEW v \in Values, k \notin KeysOf(c),
           NEW d, d = InFront(c, k, v)
    PROVE  /\ d \in Seq(Node) /\ Distinct(d)
           /\ KeysOf(d) = KeysOf(c) \cup {k}
           /\ d[Pos(d, k)].val = v
           /\ \A j \in KeysOf(c) : d[Pos(d, j)].val = c[Pos(c, j)].val
<1>1. [key |-> k, val |-> v] \in Node
  BY DEF Node
<1>2. PICK n \in Node : n = [key |-> k, val |-> v]
  BY <1>1
<1>3. n.key = k /\ n.val = v
  BY <1>2
<1>4. /\ <<n>> \o c \in Seq(Node) /\ Len(<<n>> \o c) = Len(c) + 1
      /\ (<<n>> \o c)[1] = n
      /\ \A i \in 1..Len(c) : (<<n>> \o c)[i + 1] = c[i]
  OBVIOUS
<1>5. /\ d \in Seq(Node) /\ Len(d) = Len(c) + 1 /\ d[1] = n
      /\ \A i \in 1..Len(c) : d[i + 1] = c[i]
  BY <1>2, <1>4, Zenon DEF InFront
<1>6. \A i \in 1..Len(d) : i = 1 \/ \E j \in 1..Len(c) : i = j + 1
  <2>1. ASSUME NEW i \in 1..Len(d), i # 1 PROVE i - 1 \in 1..Len(c) /\ i = i - 1 + 1
    BY <1>5, <2>1
  <2> QED BY <2>1
<1>7. \A j \in 1..Len(c) : c[j].key # k
  BY DEF KeysOf
<1>8. Distinct(d)
  <2>1. SUFFICES ASSUME NEW i \in 1..Len(d), NEW j \in 1..Len(d), d[i].key = d[j].key
                 PROVE  i = j
    BY DEF Distinct
  <2>2. CASE i = 1 /\ j = 1
    BY <2>2
  <2>3. CASE i # 1 /\ j # 1
    <3>1. PICK a \in 1..Len(c), b \in 1..Len(c) : i = a + 1 /\ j = b + 1
      BY <1>6, <2>3
    <3>2. c[a].key = c[b].key
      BY <1>5, <2>1, <3>1
    <3> QED BY <3>1, <3>2 DEF Distinct
  <2>4. CASE i = 1 /\ j # 1
    <3>1. PICK b \in 1..Len(c) : j = b + 1
      BY <1>6, <2>4
    <3> QED BY <1>3, <1>5, <1>7, <2>1, <2>4, <3>1
  <2>5. CASE i # 1 /\ j = 1
    <3>1. PICK b \in 1..Len(c) : i = b + 1
      BY <1>6, <2>5
    <3> QED BY <1>3, <1>5, <1>7, <2>1, <2>5, <3>1
  <2> QED BY <2>2, <2>3, <2>4, <2>5
<1>9. 1 \in 1..Len(d) /\ \A i \in 1..Len(c) : i + 1 \in 1..Len(d)
  BY <1>5
<1>10. KeysOf(d) = KeysOf(c) \cup {k}
  <2>1. k \in KeysOf(d)
    BY <1>3, <1>5, <1>9 DEF KeysOf
  <2>2. ASSUME NEW j \in KeysOf(c) PROVE j \in KeysOf(d)
    <3>1. PICK i \in 1..Len(c) : c[i].key = j
      BY DEF KeysOf
    <3> QED BY <1>5, <1>9, <3>1 DEF KeysOf
  <2>3. ASSUME NEW j \in KeysOf(d) PROVE j \in KeysOf(c) \cup {k}
    <3>1. PICK i \in 1..Len(d) : d[i].key = j
      BY DEF KeysOf
    <3>2. CASE i = 1
      BY <1>3, <1>5, <3>1, <3>2
    <3>3. CASE i # 1
      <4>1. PICK a \in 1..Len(c) : i = a + 1
        BY <1>6, <3>3
      <4> QED BY <1>5, <3>1, <4>1 DEF KeysOf
    <3> QED BY <3>2, <3>3
  <2> QED BY <2>1, <2>2, <2>3
<1>11. d[Pos(d, k)].val = v
  <2>1. Pos(d, d[1].key) = 1
    BY <1>5, <1>8, <1>9, PosIs
  <2> QED BY <1>3, <1>5, <2>1
<1>12. ASSUME NEW j \in KeysOf(c) PROVE d[Pos(d, j)].val = c[Pos(c, j)].val
  <2>1. PICK i \in 1..Len(c) : c[i].key = j
    BY DEF KeysOf
  <2>2. Pos(c, j) = i
    BY <2>1, PosIs
  <2>3. Pos(d, d[i + 1].key) = i + 1
    BY <1>5, <1>8, <1>9, PosIs
  <2> QED BY <1>5, <2>1, <2>2, <2>3
<1> QED BY <1>5, <1>8, <1>10, <1>11, <1>12

LEMMA SetInPlace ==
    ASSUME NEW c \in Seq(Node), Distinct(c), NEW k \in KeysOf(c), NEW v \in Values,
           NEW d, d = Revalued(c, k, v)
    PROVE  /\ d \in Seq(Node) /\ Distinct(d)
           /\ KeysOf(d) = KeysOf(c)
           /\ d[Pos(d, k)].val = v
           /\ \A j \in KeysOf(c) \ {k} : d[Pos(d, j)].val = c[Pos(c, j)].val
<1>1. PICK p \in 1..Len(c) : p = Pos(c, k) /\ c[p].key = k
  BY PosIs
<1>2. PICK n \in Node : n = [c[p] EXCEPT !.val = v]
  <2>1. \A m \in Node : [m EXCEPT !.val = v] \in Node
    BY DEF Node
  <2> QED BY <2>1, NodeTypes
<1>3. n.key = k /\ n.val = v
  <2>1. \A m \in Node : [m EXCEPT !.val = v].key = m.key /\ [m EXCEPT !.val = v].val = v
    BY DEF Node
  <2> QED BY <1>1, <1>2, <2>1, NodeTypes
<1>4. d = [c EXCEPT ![p] = n]
  BY <1>1, <1>2 DEF Revalued
<1>5. /\ d \in Seq(Node) /\ Len(d) = Len(c) /\ d[p] = n
      /\ \A i \in 1..Len(c) : i # p => d[i] = c[i]
  <2>1. /\ [c EXCEPT ![p] = n] \in Seq(Node)
        /\ Len([c EXCEPT ![p] = n]) = Len(c)
        /\ \A j \in 1..Len(c) : [c EXCEPT ![p] = n][j] = IF j = p THEN n ELSE c[j]
    BY ExceptSeq
  <2>2. /\ d \in Seq(Node) /\ Len(d) = Len(c)
        /\ \A j \in 1..Len(c) : d[j] = IF j = p THEN n ELSE c[j]
    BY <1>4, <2>1, Zenon
  <2> QED BY <2>2
<1>6. \A i \in 1..Len(c) : d[i].key = c[i].key
  BY <1>1, <1>3, <1>5
<1>7. Distinct(d)
  BY <1>5, <1>6 DEF Distinct
<1>8. KeysOf(d) = KeysOf(c)
  BY <1>5, <1>6 DEF KeysOf
<1>9. \A i \in 1..Len(c) : Pos(d, c[i].key) = i /\ Pos(c, c[i].key) = i
  BY <1>5, <1>6, <1>7, PosIs
<1>10. d[Pos(d, k)].val = v
  BY <1>1, <1>3, <1>5, <1>9
<1>11. ASSUME NEW j \in KeysOf(c) \ {k} PROVE d[Pos(d, j)].val = c[Pos(c, j)].val
  <2>1. PICK i \in 1..Len(c) : c[i].key = j
    BY DEF KeysOf
  <2> QED BY <1>1, <1>5, <1>9, <2>1
<1> QED BY <1>5, <1>7, <1>8, <1>10, <1>11

\* Where the nodes are after the p-th has gone
LEMMA RemoveAtIs ==
    ASSUME NEW c \in Seq(Node), NEW p \in 1..Len(c)
    PROVE  /\ RemoveAt(c, p) \in Seq(Node) /\ Len(RemoveAt(c, p)) = Len(c) - 1
           /\ \A i \in 1..Len(c) - 1 : RemoveAt(c, p)[i] = c[IF i < p THEN i ELSE i + 1]
<1>1. /\ SubSeq(c, 1, p - 1) \in Seq(Node) /\ Len(SubSeq(c, 1, p - 1)) = p - 1
      /\ SubSeq(c, p + 1, Len(c)) \in Seq(Node) /\ Len(SubSeq(c, p + 1, Len(c))) = Len(c) - p
      /\ \A i \in 1..p - 1 : SubSeq(c, 1, p - 1)[i] = c[i]
      /\ \A i \in 1..Len(c) - p : SubSeq(c, p + 1, Len(c))[i] = c[i + p]
  OBVIOUS
<1>2. PICK a \in Seq(Node), b \in Seq(Node) :
        a = SubSeq(c, 1, p - 1) /\ b = SubSeq(c, p + 1, Len(c))
  BY <1>1, Zenon
<1>3. /\ Len(a) = p - 1 /\ Len(b) = Len(c) - p
      /\ \A i \in 1..p - 1 : a[i] = c[i]
      /\ \A i \in 1..Len(c) - p : b[i] = c[i + p]
  BY <1>1, <1>2, Zenon
<1>4. a \o b \in Seq(Node) /\ Len(a \o b) = Len(c) - 1
  <2>1. a \o b \in Seq(Node) /\ Len(a \o b) = Len(a) + Len(b)
    OBVIOUS
  <2>2. Len(c) \in Nat /\ p \in Nat
    OBVIOUS
  <2> QED BY <1>3, <2>1, <2>2
<1>5. ASSUME NEW i \in 1..Len(c) - 1
      PROVE  (a \o b)[i] = c[IF i < p THEN i ELSE i + 1]
  <2>1. CASE i < p
    BY <1>3, <2>1
  <2>2. CASE i >= p
    <3>1. i - (p - 1) \in 1..Len(c) - p /\ i - (p - 1) + p = i + 1
      BY <2>2
    <3>2. (a \o b)[i] = b[i - (p - 1)]
      BY <1>3, <2>2
    <3> QED BY <1>3, <2>2, <3>1, <3>2
  <2>3. i < p \/ i >= p
    OBVIOUS
  <2> QED BY <2>1, <2>2, <2>3, Zenon
<1> QED BY <1>2, <1>4, <1>5, Zenon DEF RemoveAt

\* The node of a key taken out
LEMMA TakeOut ==
    ASSUME NEW c \in Seq(Node), Distinct(c), NEW k \in KeysOf(c),
           NEW d, d = RemoveAt(c, Pos(c, k))
    PROVE  /\ d \in Seq(Node) /\ Distinct(d)
           /\ KeysOf(d) = KeysOf(c) \ {k}
           /\ \A j \in KeysOf(d) : d[Pos(d, j)].val = c[Pos(c, j)].val
           /\ \A i, j \in KeysOf(d) : Pos(d, i) < Pos(d, j) <=> Pos(c, i) < Pos(c, j)
<1>1. PICK p \in 1..Len(c) : p = Pos(c, k) /\ c[p].key = k
  BY PosIs
<1>2. /\ d \in Seq(Node) /\ Len(d) = Len(c) - 1
      /\ \A i \in 1..Len(d) : d[i] = c[IF i < p THEN i ELSE i + 1]
  BY <1>1, RemoveAtIs
<1> DEFINE From(i) == IF i < p THEN i ELSE i + 1
<1>3. /\ \A i \in 1..Len(d) : From(i) \in 1..Len(c) /\ From(i) # p /\ d[i] = c[From(i)]
      /\ \A i, j \in 1..Len(d) : (From(i) = From(j) => i = j) /\ (i < j <=> From(i) < From(j))
  BY <1>2
<1>4. \A i \in 1..Len(c) : i # p => \E j \in 1..Len(d) : i = From(j)
  <2>1. SUFFICES ASSUME NEW i \in 1..Len(c), i # p PROVE \E j \in 1..Len(d) : i = From(j)
    OBVIOUS
  <2>2. CASE i < p
    <3>1. i \in 1..Len(d) /\ i = From(i)
      BY <1>2, <2>2
    <3> QED BY <3>1
  <2>3. CASE i > p
    <3>1. i - 1 \in 1..Len(d) /\ i = From(i - 1)
      BY <1>2, <2>3
    <3> QED BY <3>1
  <2> QED BY <2>1, <2>2, <2>3
<1> HIDE DEF From
<1>5. Distinct(d)
  BY <1>3 DEF Distinct
<1>6. KeysOf(d) = KeysOf(c) \ {k}
  <2>1. ASSUME NEW j \in KeysOf(d) PROVE j \in KeysOf(c) /\ j # k
    <3>1. PICK i \in 1..Len(d) : d[i].key = j
      BY DEF KeysOf
    <3>2. c[From(i)].key = j /\ From(i) \in 1..Len(c) /\ From(i) # p
      BY <1>3, <3>1
    <3> QED BY <1>1, <3>2 DEF KeysOf, Distinct
  <2>2. ASSUME NEW j \in KeysOf(c), j # k PROVE j \in KeysOf(d)
    <3>1. PICK i \in 1..Len(c) : c[i].key = j
      BY DEF KeysOf
    <3>2. PICK a \in 1..Len(d) : i = From(a)
      BY <1>1, <1>4, <2>2, <3>1
    <3> QED BY <1>3, <3>1, <3>2 DEF KeysOf
  <2> QED BY <2>1, <2>2
<1>7. ASSUME NEW j \in KeysOf(d)
      PROVE  \E i \in 1..Len(d) : Pos(d, j) = i /\ Pos(c, j) = From(i) /\ d[i] = c[From(i)]
  <2>1. PICK i \in 1..Len(d) : d[i].key = j
    BY DEF KeysOf
  <2>2. Pos(d, j) = i
    BY <1>2, <1>5, <2>1, PosIs
  <2>3. From(i) \in 1..Len(c) /\ d[i] = c[From(i)]
    BY <1>3
  <2>4. Pos(c, j) = From(i)
    BY <2>1, <2>3, PosIs
  <2> QED BY <2>2, <2>3, <2>4
<1>8. \A j \in KeysOf(d) : d[Pos(d, j)].val = c[Pos(c, j)].val
  BY <1>7
<1>9. \A i, j \in KeysOf(d) : Pos(d, i) < Pos(d, j) <=> Pos(c, i) < Pos(c, j)
  BY <1>3, <1>7
<1> QED BY <1>2, <1>5, <1>6, <1>8, <1>9

-----------------------------------------------------------------------------
(* The whole table *)

Tables == [Buckets -> Seq(Node)]
Sound(t) == \A b \in Buckets : Distinct(t[b]) /\ \A k \in KeysOf(t[b]) : Bucket(k) = b
KeysIn(t) == UNION {KeysOf(t[b]) : b \in Buckets}
PosIn(t, k) == Pos(t[Bucket(k)], k)
Val(t, k) == t[Bucket(k)][PosIn(t, k)].val

With(t, k, v) == [t EXCEPT ![Bucket(k)] = InFront(@, k, v)]
Set(t, k, v) == [t EXCEPT ![Bucket(k)] = Revalued(@, k, v)]
Without(t, k) == [t EXCEPT ![Bucket(k)] = RemoveAt(@, PosIn(t, k))]

\* The order in which the chains are followed
Before(t, i, j) ==
    Bucket(i) < Bucket(j) \/ (Bucket(i) = Bucket(j) /\ PosIn(t, i) < PosIn(t, j))

LEMMA BucketTypes ==
    /\ Height \in Nat \ {0} /\ Buckets \subseteq Nat
    /\ \A k \in Keys : Bucket(k) \in Buckets /\ Bucket(k) \in Nat
BY TableAssumption DEF Bucket, Buckets

LEMMA KeyTypes ==
    ASSUME NEW c \in Seq(Node) PROVE KeysOf(c) \subseteq Keys
BY NodeTypes DEF KeysOf

\* A key is looked for in one chain.
LEMMA InItsChain ==
    ASSUME NEW t \in Tables, Sound(t)
    PROVE  /\ KeysIn(t) \subseteq Keys
           /\ \A k \in Keys : k \in KeysIn(t) <=> k \in KeysOf(t[Bucket(k)])
<1>1. \A b \in Buckets : t[b] \in Seq(Node)
  BY DEF Tables
<1>2. KeysIn(t) \subseteq Keys
  BY <1>1, KeyTypes DEF KeysIn
<1>3. \A k \in Keys : k \in KeysIn(t) <=> k \in KeysOf(t[Bucket(k)])
  BY BucketTypes DEF KeysIn, Sound
<1> QED BY <1>2, <1>3

\* One chain is replaced by another.
LEMMA Changing ==
    ASSUME NEW t \in Tables, Sound(t), NEW b \in Buckets,
           NEW c \in Seq(Node), Distinct(c), \A k \in KeysOf(c) : Bucket(k) = b,
           NEW u, u = [t EXCEPT ![b] = c]
    PROVE  /\ u \in Tables /\ Sound(u) /\ u[b] = c
           /\ \A k \in Keys : Bucket(k) = b => (k \in KeysIn(u) <=> k \in KeysOf(c))
           /\ \A k \in Keys : Bucket(k) # b => /\ k \in KeysIn(u) <=> k \in KeysIn(t)
                                               /\ Val(u, k) = Val(t, k) /\ PosIn(u, k) = PosIn(t, k)
<1>1. u \in Tables /\ u[b] = c /\ \A a \in Buckets : a # b => u[a] = t[a]
  BY DEF Tables
<1>2. Sound(u)
  BY <1>1 DEF Sound
<1>3. \A k \in Keys : Bucket(k) = b => (k \in KeysIn(u) <=> k \in KeysOf(c))
  BY <1>1, <1>2, InItsChain
<1>4. ASSUME NEW k \in Keys, Bucket(k) # b
      PROVE  /\ k \in KeysIn(u) <=> k \in KeysIn(t)
             /\ Val(u, k) = Val(t, k) /\ PosIn(u, k) = PosIn(t, k)
  <2>1. u[Bucket(k)] = t[Bucket(k)]
    BY <1>1, <1>4, BucketTypes
  <2> QED BY <1>1, <1>2, <2>1, InItsChain DEF Val, PosIn
<1> QED BY <1>1, <1>2, <1>3, <1>4

LEMMA Inserting ==
    ASSUME NEW t \in Tables, Sound(t), NEW k \in Keys, k \notin KeysIn(t), NEW v \in Values,
           NEW u, u = With(t, k, v)
    PROVE  /\ u \in Tables /\ Sound(u) /\ KeysIn(u) = KeysIn(t) \cup {k}
           /\ Val(u, k) = v /\ \A j \in KeysIn(t) : Val(u, j) = Val(t, j)
<1>1. PICK c \in Seq(Node) : c = t[Bucket(k)]
  BY BucketTypes DEF Tables
<1>2. Distinct(c) /\ k \notin KeysOf(c) /\ \A j \in KeysOf(c) : Bucket(j) = Bucket(k)
  BY <1>1, BucketTypes, InItsChain DEF Sound
<1>3. PICK d : d = InFront(c, k, v)
  OBVIOUS
<1>4. /\ d \in Seq(Node) /\ Distinct(d) /\ KeysOf(d) = KeysOf(c) \cup {k}
      /\ d[Pos(d, k)].val = v
      /\ \A j \in KeysOf(c) : d[Pos(d, j)].val = c[Pos(c, j)].val
  BY <1>2, <1>3, PutInFront
<1>5. u = [t EXCEPT ![Bucket(k)] = d]
  BY <1>1, <1>3, Zenon DEF With
<1>6. /\ u \in Tables /\ Sound(u) /\ u[Bucket(k)] = d
      /\ \A j \in Keys : Bucket(j) = Bucket(k) => (j \in KeysIn(u) <=> j \in KeysOf(d))
      /\ \A j \in Keys : Bucket(j) # Bucket(k) =>
            /\ j \in KeysIn(u) <=> j \in KeysIn(t)
            /\ Val(u, j) = Val(t, j) /\ PosIn(u, j) = PosIn(t, j)
  <2>1. \A j \in KeysOf(d) : Bucket(j) = Bucket(k)
    BY <1>2, <1>4
  <2> QED BY <1>4, <1>5, <2>1, BucketTypes, Changing
<1>7. KeysIn(u) = KeysIn(t) \cup {k}
  <2>1. KeysIn(u) \subseteq Keys /\ KeysIn(t) \subseteq Keys
    BY <1>6, InItsChain
  <2>2. \A j \in Keys : j \in KeysIn(u) <=> j \in KeysIn(t) \/ j = k
    BY <1>1, <1>4, <1>6, InItsChain
  <2> QED BY <2>1, <2>2
<1>8. Val(u, k) = v
  BY <1>4, <1>6 DEF Val, PosIn
<1>9. ASSUME NEW j \in KeysIn(t) PROVE Val(u, j) = Val(t, j)
  <2>1. j \in Keys /\ j \in KeysOf(t[Bucket(j)])
    BY InItsChain
  <2>2. CASE Bucket(j) = Bucket(k)
    BY <1>1, <1>4, <1>6, <2>1, <2>2 DEF Val, PosIn
  <2> QED BY <1>6, <2>1, <2>2
<1> QED BY <1>6, <1>7, <1>8, <1>9

LEMMA Setting ==
    ASSUME NEW t \in Tables, Sound(t), NEW k \in KeysIn(t), NEW v \in Values,
           NEW u, u = Set(t, k, v)
    PROVE  /\ u \in Tables /\ Sound(u) /\ KeysIn(u) = KeysIn(t)
           /\ Val(u, k) = v /\ \A j \in KeysIn(t) \ {k} : Val(u, j) = Val(t, j)
<1>1. k \in Keys /\ k \in KeysOf(t[Bucket(k)])
  BY InItsChain
<1>2. PICK c \in Seq(Node) : c = t[Bucket(k)]
  BY <1>1, BucketTypes DEF Tables
<1>3. Distinct(c) /\ k \in KeysOf(c) /\ \A j \in KeysOf(c) : Bucket(j) = Bucket(k)
  BY <1>1, <1>2, BucketTypes DEF Sound
<1>4. PICK d : d = Revalued(c, k, v)
  OBVIOUS
<1>5. /\ d \in Seq(Node) /\ Distinct(d) /\ KeysOf(d) = KeysOf(c)
      /\ d[Pos(d, k)].val = v
      /\ \A j \in KeysOf(c) \ {k} : d[Pos(d, j)].val = c[Pos(c, j)].val
  BY <1>3, <1>4, SetInPlace
<1>6. u = [t EXCEPT ![Bucket(k)] = d]
  BY <1>2, <1>4, Zenon DEF Set
<1>7. /\ u \in Tables /\ Sound(u) /\ u[Bucket(k)] = d
      /\ \A j \in Keys : Bucket(j) = Bucket(k) => (j \in KeysIn(u) <=> j \in KeysOf(d))
      /\ \A j \in Keys : Bucket(j) # Bucket(k) =>
            /\ j \in KeysIn(u) <=> j \in KeysIn(t)
            /\ Val(u, j) = Val(t, j) /\ PosIn(u, j) = PosIn(t, j)
  <2>1. \A j \in KeysOf(d) : Bucket(j) = Bucket(k)
    BY <1>3, <1>5
  <2>2. Bucket(k) \in Buckets
    BY <1>1, BucketTypes
  <2> QED BY <1>5, <1>6, <2>1, <2>2, Changing
<1>8. KeysIn(u) = KeysIn(t)
  <2>1. KeysIn(u) \subseteq Keys /\ KeysIn(t) \subseteq Keys
    BY <1>7, InItsChain
  <2>2. \A j \in Keys : j \in KeysIn(u) <=> j \in KeysIn(t)
    BY <1>2, <1>5, <1>7, InItsChain
  <2> QED BY <2>1, <2>2
<1>9. Val(u, k) = v
  BY <1>5, <1>7 DEF Val, PosIn
<1>10. ASSUME NEW j \in KeysIn(t) \ {k} PROVE Val(u, j) = Val(t, j)
  <2>1. j \in Keys /\ j \in KeysOf(t[Bucket(j)])
    BY InItsChain
  <2>2. CASE Bucket(j) = Bucket(k)
    BY <1>2, <1>5, <1>7, <2>1, <2>2 DEF Val, PosIn
  <2> QED BY <1>7, <2>1, <2>2
<1> QED BY <1>7, <1>8, <1>9, <1>10

LEMMA Removing ==
    ASSUME NEW t \in Tables, Sound(t), NEW k \in KeysIn(t),
           NEW u, u = Without(t, k)
    PROVE  /\ u \in Tables /\ Sound(u) /\ KeysIn(u) = KeysIn(t) \ {k}
           /\ \A j \in KeysIn(u) : Val(u, j) = Val(t, j)
           /\ \A i, j \in KeysIn(u) : Before(u, i, j) <=> Before(t, i, j)
<1>1. k \in Keys /\ k \in KeysOf(t[Bucket(k)])
  BY InItsChain
<1>2. PICK c \in Seq(Node) : c = t[Bucket(k)]
  BY <1>1, BucketTypes DEF Tables
<1>3. Distinct(c) /\ k \in KeysOf(c) /\ \A j \in KeysOf(c) : Bucket(j) = Bucket(k)
  BY <1>1, <1>2, BucketTypes DEF Sound
<1>4. PICK d : d = RemoveAt(c, Pos(c, k))
  OBVIOUS
<1>5. /\ d \in Seq(Node) /\ Distinct(d) /\ KeysOf(d) = KeysOf(c) \ {k}
      /\ \A j \in KeysOf(d) : d[Pos(d, j)].val = c[Pos(c, j)].val
      /\ \A i, j \in KeysOf(d) : Pos(d, i) < Pos(d, j) <=> Pos(c, i) < Pos(c, j)
  BY <1>3, <1>4, TakeOut
<1>6. u = [t EXCEPT ![Bucket(k)] = d]
  BY <1>2, <1>4, Zenon DEF Without, PosIn
<1>7. /\ u \in Tables /\ Sound(u) /\ u[Bucket(k)] = d
      /\ \A j \in Keys : Bucket(j) = Bucket(k) => (j \in KeysIn(u) <=> j \in KeysOf(d))
      /\ \A j \in Keys : Bucket(j) # Bucket(k) =>
            /\ j \in KeysIn(u) <=> j \in KeysIn(t)
            /\ Val(u, j) = Val(t, j) /\ PosIn(u, j) = PosIn(t, j)
  <2>1. \A j \in KeysOf(d) : Bucket(j) = Bucket(k)
    BY <1>3, <1>5
  <2> QED BY <1>1, <1>5, <1>6, <2>1, BucketTypes, Changing
<1>8. KeysIn(u) = KeysIn(t) \ {k}
  <2>1. KeysIn(u) \subseteq Keys /\ KeysIn(t) \subseteq Keys
    BY <1>7, InItsChain
  <2>2. \A j \in Keys : j \in KeysIn(u) <=> j \in KeysIn(t) /\ j # k
    BY <1>1, <1>2, <1>5, <1>7, InItsChain
  <2> QED BY <2>1, <2>2
<1>9. \A j \in KeysIn(u) : j \in Keys /\ (Bucket(j) = Bucket(k) => j \in KeysOf(d))
  BY <1>7, InItsChain
<1>10. ASSUME NEW j \in KeysIn(u) PROVE Val(u, j) = Val(t, j)
  <2>1. CASE Bucket(j) = Bucket(k)
    BY <1>2, <1>5, <1>7, <1>9, <2>1 DEF Val, PosIn
  <2> QED BY <1>7, <1>9, <2>1
<1>11. ASSUME NEW i \in KeysIn(u), NEW j \in KeysIn(u)
       PROVE  Before(u, i, j) <=> Before(t, i, j)
  <2>1. CASE Bucket(i) = Bucket(k) /\ Bucket(j) = Bucket(k)
    BY <1>2, <1>5, <1>7, <1>9, <2>1 DEF Before, PosIn
  <2>2. CASE Bucket(i) # Bucket(j)
    BY <2>2 DEF Before
  <2>3. CASE Bucket(i) = Bucket(j) /\ Bucket(i) # Bucket(k)
    BY <1>7, <1>9, <2>3 DEF Before
  <2> QED BY <2>1, <2>2, <2>3
<1> QED BY <1>7, <1>8, <1>10, <1>11

-----------------------------------------------------------------------------
(* The invariant *)

Owners(t, v) == {k \in KeysIn(t) : Val(t, k) = v}

\* Where a loop is: the walk has visited what comes before its node, the loop that
\* deletes has nothing left before it.
LoopPlace ==
    /\ loop # "none" /\ item # NULL => item \in KeysIn(nodes)
    /\ loop = "walk" => ToSet(seen) = IF item = NULL THEN KeysIn(nodes)
                                      ELSE {j \in KeysIn(nodes) : Before(nodes, j, item)}
    /\ loop = "clear" => /\ ToSet(seen) \cap KeysIn(nodes) = {}
                         /\ \A j \in KeysIn(nodes) : item # NULL /\ ~Before(nodes, j, item)
    /\ IsInjective(seen)

HashInv == TypeOK /\ ChainsSound /\ IsFiniteSet(Stored) /\ ValuesOwned /\ LoopPlace

\* The definitions of the module in terms of the operators above
LEMMA StoredIs == Stored = KeysIn(nodes)
BY DEF Stored, KeysIn

LEMMA ValueIs ==
    ASSUME NEW k
    PROVE  Position(k) = PosIn(nodes, k) /\ ValueOf(k) = Val(nodes, k)
BY DEF Position, PosIn, Pos, ValueOf, Chain, Val

LEMMA ChainsSoundIs ==
    ASSUME nodes \in Tables
    PROVE  ChainsSound <=> Sound(nodes) /\ node_ttl = Cardinality(KeysIn(nodes))
<1>1. (\A b \in Buckets : \A i \in 1..Len(nodes[b]) :
        /\ Bucket(nodes[b][i].key) = b
        /\ \A j \in 1..Len(nodes[b]) : nodes[b][i].key = nodes[b][j].key => i = j)
      <=> Sound(nodes)
  BY DEF Sound, Distinct, KeysOf
<1> QED BY <1>1, StoredIs DEF ChainsSound

LEMMA FoundIs ==
    ASSUME nodes \in Tables, Sound(nodes), NEW k \in Keys
    PROVE  Found(k) <=> k \in KeysIn(nodes)
<1>1. PICK c \in Seq(Node) : c = nodes[Bucket(k)]
  BY BucketTypes DEF Tables
<1>2. Distinct(c) /\ (k \in KeysIn(nodes) <=> k \in KeysOf(c))
  BY <1>1, BucketTypes, InItsChain DEF Sound
<1>3. Pos(c, k) = 0 <=> k \notin KeysOf(c)
  BY <1>2, PosIs
<1> QED BY <1>1, <1>2, <1>3, ValueIs DEF Found, PosIn

LEMMA ValTypes ==
    ASSUME NEW t \in Tables, Sound(t), NEW k \in KeysIn(t)
    PROVE  Val(t, k) \in Values /\ PosIn(t, k) \in 1..Len(t[Bucket(k)])
           /\ t[Bucket(k)][PosIn(t, k)].key = k
<1>1. k \in Keys /\ k \in KeysOf(t[Bucket(k)])
  BY InItsChain
<1>2. PICK c \in Seq(Node) : c = t[Bucket(k)]
  BY <1>1, BucketTypes DEF Tables
<1>3. Distinct(c)
  BY <1>1, <1>2, BucketTypes DEF Sound
<1>4. Pos(c, k) \in 1..Len(c) /\ c[Pos(c, k)].key = k
  BY <1>1, <1>2, <1>3, PosIs
<1> QED BY <1>2, <1>4, NodeTypes DEF Val, PosIn

\* Who owns a value, without counting
OwnedOnce(f, S, h) ==
    \/ f = 1 /\ S = {} /\ ~h
    \/ f = 0 /\ ~h /\ \E x : S = {x}
    \/ f = 0 /\ S = {} /\ h

LEMMA OwnedOnceIs ==
    ASSUME NEW f \in Nat, NEW S, IsFiniteSet(S), NEW h \in BOOLEAN
    PROVE  f + Cardinality(S) + (IF h THEN 1 ELSE 0) = 1 <=> OwnedOnce(f, S, h)
<1>1. PICK n \in Nat : /\ n = Cardinality(S) /\ (n = 0 <=> S = {})
                       /\ (n = 1 <=> \E x : S = {x})
  BY FS_CardinalityType, FS_EmptySet, FS_Singleton
<1>2. CASE h
  <2>1. f + n + (IF h THEN 1 ELSE 0) = 1 <=> f = 0 /\ n = 0
    BY <1>2
  <2>2. OwnedOnce(f, S, h) <=> f = 0 /\ S = {}
    BY <1>2 DEF OwnedOnce
  <2> QED BY <1>1, <2>1, <2>2, Zenon
<1>3. CASE ~h
  <2>1. f + n + (IF h THEN 1 ELSE 0) = 1 <=> (f = 1 /\ n = 0) \/ (f = 0 /\ n = 1)
    BY <1>3
  <2>2. OwnedOnce(f, S, h) <=> (f = 1 /\ S = {}) \/ (f = 0 /\ \E x : S = {x})
    BY <1>3 DEF OwnedOnce
  <2> QED BY <1>1, <2>1, <2>2, Zenon
<1> QED BY <1>2, <1>3

LEMMA ValuesOwnedIs ==
    ASSUME IsFiniteSet(KeysIn(nodes)), freed \in [Vals -> Nat]
    PROVE  ValuesOwned <=> \A v \in Vals : OwnedOnce(freed[v], Owners(nodes, v), v \in held)
<1>1. \A v : {k \in Stored : ValueOf(k) = v} = Owners(nodes, v)
  BY StoredIs, ValueIs DEF Owners
<1>2. \A v : IsFiniteSet(Owners(nodes, v))
  <2>1. \A v : Owners(nodes, v) \in SUBSET KeysIn(nodes)
    BY DEF Owners
  <2> QED BY <2>1, FS_Subset
<1>3. \A v \in Vals :
        freed[v] + Cardinality(Owners(nodes, v)) + (IF v \in held THEN 1 ELSE 0) = 1
            <=> OwnedOnce(freed[v], Owners(nodes, v), v \in held)
  <2>1. \A v \in Vals : freed[v] \in Nat /\ (v \in held) \in BOOLEAN
    OBVIOUS
  <2> QED BY <1>2, <2>1, OwnedOnceIs
<1>4. ValuesOwned <=> \A v \in Vals :
        freed[v] + Cardinality(Owners(nodes, v)) + (IF v \in held THEN 1 ELSE 0) = 1
  BY <1>1 DEF ValuesOwned
<1> QED BY <1>3, <1>4

\* The invariant in these terms
TypesHold ==
    /\ nodes \in Tables /\ node_ttl \in Nat
    /\ ret \in {"ok", "error"} \cup Values
    /\ held \subseteq Vals /\ freed \in [Vals -> Nat]
    /\ loop \in {"none", "walk", "clear"}
    /\ item \in Keys \cup {NULL} /\ seen \in Seq(Keys)
TableHolds ==
    Sound(nodes) /\ IsFiniteSet(KeysIn(nodes)) /\ node_ttl = Cardinality(KeysIn(nodes))
OwnersHold == \A v \in Vals : OwnedOnce(freed[v], Owners(nodes, v), v \in held)

LEMMA HashInvIs == HashInv <=> TypesHold /\ TableHolds /\ OwnersHold /\ LoopPlace
<1>1. TypeOK <=> TypesHold
  BY DEF TypeOK, TypesHold, Tables, Node
<1> QED BY <1>1, ChainsSoundIs, ValuesOwnedIs, StoredIs
        DEF HashInv, TypesHold, TableHolds, OwnersHold

-----------------------------------------------------------------------------
(* The order of the nodes *)

LEMMA LeastExists ==
    ASSUME NEW S \in SUBSET Nat, S # {}
    PROVE  \E m \in S : \A n \in S : m <= n
<1>1. PICK m \in S : \A n \in S : <<n, m>> \notin OpToRel(<, Nat)
  BY NatLessThanWellFounded, WFMin
<1>2. \A n \in S : ~(n < m)
  BY <1>1 DEF OpToRel
<1> QED BY <1>2

LEMMA GreatestExists ==
    ASSUME NEW S \in SUBSET Nat, S # {}, NEW top \in Nat, \A n \in S : n <= top
    PROVE  \E m \in S : \A n \in S : m >= n
<1> DEFINE T == {i \in 0..top : top - i \in S}
<1>1. T \in SUBSET Nat /\ T # {}
  <2>1. PICK n \in S : TRUE
    OBVIOUS
  <2>2. top - n \in 0..top /\ top - (top - n) = n
    OBVIOUS
  <2>3. top - n \in T
    BY <2>2
  <2>4. \A i \in T : i \in Nat
    OBVIOUS
  <2> HIDE DEF T
  <2> QED BY <2>3, <2>4
<1>2. PICK i \in T : \A j \in T : i <= j
  <2> HIDE DEF T
  <2> QED BY <1>1, LeastExists
<1>3. ASSUME NEW n \in S PROVE top - i >= n
  <2>1. top - n \in 0..top /\ top - (top - n) = n
    OBVIOUS
  <2>2. top - n \in T
    BY <2>1
  <2> QED BY <1>2, <2>2
<1> QED BY <1>2, <1>3

\* A linear order
LEMMA BeforeIsOrder ==
    ASSUME NEW t \in Tables, Sound(t)
    PROVE  /\ \A i, j \in KeysIn(t) : Before(t, i, j) \/ Before(t, j, i) \/ i = j
           /\ \A i, j \in KeysIn(t) : ~(Before(t, i, j) /\ Before(t, j, i))
           /\ \A i, j, k \in KeysIn(t) : Before(t, i, j) /\ Before(t, j, k) => Before(t, i, k)
<1>1. ASSUME NEW k \in KeysIn(t) PROVE Bucket(k) \in Nat /\ PosIn(t, k) \in Nat
  <2>1. Bucket(k) \in Buckets /\ Bucket(k) \in Nat
    BY BucketTypes, InItsChain
  <2>2. PICK c \in Seq(Node) : c = t[Bucket(k)]
    BY <2>1 DEF Tables
  <2>3. PosIn(t, k) \in 1..Len(c)
    BY <2>2, ValTypes
  <2> QED BY <2>1, <2>3
<1>2. \A i, j \in KeysIn(t) : Bucket(i) = Bucket(j) /\ PosIn(t, i) = PosIn(t, j) => i = j
  BY ValTypes
<1> QED BY <1>1, <1>2 DEF Before

LEMMA NeighboursInChain ==
    ASSUME NEW c \in Seq(Node), Distinct(c)
    PROVE  /\ c # <<>> => c[1].key \in KeysOf(c) /\ Pos(c, c[1].key) = 1
           /\ \A k \in KeysOf(c) : Pos(c, k) \in 1..Len(c)
           /\ \A k \in KeysOf(c) : Pos(c, k) < Len(c) =>
                /\ c[Pos(c, k) + 1].key \in KeysOf(c)
                /\ Pos(c, c[Pos(c, k) + 1].key) = Pos(c, k) + 1
           /\ c = <<>> => KeysOf(c) = {}
<1>1. ASSUME c # <<>> PROVE c[1].key \in KeysOf(c) /\ Pos(c, c[1].key) = 1
  <2>1. 1 \in 1..Len(c)
    BY <1>1
  <2> QED BY <2>1, PosIs DEF KeysOf
<1>2. \A k \in KeysOf(c) : Pos(c, k) \in 1..Len(c)
  BY PosIs
<1>3. ASSUME NEW k \in KeysOf(c), Pos(c, k) < Len(c)
      PROVE  /\ c[Pos(c, k) + 1].key \in KeysOf(c)
             /\ Pos(c, c[Pos(c, k) + 1].key) = Pos(c, k) + 1
  <2>1. PICK p \in 1..Len(c) : p = Pos(c, k)
    BY <1>2
  <2>2. p + 1 \in 1..Len(c)
    BY <1>3, <2>1
  <2>3. c[p + 1].key \in KeysOf(c) /\ Pos(c, c[p + 1].key) = p + 1
    BY <2>2, PosIs DEF KeysOf
  <2> QED BY <2>1, <2>3
<1>4. c = <<>> => KeysOf(c) = {}
  BY DEF KeysOf
<1> QED BY <1>1, <1>2, <1>3, <1>4

\* The first node of the chains from b on
LEMMA FirstFromIs ==
    ASSUME nodes \in Tables, Sound(nodes), NEW b \in Nat
    PROVE  \/ FirstFrom(b) = NULL /\ \A j \in KeysIn(nodes) : Bucket(j) < b
           \/ /\ FirstFrom(b) \in KeysIn(nodes) /\ Bucket(FirstFrom(b)) >= b
              /\ \A j \in KeysIn(nodes) :
                    Bucket(j) >= b => j = FirstFrom(b) \/ Before(nodes, FirstFrom(b), j)
<1> DEFINE filled == {i \in b..(Height - 1) : nodes[i] # <<>>}
<1>1. filled \in SUBSET Nat /\ \A i \in filled : i \in Buckets /\ i >= b /\ nodes[i] # <<>>
  <2>1. Height \in Nat
    BY TableAssumption
  <2> QED BY <2>1 DEF Buckets
<1>2. ASSUME NEW j \in KeysIn(nodes), Bucket(j) >= b PROVE Bucket(j) \in filled
  <2>1. j \in Keys /\ j \in KeysOf(nodes[Bucket(j)])
    BY InItsChain
  <2>2. Bucket(j) \in b..(Height - 1)
    BY <1>2, <2>1, BucketTypes DEF Buckets
  <2>3. nodes[Bucket(j)] # <<>>
    <3>1. \A i : i \notin 1..Len(<<>>)
      OBVIOUS
    <3>2. KeysOf(<<>>) = {}
      BY <3>1 DEF KeysOf
    <3> QED BY <2>1, <3>2
  <2> QED BY <2>2, <2>3
<1> DEFINE first == CHOOSE i \in filled : \A j \in filled : i <= j
<1>3. FirstFrom(b) = IF filled = {} THEN NULL ELSE nodes[first][1].key
  BY DEF FirstFrom
<1> HIDE DEF filled
<1>4. CASE filled = {}
  <2>1. ASSUME NEW j \in KeysIn(nodes) PROVE Bucket(j) < b
    <3>1. Bucket(j) \in Nat /\ ~(Bucket(j) >= b)
      BY <1>2, <1>4, BucketTypes, InItsChain
    <3> QED BY <3>1
  <2> QED BY <1>3, <1>4, <2>1
<1>5. CASE filled # {}
  <2>1. \E i \in filled : \A j \in filled : i <= j
    BY <1>1, <1>5, LeastExists
  <2>2. first \in filled /\ \A j \in filled : first <= j
    BY <2>1
  <2>3. PICK i \in Nat : i = first
    BY <1>1, <2>2
  <2>4. PICK c \in Seq(Node) : c = nodes[i]
    BY <1>1, <2>2, <2>3 DEF Tables
  <2>5. i \in Buckets /\ i >= b /\ c # <<>> /\ Distinct(c)
    BY <1>1, <2>2, <2>3, <2>4 DEF Sound
  <2>6. PICK k : k = c[1].key
    OBVIOUS
  <2>7. k \in KeysOf(c) /\ Pos(c, k) = 1
    BY <2>5, <2>6, NeighboursInChain
  <2>8. Bucket(k) = i /\ k \in KeysIn(nodes) /\ PosIn(nodes, k) = 1
    BY <2>4, <2>5, <2>7 DEF Sound, KeysIn, PosIn
  <2>9. FirstFrom(b) = k
    BY <1>3, <1>5, <2>3, <2>4, <2>6
  <2>10. ASSUME NEW j \in KeysIn(nodes), Bucket(j) >= b PROVE j = k \/ Before(nodes, k, j)
    <3>1. Bucket(j) \in Nat /\ i <= Bucket(j)
      BY <1>2, <2>2, <2>3, <2>10, BucketTypes, InItsChain
    <3>2. CASE i < Bucket(j)
      BY <2>8, <3>2 DEF Before
    <3>3. CASE i = Bucket(j)
      <4>1. PosIn(nodes, j) \in 1..Len(c) /\ c[PosIn(nodes, j)].key = j
        BY <2>4, <3>3, ValTypes
      <4>2. PosIn(nodes, j) = 1 \/ 1 < PosIn(nodes, j)
        BY <4>1
      <4> QED BY <2>6, <2>8, <3>3, <4>1, <4>2 DEF Before
    <3> QED BY <3>1, <3>2, <3>3
  <2> QED BY <2>5, <2>8, <2>9, <2>10
<1> QED BY <1>4, <1>5

\* The node after that of a key
LEMMA NextOfIs ==
    ASSUME nodes \in Tables, Sound(nodes), NEW k \in KeysIn(nodes)
    PROVE  \/ NextOf(k) = NULL /\ \A j \in KeysIn(nodes) : j = k \/ Before(nodes, j, k)
           \/ /\ NextOf(k) \in KeysIn(nodes) /\ NextOf(k) # k
              /\ \A j \in KeysIn(nodes) :
                    Before(nodes, j, NextOf(k)) <=> Before(nodes, j, k) \/ j = k
<1>1. k \in Keys /\ k \in KeysOf(nodes[Bucket(k)]) /\ Bucket(k) \in Buckets /\ Bucket(k) \in Nat
  BY BucketTypes, InItsChain
<1>2. PICK c \in Seq(Node) : c = nodes[Bucket(k)]
  BY <1>1 DEF Tables
<1>3. Distinct(c) /\ k \in KeysOf(c) /\ \A j \in KeysOf(c) : Bucket(j) = Bucket(k)
  BY <1>1, <1>2 DEF Sound
<1>4. PICK p \in 1..Len(c) : p = Pos(c, k) /\ p = PosIn(nodes, k) /\ p = Position(k)
  BY <1>2, <1>3, NeighboursInChain, ValueIs DEF PosIn
<1>5. NextOf(k) = IF p < Len(c) THEN c[p + 1].key ELSE FirstFrom(Bucket(k) + 1)
  BY <1>1, <1>2, <1>4, FoundIs DEF NextOf, Chain
<1>6. \A j \in KeysIn(nodes) : Bucket(j) \in Nat /\
        (Bucket(j) = Bucket(k) => PosIn(nodes, j) \in 1..Len(c) /\ c[PosIn(nodes, j)].key = j)
  BY <1>2, BucketTypes, InItsChain, ValTypes
<1>7. CASE p < Len(c)
  <2>1. PICK n : n = c[p + 1].key
    OBVIOUS
  <2>2. n \in KeysOf(c) /\ Pos(c, n) = p + 1
    BY <1>3, <1>4, <1>7, <2>1, NeighboursInChain
  <2>3. n \in KeysIn(nodes) /\ Bucket(n) = Bucket(k) /\ PosIn(nodes, n) = p + 1
    BY <1>1, <1>2, <1>3, <2>2 DEF KeysIn, PosIn
  <2>4. ASSUME NEW j \in KeysIn(nodes)
        PROVE  Before(nodes, j, n) <=> Before(nodes, j, k) \/ j = k
    <3>1. CASE Bucket(j) = Bucket(k)
      <4>1. PICK q \in 1..Len(c) : q = PosIn(nodes, j) /\ c[q].key = j
        BY <1>6, <3>1
      <4>2. q = p <=> j = k
        BY <1>3, <1>4, <4>1, PosIs
      <4>3. q < p + 1 <=> q < p \/ q = p
        OBVIOUS
      <4>4. Before(nodes, j, n) <=> q < p + 1
        BY <1>1, <2>3, <3>1, <4>1 DEF Before
      <4>5. Before(nodes, j, k) <=> q < p
        BY <1>1, <1>4, <3>1, <4>1 DEF Before
      <4> QED BY <4>2, <4>3, <4>4, <4>5
    <3>2. CASE Bucket(j) # Bucket(k)
      BY <2>3, <3>2 DEF Before
    <3> QED BY <3>1, <3>2
  <2>5. p + 1 # p /\ PosIn(nodes, k) = p
    BY <1>4
  <2>6. n # k
    BY <2>3, <2>5, Zenon
  <2> QED BY <1>5, <1>7, <2>1, <2>3, <2>4, <2>6
<1>8. CASE ~(p < Len(c))
  <2>1. NextOf(k) = FirstFrom(Bucket(k) + 1) /\ Bucket(k) + 1 \in Nat
    BY <1>1, <1>5, <1>8
  <2>2. ASSUME NEW j \in KeysIn(nodes), ~(Bucket(j) >= Bucket(k) + 1)
        PROVE  j = k \/ Before(nodes, j, k)
    <3>1. Bucket(j) < Bucket(k) \/ Bucket(j) = Bucket(k)
      BY <1>1, <1>6, <2>2
    <3>2. CASE Bucket(j) < Bucket(k)
      BY <3>2 DEF Before
    <3>3. CASE Bucket(j) = Bucket(k)
      <4>1. PICK q \in 1..Len(c) : q = PosIn(nodes, j) /\ c[q].key = j
        BY <1>6, <3>3
      <4>2. q < p \/ q = p
        BY <1>8
      <4>3. q = p => j = k
        BY <1>3, <1>4, <4>1, PosIs
      <4> QED BY <1>4, <3>3, <4>1, <4>2, <4>3 DEF Before
    <3> QED BY <3>1, <3>2, <3>3
  <2>3. \A j \in KeysIn(nodes) : Bucket(j) >= Bucket(k) + 1 =>
            ~Before(nodes, j, k) /\ j # k
    BY <1>1, <1>6 DEF Before
  <2>4. PICK n : n = FirstFrom(Bucket(k) + 1)
    OBVIOUS
  <2>5. \/ n = NULL /\ \A j \in KeysIn(nodes) : Bucket(j) < Bucket(k) + 1
        \/ /\ n \in KeysIn(nodes) /\ Bucket(n) >= Bucket(k) + 1
           /\ \A j \in KeysIn(nodes) :
                Bucket(j) >= Bucket(k) + 1 => j = n \/ Before(nodes, n, j)
    BY <2>1, <2>4, FirstFromIs
  <2>6. CASE n = NULL /\ \A j \in KeysIn(nodes) : Bucket(j) < Bucket(k) + 1
    <3>1. \A j \in KeysIn(nodes) : ~(Bucket(j) >= Bucket(k) + 1)
      BY <1>1, <1>6, <2>6
    <3> QED BY <2>1, <2>2, <2>4, <2>6, <3>1
  <2>7. CASE /\ n \in KeysIn(nodes) /\ Bucket(n) >= Bucket(k) + 1
             /\ \A j \in KeysIn(nodes) :
                  Bucket(j) >= Bucket(k) + 1 => j = n \/ Before(nodes, n, j)
    <3>1. n # k /\ ~Before(nodes, n, k)
      BY <2>3, <2>7
    <3>2. Before(nodes, k, n)
      BY <2>7, <3>1, BeforeIsOrder
    <3>3. ASSUME NEW j \in KeysIn(nodes)
          PROVE  Before(nodes, j, n) <=> Before(nodes, j, k) \/ j = k
      <4>1. CASE Bucket(j) >= Bucket(k) + 1
        BY <2>3, <2>7, <4>1, BeforeIsOrder
      <4>2. CASE ~(Bucket(j) >= Bucket(k) + 1)
        BY <2>2, <2>7, <3>2, <4>2, BeforeIsOrder
      <4> QED BY <4>1, <4>2
    <3> QED BY <2>1, <2>4, <2>7, <3>1, <3>3
  <2> QED BY <2>5, <2>6, <2>7
<1> QED BY <1>7, <1>8

-----------------------------------------------------------------------------
(* Who owns the values after a call *)

\* The node of k gets the value v, or is new; nothing else changes.
LEMMA OwnersOfSet ==
    ASSUME NEW t, NEW u, NEW k \in KeysIn(u), NEW v, Val(u, k) = v,
           KeysIn(u) = KeysIn(t) \cup {k},
           \A j \in KeysIn(t) \ {k} : Val(u, j) = Val(t, j)
    PROVE  \A w : Owners(u, w) = (Owners(t, w) \ {k}) \cup (IF w = v THEN {k} ELSE {})
<1>1. ASSUME NEW w
      PROVE  Owners(u, w) = (Owners(t, w) \ {k}) \cup (IF w = v THEN {k} ELSE {})
  <2>1. \A j : j \in Owners(u, w) => j \in Owners(t, w) \ {k} \/ (j = k /\ w = v)
    BY DEF Owners
  <2>2. \A j : j \in Owners(t, w) \ {k} \/ (j = k /\ w = v) => j \in Owners(u, w)
    BY DEF Owners
  <2> QED BY <2>1, <2>2
<1> QED BY <1>1

LEMMA OwnersOfRest ==
    ASSUME NEW t, NEW u, NEW k, KeysIn(u) = KeysIn(t) \ {k},
           \A j \in KeysIn(u) : Val(u, j) = Val(t, j)
    PROVE  \A w : Owners(u, w) = Owners(t, w) \ {k}
BY DEF Owners

\* The value of a node is owned by that node only.
LEMMA OwnerIs ==
    ASSUME OwnersHold, NEW k \in KeysIn(nodes), NEW v \in Vals
    PROVE  /\ v = Val(nodes, k) =>
                freed[v] = 0 /\ Owners(nodes, v) = {k} /\ v \notin held
           /\ v # Val(nodes, k) => k \notin Owners(nodes, v)
           /\ v \in held => freed[v] = 0 /\ Owners(nodes, v) = {}
<1>1. OwnedOnce(freed[v], Owners(nodes, v), v \in held)
  BY DEF OwnersHold
<1>2. v = Val(nodes, k) <=> k \in Owners(nodes, v)
  BY DEF Owners
<1>3. ASSUME v = Val(nodes, k)
      PROVE  freed[v] = 0 /\ Owners(nodes, v) = {k} /\ v \notin held
  <2>1. k \in Owners(nodes, v)
    BY <1>2, <1>3
  <2>2. freed[v] = 0 /\ v \notin held /\ \E x : Owners(nodes, v) = {x}
    BY <1>1, <2>1 DEF OwnedOnce
  <2> QED BY <2>1, <2>2
<1>4. v \in held => freed[v] = 0 /\ Owners(nodes, v) = {}
  BY <1>1 DEF OwnedOnce
<1> QED BY <1>2, <1>3, <1>4

LEMMA FreesIs ==
    ASSUME NEW S, Frees(S), freed \in [Vals -> Nat]
    PROVE  /\ freed' \in [Vals -> Nat]
           /\ \A v \in Vals : freed'[v] = IF v \in S THEN freed[v] + 1 ELSE freed[v]
<1>1. \A v \in Vals : freed[v] \in Nat /\ freed[v] + 1 \in Nat /\ freed[v] + 0 = freed[v]
  OBVIOUS
<1>2. \A v \in Vals : freed'[v] = IF v \in S THEN freed[v] + 1 ELSE freed[v]
  BY <1>1 DEF Frees
<1> QED BY <1>1, <1>2 DEF Frees

-----------------------------------------------------------------------------
(* What the calls do to the table *)

LEMMA Located ==
    ASSUME TypesHold, TableHolds, NEW k \in Keys
    PROVE  /\ Found(k) <=> k \in KeysIn(nodes)
           /\ k \in KeysIn(nodes) => ValueOf(k) = Val(nodes, k) /\ Val(nodes, k) \in Values
BY FoundIs, ValueIs, ValTypes DEF TypesHold, TableHolds

LEMMA SetValueIs ==
    ASSUME TypesHold, TableHolds, NEW k \in KeysIn(nodes), NEW v \in Values, SetValue(k, v)
    PROVE  /\ nodes' \in Tables /\ Sound(nodes') /\ KeysIn(nodes') = KeysIn(nodes)
           /\ Val(nodes', k) = v
           /\ \A j \in KeysIn(nodes) \ {k} : Val(nodes', j) = Val(nodes, j)
<1>1. Position(k) = Pos(nodes[Bucket(k)], k)
  BY ValueIs DEF PosIn
<1>2. nodes' = Set(nodes, k, v)
  BY <1>1, Zenon DEF SetValue, Revalued, Set
<1> QED BY <1>2, Setting DEF TypesHold, TableHolds

LEMMA UnlinkIs ==
    ASSUME TypesHold, TableHolds, NEW k \in KeysIn(nodes), Unlink(k)
    PROVE  /\ nodes' \in Tables /\ Sound(nodes') /\ KeysIn(nodes') = KeysIn(nodes) \ {k}
           /\ \A j \in KeysIn(nodes') : Val(nodes', j) = Val(nodes, j)
           /\ \A i, j \in KeysIn(nodes') : Before(nodes', i, j) <=> Before(nodes, i, j)
<1>1. nodes' = Without(nodes, k)
  BY ValueIs, Zenon DEF Unlink, Without
<1> QED BY <1>1, Removing DEF TypesHold, TableHolds

\* The node counter follows
LEMMA OneLess ==
    ASSUME TypesHold, TableHolds, NEW k \in KeysIn(nodes), NEW S, S = KeysIn(nodes) \ {k}
    PROVE  IsFiniteSet(S) /\ node_ttl - 1 = Cardinality(S) /\ node_ttl - 1 \in Nat
<1>1. IsFiniteSet(KeysIn(nodes)) /\ node_ttl = Cardinality(KeysIn(nodes))
  BY DEF TableHolds
<1>2. IsFiniteSet(S) /\ Cardinality(S) = Cardinality(KeysIn(nodes)) - 1
  BY <1>1, FS_RemoveElement
<1>3. Cardinality(S) \in Nat
  BY <1>2, FS_CardinalityType
<1> QED BY <1>1, <1>2, <1>3

-----------------------------------------------------------------------------
(* The calls preserve the invariant *)

Parts == TypesHold /\ TableHolds /\ OwnersHold /\ LoopPlace

LEMMA LoopUntouched ==
    ASSUME LoopPlace, Idle, LoopIdle PROVE LoopPlace'
BY DEF LoopPlace, Idle, LoopIdle

\* A value given away: it is NULL or was the caller's.
LEMMA GivenTypes ==
    ASSUME TypesHold, NEW v \in held \cup {NULL}
    PROVE  v \in Values /\ NULL \notin Vals /\ (v \in Vals => v \in held)
BY TableAssumption DEF TypesHold, Values

LEMMA InsertReplacesSafe ==
    ASSUME Parts, NEW k \in Keys, NEW v \in held \cup {NULL}, InsertReplaces(k, v)
    PROVE  Parts'
<1> USE DEF Parts
<1>1. k \in KeysIn(nodes) /\ ValueOf(k) = Val(nodes, k)
  BY Located DEF InsertReplaces
<1>2. v \in Values /\ NULL \notin Vals /\ (v \in Vals => v \in held)
  BY GivenTypes
<1>3. /\ nodes' \in Tables /\ Sound(nodes') /\ KeysIn(nodes') = KeysIn(nodes)
      /\ Val(nodes', k) = v
      /\ \A j \in KeysIn(nodes) \ {k} : Val(nodes', j) = Val(nodes, j)
  BY <1>1, <1>2, SetValueIs DEF InsertReplaces
<1>4. /\ freed' \in [Vals -> Nat]
      /\ \A w \in Vals : freed'[w] = IF w = Val(nodes, k) THEN freed[w] + 1 ELSE freed[w]
  BY <1>1, FreesIs DEF InsertReplaces, TypesHold
<1>5. TypesHold'
  BY <1>3, <1>4 DEF TypesHold, InsertReplaces, LoopIdle
<1>6. TableHolds'
  BY <1>3 DEF TableHolds, InsertReplaces
<1>7. OwnersHold'
  <2>1. SUFFICES ASSUME NEW w \in Vals
                 PROVE  OwnedOnce(freed'[w], Owners(nodes', w), w \in held')
    BY DEF OwnersHold
  <2>2. Owners(nodes', w) = (Owners(nodes, w) \ {k}) \cup (IF w = v THEN {k} ELSE {})
    BY <1>1, <1>3, OwnersOfSet
  <2>3. OwnedOnce(freed[w], Owners(nodes, w), w \in held)
    BY DEF OwnersHold
  <2>4. w \in held' <=> w \in held /\ w # v
    BY DEF InsertReplaces
  <2>5. CASE w = v
    <3>1. w \in held /\ freed[w] = 0 /\ Owners(nodes, w) = {} /\ w # Val(nodes, k)
      BY <1>1, <1>2, <2>5, OwnerIs
    <3>2. freed'[w] = 0 /\ w \notin held' /\ Owners(nodes', w) = {k}
      BY <1>4, <2>2, <2>4, <2>5, <3>1
    <3> QED BY <3>2 DEF OwnedOnce
  <2>6. CASE w # v /\ w = Val(nodes, k)
    <3>1. w \notin held /\ freed[w] = 0 /\ Owners(nodes, w) = {k}
      BY <1>1, <2>6, OwnerIs
    <3>2. freed'[w] = 1 /\ w \notin held' /\ Owners(nodes', w) = {}
      BY <1>4, <2>2, <2>4, <2>6, <3>1
    <3> QED BY <3>2 DEF OwnedOnce
  <2>7. CASE w # v /\ w # Val(nodes, k)
    <3>1. k \notin Owners(nodes, w)
      BY <1>1, <2>7, OwnerIs
    <3>2. freed'[w] = freed[w] /\ (w \in held' <=> w \in held)
          /\ Owners(nodes', w) = Owners(nodes, w)
      BY <1>4, <2>2, <2>4, <2>7, <3>1
    <3> QED BY <2>3, <3>2 DEF OwnedOnce
  <2> QED BY <2>5, <2>6, <2>7
<1>8. LoopPlace'
  BY LoopUntouched DEF InsertReplaces
<1> QED BY <1>5, <1>6, <1>7, <1>8

LEMMA InsertNewSafe ==
    ASSUME Parts, NEW k \in Keys, NEW v \in held \cup {NULL}, InsertNew(k, v)
    PROVE  /\ Parts'
           /\ k \notin KeysIn(nodes) /\ KeysIn(nodes') = KeysIn(nodes) \cup {k}
           /\ Val(nodes', k) = v /\ \A j \in KeysIn(nodes) : Val(nodes', j) = Val(nodes, j)
<1> USE DEF Parts
<1>1. k \notin KeysIn(nodes)
  BY Located DEF InsertNew
<1>2. v \in Values /\ NULL \notin Vals /\ (v \in Vals => v \in held)
  BY GivenTypes
<1>3. /\ nodes' \in Tables /\ Sound(nodes') /\ KeysIn(nodes') = KeysIn(nodes) \cup {k}
      /\ Val(nodes', k) = v /\ \A j \in KeysIn(nodes) : Val(nodes', j) = Val(nodes, j)
  <2>1. nodes' = With(nodes, k, v)
    BY Zenon DEF InsertNew, With, InFront
  <2> QED BY <1>1, <1>2, <2>1, Inserting DEF TypesHold, TableHolds
<1>4. TypesHold'
  BY <1>3 DEF TypesHold, InsertNew, LoopIdle
<1>5. TableHolds'
  <2>1. IsFiniteSet(KeysIn(nodes)) /\ node_ttl = Cardinality(KeysIn(nodes))
    BY DEF TableHolds
  <2>2. /\ IsFiniteSet(KeysIn(nodes) \cup {k})
        /\ Cardinality(KeysIn(nodes) \cup {k}) = Cardinality(KeysIn(nodes)) + 1
    BY <1>1, <2>1, FS_AddElement
  <2> QED BY <1>3, <2>1, <2>2 DEF TableHolds, InsertNew
<1>6. OwnersHold'
  <2>1. SUFFICES ASSUME NEW w \in Vals
                 PROVE  OwnedOnce(freed'[w], Owners(nodes', w), w \in held')
    BY DEF OwnersHold
  <2>2. Owners(nodes', w) = Owners(nodes, w) \cup (IF w = v THEN {k} ELSE {})
    <3>1. Owners(nodes', w) = (Owners(nodes, w) \ {k}) \cup (IF w = v THEN {k} ELSE {})
      BY <1>3, OwnersOfSet
    <3>2. k \notin Owners(nodes, w)
      BY <1>1 DEF Owners
    <3> QED BY <3>1, <3>2
  <2>3. OwnedOnce(freed[w], Owners(nodes, w), w \in held) /\ freed' = freed
    BY DEF OwnersHold, InsertNew
  <2>4. w \in held' <=> w \in held /\ w # v
    BY DEF InsertNew
  <2>5. CASE w = v
    <3>1. w \in held
      BY <1>2, <2>5
    <3>2. freed[w] = 0 /\ Owners(nodes, w) = {}
      BY <2>3, <3>1 DEF OwnedOnce
    <3> QED BY <2>2, <2>3, <2>4, <2>5, <3>2 DEF OwnedOnce
  <2>6. CASE w # v
    <3>1. (w \in held' <=> w \in held) /\ Owners(nodes', w) = Owners(nodes, w)
      BY <2>2, <2>4, <2>6
    <3> QED BY <2>3, <3>1 DEF OwnedOnce
  <2> QED BY <2>5, <2>6
<1>7. LoopPlace'
  BY LoopUntouched DEF InsertNew
<1> QED BY <1>1, <1>3, <1>4, <1>5, <1>6, <1>7

\* The node of a key unlinked and its value freed, by Delete or by a loop
LEMMA RemoveSafe ==
    ASSUME TypesHold, TableHolds, OwnersHold, NEW k \in KeysIn(nodes), Unlink(k),
           Frees({ValueOf(k)}), node_ttl' = node_ttl - 1, UNCHANGED held
    PROVE  /\ TableHolds' /\ OwnersHold'
           /\ nodes' \in Tables /\ node_ttl' \in Nat /\ freed' \in [Vals -> Nat]
<1>1. /\ nodes' \in Tables /\ Sound(nodes') /\ KeysIn(nodes') = KeysIn(nodes) \ {k}
      /\ \A j \in KeysIn(nodes') : Val(nodes', j) = Val(nodes, j)
  BY UnlinkIs
<1>2. /\ freed' \in [Vals -> Nat]
      /\ \A w \in Vals : freed'[w] = IF w = Val(nodes, k) THEN freed[w] + 1 ELSE freed[w]
  <2>1. ValueOf(k) = Val(nodes, k)
    BY ValueIs
  <2> QED BY <2>1, FreesIs DEF TypesHold
<1>3. node_ttl' \in Nat /\ TableHolds'
  <2>1. IsFiniteSet(KeysIn(nodes')) /\ node_ttl' = Cardinality(KeysIn(nodes'))
        /\ node_ttl' \in Nat
    BY <1>1, OneLess
  <2> QED BY <1>1, <2>1 DEF TableHolds
<1>4. OwnersHold'
  <2>1. SUFFICES ASSUME NEW w \in Vals
                 PROVE  OwnedOnce(freed'[w], Owners(nodes', w), w \in held')
    BY DEF OwnersHold
  <2>2. Owners(nodes', w) = Owners(nodes, w) \ {k}
    BY <1>1, OwnersOfRest
  <2>3. OwnedOnce(freed[w], Owners(nodes, w), w \in held)
    BY DEF OwnersHold
  <2>4. CASE w = Val(nodes, k)
    <3>1. w \notin held /\ freed[w] = 0 /\ Owners(nodes, w) = {k}
      BY <2>4, OwnerIs
    <3>2. freed'[w] = 1 /\ w \notin held' /\ Owners(nodes', w) = {}
      BY <1>2, <2>2, <2>4, <3>1
    <3> QED BY <3>2 DEF OwnedOnce
  <2>5. CASE w # Val(nodes, k)
    <3>1. k \notin Owners(nodes, w)
      BY <2>5, OwnerIs
    <3>2. freed'[w] = freed[w] /\ (w \in held' <=> w \in held)
          /\ Owners(nodes', w) = Owners(nodes, w)
      BY <1>2, <2>2, <2>5, <3>1
    <3> QED BY <2>3, <3>2 DEF OwnedOnce
  <2> QED BY <2>4, <2>5
<1> QED BY <1>1, <1>2, <1>3, <1>4

LEMMA DeleteSafe ==
    ASSUME Parts, NEW k \in Keys, Delete(k)
    PROVE  Parts'
<1> USE DEF Parts
<1>1. LoopPlace'
  BY LoopUntouched DEF Delete
<1>2. CASE k \in KeysIn(nodes)
  <2>1. Unlink(k) /\ Frees({ValueOf(k)}) /\ node_ttl' = node_ttl - 1 /\ UNCHANGED held
    BY <1>2, Located DEF Delete
  <2>2. /\ TableHolds' /\ OwnersHold'
        /\ nodes' \in Tables /\ node_ttl' \in Nat /\ freed' \in [Vals -> Nat]
    BY <1>2, <2>1, RemoveSafe
  <2>3. TypesHold'
    BY <2>2 DEF TypesHold, Delete, LoopIdle
  <2> QED BY <1>1, <2>2, <2>3
<1>3. CASE k \notin KeysIn(nodes)
  <2>1. nodes' = nodes /\ node_ttl' = node_ttl /\ freed' = freed /\ held' = held
    BY <1>3, Located DEF Delete, table
  <2>2. TypesHold'
    BY <2>1 DEF TypesHold, Delete, LoopIdle
  <2> QED BY <1>1, <2>1, <2>2 DEF TableHolds, OwnersHold
<1> QED BY <1>2, <1>3

LEMMA UpdateSafe ==
    ASSUME Parts, NEW k \in Keys, NEW v \in held \cup {NULL}, Update(k, v)
    PROVE  Parts'
<1> USE DEF Parts
<1>1. LoopPlace'
  BY LoopUntouched DEF Update
<1>2. v \in Values /\ NULL \notin Vals /\ (v \in Vals => v \in held)
  BY GivenTypes
<1>3. CASE k \in KeysIn(nodes)
  <2>1. /\ SetValue(k, v) /\ ret' = Val(nodes, k) /\ Val(nodes, k) \in Values
        /\ held' = (held \ {v}) \cup ({Val(nodes, k)} \ {NULL})
        /\ node_ttl' = node_ttl /\ freed' = freed
    BY <1>3, Located DEF Update
  <2>2. /\ nodes' \in Tables /\ Sound(nodes') /\ KeysIn(nodes') = KeysIn(nodes)
        /\ Val(nodes', k) = v
        /\ \A j \in KeysIn(nodes) \ {k} : Val(nodes', j) = Val(nodes, j)
    BY <1>2, <1>3, <2>1, SetValueIs
  <2>3. TypesHold'
    BY <2>1, <2>2 DEF TypesHold, Update, LoopIdle, Values
  <2>4. TableHolds'
    BY <2>1, <2>2 DEF TableHolds
  <2>5. OwnersHold'
    <3>1. SUFFICES ASSUME NEW w \in Vals
                   PROVE  OwnedOnce(freed'[w], Owners(nodes', w), w \in held')
      BY DEF OwnersHold
    <3>2. Owners(nodes', w) = (Owners(nodes, w) \ {k}) \cup (IF w = v THEN {k} ELSE {})
      BY <1>3, <2>2, OwnersOfSet
    <3>3. OwnedOnce(freed[w], Owners(nodes, w), w \in held)
      BY DEF OwnersHold
    <3>4. w \in held' <=> (w \in held /\ w # v) \/ w = Val(nodes, k)
      BY <1>2, <2>1
    <3>5. CASE w = v
      <4>1. freed[w] = 0 /\ Owners(nodes, w) = {} /\ w # Val(nodes, k)
        BY <1>2, <1>3, <3>5, OwnerIs
      <4>2. freed'[w] = 0 /\ w \notin held' /\ Owners(nodes', w) = {k}
        BY <2>1, <3>2, <3>4, <3>5, <4>1
      <4> QED BY <4>2 DEF OwnedOnce
    <3>6. CASE w # v /\ w = Val(nodes, k)
      <4>1. freed[w] = 0 /\ Owners(nodes, w) = {k}
        BY <1>3, <3>6, OwnerIs
      <4>2. freed'[w] = 0 /\ w \in held' /\ Owners(nodes', w) = {}
        BY <2>1, <3>2, <3>4, <3>6, <4>1
      <4> QED BY <4>2 DEF OwnedOnce
    <3>7. CASE w # v /\ w # Val(nodes, k)
      <4>1. k \notin Owners(nodes, w)
        BY <1>3, <3>7, OwnerIs
      <4>2. freed'[w] = freed[w] /\ (w \in held' <=> w \in held)
            /\ Owners(nodes', w) = Owners(nodes, w)
        BY <2>1, <3>2, <3>4, <3>7, <4>1
      <4> QED BY <3>3, <4>2 DEF OwnedOnce
    <3> QED BY <3>5, <3>6, <3>7
  <2> QED BY <1>1, <2>3, <2>4, <2>5
<1>4. CASE k \notin KeysIn(nodes)
  <2>1. nodes' = nodes /\ node_ttl' = node_ttl /\ freed' = freed /\ held' = held /\ ret' = NULL
    BY <1>4, Located DEF Update
  <2>2. TypesHold'
    BY <2>1 DEF TypesHold, Update, LoopIdle, Values
  <2> QED BY <1>1, <2>1, <2>2 DEF TableHolds, OwnersHold
<1> QED BY <1>3, <1>4

\* Calls that leave the table and the values alone
LEMMA LookSafe ==
    ASSUME Parts, UNCHANGED <<table, held, freed>>, LoopPlace',
           ret' \in {"ok", "error"} \cup Values, loop' \in {"none", "walk", "clear"},
           item' \in Keys \cup {NULL}, seen' \in Seq(Keys)
    PROVE  Parts'
<1> USE DEF Parts
<1>1. nodes' = nodes /\ node_ttl' = node_ttl /\ held' = held /\ freed' = freed
  BY DEF table
<1>2. TypesHold'
  BY <1>1 DEF TypesHold
<1>3. TableHolds' /\ OwnersHold'
  BY <1>1 DEF TableHolds, OwnersHold
<1> QED BY <1>2, <1>3

LEMMA FindSafe ==
    ASSUME Parts, NEW k \in Keys, InsertFails(k) \/ Find(k)
    PROVE  Parts'
<1>1. LoopPlace'
  BY LoopUntouched DEF Parts, InsertFails, Find
<1>2. ret' \in {"ok", "error"} \cup Values
  BY Located DEF Parts, InsertFails, Find, Values
<1>3. loop' \in {"none", "walk", "clear"} /\ item' \in Keys \cup {NULL} /\ seen' \in Seq(Keys)
  BY DEF Parts, TypesHold, InsertFails, Find, LoopIdle
<1>4. UNCHANGED <<table, held, freed>>
  BY DEF InsertFails, Find
<1> QED BY <1>1, <1>2, <1>3, <1>4, LookSafe

\* There are as many places as keys.
LEMMA PlacesAreKeys ==
    ASSUME TypesHold, TableHolds
    PROVE  Cardinality(Places) = Cardinality(KeysIn(nodes))
<1> DEFINE f == [k \in KeysIn(nodes) |-> <<Bucket(k), PosIn(nodes, k)>>]
<1>1. nodes \in Tables /\ Sound(nodes)
  BY DEF TypesHold, TableHolds
<1>2. \A k \in KeysIn(nodes) : Bucket(k) \in Buckets
  BY <1>1, BucketTypes, InItsChain
<1>3. f \in [KeysIn(nodes) -> Places]
  BY <1>1, <1>2, ValTypes DEF Places
<1>4. \A j, k \in KeysIn(nodes) : f[j] = f[k] => j = k
  BY <1>1, ValTypes
<1>5. ASSUME NEW q \in Places PROVE \E k \in KeysIn(nodes) : f[k] = q
  <2>1. PICK b \in Buckets : \E i \in 1..Len(nodes[b]) : q = <<b, i>>
    BY DEF Places
  <2>2. PICK c \in Seq(Node) : c = nodes[b]
    BY <1>1 DEF Tables
  <2>3. PICK i \in 1..Len(c) : q = <<b, i>>
    BY <2>1, <2>2
  <2>4. Distinct(c) /\ c[i].key \in KeysOf(c) /\ Bucket(c[i].key) = b
    BY <1>1, <2>2 DEF Sound, KeysOf
  <2>5. Pos(c, c[i].key) = i
    BY <2>4, PosIs
  <2>6. c[i].key \in KeysIn(nodes)
    BY <2>2, <2>4 DEF KeysIn
  <2> QED BY <2>2, <2>3, <2>4, <2>5, <2>6 DEF PosIn
<1> HIDE DEF f
<1>6. f \in Bijection(KeysIn(nodes), Places)
  BY <1>3, <1>4, <1>5 DEF Bijection, Injection, Surjection, IsInjective
<1> QED BY <1>6, FS_Bijection DEF TableHolds, ExistsBijection

LEMMA ResetSafe ==
    ASSUME Parts, Reset
    PROVE  Parts' /\ KeysIn(nodes') = {} /\ ret' = "ok"
<1> USE DEF Parts
<1>1. nodes' \in Tables /\ Sound(nodes') /\ KeysIn(nodes') = {}
  <2>1. \A b \in Buckets : nodes'[b] = <<>>
    BY DEF Reset
  <2>2. \A i : i \notin 1..Len(<<>>)
    OBVIOUS
  <2>3. Distinct(<<>>) /\ KeysOf(<<>>) = {}
    BY <2>2 DEF Distinct, KeysOf
  <2> QED BY <2>1, <2>3 DEF Reset, Tables, Sound, KeysIn
<1>2. node_ttl' = 0 /\ ret' = "ok"
  <2>1. node_ttl \in Nat /\ node_ttl = Cardinality(Places)
    BY PlacesAreKeys DEF TypesHold, TableHolds
  <2>2. node_ttl - Cardinality(Places) = 0
    BY <2>1
  <2> QED BY <2>2 DEF Reset
<1>3. /\ freed' \in [Vals -> Nat]
      /\ \A w \in Vals : freed'[w] =
            IF w \in {ValueOf(k) : k \in Stored} THEN freed[w] + 1 ELSE freed[w]
  BY FreesIs DEF Reset, TypesHold
<1>4. \A w : w \in {ValueOf(k) : k \in Stored} <=> Owners(nodes, w) # {}
  BY StoredIs, ValueIs DEF Owners
<1>5. TypesHold'
  BY <1>1, <1>2, <1>3 DEF TypesHold, Reset, LoopIdle
<1>6. TableHolds'
  BY <1>1, <1>2, FS_EmptySet DEF TableHolds
<1>7. OwnersHold'
  <2>1. SUFFICES ASSUME NEW w \in Vals
                 PROVE  OwnedOnce(freed'[w], Owners(nodes', w), w \in held')
    BY DEF OwnersHold
  <2>2. Owners(nodes', w) = {}
    BY <1>1 DEF Owners
  <2>3. OwnedOnce(freed[w], Owners(nodes, w), w \in held) /\ held' = held
    BY DEF OwnersHold, Reset
  <2>4. freed'[w] = IF Owners(nodes, w) # {} THEN freed[w] + 1 ELSE freed[w]
    BY <1>3, <1>4
  <2> QED BY <2>2, <2>3, <2>4 DEF OwnedOnce
<1>8. LoopPlace'
  BY LoopUntouched DEF Reset
<1> QED BY <1>1, <1>2, <1>5, <1>6, <1>7, <1>8

-----------------------------------------------------------------------------
(* The loops *)

LEMMA SeenGrows ==
    ASSUME NEW s \in Seq(Keys), NEW x \in Keys
    PROVE  /\ Append(s, x) \in Seq(Keys)
           /\ ToSet(Append(s, x)) = ToSet(s) \cup {x}
           /\ IsInjective(s) /\ x \notin ToSet(s) => IsInjective(Append(s, x))
<1>1. /\ Append(s, x) \in Seq(Keys)
      /\ Len(Append(s, x)) = Len(s) + 1 /\ Append(s, x)[Len(s) + 1] = x
      /\ \A i \in 1..Len(s) : Append(s, x)[i] = s[i]
  OBVIOUS
<1>2. PICK r \in Seq(Keys) :
        /\ r = Append(s, x) /\ Len(r) = Len(s) + 1 /\ r[Len(s) + 1] = x
        /\ \A i \in 1..Len(s) : r[i] = s[i]
  BY <1>1, Zenon
<1>3. DOMAIN r = 1..Len(s) \cup {Len(s) + 1} /\ DOMAIN s = 1..Len(s)
  BY <1>2
<1>4. ToSet(r) = ToSet(s) \cup {x}
  BY <1>2, <1>3 DEF ToSet
<1>5. IsInjective(s) /\ x \notin ToSet(s) => IsInjective(r)
  BY <1>2, <1>3 DEF ToSet, IsInjective
<1> QED BY <1>2, <1>4, <1>5, Zenon

LEMMA NoneSeen ==
    ToSet(<<>>) = {} /\ IsInjective(<<>>) /\ <<>> \in Seq(Keys)
BY DEF ToSet, IsInjective

LEMMA BeginSafe ==
    ASSUME Parts, NEW kind \in {"walk", "clear"}, Begin(kind)
    PROVE  Parts'
<1>1. UNCHANGED <<table, held, freed, ret>> /\ loop' = kind /\ item' = FirstFrom(0) /\ seen' = <<>>
  BY DEF Begin
<1>2. nodes \in Tables /\ Sound(nodes) /\ nodes' = nodes
  BY <1>1 DEF Parts, TypesHold, TableHolds, table
<1>3. \A j \in KeysIn(nodes) : j \in Keys /\ j # NULL /\ Bucket(j) \in Nat /\ ~(Bucket(j) < 0)
  <2>1. \A j \in KeysIn(nodes) : Bucket(j) \in Nat /\ j \in Keys
    BY <1>2, BucketTypes, InItsChain
  <2> QED BY <2>1, TableAssumption
<1>4. PICK n : n = FirstFrom(0)
  OBVIOUS
<1>5. \/ n = NULL /\ KeysIn(nodes) = {}
      \/ n \in KeysIn(nodes) /\ \A j \in KeysIn(nodes) : j = n \/ Before(nodes, n, j)
  <2>1. \/ n = NULL /\ \A j \in KeysIn(nodes) : Bucket(j) < 0
        \/ /\ n \in KeysIn(nodes)
           /\ \A j \in KeysIn(nodes) : Bucket(j) >= 0 => j = n \/ Before(nodes, n, j)
    BY <1>2, <1>4, FirstFromIs
  <2>2. \A j \in KeysIn(nodes) : Bucket(j) >= 0
    BY <1>3
  <2> QED BY <1>3, <2>1, <2>2
<1>6. \A j \in KeysIn(nodes) : n \in KeysIn(nodes) /\ ~Before(nodes, j, n)
  BY <1>2, <1>5, BeforeIsOrder
<1>7. LoopPlace'
  <2>1. item' = n /\ nodes' = nodes /\ ToSet(seen') = {} /\ IsInjective(seen') /\ loop' = kind
    BY <1>1, <1>2, <1>4, NoneSeen
  <2>2. loop' # "none" /\ item' # NULL => item' \in KeysIn(nodes')
    BY <1>5, <2>1
  <2>3. ToSet(seen') = IF item' = NULL THEN KeysIn(nodes')
                       ELSE {j \in KeysIn(nodes') : Before(nodes', j, item')}
    BY <1>3, <1>5, <1>6, <2>1
  <2>4. /\ ToSet(seen') \cap KeysIn(nodes') = {}
        /\ \A j \in KeysIn(nodes') : item' # NULL /\ ~Before(nodes', j, item')
    BY <1>3, <1>6, <2>1
  <2> QED BY <2>1, <2>2, <2>3, <2>4 DEF LoopPlace
<1>8. loop' \in {"none", "walk", "clear"} /\ item' \in Keys \cup {NULL} /\ seen' \in Seq(Keys)
  BY <1>1, <1>3, <1>4, <1>5, NoneSeen
<1>9. ret' \in {"ok", "error"} \cup Values
  BY <1>1 DEF Parts, TypesHold
<1> QED BY <1>1, <1>7, <1>8, <1>9, LookSafe

LEMMA EndSafe ==
    ASSUME Parts, End
    PROVE  Parts'
<1>1. UNCHANGED <<table, held, freed, ret, item>> /\ loop' = "none" /\ seen' = <<>>
  BY DEF End
<1>2. LoopPlace'
  BY <1>1, NoneSeen DEF LoopPlace
<1>3. /\ loop' \in {"none", "walk", "clear"} /\ item' \in Keys \cup {NULL}
      /\ seen' \in Seq(Keys) /\ ret' \in {"ok", "error"} \cup Values
  BY <1>1, NoneSeen DEF Parts, TypesHold
<1> QED BY <1>1, <1>2, <1>3, LookSafe

LEMMA StepSafe ==
    ASSUME Parts, Step
    PROVE  Parts'
<1> USE DEF Parts
<1>1. /\ loop # "none" /\ item # NULL /\ item \in KeysIn(nodes) /\ item \in Keys
      /\ nodes \in Tables /\ Sound(nodes) /\ seen \in Seq(Keys)
  <2>1. loop # "none" /\ item # NULL /\ nodes \in Tables /\ Sound(nodes) /\ seen \in Seq(Keys)
    BY DEF Step, TypesHold, TableHolds
  <2> QED BY <2>1, InItsChain DEF LoopPlace
<1>2. item' = NextOf(item) /\ seen' = Append(seen, item) /\ loop' = loop /\ held' = held
  BY DEF Step
<1>3. PICK n : n = NextOf(item)
  OBVIOUS
<1>4. \/ n = NULL /\ \A j \in KeysIn(nodes) : j = item \/ Before(nodes, j, item)
      \/ /\ n \in KeysIn(nodes) /\ n # item
         /\ \A j \in KeysIn(nodes) : Before(nodes, j, n) <=> Before(nodes, j, item) \/ j = item
  BY <1>1, <1>3, NextOfIs
<1>5. n \in KeysIn(nodes) => n \in Keys /\ n # NULL
  BY <1>1, InItsChain, TableAssumption
<1>6. ~Before(nodes, item, item)
  BY <1>1, BeforeIsOrder
<1>7. item \notin ToSet(seen)
  BY <1>1, <1>6 DEF LoopPlace, TypesHold
<1>8. seen' \in Seq(Keys) /\ ToSet(seen') = ToSet(seen) \cup {item} /\ IsInjective(seen')
  BY <1>1, <1>2, <1>7, SeenGrows DEF LoopPlace
<1>9. item' = n /\ item' \in Keys \cup {NULL}
  BY <1>2, <1>3, <1>4, <1>5
<1>10. CASE loop = "walk"
  <2>1. UNCHANGED <<table, held, freed, ret>>
    BY <1>10 DEF Step
  <2>2. nodes' = nodes
    BY <2>1 DEF table
  <2>3. ToSet(seen) = {j \in KeysIn(nodes) : Before(nodes, j, item)}
    BY <1>1, <1>10 DEF LoopPlace
  <2>4. ToSet(seen') = IF n = NULL THEN KeysIn(nodes) ELSE {j \in KeysIn(nodes) : Before(nodes, j, n)}
    BY <1>1, <1>4, <1>5, <1>8, <2>3
  <2>5. LoopPlace'
    BY <1>2, <1>4, <1>8, <1>9, <1>10, <2>2, <2>4 DEF LoopPlace
  <2>6. ret' \in {"ok", "error"} \cup Values /\ loop' \in {"none", "walk", "clear"}
    BY <1>2, <2>1 DEF TypesHold
  <2> QED BY <1>8, <1>9, <2>1, <2>5, <2>6, LookSafe
<1>11. CASE loop = "clear"
  <2>1. /\ Unlink(item) /\ Frees({ValueOf(item)}) /\ node_ttl' = node_ttl - 1
        /\ ret' = "ok" /\ UNCHANGED held
    BY <1>11 DEF Step
  <2>2. /\ TableHolds' /\ OwnersHold'
        /\ nodes' \in Tables /\ node_ttl' \in Nat /\ freed' \in [Vals -> Nat]
    BY <1>1, <2>1, RemoveSafe
  <2>3. /\ KeysIn(nodes') = KeysIn(nodes) \ {item}
        /\ \A i, j \in KeysIn(nodes') : Before(nodes', i, j) <=> Before(nodes, i, j)
    BY <1>1, <2>1, UnlinkIs
  <2>4. TypesHold'
    BY <1>2, <1>8, <1>9, <2>1, <2>2 DEF TypesHold
  <2>5. /\ ToSet(seen) \cap KeysIn(nodes) = {}
        /\ \A j \in KeysIn(nodes) : ~Before(nodes, j, item)
    BY <1>11 DEF LoopPlace
  <2>6. ToSet(seen') \cap KeysIn(nodes') = {}
    BY <1>8, <2>3, <2>5
  <2>7. n # NULL => n \in KeysIn(nodes')
    BY <1>4, <2>3
  <2>8. ASSUME NEW j \in KeysIn(nodes') PROVE n # NULL /\ ~Before(nodes', j, n)
    <3>1. j \in KeysIn(nodes) /\ j # item /\ ~Before(nodes, j, item)
      BY <2>3, <2>5
    <3>2. n \in KeysIn(nodes') /\ ~Before(nodes, j, n)
      BY <1>4, <2>7, <3>1, <1>5
    <3> QED BY <1>5, <2>3, <3>2
  <2>9. LoopPlace'
    BY <1>2, <1>8, <1>9, <1>11, <2>6, <2>7, <2>8 DEF LoopPlace
  <2> QED BY <2>2, <2>4, <2>9
<1> QED BY <1>1, <1>10, <1>11 DEF TypesHold

-----------------------------------------------------------------------------
(* Every state *)

LEMMA NextKeepsParts ==
    ASSUME Parts, [Next]_vars PROVE Parts'
<1>1. CASE Next
  <2>1. ASSUME NEW k \in Keys, InsertFails(k) \/ Delete(k) \/ Find(k) PROVE Parts'
    BY <2>1, DeleteSafe, FindSafe
  <2>2. ASSUME NEW k \in Keys, NEW v \in held \cup {NULL},
               InsertReplaces(k, v) \/ InsertNew(k, v) \/ Update(k, v)
        PROVE  Parts'
    BY <2>2, InsertReplacesSafe, InsertNewSafe, UpdateSafe
  <2>3. CASE Reset
    BY <2>3, ResetSafe
  <2>4. CASE Begin("walk") \/ Begin("clear")
    BY <2>4, BeginSafe
  <2>5. CASE Step
    BY <2>5, StepSafe
  <2>6. CASE End
    BY <2>6, EndSafe
  <2> QED BY <1>1, <2>1, <2>2, <2>3, <2>4, <2>5, <2>6 DEF Next
<1>2. CASE UNCHANGED vars
  <2>1. /\ UNCHANGED <<table, held, freed>> /\ nodes' = nodes
        /\ ret' = ret /\ loop' = loop /\ item' = item /\ seen' = seen
    BY <1>2 DEF vars, table
  <2>2. LoopPlace'
    BY <2>1 DEF Parts, LoopPlace
  <2>3. /\ loop' \in {"none", "walk", "clear"} /\ item' \in Keys \cup {NULL}
        /\ seen' \in Seq(Keys) /\ ret' \in {"ok", "error"} \cup Values
    BY <2>1 DEF Parts, TypesHold
  <2> QED BY <2>1, <2>2, <2>3, LookSafe
<1> QED BY <1>1, <1>2

LEMMA InitParts ==
    ASSUME Init PROVE Parts
<1>1. \A b \in Buckets : nodes[b] = <<>>
  BY DEF Init
<1>2. Distinct(<<>>) /\ KeysOf(<<>>) = {}
  <2>1. \A i : i \notin 1..Len(<<>>)
    OBVIOUS
  <2> QED BY <2>1 DEF Distinct, KeysOf
<1>3. nodes \in Tables /\ Sound(nodes) /\ KeysIn(nodes) = {}
  BY <1>1, <1>2 DEF Init, Tables, Sound, KeysIn
<1>4. TypesHold
  BY <1>3, NoneSeen DEF Init, TypesHold
<1>5. TableHolds
  BY <1>3, FS_EmptySet DEF Init, TableHolds
<1>6. OwnersHold
  BY <1>3 DEF Init, OwnersHold, OwnedOnce, Owners
<1>7. LoopPlace
  BY NoneSeen DEF Init, LoopPlace
<1> QED BY <1>4, <1>5, <1>6, <1>7 DEF Parts

LEMMA HashInvAlways == Spec => []HashInv
<1>1. Init => Parts
  BY InitParts
<1>2. Parts /\ [Next]_vars => Parts'
  BY NextKeepsParts
<1>3. Parts <=> HashInv
  BY HashInvIs DEF Parts
<1> QED BY <1>1, <1>2, <1>3, PTL DEF Spec

LEMMA PartsAlways == Spec => []Parts
<1>1. HashInv => Parts
  BY HashInvIs DEF Parts
<1> QED BY <1>1, HashInvAlways, PTL

\* The chains hold nodes, a loop is at a key or at none, and every value is the
\* caller's or counted as freed, whatever the calls and their arguments.
THEOREM TypeCorrect == Spec => []TypeOK
<1>1. HashInv => TypeOK
  BY DEF HashInv
<1> QED BY <1>1, HashInvAlways, PTL

\* uc_hash_insert, uc_hash_update, uc_hash_delete and the two loops leave every node in
\* the chain of its key, never a second node for a key, and node_ttl right.
THEOREM ChainsSoundAlways == Spec => []ChainsSound
<1>1. HashInv => ChainsSound
  BY DEF HashInv
<1> QED BY <1>1, HashInvAlways, PTL

\* Whatever replaces, returns, deletes or resets: no value is leaked or freed twice.
THEOREM ValuesOwnedAlways == Spec => []ValuesOwned
<1>1. HashInv => ValuesOwned
  BY DEF HashInv
<1> QED BY <1>1, HashInvAlways, PTL

\* The loop of uc_hash.h over uc_hash_next visits every node once, also when it deletes
\* the node it has just visited.
THEOREM LoopVisitsAllAlways == Spec => []LoopVisitsAll
<1>1. ASSUME Parts PROVE LoopVisitsAll
  <2>1. SUFFICES ASSUME loop # "none"
                 PROVE  /\ IsInjective(seen)
                        /\ item # NULL => item \in Stored \ (IF loop = "walk" THEN ToSet(seen) ELSE {})
                        /\ item = NULL => Stored = IF loop = "clear" THEN {} ELSE ToSet(seen)
    BY DEF LoopVisitsAll
  <2>2. Stored = KeysIn(nodes) /\ LoopPlace /\ loop \in {"walk", "clear"}
    BY <1>1, <2>1, StoredIs DEF Parts, TypesHold
  <2>3. \A j \in KeysIn(nodes) : ~Before(nodes, j, j)
    BY <1>1, BeforeIsOrder DEF Parts, TypesHold, TableHolds
  <2>4. CASE loop = "walk"
    BY <2>2, <2>3, <2>4 DEF LoopPlace
  <2>5. CASE loop = "clear"
    BY <2>2, <2>5 DEF LoopPlace
  <2> QED BY <2>2, <2>4, <2>5
<1> QED BY <1>1, PartsAlways, PTL

\* uc_hash_random_node finds a node of the table, whatever the number and however the
\* nodes are spread over the chains, and none only when there is none.
THEOREM RandomFindsNodeAlways == Spec => []RandomFindsNode
<1>1. ASSUME Parts, NEW r \in Randoms
      PROVE  IF node_ttl = 0 THEN RandomNode(r) = NULL ELSE RandomNode(r) \in Stored
  <2>1. r \in Nat /\ Height \in Nat \ {0}
    BY TableAssumption
  <2>2. PICK m \in Nat : m = r % Height /\ m <= Height - 1
    BY <2>1
  <2>3. /\ nodes \in Tables /\ Sound(nodes) /\ IsFiniteSet(KeysIn(nodes))
        /\ node_ttl = Cardinality(KeysIn(nodes)) /\ Stored = KeysIn(nodes)
    BY <1>1, StoredIs DEF Parts, TypesHold, TableHolds
  <2> DEFINE up == {i \in (r % Height)..(Height - 1) : nodes[i] # <<>>}
             down == {i \in 0..(r % Height) : i < r % Height /\ nodes[i] # <<>>}
             At(b) == nodes[b][(r % Len(nodes[b])) + 1].key
             lowest == CHOOSE i \in up : \A j \in up : i <= j
             highest == CHOOSE i \in down : \A j \in down : i >= j
  <2>4. RandomNode(r) = IF node_ttl = 0 THEN NULL
                        ELSE IF up # {} THEN At(lowest)
                        ELSE IF down # {} THEN At(highest) ELSE NULL
    BY DEF RandomNode
  <2>5. ASSUME NEW b \in Buckets, nodes[b] # <<>> PROVE At(b) \in Stored
    <3>1. PICK c \in Seq(Node) : c = nodes[b] /\ c # <<>>
      BY <2>3, <2>5 DEF Tables
    <3>2. Len(c) \in Nat \ {0}
      BY <3>1
    <3>3. (r % Len(c)) + 1 \in 1..Len(c)
      <4>1. PICK l \in Nat \ {0} : l = Len(c)
        BY <3>2
      <4>2. (r % l) + 1 \in 1..l
        BY <2>1
      <4> QED BY <4>1, <4>2
    <3>4. c[(r % Len(c)) + 1].key \in KeysOf(c)
      BY <3>3 DEF KeysOf
    <3> QED BY <2>3, <3>1, <3>4 DEF KeysIn
  <2>6. /\ up \in SUBSET Nat /\ \A i \in up : i \in Buckets /\ nodes[i] # <<>>
        /\ down \in SUBSET Nat
        /\ \A i \in down : i \in Buckets /\ nodes[i] # <<>> /\ i <= m
    BY <2>1, <2>2 DEF Buckets
  <2>7. node_ttl # 0 => up # {} \/ down # {}
    <3>1. SUFFICES ASSUME node_ttl # 0 PROVE up # {} \/ down # {}
      OBVIOUS
    <3>2. PICK k : k \in KeysIn(nodes)
      BY <2>3, <3>1, FS_EmptySet
    <3>3. PICK b \in Buckets : k \in KeysOf(nodes[b])
      BY <3>2 DEF KeysIn
    <3>4. nodes[b] # <<>>
      <4>1. \A i : i \notin 1..Len(<<>>)
        OBVIOUS
      <4> QED BY <3>3, <4>1 DEF KeysOf
    <3>5. b \in Nat /\ b <= Height - 1
      BY <2>1 DEF Buckets
    <3>6. CASE b >= m
      <4>1. b \in m..(Height - 1)
        BY <2>1, <2>2, <3>5, <3>6
      <4>2. b \in up
        BY <2>2, <3>4, <4>1
      <4> QED BY <4>2
    <3>7. CASE b < m
      <4>1. b \in 0..m
        BY <3>5, <3>7
      <4>2. b \in down
        BY <2>2, <3>4, <3>7, <4>1
      <4> QED BY <4>2
    <3> QED BY <3>5, <3>6, <3>7
  <2> HIDE DEF up, down, At
  <2>8. ASSUME up # {} PROVE At(lowest) \in Stored
    <3>1. lowest \in up
      BY <2>6, <2>8, LeastExists
    <3> QED BY <2>5, <2>6, <3>1
  <2>9. ASSUME down # {} PROVE At(highest) \in Stored
    <3>1. \E i \in down : \A j \in down : i >= j
      BY <2>6, <2>9, GreatestExists
    <3>2. highest \in down
      BY <3>1
    <3> QED BY <2>5, <2>6, <3>2
  <2> QED BY <2>4, <2>7, <2>8, <2>9
<1>2. Parts => RandomFindsNode
  BY <1>1 DEF RandomFindsNode
<1> QED BY <1>2, PartsAlways, PTL

-----------------------------------------------------------------------------
(* The table implements the map *)

MapOf(t) == [k \in KeysIn(t) |-> Val(t, k)]
Adding(m, k, v) == [j \in DOMAIN m \cup {k} |-> IF j = k THEN v ELSE m[j]]
Replacing(m, k, v) == [m EXCEPT ![k] = v]
Dropping(m, k) == [j \in DOMAIN m \ {k} |-> m[j]]

LEMMA MapIs == [k \in Stored |-> ValueOf(k)] = MapOf(nodes)
BY StoredIs, ValueIs DEF MapOf

LEMMA MapIsNext == ([k \in Stored |-> ValueOf(k)] = MapOf(nodes))'
BY MapIs, PTL

\* The map with another value for a key, and without it
LEMMA MapSet ==
    ASSUME NEW t, NEW u, NEW k, NEW v, KeysIn(u) = KeysIn(t) \cup {k}, Val(u, k) = v,
           \A j \in KeysIn(t) \ {k} : Val(u, j) = Val(t, j)
    PROVE  /\ MapOf(u) = Adding(MapOf(t), k, v)
           /\ k \in KeysIn(t) => MapOf(u) = Replacing(MapOf(t), k, v)
BY DEF MapOf, Adding, Replacing

LEMMA MapRemove ==
    ASSUME NEW t, NEW u, NEW k, KeysIn(u) = KeysIn(t) \ {k},
           \A j \in KeysIn(u) : Val(u, j) = Val(t, j)
    PROVE  MapOf(u) = Dropping(MapOf(t), k)
BY DEF MapOf, Dropping

LEMMA MapLookup ==
    ASSUME NEW t, NEW k
    PROVE  (k \in DOMAIN MapOf(t) <=> k \in KeysIn(t)) /\ (k \in KeysIn(t) => MapOf(t)[k] = Val(t, k))
BY DEF MapOf

LEMMA MapPutIs ==
    ASSUME NEW k \in Keys, NEW v \in held \cup {NULL}, held' = held \ {v}, ret' = "ok",
           MapOf(nodes') = Adding(MapOf(nodes), k, v)
    PROVE  Map!Put(k, v)
BY MapIs, MapIsNext, Zenon DEF Map!Put, Adding

LEMMA MapRemoveIs ==
    ASSUME NEW k, held' = held, ret' = "ok",
           MapOf(nodes') = Dropping(MapOf(nodes), k)
    PROVE  Map!Remove(k)
BY MapIs, MapIsNext, Zenon DEF Map!Remove, Dropping

LEMMA MapGetIs ==
    ASSUME Parts, NEW k \in Keys, nodes' = nodes, held' = held,
           ret' = IF k \in KeysIn(nodes) THEN Val(nodes, k) ELSE NULL
    PROVE  Map!Get(k)
<1>1. MapOf(nodes') = MapOf(nodes)
  BY Zenon
<1>2. ret' = IF k \in DOMAIN MapOf(nodes) THEN MapOf(nodes)[k] ELSE NULL
  BY MapLookup
<1> QED BY <1>1, <1>2, MapIs, MapIsNext, Zenon DEF Map!Get, Map!Holds

LEMMA MapSwapIs ==
    ASSUME Parts, NEW k \in KeysIn(nodes), NEW v \in held \cup {NULL},
           MapOf(nodes') = Replacing(MapOf(nodes), k, v),
           held' = (held \ {v}) \cup ({Val(nodes, k)} \ {NULL}), ret' = Val(nodes, k)
    PROVE  Map!Swap(k, v)
<1>1. k \in DOMAIN MapOf(nodes) /\ MapOf(nodes)[k] = Val(nodes, k)
  BY MapLookup
<1> QED BY <1>1, MapIs, MapIsNext, Zenon DEF Map!Swap, Map!Holds, Replacing

LEMMA MapPutFailsIs ==
    ASSUME NEW k, k \notin KeysIn(nodes), nodes' = nodes, held' = held, ret' = "error"
    PROVE  Map!PutFails(k)
<1>1. MapOf(nodes') = MapOf(nodes)
  BY Zenon
<1>2. k \notin DOMAIN MapOf(nodes)
  BY MapLookup
<1> QED BY <1>1, <1>2, MapIs, MapIsNext, Zenon DEF Map!PutFails, Map!Holds

\* Nothing of what the map shows changes.
LEMMA MapStutters ==
    ASSUME nodes' = nodes, held' = held, ret' = ret
    PROVE  UNCHANGED <<[k \in Stored |-> ValueOf(k)], held, ret>>
<1>1. MapOf(nodes') = MapOf(nodes)
  BY Zenon
<1> QED BY <1>1, MapIs, MapIsNext, Zenon

LEMMA EveryStepMaps ==
    ASSUME Parts, [Next]_vars
    PROVE  [Map!Next]_<<[k \in Stored |-> ValueOf(k)], held, ret>>
<1>1. \A v : v \in held \cup {NULL} => v \in Vals \cup {NULL}
  BY DEF Parts, TypesHold
<1>2. ASSUME NEW k \in Keys, NEW v \in held \cup {NULL}, InsertReplaces(k, v)
      PROVE  Map!Put(k, v)
  <2>1. k \in KeysIn(nodes) /\ v \in Values
    BY <1>2, Located, GivenTypes DEF Parts, InsertReplaces
  <2>2. /\ KeysIn(nodes') = KeysIn(nodes) \cup {k} /\ Val(nodes', k) = v
        /\ \A j \in KeysIn(nodes) \ {k} : Val(nodes', j) = Val(nodes, j)
    BY <1>2, <2>1, SetValueIs DEF Parts, InsertReplaces
  <2> QED BY <1>2, <2>2, MapSet, MapPutIs DEF InsertReplaces
<1>3. ASSUME NEW k \in Keys, NEW v \in held \cup {NULL}, InsertNew(k, v)
      PROVE  Map!Put(k, v)
  <2>1. /\ KeysIn(nodes') = KeysIn(nodes) \cup {k} /\ Val(nodes', k) = v
        /\ \A j \in KeysIn(nodes) \ {k} : Val(nodes', j) = Val(nodes, j)
    BY <1>3, InsertNewSafe
  <2>2. held' = held \ {v} /\ ret' = "ok"
    BY <1>3 DEF InsertNew
  <2> QED BY <2>1, <2>2, MapSet, MapPutIs
<1>4. ASSUME NEW k \in Keys, NEW v \in held \cup {NULL}, Update(k, v)
      PROVE  Map!Swap(k, v) \/ Map!Get(k)
  <2>1. v \in Values
    BY GivenTypes DEF Parts
  <2>2. CASE k \in KeysIn(nodes)
    <3>1. /\ SetValue(k, v) /\ ret' = Val(nodes, k)
          /\ held' = (held \ {v}) \cup ({Val(nodes, k)} \ {NULL})
      BY <1>4, <2>2, Located DEF Parts, Update
    <3>2. /\ KeysIn(nodes') = KeysIn(nodes) \cup {k} /\ Val(nodes', k) = v
          /\ \A j \in KeysIn(nodes) \ {k} : Val(nodes', j) = Val(nodes, j)
      BY <2>1, <2>2, <3>1, SetValueIs DEF Parts
    <3>3. MapOf(nodes') = Replacing(MapOf(nodes), k, v)
      BY <2>2, <3>2, MapSet
    <3> QED BY <2>2, <3>1, <3>3, MapSwapIs
  <2>3. CASE k \notin KeysIn(nodes)
    <3>1. nodes' = nodes /\ held' = held /\ ret' = NULL
      BY <1>4, <2>3, Located DEF Parts, Update
    <3> QED BY <2>3, <3>1, MapGetIs
  <2> QED BY <2>2, <2>3
<1>5. ASSUME NEW k \in Keys, Delete(k) PROVE Map!Remove(k)
  <2>1. held' = held /\ ret' = "ok"
    BY <1>5 DEF Delete
  <2>2. /\ KeysIn(nodes') = KeysIn(nodes) \ {k}
        /\ \A j \in KeysIn(nodes') : Val(nodes', j) = Val(nodes, j)
    <3>1. CASE k \in KeysIn(nodes)
      BY <1>5, <3>1, Located, UnlinkIs DEF Parts, Delete
    <3>2. CASE k \notin KeysIn(nodes)
      <4>1. nodes' = nodes
        BY <1>5, <3>2, Located DEF Parts, Delete, table
      <4> QED BY <3>2, <4>1
    <3> QED BY <3>1, <3>2
  <2> QED BY <2>1, <2>2, MapRemove, MapRemoveIs
<1>6. ASSUME NEW k \in Keys, Find(k) PROVE Map!Get(k)
  <2>1. /\ nodes' = nodes /\ held' = held
        /\ ret' = IF k \in KeysIn(nodes) THEN Val(nodes, k) ELSE NULL
    BY <1>6, Located DEF Parts, Find, table
  <2> QED BY <2>1, MapGetIs
<1>7. ASSUME NEW k \in Keys, InsertFails(k) PROVE Map!PutFails(k)
  <2>1. k \notin KeysIn(nodes) /\ nodes' = nodes /\ held' = held /\ ret' = "error"
    BY <1>7, Located DEF Parts, InsertFails, table
  <2> QED BY <2>1, MapPutFailsIs
<1>8. ASSUME Reset PROVE Map!Clear
  <2>1. KeysIn(nodes') = {} /\ held' = held /\ ret' = "ok"
    BY <1>8, ResetSafe DEF Reset
  <2>2. MapOf(nodes') = [k \in {} |-> NULL]
    BY <2>1 DEF MapOf
  <2> QED BY <2>1, <2>2, MapIs, MapIsNext, Zenon DEF Map!Clear
<1>9. ASSUME Step
      PROVE  (\E k \in Keys : Map!Remove(k)) \/ UNCHANGED <<nodes, held, ret>>
  <2>1. CASE loop = "clear"
    <3>1. Unlink(item) /\ ret' = "ok" /\ held' = held /\ item # NULL
      BY <1>9, <2>1 DEF Step
    <3>2. item \in KeysIn(nodes) /\ item \in Keys
      BY <2>1, <3>1, InItsChain DEF Parts, LoopPlace, TypesHold, TableHolds
    <3>3. /\ KeysIn(nodes') = KeysIn(nodes) \ {item}
          /\ \A j \in KeysIn(nodes') : Val(nodes', j) = Val(nodes, j)
      BY <3>1, <3>2, UnlinkIs DEF Parts
    <3>4. Map!Remove(item)
      BY <3>1, <3>3, MapRemove, MapRemoveIs
    <3> QED BY <3>2, <3>4
  <2>2. CASE loop # "clear"
    BY <1>9, <2>2 DEF Step, table
  <2> QED BY <2>1, <2>2
<1>10. (\E k \in Keys : Map!PutFails(k) \/ Map!Remove(k) \/ Map!Get(k)) => Map!Next
  BY DEF Map!Next
<1>11. (\E k \in Keys, v \in Vals \cup {NULL} : Map!Put(k, v) \/ Map!Swap(k, v)) => Map!Next
  BY DEF Map!Next
<1>12. Map!Clear => Map!Next
  BY DEF Map!Next
<1>13. CASE Next
  <2>1. ASSUME NEW k \in Keys, InsertFails(k) \/ Delete(k) \/ Find(k) PROVE Map!Next
    BY <1>5, <1>6, <1>7, <1>10, <2>1
  <2>2. ASSUME NEW k \in Keys, NEW v \in held \cup {NULL},
               InsertReplaces(k, v) \/ InsertNew(k, v) \/ Update(k, v)
        PROVE  Map!Next
    BY <1>1, <1>2, <1>3, <1>4, <1>10, <1>11, <2>2
  <2>3. CASE Reset
    BY <1>8, <1>12, <2>3
  <2>4. CASE Begin("walk") \/ Begin("clear") \/ End
    BY <2>4, MapStutters DEF Begin, End, table
  <2>5. CASE Step
    BY <1>9, <1>10, <2>5, MapStutters
  <2> QED BY <1>13, <2>1, <2>2, <2>3, <2>4, <2>5 DEF Next
<1>14. CASE UNCHANGED vars
  BY <1>14, MapStutters DEF vars, table
<1> QED BY <1>13, <1>14

\* Whatever the keys, the hash function and the number of chains: the table behaves as
\* one map, which takes a value, hands it back and frees it as uc_hash.h says.
THEOREM ImplementsKeyMapAlways == Spec => ImplementsKeyMap
<1>1. Init => Map!Init
  <2>1. ASSUME Init PROVE [k \in Stored |-> ValueOf(k)] = [k \in {} |-> NULL]
    <3>1. \A b \in Buckets : KeysOf(nodes[b]) = {}
      BY <2>1 DEF Init, KeysOf
    <3>2. Stored = {}
      BY <3>1 DEF Stored
    <3> QED BY <3>2
  <2> QED BY <2>1, Zenon DEF Init, Map!Init
<1>2. Parts /\ [Next]_vars => [Map!Next]_<<[k \in Stored |-> ValueOf(k)], held, ret>>
  BY EveryStepMaps
<1>3. Map!Spec <=> Map!Init /\ [][Map!Next]_<<[k \in Stored |-> ValueOf(k)], held, ret>>
  BY DEF Map!Spec
<1> QED BY <1>1, <1>2, <1>3, PartsAlways, PTL DEF Spec, ImplementsKeyMap
=============================================================================
