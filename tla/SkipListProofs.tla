---------------------------- MODULE SkipListProofs ----------------------------
(***************************************************************************)
(* Proofs about the skip list, for any elements and any number of levels:  *)
(* the links of every level are right, every span is exact, and the list   *)
(* implements the set in order that tells ranks.                           *)
(***************************************************************************)
EXTENDS SkipList, FiniteSetTheorems, TLAPS

-----------------------------------------------------------------------------
(* The order of the elements, with the header before all of them *)

Places == Elements \cup {Header}
Before(a, b) == b # Header /\ (a = Header \/ Less(a, b))

LEMMA LessOrder ==
    /\ \A a \in Elements : ~Less(a, a)
    /\ \A a, b, c \in Elements : Less(a, b) /\ Less(b, c) => Less(a, c)
    /\ \A a, b \in Elements : a = b \/ Less(a, b) \/ Less(b, a)
<1>1. \A a \in Elements : a[1] \in Int /\ a[2] \in Int /\ a = <<a[1], a[2]>>
  <2>1. Scores \subseteq Int /\ Objs \subseteq Int
    BY SkipListAssumption
  <2>2. \A a \in Scores \X Objs : a[1] \in Scores /\ a[2] \in Objs /\ a = <<a[1], a[2]>>
    OBVIOUS
  <2> QED BY <2>1, <2>2 DEF Elements
<1>2. \A a \in Elements : ~Less(a, a)
  BY <1>1 DEF Less
<1>3. \A a, b, c \in Elements : Less(a, b) /\ Less(b, c) => Less(a, c)
  BY <1>1 DEF Less
<1>4. \A a, b \in Elements : a = b \/ Less(a, b) \/ Less(b, a)
  BY <1>1 DEF Less
<1> QED BY <1>2, <1>3, <1>4

LEMMA BeforeOrder ==
    /\ \A a \in Places : ~Before(a, a)
    /\ \A a, b, c \in Places : Before(a, b) /\ Before(b, c) => Before(a, c)
    /\ \A a, b \in Places : a = b \/ Before(a, b) \/ Before(b, a)
    /\ \A a, b \in Places : Before(a, b) => ~Before(b, a)
    /\ \A a \in Places : ~Before(a, Header)
    /\ \A a \in Elements : Before(Header, a) /\ a # Header /\ a \in Places
    /\ \A a, b \in Elements : Before(a, b) <=> Less(a, b)
<1>1. Header \notin Elements
  BY SkipListAssumption
<1> QED BY <1>1, LessOrder DEF Before, Places

-----------------------------------------------------------------------------
(* Links: in a set s of elements, n follows y, or nothing does; u is the   *)
(* last before e                                                           *)

IsNext(s, y, n) ==
    /\ n = Nil => \A z \in s : ~Before(y, z)
    /\ n # Nil => n \in s /\ Before(y, n) /\ \A z \in s : Before(y, z) => ~Before(z, n)

LastBefore(s, u, e) ==
    /\ u \in s \cup {Header} /\ Before(u, e)
    /\ \A z \in s : Before(z, e) => ~Before(u, z)

LEMMA NilIsNoPlace == Nil \notin Places
BY SkipListAssumption DEF Places

\* A new element goes between the last one before it and the next of that one.
LEMMA NextInsert ==
    ASSUME NEW s \in SUBSET Elements, NEW e \in Elements, e \notin s,
           NEW u, LastBefore(s, u, e), NEW n, IsNext(s, u, n)
    PROVE  /\ IsNext(s \cup {e}, u, e) /\ IsNext(s \cup {e}, e, n)
           /\ n # Nil => Before(e, n)
           /\ \A y \in s \cup {Header} : \A m : y # u /\ IsNext(s, y, m) => IsNext(s \cup {e}, y, m)
           /\ \A y \in s \cup {Header} : Before(y, e) /\ y # u => Before(y, u)
<1>1. e \in Places /\ u \in Places /\ s \subseteq Places /\ e # Nil /\ e # Header /\ u # e
  BY BeforeOrder, NilIsNoPlace DEF LastBefore, Places
<1>2. n # Nil => n \in Places /\ n \in s /\ ~Before(n, e) /\ n # e
  BY <1>1 DEF LastBefore, IsNext
<1>3. n # Nil => Before(e, n)
  BY <1>1, <1>2, BeforeOrder
<1>4. \A y \in s \cup {Header} : y \in Places /\ (Before(y, e) /\ y # u => Before(y, u))
  <2>1. Header \in Places /\ (u = Header \/ u \in s)
    BY DEF LastBefore, Places
  <2> QED BY <1>1, <2>1, BeforeOrder DEF LastBefore, Places
<1>5. IsNext(s \cup {e}, u, e)
  BY <1>1, BeforeOrder DEF LastBefore, IsNext
<1>6. IsNext(s \cup {e}, e, n)
  <2>1. ASSUME NEW z \in s, Before(e, z) PROVE Before(u, z)
    BY <1>1, <2>1, BeforeOrder DEF LastBefore
  <2> QED BY <1>1, <1>2, <1>3, <2>1, BeforeOrder DEF IsNext
<1>7. ASSUME NEW y \in s \cup {Header}, NEW m, y # u, IsNext(s, y, m)
      PROVE  IsNext(s \cup {e}, y, m)
  <2>1. m # Nil => m \in Places /\ m \in s
    BY <1>1, <1>7 DEF IsNext
  <2>2. CASE Before(y, e)
    <3>1. y \in Places /\ Before(y, u) /\ u # Header
      BY <1>4, <1>7, <2>2, BeforeOrder
    <3>2. u \in s /\ m # Nil
      BY <1>7, <3>1 DEF IsNext, LastBefore
    <3>3. ~Before(u, m) /\ ~Before(e, m)
      <4>1. ~Before(u, m)
        BY <1>7, <3>1, <3>2 DEF IsNext
      <4> QED BY <1>1, <2>1, <3>2, <4>1, BeforeOrder DEF LastBefore
    <3> QED BY <1>7, <3>2, <3>3 DEF IsNext
  <2>3. CASE ~Before(y, e)
    BY <1>7, <2>3 DEF IsNext
  <2> QED BY <2>2, <2>3
<1> QED BY <1>3, <1>4, <1>5, <1>6, <1>7

\* An element that goes leaves its next to the last one before it.
LEMMA NextDelete ==
    ASSUME NEW s \in SUBSET Elements, NEW e \in s, NEW u, LastBefore(s, u, e)
    PROVE  /\ \A n : IsNext(s, u, n) => n = e
           /\ \A m : IsNext(s, e, m) => IsNext(s \ {e}, u, m) /\ m # e
           /\ \A y \in s \cup {Header} : \A m : y # u /\ y # e /\ IsNext(s, y, m)
                                            => IsNext(s \ {e}, y, m) /\ m # e
           /\ \A y \in s \cup {Header} : Before(y, e) /\ y # u => Before(y, u)
<1>1. e \in Places /\ u \in Places /\ s \subseteq Places /\ e # Nil /\ e # Header /\ u # e
  BY BeforeOrder, NilIsNoPlace DEF LastBefore, Places
<1>2. \A y \in s \cup {Header} : y \in Places /\ (Before(y, e) /\ y # u => Before(y, u))
  <2>1. Header \in Places /\ (u = Header \/ u \in s)
    BY DEF LastBefore, Places
  <2> QED BY <1>1, <2>1, BeforeOrder DEF LastBefore, Places
<1>3. ASSUME NEW n, IsNext(s, u, n) PROVE n = e
  <2>1. n # Nil /\ n \in s /\ n \in Places
    BY <1>1, <1>3 DEF IsNext, LastBefore
  <2>2. ~Before(e, n) /\ ~Before(n, e)
    BY <1>3, <2>1 DEF IsNext, LastBefore
  <2> QED BY <1>1, <2>1, <2>2, BeforeOrder
<1>4. ASSUME NEW m, IsNext(s, e, m) PROVE IsNext(s \ {e}, u, m) /\ m # e
  <2>1. m # Nil => m \in s /\ m \in Places /\ Before(e, m) /\ m # e
    BY <1>1, <1>4, BeforeOrder DEF IsNext
  <2>2. ASSUME NEW z \in s \ {e}, Before(u, z) PROVE Before(e, z)
    BY <1>1, <2>2, BeforeOrder DEF LastBefore
  <2>3. m # Nil => Before(u, m)
    BY <1>1, <2>1, BeforeOrder DEF LastBefore
  <2> QED BY <1>1, <1>4, <2>1, <2>2, <2>3 DEF IsNext
<1>5. ASSUME NEW y \in s \cup {Header}, NEW m, y # u, y # e, IsNext(s, y, m)
      PROVE  IsNext(s \ {e}, y, m) /\ m # e
  <2>1. m # e
    <3>1. SUFFICES ASSUME m = e PROVE FALSE
      OBVIOUS
    <3>2. y \in Places /\ Before(y, e) /\ Before(y, u) /\ u # Header
      BY <1>1, <1>2, <1>5, <3>1, BeforeOrder DEF IsNext
    <3> QED BY <1>1, <1>5, <3>1, <3>2 DEF IsNext, LastBefore
  <2> QED BY <1>5, <2>1 DEF IsNext
<1> QED BY <1>2, <1>3, <1>4, <1>5

-----------------------------------------------------------------------------
(* Ranks *)

NotAfter(s, y) == {z \in s : ~Before(y, z)}
Rank(s, y) == Cardinality(NotAfter(s, y))

LEMMA RankType ==
    ASSUME NEW s \in SUBSET Elements, IsFiniteSet(s), NEW y
    PROVE  /\ IsFiniteSet(NotAfter(s, y)) /\ Rank(s, y) \in Nat
           /\ Cardinality(s) \in Nat /\ Rank(s, y) <= Cardinality(s)
<1>1. NotAfter(s, y) \in SUBSET s
  BY DEF NotAfter
<1>2. IsFiniteSet(NotAfter(s, y)) /\ Cardinality(NotAfter(s, y)) <= Cardinality(s)
  BY <1>1, FS_Subset
<1> QED BY <1>2, FS_CardinalityType DEF Rank

LEMMA RankOfHeader == ASSUME NEW s \in SUBSET Elements PROVE Rank(s, Header) = 0
<1>1. NotAfter(s, Header) = {}
  BY BeforeOrder DEF NotAfter
<1> QED BY <1>1, FS_EmptySet DEF Rank

LEMMA RankLess ==
    ASSUME NEW s \in SUBSET Elements, IsFiniteSet(s), NEW y \in s \cup {Header}, NEW z \in s, Before(y, z)
    PROVE  Rank(s, y) < Rank(s, z)
<1>1. y \in Places /\ z \in Places /\ s \subseteq Places
  BY DEF Places
<1>2. NotAfter(s, y) \subseteq NotAfter(s, z)
  BY <1>1, BeforeOrder DEF NotAfter
<1>3. z \in NotAfter(s, z) /\ z \notin NotAfter(s, y)
  BY <1>1, BeforeOrder DEF NotAfter
<1>4. /\ Cardinality(NotAfter(s, y)) <= Cardinality(NotAfter(s, z))
      /\ Cardinality(NotAfter(s, y)) # Cardinality(NotAfter(s, z))
  BY <1>2, <1>3, RankType, FS_Subset
<1> QED BY <1>4, RankType DEF Rank

\* Ranks are in the order of their elements.
LEMMA RankOrder ==
    ASSUME NEW s \in SUBSET Elements, IsFiniteSet(s),
           NEW y \in s \cup {Header}, NEW z \in s \cup {Header}
    PROVE  /\ Rank(s, y) < Rank(s, z) <=> Before(y, z)
           /\ Rank(s, y) <= Rank(s, z) <=> ~Before(z, y)
           /\ Rank(s, y) = Rank(s, z) <=> y = z
<1>1. y \in Places /\ z \in Places /\ Rank(s, y) \in Nat /\ Rank(s, z) \in Nat
  BY RankType DEF Places
<1>2. Before(y, z) => z \in s /\ Rank(s, y) < Rank(s, z)
  BY <1>1, BeforeOrder, RankLess
<1>3. Before(z, y) => y \in s /\ Rank(s, z) < Rank(s, y)
  BY <1>1, BeforeOrder, RankLess
<1>4. y = z \/ Before(y, z) \/ Before(z, y)
  BY <1>1, BeforeOrder
<1>5. ~(y = z /\ Before(y, z)) /\ ~(Before(y, z) /\ Before(z, y)) /\ ~(y = z /\ Before(z, y))
  BY <1>1, BeforeOrder
<1> QED BY <1>1, <1>2, <1>3, <1>4, <1>5

\* The rank of the next one is one more, and there is none after the last rank.
LEMMA RankNext ==
    ASSUME NEW s \in SUBSET Elements, IsFiniteSet(s), NEW y \in s \cup {Header}, NEW n, IsNext(s, y, n)
    PROVE  /\ n # Nil => Rank(s, n) = Rank(s, y) + 1
           /\ n = Nil => Rank(s, y) = Cardinality(s)
<1>1. y \in Places /\ s \subseteq Places
  BY DEF Places
<1>2. CASE n # Nil
  <2>1. n \in s /\ n \in Places /\ n \notin NotAfter(s, y)
    BY <1>1, <1>2 DEF IsNext, NotAfter
  <2>2. NotAfter(s, n) = NotAfter(s, y) \cup {n}
    BY <1>1, <1>2, <2>1, BeforeOrder DEF NotAfter, IsNext
  <2> QED BY <1>2, <2>1, <2>2, RankType, FS_AddElement DEF Rank
<1>3. CASE n = Nil
  <2>1. NotAfter(s, y) = s
    BY <1>3 DEF IsNext, NotAfter
  <2> QED BY <1>3, <2>1 DEF Rank
<1> QED BY <1>2, <1>3

\* A new element has the rank after that of the last one before it, and the ranks of
\* those after it grow by one.
LEMMA RankInsert ==
    ASSUME NEW s \in SUBSET Elements, IsFiniteSet(s), NEW e \in Elements, e \notin s
    PROVE  /\ \A y \in s \cup {Header} :
                /\ Before(y, e) => Rank(s \cup {e}, y) = Rank(s, y)
                /\ Before(e, y) => Rank(s \cup {e}, y) = Rank(s, y) + 1
                /\ Before(y, e) \/ Before(e, y)
           /\ \A u : LastBefore(s, u, e) => Rank(s \cup {e}, e) = Rank(s, u) + 1
           /\ Cardinality(s \cup {e}) = Cardinality(s) + 1
<1>1. e \in Places /\ s \subseteq Places /\ s \cup {Header} \subseteq Places /\ e # Header
  BY BeforeOrder DEF Places
<1>2. ASSUME NEW y \in s \cup {Header}, Before(y, e) PROVE Rank(s \cup {e}, y) = Rank(s, y)
  <2>1. NotAfter(s \cup {e}, y) = NotAfter(s, y)
    BY <1>2 DEF NotAfter
  <2> QED BY <2>1 DEF Rank
<1>3. ASSUME NEW y \in s \cup {Header}, Before(e, y) PROVE Rank(s \cup {e}, y) = Rank(s, y) + 1
  <2>1. NotAfter(s \cup {e}, y) = NotAfter(s, y) \cup {e} /\ e \notin NotAfter(s, y)
    BY <1>1, <1>3, BeforeOrder DEF NotAfter
  <2> QED BY <2>1, RankType, FS_AddElement DEF Rank
<1>4. \A y \in s \cup {Header} : Before(y, e) \/ Before(e, y)
  BY <1>1, BeforeOrder
<1>5. ASSUME NEW u, LastBefore(s, u, e) PROVE Rank(s \cup {e}, e) = Rank(s, u) + 1
  <2>1. u \in Places
    BY <1>1, <1>5 DEF LastBefore
  <2>2. NotAfter(s \cup {e}, e) = NotAfter(s, u) \cup {e} /\ e \notin NotAfter(s, u)
    <3>1. ASSUME NEW z \in s PROVE ~Before(e, z) <=> ~Before(u, z)
      BY <1>1, <1>5, <2>1, <3>1, BeforeOrder DEF LastBefore
    <3>2. ~Before(e, e)
      BY <1>1, BeforeOrder
    <3> QED BY <1>1, <3>1, <3>2 DEF NotAfter
  <2> QED BY <2>2, RankType, FS_AddElement DEF Rank
<1>6. Cardinality(s \cup {e}) = Cardinality(s) + 1
  BY FS_AddElement
<1> QED BY <1>2, <1>3, <1>4, <1>5, <1>6

\* The ranks of those after an element that goes fall by one.
LEMMA RankDelete ==
    ASSUME NEW s \in SUBSET Elements, IsFiniteSet(s), NEW e \in s
    PROVE  /\ \A y \in (s \ {e}) \cup {Header} :
                /\ Before(y, e) => Rank(s \ {e}, y) = Rank(s, y)
                /\ Before(e, y) => Rank(s \ {e}, y) = Rank(s, y) - 1
                /\ Before(y, e) \/ Before(e, y)
           /\ Cardinality(s \ {e}) = Cardinality(s) - 1
<1>1. IsFiniteSet(s \ {e}) /\ s \ {e} \in SUBSET Elements /\ e \notin s \ {e} /\ e \in Elements
  BY FS_RemoveElement
<1>2. (s \ {e}) \cup {e} = s
  OBVIOUS
<1>3. \A y \in (s \ {e}) \cup {Header} :
        /\ Before(y, e) => Rank(s, y) = Rank(s \ {e}, y)
        /\ Before(e, y) => Rank(s, y) = Rank(s \ {e}, y) + 1
        /\ Before(y, e) \/ Before(e, y)
  BY <1>1, <1>2, RankInsert
<1>4. \A y : Rank(s \ {e}, y) \in Nat
  BY <1>1, RankType
<1>5. Cardinality(s \ {e}) = Cardinality(s) - 1
  BY FS_RemoveElement
<1> QED BY <1>3, <1>4, <1>5

-----------------------------------------------------------------------------
(* The links: f is forward *)

NodesIn(f) == DOMAIN f \ {Header}
On(f, k) == {y \in NodesIn(f) : k \in DOMAIN f[y]}

Towers(f) ==
    /\ NodesIn(f) \subseteq Elements /\ Header \in DOMAIN f /\ IsFiniteSet(NodesIn(f))
    /\ \A y \in DOMAIN f : \E height \in 1..MaxLevel :
        DOMAIN f[y] = 0..(height - 1) /\ (y = Header => height = MaxLevel)

Linked(f) == \A y \in DOMAIN f : \A k \in DOMAIN f[y] : IsNext(On(f, k), y, f[y][k])

LEMMA TowerLevels ==
    ASSUME NEW f, Towers(f), NEW y \in DOMAIN f
    PROVE  /\ 0 \in DOMAIN f[y] /\ DOMAIN f[y] \subseteq Levels
           /\ \A k \in DOMAIN f[y] : k \in Nat /\ \A j \in 0..k : j \in DOMAIN f[y]
           /\ y = Header => DOMAIN f[y] = Levels
           /\ y \in Places /\ (y # Header => y \in NodesIn(f)) /\ y \in NodesIn(f) \cup {Header}
<1>1. PICK height \in 1..MaxLevel :
        DOMAIN f[y] = 0..(height - 1) /\ (y = Header => height = MaxLevel)
  BY DEF Towers
<1>2. MaxLevel \in Nat
  BY SkipListAssumption
<1>3. y \in Places /\ (y # Header => y \in NodesIn(f)) /\ y \in NodesIn(f) \cup {Header}
  BY DEF Towers, Places, NodesIn
<1> QED BY <1>1, <1>2, <1>3 DEF Levels

LEMMA OnIs ==
    ASSUME NEW f, Towers(f)
    PROVE  /\ On(f, 0) = NodesIn(f)
           /\ \A k : /\ On(f, k) \in SUBSET Elements /\ On(f, k) \subseteq NodesIn(f)
                     /\ \A y \in DOMAIN f : k \in DOMAIN f[y] => y \in On(f, k) \cup {Header}
                     /\ \A y \in On(f, k) : y \in DOMAIN f /\ k \in DOMAIN f[y] /\ y # Nil
<1>1. \A y \in NodesIn(f) : 0 \in DOMAIN f[y] /\ y # Nil
  BY TowerLevels, NilIsNoPlace DEF NodesIn
<1>2. NodesIn(f) \subseteq Elements
  BY DEF Towers
<1>3. \A y \in DOMAIN f : y = Header \/ y \in NodesIn(f)
  BY DEF NodesIn
<1>4. \A y \in NodesIn(f) : y \in DOMAIN f
  BY DEF NodesIn
<1> QED BY <1>1, <1>2, <1>3, <1>4 DEF On

\* A node is put in on the levels below level, after u[k] on level k.
Inserted(f, g, e, level, u) ==
    /\ e \in Elements /\ e \notin DOMAIN f /\ level \in 1..MaxLevel
    /\ \A k \in 0..(level - 1) : LastBefore(On(f, k), u[k], e)
    /\ DOMAIN g = DOMAIN f \cup {e}
    /\ DOMAIN g[e] = 0..(level - 1)
    /\ \A k \in 0..(level - 1) : g[e][k] = f[u[k]][k]
    /\ \A y \in DOMAIN f : /\ DOMAIN g[y] = DOMAIN f[y]
                           /\ \A k \in DOMAIN f[y] :
                                g[y][k] = IF k < level /\ u[k] = y THEN e ELSE f[y][k]

LEMMA InsertedTowers ==
    ASSUME NEW f, NEW g, NEW e, NEW level, NEW u, Towers(f), Inserted(f, g, e, level, u)
    PROVE  /\ Towers(g) /\ NodesIn(g) = NodesIn(f) \cup {e}
           /\ \A k \in Levels : On(g, k) = IF k < level THEN On(f, k) \cup {e} ELSE On(f, k)
           /\ \A k \in Levels : e \notin On(f, k)
<1>1. e # Header /\ e \in Elements /\ e \notin DOMAIN f /\ level \in 1..MaxLevel /\ MaxLevel \in Nat
  BY SkipListAssumption DEF Inserted
<1>2. DOMAIN g = DOMAIN f \cup {e} /\ DOMAIN g[e] = 0..(level - 1)
      /\ \A y \in DOMAIN f : DOMAIN g[y] = DOMAIN f[y]
  BY DEF Inserted
<1>3. NodesIn(g) = NodesIn(f) \cup {e}
  BY <1>1, <1>2 DEF NodesIn
<1>4. Towers(g)
  <2>1. NodesIn(g) \subseteq Elements /\ Header \in DOMAIN g
    BY <1>1, <1>2, <1>3 DEF Towers
  <2>2. IsFiniteSet(NodesIn(g))
    BY <1>3, FS_AddElement DEF Towers
  <2>3. ASSUME NEW y \in DOMAIN g
        PROVE  \E height \in 1..MaxLevel :
                 DOMAIN g[y] = 0..(height - 1) /\ (y = Header => height = MaxLevel)
    <3>1. CASE y = e
      BY <1>1, <1>2, <3>1
    <3>2. CASE y # e
      <4>1. y \in DOMAIN f /\ DOMAIN g[y] = DOMAIN f[y]
        BY <1>2, <3>2
      <4> QED BY <4>1 DEF Towers
    <3> QED BY <3>1, <3>2
  <2> QED BY <2>1, <2>2, <2>3 DEF Towers
<1>5. ASSUME NEW k \in Levels
      PROVE  /\ On(g, k) = IF k < level THEN On(f, k) \cup {e} ELSE On(f, k)
             /\ e \notin On(f, k)
  <2>1. k \in DOMAIN g[e] <=> k < level
    BY <1>1, <1>2 DEF Levels
  <2>2. \A y \in NodesIn(f) : y # e /\ (k \in DOMAIN g[y] <=> k \in DOMAIN f[y])
    BY <1>1, <1>2 DEF NodesIn
  <2> QED BY <1>3, <2>1, <2>2 DEF On
<1> QED BY <1>3, <1>4, <1>5

LEMMA InsertedLinks ==
    ASSUME NEW f, NEW g, NEW e, NEW level, NEW u,
           Towers(f), Linked(f), Inserted(f, g, e, level, u)
    PROVE  Linked(g)
<1> SUFFICES ASSUME NEW y \in DOMAIN g, NEW k \in DOMAIN g[y]
             PROVE  IsNext(On(g, k), y, g[y][k])
  BY DEF Linked
<1>1. e # Header /\ e \in Elements /\ level \in 1..MaxLevel /\ MaxLevel \in Nat
  BY SkipListAssumption DEF Inserted
<1>2. Towers(g) /\ k \in Levels
  BY InsertedTowers, TowerLevels
<1>3. /\ On(g, k) = IF k < level THEN On(f, k) \cup {e} ELSE On(f, k)
      /\ e \notin On(f, k) /\ On(f, k) \in SUBSET Elements
  BY <1>2, InsertedTowers, OnIs
<1>4. y # e => y \in DOMAIN f /\ k \in DOMAIN f[y] /\ IsNext(On(f, k), y, f[y][k])
               /\ y \in On(f, k) \cup {Header}
  <2>1. y # e => y \in DOMAIN f /\ k \in DOMAIN f[y]
    BY DEF Inserted
  <2> QED BY <2>1, OnIs DEF Linked
<1>5. y # e => g[y][k] = IF k < level /\ u[k] = y THEN e ELSE f[y][k]
  BY <1>4 DEF Inserted
<1>6. CASE k < level
  <2>1. k \in 0..(level - 1)
    BY <1>1, <1>2, <1>6 DEF Levels
  <2>2. LastBefore(On(f, k), u[k], e)
    BY <2>1 DEF Inserted
  <2>3. u[k] \in DOMAIN f /\ k \in DOMAIN f[u[k]]
    <3>1. u[k] \in On(f, k) \cup {Header}
      BY <2>2 DEF LastBefore
    <3> QED BY <1>2, <3>1, OnIs, TowerLevels DEF Towers
  <2>4. IsNext(On(f, k), u[k], f[u[k]][k])
    BY <2>3 DEF Linked
  <2>5. /\ IsNext(On(f, k) \cup {e}, u[k], e) /\ IsNext(On(f, k) \cup {e}, e, f[u[k]][k])
        /\ \A z \in On(f, k) \cup {Header} : \A m :
             z # u[k] /\ IsNext(On(f, k), z, m) => IsNext(On(f, k) \cup {e}, z, m)
    <3>1. PICK s \in SUBSET Elements : s = On(f, k)
      BY <1>3
    <3>2. PICK v, n : v = u[k] /\ n = f[u[k]][k]
      OBVIOUS
    <3>3. e \notin s /\ LastBefore(s, v, e) /\ IsNext(s, v, n)
      BY <1>3, <2>2, <2>4, <3>1, <3>2
    <3>4. /\ IsNext(s \cup {e}, v, e) /\ IsNext(s \cup {e}, e, n)
          /\ \A z \in s \cup {Header} : \A m : z # v /\ IsNext(s, z, m) => IsNext(s \cup {e}, z, m)
      BY <1>1, <3>3, NextInsert
    <3> QED BY <3>1, <3>2, <3>4
  <2>6. y = e => g[y][k] = f[u[k]][k]
    BY <2>1 DEF Inserted
  <2> QED BY <1>3, <1>4, <1>5, <1>6, <2>5, <2>6
<1>7. CASE ~(k < level)
  <2>1. y # e
    BY <1>1, <1>2, <1>7 DEF Inserted, Levels
  <2> QED BY <1>3, <1>4, <1>5, <1>7, <2>1
<1> QED BY <1>6, <1>7

\* A node is taken out of its levels, before which u[k] is the last on level k.
Deleted(f, g, e, u) ==
    /\ e \in NodesIn(f)
    /\ \A k \in DOMAIN f[e] : LastBefore(On(f, k), u[k], e)
    /\ DOMAIN g = DOMAIN f \ {e}
    /\ \A y \in DOMAIN g : /\ DOMAIN g[y] = DOMAIN f[y]
                           /\ \A k \in DOMAIN f[y] : g[y][k] =
                                IF k \in DOMAIN f[e] /\ u[k] = y THEN f[e][k] ELSE f[y][k]

LEMMA DeletedTowers ==
    ASSUME NEW f, NEW g, NEW e, NEW u, Towers(f), Deleted(f, g, e, u)
    PROVE  /\ Towers(g) /\ NodesIn(g) = NodesIn(f) \ {e}
           /\ \A k \in Levels : On(g, k) = On(f, k) \ {e}
<1>1. DOMAIN g = DOMAIN f \ {e} /\ e \in NodesIn(f) /\ \A y \in DOMAIN g : DOMAIN g[y] = DOMAIN f[y]
  BY DEF Deleted
<1>2. NodesIn(g) = NodesIn(f) \ {e}
  BY <1>1 DEF NodesIn
<1>3. IsFiniteSet(NodesIn(g))
  BY <1>2, FS_RemoveElement DEF Towers
<1>4. NodesIn(g) \subseteq Elements /\ Header \in DOMAIN g
  BY <1>1, <1>2 DEF Towers, NodesIn
<1>5. \A y \in DOMAIN g : \E height \in 1..MaxLevel :
        DOMAIN g[y] = 0..(height - 1) /\ (y = Header => height = MaxLevel)
  BY <1>1 DEF Towers
<1>6. \A k \in Levels : On(g, k) = On(f, k) \ {e}
  BY <1>1, <1>2 DEF On, NodesIn
<1> QED BY <1>2, <1>3, <1>4, <1>5, <1>6 DEF Towers

LEMMA DeletedLinks ==
    ASSUME NEW f, NEW g, NEW e, NEW u, Towers(f), Linked(f), Deleted(f, g, e, u)
    PROVE  Linked(g)
<1> SUFFICES ASSUME NEW y \in DOMAIN g, NEW k \in DOMAIN g[y]
             PROVE  IsNext(On(g, k), y, g[y][k])
  BY DEF Linked
<1>1. Towers(g) /\ k \in Levels
  BY DeletedTowers, TowerLevels
<1>2. On(g, k) = On(f, k) \ {e} /\ On(f, k) \in SUBSET Elements
  BY <1>1, DeletedTowers, OnIs
<1>3. /\ y \in DOMAIN f /\ k \in DOMAIN f[y] /\ y # e
      /\ g[y][k] = IF k \in DOMAIN f[e] /\ u[k] = y THEN f[e][k] ELSE f[y][k]
  BY DEF Deleted
<1>4. IsNext(On(f, k), y, f[y][k]) /\ y \in On(f, k) \cup {Header}
  BY <1>3, OnIs DEF Linked
<1>5. CASE k \in DOMAIN f[e]
  <2>1. e \in On(f, k) /\ LastBefore(On(f, k), u[k], e) /\ IsNext(On(f, k), e, f[e][k])
    BY <1>5 DEF Deleted, On, Linked, NodesIn
  <2>2. /\ \A m : IsNext(On(f, k), e, m) => IsNext(On(f, k) \ {e}, u[k], m)
        /\ \A z \in On(f, k) \cup {Header} : \A m :
             z # u[k] /\ z # e /\ IsNext(On(f, k), z, m) => IsNext(On(f, k) \ {e}, z, m)
    <3>1. PICK s \in SUBSET Elements : s = On(f, k)
      BY <1>2
    <3>2. PICK v : v = u[k]
      OBVIOUS
    <3>3. e \in s /\ LastBefore(s, v, e)
      BY <2>1, <3>1, <3>2
    <3>4. /\ \A m : IsNext(s, e, m) => IsNext(s \ {e}, v, m)
          /\ \A z \in s \cup {Header} : \A m :
               z # v /\ z # e /\ IsNext(s, z, m) => IsNext(s \ {e}, z, m)
      BY <3>3, NextDelete
    <3> QED BY <3>1, <3>2, <3>4
  <2> QED BY <1>2, <1>3, <1>4, <1>5, <2>1, <2>2
<1>6. CASE k \notin DOMAIN f[e]
  <2>1. On(f, k) \ {e} = On(f, k)
    BY <1>6 DEF On
  <2> QED BY <1>2, <1>3, <1>4, <1>6, <2>1
<1> QED BY <1>5, <1>6

-----------------------------------------------------------------------------
(* Neighbours *)

\* There is one next and one that is before it.
LEMMA NextUnique ==
    ASSUME NEW s \in SUBSET Elements, NEW y \in s \cup {Header}, NEW n, IsNext(s, y, n)
    PROVE  /\ \A m : IsNext(s, y, m) => m = n
           /\ \A z \in s \cup {Header} : IsNext(s, z, n) => z = y
<1>1. s \cup {Header} \subseteq Places /\ Nil \notin s
  BY NilIsNoPlace DEF Places
<1>2. ASSUME NEW m, IsNext(s, y, m) PROVE m = n
  <2>1. m # Nil => m \in s /\ m \in Places
    BY <1>1, <1>2 DEF IsNext
  <2>2. n # Nil => n \in s /\ n \in Places
    BY <1>1 DEF IsNext
  <2> QED BY <1>2, <2>1, <2>2, BeforeOrder DEF IsNext
<1>3. ASSUME NEW z \in s \cup {Header}, IsNext(s, z, n) PROVE z = y
  <2>1. SUFFICES ASSUME z # y PROVE FALSE
    OBVIOUS
  <2>2. z \in Places /\ y \in Places
    BY <1>1
  <2>3. Before(z, y) => y \in s
    BY <2>2, BeforeOrder
  <2>4. Before(y, z) => z \in s
    BY <2>2, BeforeOrder
  <2> QED BY <1>3, <2>1, <2>2, <2>3, <2>4, BeforeOrder DEF IsNext
<1> QED BY <1>2, <1>3

\* What is before the last one before e leads to what is before e, and the others
\* lead past it.
LEMMA NextSides ==
    ASSUME NEW s \in SUBSET Elements, NEW e \in Elements, NEW u, LastBefore(s, u, e),
           NEW y \in s \cup {Header}, NEW n, IsNext(s, y, n), n # e
    PROVE  /\ Before(y, e) /\ y # u => n # Nil /\ Before(n, e)
           /\ n # Nil /\ (y = u \/ Before(e, y)) => Before(e, n)
<1>1. y \in Places /\ e \in Places /\ u \in Places /\ e # Header
  BY BeforeOrder DEF LastBefore, Places
<1>2. n # Nil => n \in s /\ n \in Places
  BY DEF IsNext, Places
<1>3. ASSUME Before(y, e), y # u PROVE n # Nil /\ Before(n, e)
  <2>1. Before(y, u)
    <3>1. ~Before(u, y)
      BY <1>1, <1>3, BeforeOrder DEF LastBefore
    <3> QED BY <1>1, <1>3, <3>1, BeforeOrder
  <2>2. u \in s
    BY <1>1, <2>1, BeforeOrder DEF LastBefore
  <2>3. n # Nil /\ ~Before(u, n)
    BY <2>1, <2>2 DEF IsNext
  <2> QED BY <1>1, <1>2, <2>3, BeforeOrder DEF LastBefore
<1>4. ASSUME n # Nil, y = u \/ Before(e, y) PROVE Before(e, n)
  <2>1. Before(y, n) /\ n \in s
    BY <1>4 DEF IsNext
  <2>2. CASE y = u
    BY <1>1, <1>2, <2>1, <2>2, BeforeOrder DEF LastBefore
  <2>3. CASE Before(e, y)
    BY <1>1, <1>2, <1>4, <2>1, <2>3, BeforeOrder
  <2> QED BY <1>4, <2>2, <2>3
<1> QED BY <1>3, <1>4

-----------------------------------------------------------------------------
(* The levels in use *)

TopLevel(f, lv) ==
    /\ lv \in 1..MaxLevel
    /\ \A k \in Levels : k >= lv => On(f, k) = {}
    /\ lv > 1 => On(f, lv - 1) # {}

LEMMA InsertedTop ==
    ASSUME NEW f, NEW g, NEW e, NEW level, NEW u, NEW lv, Towers(f), TopLevel(f, lv),
           Inserted(f, g, e, level, u)
    PROVE  TopLevel(g, IF level > lv THEN level ELSE lv)
<1>1. MaxLevel \in Nat \ {0} /\ level \in 1..MaxLevel /\ lv \in 1..MaxLevel
  BY SkipListAssumption DEF Inserted, TopLevel
<1>2. \A k \in Levels : On(g, k) = IF k < level THEN On(f, k) \cup {e} ELSE On(f, k)
  BY InsertedTowers
<1>3. PICK h \in 1..MaxLevel : h = IF level > lv THEN level ELSE lv
  BY <1>1
<1>4. \A k \in Levels : k >= h => On(g, k) = {}
  <2>1. ASSUME NEW k \in Levels, k >= h PROVE k >= lv /\ ~(k < level) /\ k \in Levels
    BY <1>1, <1>3, <2>1 DEF Levels
  <2> QED BY <1>2, <2>1 DEF TopLevel
<1>5. ASSUME h > 1 PROVE On(g, h - 1) # {}
  <2>1. h - 1 \in Levels
    BY <1>1 DEF Levels
  <2>2. CASE h = level
    <3>1. h - 1 < level
      BY <1>1, <2>2
    <3> QED BY <1>2, <2>1, <3>1
  <2>3. CASE h # level
    <3>1. h = lv /\ lv > 1
      BY <1>3, <1>5, <2>3
    <3> QED BY <1>2, <2>1, <3>1 DEF TopLevel
  <2> QED BY <2>2, <2>3
<1> QED BY <1>3, <1>4, <1>5 DEF TopLevel

\* A bounded set of numbers has a greatest one.
LEMMA Greatest ==
    ASSUME NEW n \in Nat, NEW t \in SUBSET (0..n), t # {}
    PROVE  \E k \in t : \A j \in t : j <= k
<1> DEFINE r == {n - k : k \in t}
<1>1. r \subseteq Nat /\ r # {}
  <2>1. \A k \in t : n - k \in Nat
    OBVIOUS
  <2>2. PICK k : k \in t
    OBVIOUS
  <2>3. n - k \in r
    BY <2>2
  <2> QED BY <2>1, <2>3
<1>2. PICK a \in r : \A b \in r : <<b, a>> \notin OpToRel(<, Nat)
  BY <1>1, NatLessThanWellFounded, WFMin
<1>3. PICK k \in t : a = n - k
  OBVIOUS
<1>4. ASSUME NEW j \in t PROVE j <= k
  <2>1. n - j \in r /\ n - j \in Nat /\ a \in Nat
    BY <1>1
  <2>2. ~(n - j < a)
    BY <1>2, <2>1 DEF OpToRel
  <2> QED BY <1>3, <2>1, <2>2
<1> QED BY <1>4

\* The header has a link on the levels that have a node.
LEMMA HeaderLinks ==
    ASSUME NEW f, Towers(f), Linked(f), NEW k \in Levels
    PROVE  f[Header][k] # Nil <=> On(f, k) # {}
<1>1. Header \in DOMAIN f /\ k \in DOMAIN f[Header]
  BY TowerLevels DEF Towers
<1>2. IsNext(On(f, k), Header, f[Header][k]) /\ On(f, k) \in SUBSET Elements
  BY <1>1, OnIs DEF Linked
<1> QED BY <1>2, BeforeOrder DEF IsNext

\* LevelsLeft is the number of levels that still have a node, at least 1.
LEMMA TopLeft ==
    ASSUME NEW f, Towers(f), Linked(f), zsl.level \in 1..MaxLevel,
           \A k \in Levels : k >= zsl.level => On(f, k) = {}
    PROVE  TopLevel(f, LevelsLeft(f[Header])) /\ LevelsLeft(f[Header]) <= zsl.level
<1>1. MaxLevel \in Nat \ {0} /\ zsl.level \in Nat
  BY SkipListAssumption
<1>2. PICK t : t = Used(f[Header])
  OBVIOUS
<1>3. /\ t \in SUBSET (0..(zsl.level - 1)) /\ zsl.level - 1 \in Nat
      /\ \A k \in Levels : On(f, k) # {} => k \in t
      /\ \A k \in t : k \in Levels /\ On(f, k) # {}
  <2>1. \A k \in 0..(zsl.level - 1) : k \in Levels
    BY <1>1 DEF Levels
  <2>2. \A k \in Levels : On(f, k) # {} => k \in 0..(zsl.level - 1)
    BY <1>1 DEF Levels
  <2>3. \A k \in 0..(zsl.level - 1) : k \in t <=> On(f, k) # {}
    BY <1>2, <2>1, HeaderLinks DEF Used
  <2>4. t \subseteq 0..(zsl.level - 1)
    BY <1>2 DEF Used
  <2> QED BY <1>1, <2>1, <2>2, <2>3, <2>4
<1>4. CASE t = {}
  <2>1. LevelsLeft(f[Header]) = 1
    BY <1>2, <1>4 DEF LevelsLeft
  <2>2. \A k \in Levels : On(f, k) = {}
    BY <1>3, <1>4
  <2> QED BY <1>1, <2>1, <2>2 DEF TopLevel
<1>5. CASE t # {}
  <2>1. PICK k : k = CHOOSE j \in t : \A m \in t : m <= j
    OBVIOUS
  <2>2. k \in t /\ \A m \in t : m <= k
    <3>1. PICK n \in Nat : n = zsl.level - 1
      BY <1>3
    <3>2. \E j \in t : \A m \in t : m <= j
      BY <1>3, <1>5, <3>1, Greatest
    <3> QED BY <2>1, <3>2, Zenon
  <2>3. LevelsLeft(f[Header]) = 1 + k
    BY <1>2, <1>5, <2>1 DEF LevelsLeft
  <2>4. k \in Nat /\ k <= zsl.level - 1 /\ 1 + k \in 1..MaxLevel /\ (1 + k) - 1 = k
    <3>1. k \in 0..(zsl.level - 1)
      BY <1>3, <2>2
    <3> QED BY <1>1, <3>1
  <2>5. \A m \in Levels : m >= 1 + k => On(f, m) = {}
    <3>1. ASSUME NEW m \in Levels, m >= 1 + k PROVE ~(m <= k)
      BY <1>1, <2>4, <3>1 DEF Levels
    <3> QED BY <1>3, <2>2, <3>1
  <2>6. On(f, k) # {} /\ 1 + k <= zsl.level
    BY <1>1, <1>3, <2>2, <2>4
  <2> QED BY <2>3, <2>4, <2>5, <2>6 DEF TopLevel
<1> QED BY <1>4, <1>5

-----------------------------------------------------------------------------
(* The pointers back *)

Back(n) == IF n = Nil THEN Header ELSE n

Backs(s, b, tail) ==
    /\ \A y \in s : b[y] \in s \cup {Nil} /\ IsNext(s, Back(b[y]), y)
    /\ tail \in s \cup {Nil} /\ IsNext(s, Back(tail), Nil)

LEMMA BackIs ==
    ASSUME NEW s \in SUBSET Elements, NEW n \in s \cup {Nil}
    PROVE  Back(n) \in s \cup {Header} /\ (Back(n) = Header <=> n = Nil)
BY SkipListAssumption DEF Back

LEMMA InsertedBacks ==
    ASSUME NEW s \in SUBSET Elements, NEW e \in Elements, e \notin s, NEW u, LastBefore(s, u, e),
           NEW n, IsNext(s, u, n), NEW b, NEW tail, Backs(s, b, tail), NEW c,
           \A y \in s \cup {e} : c[y] = IF y = e THEN (IF u = Header THEN Nil ELSE u)
                                        ELSE IF y = n THEN e ELSE b[y]
    PROVE  Backs(s \cup {e}, c, IF n = Nil THEN e ELSE tail)
<1>1. u \in s \cup {Header} /\ Nil \notin s /\ e # Nil /\ e # Header
  BY NilIsNoPlace, BeforeOrder DEF LastBefore, Places
<1>2. /\ IsNext(s \cup {e}, u, e) /\ IsNext(s \cup {e}, e, n)
      /\ \A y \in s \cup {Header} : \A m : y # u /\ IsNext(s, y, m) => IsNext(s \cup {e}, y, m)
  BY NextInsert
<1>3. \A m : IsNext(s, u, m) => m = n
  BY <1>1, NextUnique
<1>4. ASSUME NEW y \in s \cup {e}
      PROVE  c[y] \in s \cup {e} \cup {Nil} /\ IsNext(s \cup {e}, Back(c[y]), y)
  <2>1. CASE y = e
    <3>1. Back(c[y]) = u /\ c[y] \in s \cup {Nil}
      BY <1>1, <2>1 DEF Back
    <3> QED BY <1>2, <2>1, <3>1
  <2>2. CASE y # e /\ y = n
    <3>1. c[y] = e /\ Back(e) = e
      BY <1>1, <2>2 DEF Back
    <3> QED BY <1>2, <2>2, <3>1
  <2>3. CASE y # e /\ y # n
    <3>1. c[y] = b[y] /\ y \in s
      BY <2>3
    <3>2. b[y] \in s \cup {Nil} /\ IsNext(s, Back(b[y]), y) /\ Back(b[y]) \in s \cup {Header}
      BY <3>1, BackIs DEF Backs
    <3>3. Back(b[y]) # u
      BY <1>3, <2>3, <3>2
    <3> QED BY <1>2, <3>1, <3>2, <3>3
  <2> QED BY <2>1, <2>2, <2>3
<1>5. CASE n = Nil
  <2>1. Back(e) = e
    BY <1>1 DEF Back
  <2> QED BY <1>2, <1>4, <1>5, <2>1 DEF Backs
<1>6. CASE n # Nil
  <2>1. tail \in s \cup {Nil} /\ IsNext(s, Back(tail), Nil) /\ Back(tail) \in s \cup {Header}
    BY BackIs DEF Backs
  <2>2. Back(tail) # u
    BY <1>3, <1>6, <2>1
  <2>3. IsNext(s \cup {e}, Back(tail), Nil)
    BY <1>2, <2>1, <2>2
  <2> QED BY <1>4, <1>6, <2>1, <2>3 DEF Backs
<1> QED BY <1>5, <1>6

LEMMA DeletedBacks ==
    ASSUME NEW s \in SUBSET Elements, NEW e \in s, NEW u, LastBefore(s, u, e), IsNext(s, u, e),
           NEW n, IsNext(s, e, n), NEW b, NEW tail, Backs(s, b, tail), NEW c,
           \A y \in s \ {e} : c[y] = IF y = n THEN b[e] ELSE b[y]
    PROVE  Backs(s \ {e}, c, IF n = Nil THEN b[e] ELSE tail)
<1>1. u \in s \cup {Header} /\ Nil \notin s /\ e # Nil /\ e # Header /\ e \in s \cup {Header}
  BY NilIsNoPlace, BeforeOrder DEF LastBefore, Places
<1>2. /\ \A m : IsNext(s, e, m) => IsNext(s \ {e}, u, m) /\ m # e
      /\ \A y \in s \cup {Header} : \A m :
           y # u /\ y # e /\ IsNext(s, y, m) => IsNext(s \ {e}, y, m) /\ m # e
  BY NextDelete
<1>3. /\ \A m : IsNext(s, u, m) => m = e
      /\ \A z \in s \cup {Header} : IsNext(s, z, e) => z = u
      /\ \A m : IsNext(s, e, m) => m = n
  BY <1>1, NextUnique
<1>4. b[e] \in s \cup {Nil} /\ Back(b[e]) = u /\ b[e] # e
  <2>1. b[e] \in s \cup {Nil} /\ IsNext(s, Back(b[e]), e)
    BY DEF Backs
  <2>2. Back(b[e]) = u
    BY <1>3, <2>1, BackIs
  <2>3. u # e
    BY <1>1, BeforeOrder DEF LastBefore
  <2> QED BY <1>1, <2>1, <2>2, <2>3 DEF Back
<1>5. ASSUME NEW y \in s \ {e}
      PROVE  c[y] \in (s \ {e}) \cup {Nil} /\ IsNext(s \ {e}, Back(c[y]), y)
  <2>1. CASE y = n
    BY <1>2, <1>4, <2>1
  <2>2. CASE y # n
    <3>1. c[y] = b[y] /\ b[y] \in s \cup {Nil} /\ IsNext(s, Back(b[y]), y)
      BY <2>2 DEF Backs
    <3>2. Back(b[y]) \in s \cup {Header} /\ Back(b[y]) # u /\ Back(b[y]) # e
      BY <1>3, <2>2, <3>1, BackIs
    <3>3. b[y] # e
      BY <1>1, <3>2 DEF Back
    <3> QED BY <1>2, <3>1, <3>2, <3>3
  <2> QED BY <2>1, <2>2
<1>6. CASE n = Nil
  BY <1>2, <1>4, <1>5, <1>6 DEF Backs
<1>7. CASE n # Nil
  <2>1. tail \in s \cup {Nil} /\ IsNext(s, Back(tail), Nil) /\ Back(tail) \in s \cup {Header}
    BY BackIs DEF Backs
  <2>2. Back(tail) # u /\ Back(tail) # e
    BY <1>1, <1>3, <1>7, <2>1
  <2>3. IsNext(s \ {e}, Back(tail), Nil) /\ tail # e
    BY <1>1, <1>2, <2>1, <2>2 DEF Back
  <2> QED BY <1>5, <1>7, <2>1, <2>3 DEF Backs
<1> QED BY <1>6, <1>7

-----------------------------------------------------------------------------
(* The spans *)

\* The rank a link leads to; the end of the list counts as its last element.
Target(s, n) == IF n = Nil THEN Cardinality(s) ELSE Rank(s, n)

SpanExact(f, sp, lv) == \A y \in DOMAIN f : \A k \in DOMAIN f[y] :
    k < lv => sp[y][k] = Target(NodesIn(f), f[y][k]) - Rank(NodesIn(f), y)

LEMMA TargetType ==
    ASSUME NEW s \in SUBSET Elements, IsFiniteSet(s), NEW n
    PROVE  Target(s, n) \in Nat
BY RankType DEF Target

\* A link leads on.
LEMMA TargetAhead ==
    ASSUME NEW f, Towers(f), Linked(f), NEW y \in DOMAIN f, NEW k \in DOMAIN f[y]
    PROVE  /\ Target(NodesIn(f), f[y][k]) - Rank(NodesIn(f), y) \in Nat
           /\ f[y][k] # Nil => f[y][k] \in NodesIn(f) /\ f[y][k] \in DOMAIN f
                               /\ f[y][k] # Header /\ k \in DOMAIN f[f[y][k]]
<1>1. PICK s : s = NodesIn(f)
  OBVIOUS
<1>2. s \in SUBSET Elements /\ IsFiniteSet(s) /\ y \in s \cup {Header}
  BY <1>1, TowerLevels DEF Towers
<1>3. PICK n : n = f[y][k]
  OBVIOUS
<1>4. IsNext(On(f, k), y, n) /\ \A z \in On(f, k) : z \in s /\ z \in DOMAIN f /\ k \in DOMAIN f[z] /\ z # Header
  BY <1>1, <1>3 DEF Linked, On, NodesIn
<1>5. Rank(s, y) \in Nat /\ Cardinality(s) \in Nat /\ Rank(s, y) <= Cardinality(s) /\ Target(s, n) \in Nat
  BY <1>2, RankType, TargetType
<1>6. n # Nil => n \in s /\ n \in DOMAIN f /\ n # Header /\ k \in DOMAIN f[n] /\ Rank(s, y) < Rank(s, n)
  <2>1. ASSUME n # Nil PROVE n \in On(f, k) /\ Before(y, n)
    BY <1>4, <2>1 DEF IsNext
  <2> QED BY <1>2, <1>4, <2>1, RankLess
<1>7. Target(s, n) - Rank(s, y) \in Nat
  BY <1>5, <1>6 DEF Target
<1> QED BY <1>1, <1>3, <1>6, <1>7

LEMMA TargetInsert ==
    ASSUME NEW s \in SUBSET Elements, IsFiniteSet(s), NEW e \in Elements, e \notin s,
           NEW n \in s \cup {Nil}
    PROVE  /\ n # Nil /\ Before(n, e) => Target(s \cup {e}, n) = Target(s, n)
           /\ n = Nil \/ Before(e, n) => Target(s \cup {e}, n) = Target(s, n) + 1
           /\ \A u : LastBefore(s, u, e) => Target(s \cup {e}, e) = Rank(s, u) + 1
<1>1. e # Nil
  BY NilIsNoPlace DEF Places
<1>2. /\ \A y \in s \cup {Header} : Before(y, e) => Rank(s \cup {e}, y) = Rank(s, y)
      /\ \A y \in s \cup {Header} : Before(e, y) => Rank(s \cup {e}, y) = Rank(s, y) + 1
      /\ \A u : LastBefore(s, u, e) => Rank(s \cup {e}, e) = Rank(s, u) + 1
      /\ Cardinality(s \cup {e}) = Cardinality(s) + 1
  BY RankInsert
<1>3. \A u : LastBefore(s, u, e) => Target(s \cup {e}, e) = Rank(s, u) + 1
  BY <1>1, <1>2 DEF Target
<1>4. CASE n = Nil
  BY <1>2, <1>3, <1>4 DEF Target
<1>5. CASE n # Nil
  <2>1. n \in s \cup {Header} /\ Target(s, n) = Rank(s, n) /\ Target(s \cup {e}, n) = Rank(s \cup {e}, n)
    BY <1>5 DEF Target
  <2> QED BY <1>2, <1>3, <1>5, <2>1
<1> QED BY <1>4, <1>5

LEMMA TargetDelete ==
    ASSUME NEW s \in SUBSET Elements, IsFiniteSet(s), NEW e \in s,
           NEW n \in (s \ {e}) \cup {Nil}
    PROVE  /\ n # Nil /\ Before(n, e) => Target(s \ {e}, n) = Target(s, n)
           /\ n = Nil \/ Before(e, n) => Target(s \ {e}, n) = Target(s, n) - 1
<1>1. /\ \A y \in (s \ {e}) \cup {Header} : Before(y, e) => Rank(s \ {e}, y) = Rank(s, y)
      /\ \A y \in (s \ {e}) \cup {Header} : Before(e, y) => Rank(s \ {e}, y) = Rank(s, y) - 1
      /\ Cardinality(s \ {e}) = Cardinality(s) - 1
  BY RankDelete
<1>2. CASE n = Nil
  BY <1>1, <1>2 DEF Target
<1>3. CASE n # Nil
  <2>1. n \in (s \ {e}) \cup {Header} /\ Target(s, n) = Rank(s, n) /\ Target(s \ {e}, n) = Rank(s \ {e}, n)
    BY <1>3 DEF Target
  <2> QED BY <1>1, <1>3, <2>1
<1> QED BY <1>2, <1>3

\* The spans after a node has been put in, u[k] being the last before it on level k
\* and lv the levels that were in use.
SpansInserted(f, sp, sq, e, level, lv, u) ==
    LET s == NodesIn(f)
        Crossed(k) == Rank(s, u[0]) - Rank(s, u[k])
    IN
    /\ \A k \in 0..(level - 1) :
        sq[e][k] = (IF k < lv THEN sp[u[k]][k] ELSE Cardinality(s)) - Crossed(k)
    /\ \A y \in DOMAIN f : \A k \in DOMAIN f[y] : k < level \/ k < lv =>
        sq[y][k] = IF u[k] # y THEN sp[y][k]
                   ELSE IF k < level THEN Crossed(k) + 1 ELSE sp[y][k] + 1

LEMMA InsertedSpans ==
    ASSUME NEW f, NEW g, NEW e, NEW level, NEW u, NEW lv, NEW sp, NEW sq,
           Towers(f), Linked(f), TopLevel(f, lv), SpanExact(f, sp, lv),
           Inserted(f, g, e, level, u), SpansInserted(f, sp, sq, e, level, lv, u),
           \A k \in Levels : k < lv \/ k < level => LastBefore(On(f, k), u[k], e),
           NEW y \in DOMAIN g, NEW k \in DOMAIN g[y], k < level \/ k < lv
    PROVE  sq[y][k] = Target(NodesIn(g), g[y][k]) - Rank(NodesIn(g), y)
<1>1. PICK s : s = NodesIn(f)
  OBVIOUS
<1>2. /\ s \in SUBSET Elements /\ IsFiniteSet(s) /\ e \in Elements /\ e \notin s /\ e # Header
      /\ NodesIn(g) = s \cup {e} /\ level \in Nat /\ lv \in Nat /\ k \in Levels /\ k \in Nat
  <2>1. k \in Levels /\ NodesIn(g) = s \cup {e}
    BY <1>1, InsertedTowers, TowerLevels
  <2>2. MaxLevel \in Nat
    BY SkipListAssumption
  <2> QED BY <1>1, <2>1, <2>2, BeforeOrder DEF Towers, Inserted, NodesIn, TopLevel, Levels
<1>3. PICK v : v = u[k]
  OBVIOUS
<1>4. PICK w : w = u[0]
  OBVIOUS
<1>5. LastBefore(On(f, k), v, e) /\ LastBefore(s, w, e)
  <2>1. 0 \in Levels /\ (0 < lv \/ 0 < level)
    BY SkipListAssumption DEF Levels, TopLevel
  <2>2. On(f, 0) = s
    BY <1>1, OnIs
  <2> QED BY <1>2, <1>3, <1>4, <2>1, <2>2
<1>6. /\ v \in DOMAIN f /\ k \in DOMAIN f[v] /\ v \in s \cup {Header} /\ v \in On(f, k) \cup {Header}
      /\ w \in s \cup {Header} /\ Before(v, e)
  <2>1. v \in On(f, k) \cup {Header} /\ w \in s \cup {Header} /\ Before(v, e)
    BY <1>5 DEF LastBefore
  <2>2. Header \in DOMAIN f /\ k \in DOMAIN f[Header]
    BY <1>2, TowerLevels DEF Towers
  <2> QED BY <1>1, <2>1, <2>2, OnIs
<1>7. PICK n : n = f[v][k]
  OBVIOUS
<1>8. /\ IsNext(On(f, k), v, n) /\ n \in s \cup {Nil} /\ (n # Nil => Before(e, n))
      /\ On(f, k) \in SUBSET Elements /\ e \notin On(f, k)
  <2>1. IsNext(On(f, k), v, n) /\ On(f, k) \in SUBSET Elements /\ On(f, k) \subseteq s
    BY <1>1, <1>6, <1>7, OnIs DEF Linked
  <2>2. e \notin On(f, k)
    BY <1>2, <2>1
  <2> QED BY <1>2, <1>5, <2>1, <2>2, NextInsert DEF IsNext
<1>9. /\ Rank(s, v) \in Nat /\ Rank(s, w) \in Nat /\ Target(s, n) \in Nat /\ Cardinality(s) \in Nat
      /\ Rank(s \cup {e}, v) = Rank(s, v) /\ Rank(s \cup {e}, e) = Rank(s, w) + 1
      /\ Target(s \cup {e}, e) = Rank(s, w) + 1 /\ Target(s \cup {e}, n) = Target(s, n) + 1
  <2>1. Rank(s, v) \in Nat /\ Rank(s, w) \in Nat /\ Target(s, n) \in Nat /\ Cardinality(s) \in Nat
    BY <1>2, RankType, TargetType
  <2>2. Rank(s \cup {e}, v) = Rank(s, v) /\ Rank(s \cup {e}, e) = Rank(s, w) + 1
    BY <1>2, <1>5, <1>6, RankInsert
  <2>3. Target(s \cup {e}, e) = Rank(s, w) + 1
    BY <1>2, <1>5, <1>8, TargetInsert
  <2>4. Target(s \cup {e}, n) = Target(s, n) + 1
    BY <1>2, <1>8, TargetInsert
  <2> QED BY <2>1, <2>2, <2>3, <2>4
<1>10. k < lv => sp[v][k] = Target(s, n) - Rank(s, v)
  BY <1>1, <1>6, <1>7 DEF SpanExact
<1>11. ~(k < lv) => v = Header /\ On(f, k) = {} /\ Rank(s, v) = 0 /\ n = Nil
  <2>1. SUFFICES ASSUME ~(k < lv) PROVE v = Header /\ On(f, k) = {} /\ Rank(s, v) = 0 /\ n = Nil
    OBVIOUS
  <2>2. On(f, k) = {}
    BY <1>2, <2>1 DEF TopLevel
  <2> QED BY <1>2, <1>6, <1>8, <2>2, RankOfHeader DEF IsNext
<1>12. CASE y = e
  <2>1. k \in 0..(level - 1)
    BY <1>12 DEF Inserted
  <2>2. g[y][k] = n
    BY <1>3, <1>7, <1>12, <2>1 DEF Inserted
  <2>3. sq[y][k] = (IF k < lv THEN sp[v][k] ELSE Cardinality(s)) - (Rank(s, w) - Rank(s, v))
    BY <1>1, <1>3, <1>4, <1>12, <2>1 DEF SpansInserted
  <2>4. ~(k < lv) => Target(s, n) = Cardinality(s)
    BY <1>11 DEF Target
  <2>5. sq[y][k] = Target(s, n) - Rank(s, w)
    BY <1>9, <1>10, <1>11, <2>3, <2>4
  <2> QED BY <1>2, <1>9, <1>12, <2>2, <2>5
<1>13. CASE y # e
  <2>1. y \in DOMAIN f /\ k \in DOMAIN f[y] /\ y \in s \cup {Header} /\ y \in On(f, k) \cup {Header}
    <3>1. y \in DOMAIN f /\ k \in DOMAIN f[y]
      BY <1>13 DEF Inserted
    <3> QED BY <1>1, <3>1, OnIs, TowerLevels
  <2>2. g[y][k] = IF k < level /\ v = y THEN e ELSE f[y][k]
    BY <1>3, <2>1 DEF Inserted
  <2>3. sq[y][k] = IF v # y THEN sp[y][k]
                   ELSE IF k < level THEN (Rank(s, w) - Rank(s, v)) + 1 ELSE sp[y][k] + 1
    BY <1>1, <1>3, <1>4, <2>1 DEF SpansInserted
  <2>4. CASE y = v /\ k < level
    <3>1. g[y][k] = e /\ sq[y][k] = (Rank(s, w) - Rank(s, v)) + 1
      BY <2>2, <2>3, <2>4
    <3> QED BY <1>2, <1>9, <2>4, <3>1
  <2>5. CASE y = v /\ ~(k < level)
    <3>1. g[y][k] = n /\ sq[y][k] = sp[v][k] + 1 /\ k < lv
      BY <1>7, <2>2, <2>3, <2>5
    <3>2. sp[v][k] = Target(s, n) - Rank(s, v)
      BY <1>10, <3>1
    <3> QED BY <1>2, <1>9, <2>5, <3>1, <3>2
  <2>6. CASE y # v
    <3>1. PICK m : m = f[y][k]
      OBVIOUS
    <3>2. k < lv /\ g[y][k] = m /\ sq[y][k] = sp[y][k]
      BY <1>11, <2>1, <2>2, <2>3, <2>6, <3>1
    <3>3. sq[y][k] = Target(s, m) - Rank(s, y)
      BY <1>1, <2>1, <3>1, <3>2 DEF SpanExact
    <3>4. IsNext(On(f, k), y, m) /\ m \in s \cup {Nil} /\ m # e
      <4>1. IsNext(On(f, k), y, m) /\ On(f, k) \subseteq s
        BY <1>1, <2>1, <3>1, OnIs DEF Linked
      <4>2. e # Nil
        BY <1>2, NilIsNoPlace DEF Places
      <4> QED BY <1>2, <4>1, <4>2 DEF IsNext
    <3>5. /\ Before(y, e) => m # Nil /\ Before(m, e)
          /\ m # Nil /\ Before(e, y) => Before(e, m)
      BY <1>2, <1>5, <1>8, <2>1, <2>6, <3>4, NextSides
    <3>6. Before(y, e) => Target(s \cup {e}, m) = Target(s, m) /\ Rank(s \cup {e}, y) = Rank(s, y)
      BY <1>2, <2>1, <3>4, <3>5, RankInsert, TargetInsert
    <3>7. Before(e, y) => Target(s \cup {e}, m) = Target(s, m) + 1
                          /\ Rank(s \cup {e}, y) = Rank(s, y) + 1
      BY <1>2, <2>1, <3>4, <3>5, RankInsert, TargetInsert
    <3>8. (Before(y, e) \/ Before(e, y)) /\ Target(s, m) \in Nat /\ Rank(s, y) \in Nat
      BY <1>2, <2>1, RankInsert, RankType, TargetType
    <3> QED BY <1>2, <3>2, <3>3, <3>6, <3>7, <3>8
  <2> QED BY <2>4, <2>5, <2>6
<1> QED BY <1>12, <1>13

\* The spans after a node has been taken out.
SpansDeleted(f, sp, sq, e, lv, u) ==
    \A y \in DOMAIN f \ {e} : \A k \in DOMAIN f[y] : k < lv =>
        sq[y][k] = IF u[k] # y THEN sp[y][k]
                   ELSE IF f[y][k] = e THEN sp[y][k] + sp[e][k] - 1 ELSE sp[y][k] - 1

LEMMA DeletedSpans ==
    ASSUME NEW f, NEW g, NEW e, NEW u, NEW lv, NEW sp, NEW sq,
           Towers(f), Linked(f), SpanExact(f, sp, lv),
           Deleted(f, g, e, u), SpansDeleted(f, sp, sq, e, lv, u),
           \A k \in Levels : k < lv => LastBefore(On(f, k), u[k], e),
           NEW y \in DOMAIN g, NEW k \in DOMAIN g[y], k < lv
    PROVE  sq[y][k] = Target(NodesIn(g), g[y][k]) - Rank(NodesIn(g), y)
<1>1. PICK s : s = NodesIn(f)
  OBVIOUS
<1>2. /\ s \in SUBSET Elements /\ IsFiniteSet(s) /\ e \in s /\ e \in Elements
      /\ NodesIn(g) = s \ {e} /\ k \in Levels
  <2>1. s \in SUBSET Elements /\ IsFiniteSet(s) /\ e \in s
    BY <1>1 DEF Towers, Deleted
  <2>2. Towers(g) /\ NodesIn(g) = s \ {e}
    BY <1>1, DeletedTowers
  <2> QED BY <2>1, <2>2, TowerLevels
<1>3. PICK v : v = u[k]
  OBVIOUS
<1>4. /\ y \in DOMAIN f /\ y # e /\ k \in DOMAIN f[y]
      /\ g[y][k] = IF k \in DOMAIN f[e] /\ v = y THEN f[e][k] ELSE f[y][k]
  BY <1>3 DEF Deleted
<1>5. PICK m : m = f[y][k]
  OBVIOUS
<1>6. /\ LastBefore(On(f, k), v, e) /\ On(f, k) \in SUBSET Elements /\ On(f, k) \subseteq s
      /\ y \in On(f, k) \cup {Header} /\ y \in s \cup {Header} /\ y \in (s \ {e}) \cup {Header}
      /\ IsNext(On(f, k), y, m) /\ m \in s \cup {Nil}
  <2>1. LastBefore(On(f, k), v, e) /\ On(f, k) \in SUBSET Elements /\ On(f, k) \subseteq s
        /\ y \in On(f, k) \cup {Header}
    BY <1>1, <1>2, <1>3, <1>4, OnIs
  <2>2. IsNext(On(f, k), y, m)
    BY <1>4, <1>5 DEF Linked
  <2> QED BY <1>4, <2>1, <2>2 DEF IsNext
<1>7. sp[y][k] = Target(s, m) - Rank(s, y)
  BY <1>1, <1>4, <1>5 DEF SpanExact
<1>8. sq[y][k] = IF v # y THEN sp[y][k]
                 ELSE IF m = e THEN sp[y][k] + sp[e][k] - 1 ELSE sp[y][k] - 1
  BY <1>3, <1>4, <1>5 DEF SpansDeleted
<1>9. /\ Rank(s, y) \in Nat /\ Target(s, m) \in Nat
      /\ Before(y, e) => Rank(s \ {e}, y) = Rank(s, y)
      /\ Before(e, y) => Rank(s \ {e}, y) = Rank(s, y) - 1
      /\ Before(y, e) \/ Before(e, y)
      /\ y = v => Before(y, e)
  BY <1>2, <1>6, RankType, TargetType, RankDelete DEF LastBefore
<1>10. e # Nil /\ (e \in On(f, k) <=> k \in DOMAIN f[e])
  BY <1>1, <1>2, NilIsNoPlace DEF On, Places
<1>11. CASE m = e
  <2>1. e \in On(f, k) /\ k \in DOMAIN f[e]
    BY <1>6, <1>10, <1>11 DEF IsNext
  <2>2. y = v
    <3>1. Before(y, e)
      BY <1>6, <1>10, <1>11 DEF IsNext
    <3>2. Before(y, e) /\ y # v => Before(y, v)
      BY <1>6, <2>1, NextDelete
    <3>3. ~Before(y, v)
      <4>1. y \in Places /\ v \in Places /\ e \in Places
        BY <1>2, <1>6 DEF LastBefore, Places
      <4>2. v \in On(f, k) \/ v = Header
        BY <1>6 DEF LastBefore
      <4>3. ASSUME Before(y, v) PROVE FALSE
        <5>1. v \in On(f, k) /\ Before(v, e)
          BY <1>6, <4>1, <4>2, <4>3, BeforeOrder DEF LastBefore
        <5> QED BY <1>6, <1>10, <1>11, <4>3, <5>1 DEF IsNext
      <4> QED BY <4>3
    <3> QED BY <3>1, <3>2, <3>3
  <2>3. PICK n : n = f[e][k]
    OBVIOUS
  <2>4. IsNext(On(f, k), e, n) /\ n \in s \cup {Nil} /\ n # e /\ (n # Nil => Before(e, n))
    <3>1. e \in DOMAIN f /\ IsNext(On(f, k), e, n)
      BY <1>1, <1>2, <2>1, <2>3 DEF Linked, NodesIn
    <3>2. ~Before(e, e)
      BY <1>2, BeforeOrder DEF Places
    <3> QED BY <1>6, <1>10, <3>1, <3>2 DEF IsNext
  <2>5. sp[e][k] = Target(s, n) - Rank(s, e)
    BY <1>1, <1>2, <2>1, <2>3 DEF SpanExact, NodesIn
  <2>6. Target(s, m) = Rank(s, e) /\ Rank(s, e) \in Nat /\ Target(s, n) \in Nat
    BY <1>2, <1>10, <1>11, RankType, TargetType DEF Target
  <2>7. Target(s \ {e}, n) = Target(s, n) - 1
    BY <1>2, <2>4, TargetDelete
  <2>8. g[y][k] = n /\ sq[y][k] = sp[y][k] + sp[e][k] - 1
    BY <1>4, <1>8, <1>11, <2>1, <2>2, <2>3
  <2> QED BY <1>2, <1>7, <1>9, <2>2, <2>5, <2>6, <2>7, <2>8
<1>12. CASE m # e
  <2>1. /\ Before(y, e) /\ y # v => m # Nil /\ Before(m, e)
        /\ m # Nil /\ (y = v \/ Before(e, y)) => Before(e, m)
    BY <1>2, <1>6, <1>12, NextSides
  <2>2. m \in (s \ {e}) \cup {Nil}
    BY <1>6, <1>12
  <2>3. /\ Before(y, e) /\ y # v => Target(s \ {e}, m) = Target(s, m)
        /\ y = v \/ Before(e, y) => Target(s \ {e}, m) = Target(s, m) - 1
    BY <1>2, <2>1, <2>2, TargetDelete
  <2>4. g[y][k] = m
    <3>1. ASSUME y = v, k \in DOMAIN f[e] PROVE FALSE
      <4>1. e \in On(f, k) /\ IsNext(On(f, k), v, m)
        BY <1>6, <1>10, <3>1
      <4> QED BY <1>6, <1>12, <4>1, NextDelete
    <3> QED BY <1>4, <1>5, <3>1
  <2>5. ~(Before(y, e) /\ Before(e, y))
    BY <1>2, <1>6, BeforeOrder DEF Places
  <2>6. sq[y][k] = IF v # y THEN sp[y][k] ELSE sp[y][k] - 1
    BY <1>8, <1>12
  <2> QED BY <1>2, <1>7, <1>9, <2>3, <2>4, <2>5, <2>6
<1> QED BY <1>11, <1>12

-----------------------------------------------------------------------------
(* The inductive invariant: the list, and the search that is under way     *)

\* A node the loop may be at: the header, or one that may be passed.
Fore(y) == y = Header \/ Passes(y, Rank(zslNodes, y))

ListInv ==
    /\ Towers(forward) /\ Linked(forward) /\ TopLevel(forward, zsl.level)
    /\ SpanExact(forward, span, zsl.level)
    /\ Backs(zslNodes, backward, zsl.tail) /\ backward[Header] = Nil
    /\ zsl.length = Cardinality(zslNodes)
    /\ \A y, z \in zslNodes : y[2] = z[2] => y = z

\* Level k was left at the last node of it that may be passed.
Left(k) ==
    /\ update[k].rank = Rank(zslNodes, update[k].node)
    /\ update[k].node \in On(forward, k) \cup {Header} /\ Fore(update[k].node)
    /\ \A y \in On(forward, k) : Before(update[k].node, y) => ~Fore(y)

\* It was not what is asked for.
Missed(k) ==
    /\ call.op = "rank" /\ update[k].node # Header => update[k].node[2] # call.arg[2]
    /\ call.op = "element" => update[k].rank # call.arg

SearchInv == x # Nil =>
    /\ x \in zslNodes \cup {Header} /\ Fore(x) /\ rank = Rank(zslNodes, x)
    /\ i \in -1..(zsl.level - 1) /\ (i >= 0 => i \in DOMAIN forward[x])
    /\ \A k \in (i + 1)..(zsl.level - 1) : Left(k) /\ Missed(k)
    /\ i = -1 => update[0].node = x
    /\ call.op = "insert" => \A y \in zslNodes : y[2] # call.arg[2]

SkipInv == zslTypeOK /\ ListInv /\ SearchInv

\* The parts of zslTypeOK.
ListTypeOK ==
    /\ zslNodes \subseteq Elements /\ Header \in DOMAIN forward /\ IsFiniteSet(zslNodes)
    /\ DOMAIN span = DOMAIN forward /\ DOMAIN backward = DOMAIN forward
    /\ \A y \in DOMAIN forward : \E height \in 1..MaxLevel :
        /\ y = Header => height = MaxLevel
        /\ forward[y] \in [0..(height - 1) -> zslNodes \cup {Nil}]
        /\ span[y] \in [0..(height - 1) -> Nat]
        /\ backward[y] \in zslNodes \cup {Nil}
    /\ zsl \in [tail : zslNodes \cup {Nil}, length : Nat, level : 1..MaxLevel]

LocalTypeOK ==
    /\ call \in [op : {"insert", "delete", "rank"}, arg : Elements]
                \cup [op : {"element"}, arg : Ranks] \cup {[op |-> "none"]}
    /\ x \in DOMAIN forward \cup {Nil} /\ i \in -1..(MaxLevel - 1)
    /\ rank \in Nat /\ update \in [Levels -> Stops]
    /\ IF call.op \in {"insert", "element"} THEN result \in {Nil} \cup Elements
       ELSE result \in {Nil} \cup Nat

LEMMA TypeParts == zslTypeOK <=> ListTypeOK /\ LocalTypeOK
BY DEF zslTypeOK, ListTypeOK, LocalTypeOK

LEMMA TypePartsNext == zslTypeOK' <=> ListTypeOK' /\ LocalTypeOK'
BY TypeParts, PTL

LEMMA CallArg ==
    ASSUME LocalTypeOK
    PROVE  /\ call.op \in {"insert", "delete", "rank"} => call.arg \in Elements
           /\ call.op = "element" => call.arg \in Nat /\ call.arg > 0
<1>1. CASE call \in [op : {"insert", "delete", "rank"}, arg : Elements]
  BY <1>1
<1>2. CASE call \in [op : {"element"}, arg : Ranks]
  <2>1. call.op = "element" /\ call.arg \in Ranks
    BY <1>2
  <2>2. \A r \in Ranks : r \in Nat /\ r > 0
    BY SkipListAssumption
  <2> QED BY <2>1, <2>2
<1>3. CASE call = [op |-> "none"]
  BY <1>3
<1> QED BY <1>1, <1>2, <1>3 DEF LocalTypeOK

LEMMA NodesAre == zslNodes = NodesIn(forward)
BY DEF zslNodes, NodesIn

\* RankOf is the rank in the nodes of the list.
LEMMA RanksAre ==
    ASSUME ListInv, NEW y \in zslNodes \cup {Header}
    PROVE  RankOf(y) = Rank(zslNodes, y) /\ RankOf(y) \in Nat
<1>1. zslNodes \in SUBSET Elements /\ IsFiniteSet(zslNodes)
  BY NodesAre DEF ListInv, Towers
<1>2. CASE y = Header
  BY <1>1, <1>2, RankOfHeader DEF RankOf
<1>3. CASE y # Header
  <2>1. y \in Elements
    BY <1>1, <1>3
  <2>2. {z \in zslNodes : ~Less(y, z)} = NotAfter(zslNodes, y)
    BY <1>1, <2>1, BeforeOrder DEF NotAfter
  <2> QED BY <1>1, <1>3, <2>2, RankType DEF RankOf, Rank
<1> QED BY <1>2, <1>3

\* What is not after a node that may be passed may be passed.
LEMMA ForeDown ==
    ASSUME LocalTypeOK, ListInv, NEW y \in zslNodes \cup {Header}, NEW z \in zslNodes \cup {Header},
           Fore(z), ~Before(z, y)
    PROVE  Fore(y)
<1>1. zslNodes \in SUBSET Elements /\ IsFiniteSet(zslNodes)
  BY NodesAre DEF ListInv, Towers
<1>2. SUFFICES ASSUME y # Header PROVE Passes(y, Rank(zslNodes, y))
  BY DEF Fore
<1>3. y \in Elements /\ z \in Elements /\ ~Less(z, y) /\ Passes(z, Rank(zslNodes, z))
  BY <1>1, <1>2 DEF Fore, Before
<1>4. y = z \/ Less(y, z)
  BY <1>3, LessOrder
<1>5. CASE call.op \in {"insert", "delete"}
  BY <1>3, <1>4, <1>5, CallArg, LessOrder DEF Passes
<1>6. CASE call.op = "rank"
  BY <1>3, <1>4, <1>6, CallArg, LessOrder DEF Passes, RankPasses
<1>7. CASE call.op = "element"
  <2>1. Rank(zslNodes, y) <= Rank(zslNodes, z)
    BY <1>1, RankOrder
  <2>2. Rank(zslNodes, z) <= call.arg
    BY <1>3, <1>7 DEF Passes
  <2>3. Rank(zslNodes, y) <= call.arg
    BY <1>1, <1>7, <2>1, <2>2, CallArg, RankType
  <2> QED BY <1>7, <2>3 DEF Passes
<1> QED BY <1>3, <1>5, <1>6, <1>7 DEF Passes

\* What an insertion or a deletion passes is before its element.
LEMMA ForeBefore ==
    ASSUME LocalTypeOK, ListInv, call.op \in {"insert", "delete"}, NEW y \in zslNodes \cup {Header}
    PROVE  Fore(y) <=> Before(y, call.arg)
<1>1. call.arg \in Elements /\ zslNodes \in SUBSET Elements
  BY CallArg, NodesAre DEF ListInv, Towers
<1>2. call.arg # Header /\ (y # Header => y \in Elements)
  BY <1>1, SkipListAssumption
<1> QED BY <1>1, <1>2, BeforeOrder DEF Fore, Passes, Before

LEMMA ListKept ==
    ASSUME ListTypeOK, ListInv, UNCHANGED list
    PROVE  /\ ListTypeOK' /\ ListInv' /\ zslNodes' = zslNodes
           /\ UNCHANGED call => \A y : Fore(y)' <=> Fore(y)
<1>1. UNCHANGED <<forward, span, backward, zsl>> /\ zslNodes' = zslNodes
  BY DEF list, zslNodes
<1>2. ListTypeOK'
  BY <1>1 DEF ListTypeOK
<1>3. ListInv'
  BY <1>1 DEF ListInv
<1>4. UNCHANGED call => \A y : Fore(y)' <=> Fore(y)
  BY <1>1 DEF Fore, Passes
<1> QED BY <1>1, <1>2, <1>3, <1>4

-----------------------------------------------------------------------------
(* The steps that leave the list as it is                                  *)

LEMMA CreateInv == ASSUME zslCreate PROVE SkipInv
<1>1. /\ forward = [y \in {Header} |-> [k \in Levels |-> Nil]]
      /\ span = [y \in {Header} |-> [k \in Levels |-> 0]]
      /\ backward = [y \in {Header} |-> Nil]
      /\ zsl = [tail |-> Nil, length |-> 0, level |-> 1]
      /\ call = [op |-> "none"] /\ x = Nil /\ result = Nil
      /\ i = -1 /\ rank = 0 /\ update = [k \in Levels |-> AtHeader]
  BY DEF zslCreate
<1>2. MaxLevel \in Nat \ {0} /\ Levels = 0..(MaxLevel - 1) /\ MaxLevel \in 1..MaxLevel
  BY SkipListAssumption DEF Levels
<1>3. /\ zslNodes = {} /\ NodesIn(forward) = {} /\ \A k : On(forward, k) = {}
      /\ \A y \in DOMAIN forward : y = Header /\ DOMAIN forward[y] = Levels
      /\ \A y \in DOMAIN forward : \A k \in DOMAIN forward[y] : forward[y][k] = Nil /\ span[y][k] = 0
  BY <1>1 DEF zslNodes, NodesIn, On
<1>4. IsFiniteSet({}) /\ Cardinality({}) = 0
  BY FS_EmptySet
<1>5. ListTypeOK
  <2>1. \A y \in DOMAIN forward : /\ y = Header => MaxLevel = MaxLevel
                                  /\ forward[y] \in [0..(MaxLevel - 1) -> zslNodes \cup {Nil}]
                                  /\ span[y] \in [0..(MaxLevel - 1) -> Nat]
                                  /\ backward[y] \in zslNodes \cup {Nil}
    BY <1>1, <1>2, <1>3
  <2>2. zsl \in [tail : zslNodes \cup {Nil}, length : Nat, level : 1..MaxLevel]
    BY <1>1, <1>2
  <2>3. \A y \in DOMAIN forward : \E height \in 1..MaxLevel :
          /\ y = Header => height = MaxLevel
          /\ forward[y] \in [0..(height - 1) -> zslNodes \cup {Nil}]
          /\ span[y] \in [0..(height - 1) -> Nat]
          /\ backward[y] \in zslNodes \cup {Nil}
    BY <1>2, <2>1
  <2> QED BY <1>1, <1>3, <1>4, <2>2, <2>3 DEF ListTypeOK
<1>6. LocalTypeOK
  <2>1. update \in [Levels -> Stops]
    BY <1>1 DEF Stops, AtHeader
  <2>2. x \in DOMAIN forward \cup {Nil} /\ i \in -1..(MaxLevel - 1) /\ rank \in Nat
    <3>1. x = Nil /\ i = -1 /\ rank = 0
      BY <1>1
    <3> QED BY <1>2, <3>1
  <2>3. call = [op |-> "none"] /\ result = Nil
    BY <1>1
  <2> QED BY <2>1, <2>2, <2>3 DEF LocalTypeOK
<1>7. ListInv
  <2>1. Towers(forward)
    BY <1>1, <1>2, <1>3, <1>4 DEF Towers
  <2>2. Linked(forward)
    BY <1>3 DEF Linked, IsNext
  <2>3. TopLevel(forward, zsl.level)
    BY <1>1, <1>2, <1>3 DEF TopLevel
  <2>4. SpanExact(forward, span, zsl.level)
    <3>1. Rank({}, Header) = 0
      BY RankOfHeader
    <3> QED BY <1>3, <1>4, <3>1 DEF SpanExact, Target
  <2>5. Backs(zslNodes, backward, zsl.tail) /\ backward[Header] = Nil
    BY <1>1, <1>3 DEF Backs, IsNext
  <2> QED BY <1>1, <1>3, <1>4, <2>1, <2>2, <2>3, <2>4, <2>5 DEF ListInv
<1>8. SearchInv
  BY <1>1 DEF SearchInv
<1> QED BY <1>5, <1>6, <1>7, <1>8, TypeParts DEF SkipInv

LEMMA InvParts ==
    /\ SkipInv <=> ListTypeOK /\ LocalTypeOK /\ ListInv /\ SearchInv
    /\ SkipInv' <=> ListTypeOK' /\ LocalTypeOK' /\ ListInv' /\ SearchInv'
BY TypeParts, TypePartsNext DEF SkipInv

LEMMA NodeTypes ==
    ASSUME ListInv
    PROVE  /\ zslNodes \in SUBSET Elements /\ IsFiniteSet(zslNodes) /\ Nil \notin DOMAIN forward
           /\ DOMAIN forward = zslNodes \cup {Header} /\ zsl.level \in 1..MaxLevel /\ MaxLevel \in Nat
           /\ 0 \in Levels /\ 0 < zsl.level
<1>1. zslNodes \in SUBSET Elements /\ IsFiniteSet(zslNodes) /\ Header \in DOMAIN forward
  BY NodesAre DEF ListInv, Towers
<1>2. DOMAIN forward = zslNodes \cup {Header}
  BY <1>1 DEF zslNodes
<1>3. Nil \notin DOMAIN forward
  BY <1>1, <1>2, NilIsNoPlace DEF Places
<1>4. zsl.level \in 1..MaxLevel
  BY DEF ListInv, TopLevel
<1>5. MaxLevel \in Nat /\ 0 \in Levels
  BY SkipListAssumption DEF Levels
<1>6. 0 < zsl.level
  BY <1>4
<1> QED BY <1>1, <1>2, <1>3, <1>4, <1>5, <1>6

LEMMA LeftKept ==
    ASSUME ListTypeOK, ListInv, UNCHANGED <<list, call>>, NEW k, (update[k])' = update[k]
    PROVE  (Left(k)' <=> Left(k)) /\ (Missed(k)' <=> Missed(k))
<1>1. forward' = forward /\ zslNodes' = zslNodes /\ call' = call /\ \A y : Fore(y)' <=> Fore(y)
  BY ListKept DEF list
<1> QED BY <1>1 DEF Left, Missed

\* A call begins at the header, which is before everything.
LEMMA CallStep ==
    ASSUME SkipInv, NEW op, NEW arg, Call(op, arg),
           \/ op \in {"insert", "delete", "rank"} /\ arg \in Elements
           \/ op = "element" /\ arg \in Ranks,
           op = "insert" => \A y \in zslNodes : y[2] # arg[2]
    PROVE  SkipInv'
<1>1. /\ ListTypeOK /\ LocalTypeOK /\ ListInv /\ UNCHANGED <<list, update>> /\ result' = Nil
      /\ call' = [op |-> op, arg |-> arg] /\ x' = Header /\ i' = zsl.level - 1 /\ rank' = 0
  BY InvParts DEF Call
<1>2. ListTypeOK' /\ ListInv' /\ zslNodes' = zslNodes /\ forward' = forward /\ zsl' = zsl
  BY <1>1, ListKept DEF list
<1>3. i' \in -1..(zsl.level - 1) /\ i' \in -1..(MaxLevel - 1) /\ i' \in Levels
  BY <1>1, NodeTypes DEF Levels
<1>4. Header \in DOMAIN forward /\ DOMAIN forward[Header] = Levels
  BY <1>1, NodeTypes, TowerLevels DEF ListInv
<1>5. LocalTypeOK'
  <2>1. call' \in [op : {"insert", "delete", "rank"}, arg : Elements] \cup [op : {"element"}, arg : Ranks]
    BY <1>1
  <2> QED BY <1>1, <1>2, <1>3, <1>4, <2>1 DEF LocalTypeOK
<1>6. SearchInv'
  <2>1. rank' = Rank(zslNodes', x')
    BY <1>1, <1>2, NodeTypes, RankOfHeader
  <2>2. (i + 1)' .. (zsl.level - 1)' = {}
    BY <1>1, <1>2, NodeTypes
  <2>3. Fore(x)'
    BY <1>1 DEF Fore
  <2>4. i' # -1
    BY <1>1, NodeTypes
  <2>5. call'.op = "insert" => \A y \in zslNodes' : y[2] # call'.arg[2]
    BY <1>1, <1>2
  <2> QED BY <1>1, <1>2, <1>3, <1>4, <2>1, <2>2, <2>3, <2>4, <2>5 DEF SearchInv
<1> QED BY <1>2, <1>5, <1>6, InvParts

\* What the loop moves on to has the rank it has counted.
LEMMA Ahead ==
    ASSUME SkipInv, Searching, NEW n, n = forward[x][i]
    PROVE  /\ x \in DOMAIN forward /\ i \in DOMAIN forward[x] /\ i \in Levels /\ i < zsl.level /\ i \in Nat
           /\ IsNext(On(forward, i), x, n)
           /\ n # Nil => /\ n \in zslNodes /\ n \in DOMAIN forward /\ i \in DOMAIN forward[n]
                         /\ rank + span[x][i] = Rank(zslNodes, n)
<1>1. ListInv /\ SearchInv /\ x # Nil /\ i >= 0
  BY InvParts DEF Searching
<1>2. x \in zslNodes \cup {Header} /\ rank = Rank(zslNodes, x) /\ i \in DOMAIN forward[x] /\ i \in -1..(zsl.level - 1)
  BY <1>1 DEF SearchInv
<1>3. x \in DOMAIN forward /\ Towers(forward) /\ Linked(forward) /\ SpanExact(forward, span, zsl.level)
  BY <1>1, <1>2, NodeTypes DEF ListInv
<1>4. i < zsl.level /\ i \in Levels /\ i \in Nat
  <2>1. i \in Levels
    BY <1>2, <1>3, TowerLevels
  <2> QED BY <1>1, <1>2, <2>1, NodeTypes
<1>5. IsNext(On(forward, i), x, n)
  BY <1>2, <1>3 DEF Linked
<1>6. n # Nil => n \in zslNodes /\ n \in DOMAIN forward /\ i \in DOMAIN forward[n]
  BY <1>2, <1>3, TargetAhead, NodesAre
<1>7. n # Nil => rank + span[x][i] = Rank(zslNodes, n)
  <2>1. n # Nil => span[x][i] = Rank(zslNodes, n) - Rank(zslNodes, x)
    BY <1>2, <1>3, <1>4, NodesAre DEF SpanExact, Target
  <2>2. Rank(zslNodes, n) \in Nat /\ Rank(zslNodes, x) \in Nat
    BY <1>1, NodeTypes, RankType
  <2> QED BY <1>2, <2>1, <2>2
<1> QED BY <1>2, <1>3, <1>4, <1>5, <1>6, <1>7

LEMMA AdvanceStep == ASSUME SkipInv, Advance PROVE SkipInv'
<1>1. PICK n : n = forward[x][i]
  OBVIOUS
<1>2. /\ ListTypeOK /\ LocalTypeOK /\ ListInv /\ SearchInv /\ Searching /\ x # Nil
      /\ n # Nil /\ Passes(n, rank + span[x][i])
      /\ x' = n /\ rank' = rank + span[x][i] /\ UNCHANGED <<list, call, i, update, result>>
  BY <1>1, InvParts DEF Advance, MovesOn, Searching
<1>3. /\ ListTypeOK' /\ ListInv' /\ zslNodes' = zslNodes /\ forward' = forward /\ zsl' = zsl
      /\ \A y : Fore(y)' <=> Fore(y)
  BY <1>2, ListKept DEF list
<1>4. n \in zslNodes /\ n \in DOMAIN forward /\ i \in DOMAIN forward[n] /\ rank' = Rank(zslNodes, n)
  BY <1>1, <1>2, Ahead
<1>5. Fore(n)
  BY <1>2, <1>4 DEF Fore
<1>6. LocalTypeOK'
  <2>1. rank' \in Nat
    BY <1>2, <1>4, NodeTypes, RankType
  <2> QED BY <1>2, <1>3, <1>4, <2>1 DEF LocalTypeOK
<1>7. SearchInv'
  <2>1. \A k : (Left(k)' <=> Left(k)) /\ (Missed(k)' <=> Missed(k))
    BY <1>2, LeftKept
  <2>2. Fore(n)'
    BY <1>3, <1>5
  <2>3. i' # -1
    BY <1>2 DEF Searching, SearchInv
  <2> QED BY <1>2, <1>3, <1>4, <2>1, <2>2, <2>3 DEF SearchInv
<1> QED BY <1>3, <1>6, <1>7, InvParts

LEMMA DescendStep == ASSUME SkipInv, Descend PROVE SkipInv'
<1>1. PICK n : n = forward[x][i]
  OBVIOUS
<1>2. /\ ListTypeOK /\ LocalTypeOK /\ ListInv /\ SearchInv /\ Searching /\ x # Nil /\ i >= 0
      /\ (n # Nil => ~Passes(n, rank + span[x][i])) /\ ~Hit
      /\ update' = [update EXCEPT ![i] = [node |-> x, rank |-> rank]]
      /\ i' = i - 1 /\ rank' = rank /\ UNCHANGED <<list, call, x, result>>
  BY <1>1, InvParts DEF Descend, MovesOn, Searching, RankBelow
<1>3. /\ ListTypeOK' /\ ListInv' /\ zslNodes' = zslNodes /\ forward' = forward /\ zsl' = zsl
      /\ \A y : Fore(y)' <=> Fore(y)
  BY <1>2, ListKept DEF list
<1>4. /\ x \in DOMAIN forward /\ i \in DOMAIN forward[x] /\ i \in Levels /\ i < zsl.level /\ i \in Nat
      /\ IsNext(On(forward, i), x, n)
      /\ n # Nil => n \in zslNodes /\ rank + span[x][i] = Rank(zslNodes, n)
  BY <1>1, <1>2, Ahead
<1>5. x \in zslNodes \cup {Header} /\ Fore(x) /\ rank = Rank(zslNodes, x) /\ rank \in Nat
  BY <1>2 DEF SearchInv, LocalTypeOK
<1>6. x \in On(forward, i) \cup {Header} /\ On(forward, i) \subseteq zslNodes
  BY <1>4, <1>5, NodesAre DEF On
\* None of the nodes of the level that are behind x may be passed.
<1>7. ASSUME NEW y \in On(forward, i), Before(x, y) PROVE ~Fore(y)
  <2>1. n # Nil /\ n \in zslNodes /\ ~Before(y, n) /\ y \in zslNodes
    BY <1>4, <1>6, <1>7 DEF IsNext
  <2>2. ~Fore(n)
    <3>1. n # Header
      BY <2>1 DEF zslNodes
    <3> QED BY <1>2, <1>4, <2>1, <3>1 DEF Fore
  <2> QED BY <1>2, <2>1, <2>2, ForeDown
<1>8. PICK j : j = i
  OBVIOUS
<1>9. /\ update'[j].node = x /\ update'[j].rank = rank
      /\ \A k \in Levels : k # j => update'[k] = update[k]
      /\ update' \in [Levels -> Stops]
  <2>1. update \in [Levels -> Stops]
    BY <1>2 DEF LocalTypeOK
  <2>2. [node |-> x, rank |-> rank] \in Stops
    BY <1>2, <1>5, NodeTypes DEF Stops
  <2>3. PICK stop : stop = [node |-> x, rank |-> rank]
    OBVIOUS
  <2>4. stop.node = x /\ stop.rank = rank /\ stop \in Stops
    BY <2>2, <2>3
  <2>5. update' = [update EXCEPT ![j] = stop]
    BY <1>2, <1>8, <2>3
  <2> QED BY <1>4, <1>8, <2>1, <2>4, <2>5
<1>10. Left(j)' /\ Missed(j)'
  <2> PICK y : y = x
    OBVIOUS
  <2>1. update'[j].node = y /\ update'[j].rank = rank
    BY <1>9
  <2>2. Left(j)'
    <3>1. update'[j].rank = Rank(zslNodes', update'[j].node)
      BY <1>3, <1>5, <2>1
    <3>2. update'[j].node \in On(forward', j) \cup {Header}
      BY <1>3, <1>6, <1>8, <2>1
    <3>3. Fore(y)'
      BY <1>3, <1>5
    <3>4. \A z \in On(forward', j) : Before(y, z) => ~Fore(z)'
      BY <1>3, <1>7, <1>8
    <3> QED BY <2>1, <3>1, <3>2, <3>3, <3>4 DEF Left
  <2>3. Missed(j)'
    <3>1. call' = call /\ ~Hit
      BY <1>2
    <3> QED BY <2>1, <3>1 DEF Hit, Missed
  <2> QED BY <2>2, <2>3
<1>11. LocalTypeOK'
  <2>1. i' \in -1..(MaxLevel - 1)
    BY <1>2, <1>4, NodeTypes DEF Levels
  <2> QED BY <1>2, <1>3, <1>9, <2>1 DEF LocalTypeOK
<1>12. SearchInv'
  <2>1. i' \in -1..(zsl.level - 1)
    BY <1>2, <1>4, NodeTypes
  <2>2. i' >= 0 => i' \in DOMAIN forward[x]
    <3>1. i' >= 0 => i' \in 0..i
      BY <1>2, <1>4
    <3>2. \A m \in 0..i : m \in DOMAIN forward[x]
      BY <1>2, <1>4, TowerLevels DEF ListInv
    <3> QED BY <3>1, <3>2
  <2>3. ASSUME NEW k \in (i' + 1)..(zsl.level - 1) PROVE Left(k)' /\ Missed(k)'
    <3>1. k = j \/ (k \in (i + 1)..(zsl.level - 1) /\ k \in Levels /\ k # j)
      BY <1>2, <1>4, <1>8, NodeTypes DEF Levels
    <3>2. CASE k = j
      BY <1>10, <3>2
    <3>3. CASE k \in (i + 1)..(zsl.level - 1) /\ k \in Levels /\ k # j
      <4>1. Left(k) /\ Missed(k)
        BY <1>2, <3>3 DEF SearchInv
      <4>2. UNCHANGED <<list, call>> /\ (update[k])' = update[k]
        BY <1>2, <1>9, <3>3
      <4> QED BY <1>2, <4>1, <4>2, LeftKept
    <3> QED BY <3>1, <3>2, <3>3
  <2>4. i' = -1 => update'[0].node = x
    <3>1. i' = -1 => i = 0
      BY <1>2, <1>4
    <3> QED BY <1>8, <1>9, <3>1
  <2>5. call.op = "insert" => \A y \in zslNodes : y[2] # call.arg[2]
    BY <1>2 DEF SearchInv
  <2> QED BY <1>2, <1>3, <1>5, <2>1, <2>2, <2>3, <2>4, <2>5 DEF SearchInv
<1> QED BY <1>3, <1>11, <1>12, InvParts

\* A call that returns leaves no locals.
LEMMA ReturnStep ==
    ASSUME SkipInv, ListTypeOK', ListInv', NEW op, NEW value, Returns(op, value),
           IF op \in {"insert", "element"} THEN value \in {Nil} \cup Elements ELSE value \in Nat
    PROVE  SkipInv'
<1>1. LocalTypeOK /\ call' = call /\ call.op = op /\ x' = Nil /\ i' = -1 /\ rank' = 0
      /\ update' = [k \in Levels |-> AtHeader] /\ result' = value
  BY InvParts DEF Returns
<1>2. update' \in [Levels -> Stops]
  BY <1>1 DEF Stops, AtHeader
<1>3. -1 \in -1..(MaxLevel - 1)
  BY SkipListAssumption
<1>4. LocalTypeOK'
  <2>1. IF call'.op \in {"insert", "element"} THEN result' \in {Nil} \cup Elements
        ELSE result' \in {Nil} \cup Nat
    BY <1>1
  <2> QED BY <1>1, <1>2, <1>3, <2>1 DEF LocalTypeOK
<1>5. SearchInv'
  BY <1>1 DEF SearchInv
<1> QED BY <1>4, <1>5, InvParts

LEMMA GetRankStep == ASSUME SkipInv, zslGetRank PROVE SkipInv'
<1>1. ListTypeOK' /\ ListInv'
  BY InvParts, ListKept DEF zslGetRank
<1>2. \E r \in Nat : Returns("rank", r)
  BY InvParts DEF zslGetRank, LocalTypeOK
<1> QED BY <1>1, <1>2, ReturnStep

LEMMA GetElementStep == ASSUME SkipInv, zslGetElementByRank PROVE SkipInv'
<1>1. ListTypeOK' /\ ListInv'
  BY InvParts, ListKept DEF zslGetElementByRank
<1>2. Hit /\ Searching /\ call.op = "element" => x \in Elements
  <2>1. SUFFICES ASSUME Hit, Searching, call.op = "element" PROVE x \in Elements
    OBVIOUS
  <2>2. x \in zslNodes \cup {Header} /\ rank = Rank(zslNodes, x) /\ rank # 0
    <3>1. rank = call.arg /\ call.arg \in Nat /\ call.arg > 0
      BY <2>1, InvParts, CallArg DEF Hit
    <3>2. rank # 0
      BY <3>1
    <3> QED BY <2>1, <3>2, InvParts DEF Searching, SearchInv
  <2>3. x # Header
    <3>1. zslNodes \in SUBSET Elements
      BY InvParts, NodeTypes
    <3>2. Rank(zslNodes, Header) = 0
      BY <3>1, RankOfHeader
    <3> QED BY <2>2, <3>2
  <2> QED BY <2>2, <2>3, InvParts, NodeTypes
<1>3. \E y \in {Nil} \cup Elements : Returns("element", y)
  BY <1>2 DEF zslGetElementByRank, Returns
<1> QED BY <1>1, <1>3, ReturnStep

-----------------------------------------------------------------------------
(* The steps that change the list                                          *)

\* Where the search of an insertion or a deletion ends.
LEMMA Ends ==
    ASSUME SkipInv, x # Nil, i = -1, call.op \in {"insert", "delete"}
    PROVE  /\ call.arg \in Elements
           /\ \A k \in Levels : /\ LastBefore(On(forward, k), Stop(k).node, call.arg)
                                /\ Stop(k).rank = Rank(zslNodes, Stop(k).node)
           /\ Stop(0).node = x /\ x \in zslNodes \cup {Header}
           /\ LastBefore(zslNodes, x, call.arg)
<1>1. ListInv /\ SearchInv /\ LocalTypeOK /\ call.arg \in Elements
  BY InvParts, CallArg
<1>2. /\ x \in zslNodes \cup {Header} /\ update[0].node = x
      /\ \A k \in 0..(zsl.level - 1) : Left(k)
  BY <1>1 DEF SearchInv
<1>3. ASSUME NEW k \in Levels
      PROVE  /\ LastBefore(On(forward, k), Stop(k).node, call.arg)
             /\ Stop(k).rank = Rank(zslNodes, Stop(k).node)
  <2>1. CASE k < zsl.level
    <3>1. k \in 0..(zsl.level - 1)
      BY <1>1, <2>1, NodeTypes DEF Levels
    <3>2. Left(k) /\ Stop(k) = update[k]
      BY <1>2, <2>1, <3>1 DEF Stop
    <3>3. PICK u : u = update[k].node
      OBVIOUS
    <3>4. On(forward, k) \subseteq zslNodes
      BY NodesAre DEF On
    <3>5. u \in On(forward, k) \cup {Header} /\ u \in zslNodes \cup {Header} /\ Fore(u)
          /\ \A y \in On(forward, k) : Before(u, y) => ~Fore(y)
      BY <3>2, <3>3, <3>4 DEF Left
    <3>6. Before(u, call.arg)
      BY <1>1, <3>5, ForeBefore
    <3>7. \A y \in On(forward, k) : Before(y, call.arg) => ~Before(u, y)
      BY <1>1, <3>4, <3>5, ForeBefore
    <3> QED BY <3>2, <3>3, <3>5, <3>6, <3>7 DEF LastBefore, Left
  <2>2. CASE ~(k < zsl.level)
    <3>1. On(forward, k) = {}
      <4>1. k >= zsl.level
        BY <1>1, <2>2, NodeTypes DEF Levels
      <4> QED BY <1>1, <4>1 DEF ListInv, TopLevel
    <3>2. Stop(k).node = Header /\ Stop(k).rank = 0
      BY <2>2 DEF Stop, AtHeader
    <3>3. Before(Header, call.arg) /\ Rank(zslNodes, Header) = 0
      BY <1>1, NodeTypes, BeforeOrder, RankOfHeader
    <3> QED BY <3>1, <3>2, <3>3 DEF LastBefore
  <2> QED BY <2>1, <2>2
<1>4. Stop(0).node = x
  BY <1>1, <1>2, NodeTypes DEF Stop
<1>5. LastBefore(zslNodes, x, call.arg)
  <2>1. On(forward, 0) = zslNodes /\ 0 \in Levels
    BY <1>1, OnIs, NodesAre, NodeTypes DEF ListInv
  <2> QED BY <1>3, <1>4, <2>1
<1> QED BY <1>1, <1>2, <1>3, <1>4, <1>5

\* The list after a change, of which the parts are known.
LEMMA ListAfter ==
    ASSUME MaxLevel \in Nat, Towers(forward'), zslNodes' = NodesIn(forward'),
           Linked(forward'), TopLevel(forward', zsl'.level), SpanExact(forward', span', zsl'.level),
           Backs(zslNodes', backward', zsl'.tail), backward'[Header] = Nil,
           DOMAIN span' = DOMAIN forward', DOMAIN backward' = DOMAIN forward',
           \A y \in DOMAIN forward' :
                /\ forward'[y] = [k \in DOMAIN forward'[y] |-> forward'[y][k]]
                /\ span'[y] = [k \in DOMAIN forward'[y] |-> span'[y][k]]
                /\ \A k \in DOMAIN forward'[y] : ~(k < zsl'.level) => span'[y][k] \in Nat,
           NEW tail, NEW length, NEW level, zsl' = [tail |-> tail, length |-> length, level |-> level],
           length \in Nat
    PROVE  ListTypeOK'
<1>1. /\ \A y \in DOMAIN forward' : \A k \in DOMAIN forward'[y] : forward'[y][k] \in zslNodes' \cup {Nil}
      /\ \A y \in DOMAIN forward' : \A k \in DOMAIN forward'[y] : span'[y][k] \in Nat
  <2>1. SUFFICES ASSUME NEW y \in DOMAIN forward', NEW k \in DOMAIN forward'[y]
                 PROVE  forward'[y][k] \in zslNodes' \cup {Nil} /\ span'[y][k] \in Nat
    OBVIOUS
  <2>2. /\ Target(NodesIn(forward'), forward'[y][k]) - Rank(NodesIn(forward'), y) \in Nat
        /\ forward'[y][k] # Nil => forward'[y][k] \in NodesIn(forward')
    BY <2>1, TargetAhead
  <2>3. k < zsl'.level => span'[y][k] \in Nat
    BY <2>1, <2>2 DEF SpanExact
  <2> QED BY <2>1, <2>2, <2>3
<1>2. ASSUME NEW y \in DOMAIN forward'
      PROVE  /\ forward'[y] \in [DOMAIN forward'[y] -> zslNodes' \cup {Nil}]
             /\ span'[y] \in [DOMAIN forward'[y] -> Nat]
             /\ backward'[y] \in zslNodes' \cup {Nil}
  <2>1. forward'[y] \in [DOMAIN forward'[y] -> zslNodes' \cup {Nil}]
    BY <1>1, <1>2
  <2>2. span'[y] \in [DOMAIN forward'[y] -> Nat]
    BY <1>1, <1>2
  <2>3. y = Header \/ y \in zslNodes'
    BY <1>2 DEF NodesIn
  <2> QED BY <2>1, <2>2, <2>3 DEF Backs
<1>3. \A y \in DOMAIN forward' : \E height \in 1..MaxLevel :
        /\ y = Header => height = MaxLevel
        /\ forward'[y] \in [0..(height - 1) -> zslNodes' \cup {Nil}]
        /\ span'[y] \in [0..(height - 1) -> Nat]
        /\ backward'[y] \in zslNodes' \cup {Nil}
  BY <1>2 DEF Towers
<1>4. zsl' \in [tail : zslNodes' \cup {Nil}, length : Nat, level : 1..MaxLevel]
  <2>1. zsl'.tail \in zslNodes' \cup {Nil} /\ zsl'.level \in 1..MaxLevel
    BY DEF Backs, TopLevel
  <2>2. zsl'.tail = tail /\ zsl'.level = level
    OBVIOUS
  <2> QED BY <2>1, <2>2
<1>5. zslNodes' \subseteq Elements /\ Header \in DOMAIN forward' /\ IsFiniteSet(zslNodes')
  BY DEF Towers
<1> QED BY <1>3, <1>4, <1>5 DEF ListTypeOK

\* The insertion puts the element in on its levels, after u[k] on level k.
LEMMA InsertIs ==
    ASSUME SkipInv, NEW level \in 1..MaxLevel, zslInsert(level), NEW u, u = [k \in Levels |-> Stop(k).node]
    PROVE  /\ Inserted(forward, forward', call.arg, level, u)
           /\ SpansInserted(forward, span, span', call.arg, level, zsl.level, u)
           /\ \A k \in Levels : LastBefore(On(forward, k), u[k], call.arg)
           /\ u[0] = x
<1>1. PICK e : e = call.arg
  OBVIOUS
<1>2. /\ ListTypeOK /\ ListInv /\ SearchInv /\ i = -1 /\ x # Nil /\ call.op = "insert"
      /\ MaxLevel \in Nat /\ level \in Nat /\ level >= 1 /\ level <= MaxLevel /\ zsl.level \in Nat
      /\ DOMAIN forward = zslNodes \cup {Header} /\ 0 \in Levels
  BY InvParts, NodeTypes DEF zslInsert, Returns
<1>3. /\ e \in Elements
      /\ \A k \in Levels : /\ u[k] = Stop(k).node /\ LastBefore(On(forward, k), u[k], e)
                           /\ Stop(k).rank = Rank(zslNodes, u[k])
      /\ u[0] = x
  BY <1>1, <1>2, Ends
<1>4. e \notin DOMAIN forward /\ e # Header
  <2>1. e \notin zslNodes
    BY <1>1, <1>2 DEF SearchInv
  <2> QED BY <1>2, <1>3, <2>1, BeforeOrder
<1>5. /\ forward' = [y \in DOMAIN forward \cup {e} |->
            IF y = e THEN [k \in 0..(level - 1) |-> forward[Stop(k).node][k]]
            ELSE [k \in DOMAIN forward[y] |->
                    IF k < level /\ Stop(k).node = y THEN e ELSE forward[y][k]]]
      /\ span' = [y \in DOMAIN span \cup {e} |->
            IF y = e THEN [k \in 0..(level - 1) |-> SpanAt(Stop(k).node, k) - (Stop(0).rank - Stop(k).rank)]
            ELSE [k \in DOMAIN span[y] |->
                    IF k >= (IF level > zsl.level THEN level ELSE zsl.level) \/ Stop(k).node # y THEN span[y][k]
                    ELSE IF k < level THEN (Stop(0).rank - Stop(k).rank) + 1 ELSE span[y][k] + 1]]
  BY <1>1 DEF zslInsert
<1>6. /\ \A k \in 0..(level - 1) : k \in Levels /\ k \in Nat
      /\ \A y \in DOMAIN forward : y # e /\ \A k \in DOMAIN forward[y] : k \in Levels /\ k \in Nat
  <2>1. \A y \in DOMAIN forward : \A k \in DOMAIN forward[y] : k \in Levels /\ k \in Nat
    BY <1>2, TowerLevels DEF ListInv
  <2> QED BY <1>2, <1>4, <2>1 DEF Levels
<1>7. Inserted(forward, forward', e, level, u)
  <2>1. DOMAIN forward' = DOMAIN forward \cup {e}
    BY <1>5
  <2>2. forward'[e] = [k \in 0..(level - 1) |-> forward[Stop(k).node][k]]
    BY <1>5
  <2>3. \A y \in DOMAIN forward : forward'[y] = [k \in DOMAIN forward[y] |->
          IF k < level /\ Stop(k).node = y THEN e ELSE forward[y][k]]
    BY <1>5, <1>6
  <2>4. DOMAIN forward'[e] = 0..(level - 1) /\ \A k \in 0..(level - 1) : forward'[e][k] = forward[u[k]][k]
    BY <1>3, <1>6, <2>2
  <2>5. \A y \in DOMAIN forward : /\ DOMAIN forward'[y] = DOMAIN forward[y]
                                  /\ \A k \in DOMAIN forward[y] :
                                      forward'[y][k] = IF k < level /\ u[k] = y THEN e ELSE forward[y][k]
    <3>1. SUFFICES ASSUME NEW y \in DOMAIN forward
                   PROVE  /\ DOMAIN forward'[y] = DOMAIN forward[y]
                          /\ \A k \in DOMAIN forward[y] :
                               forward'[y][k] = IF k < level /\ u[k] = y THEN e ELSE forward[y][k]
      OBVIOUS
    <3>2. forward'[y] = [k \in DOMAIN forward[y] |->
            IF k < level /\ Stop(k).node = y THEN e ELSE forward[y][k]]
      BY <2>3
    <3>3. \A k \in DOMAIN forward[y] : Stop(k).node = u[k]
      BY <1>3, <1>6
    <3> QED BY <3>2, <3>3
  <2>6. \A k \in 0..(level - 1) : LastBefore(On(forward, k), u[k], e)
    BY <1>3, <1>6
  <2> QED BY <1>3, <1>4, <2>1, <2>4, <2>5, <2>6 DEF Inserted
<1>8. SpansInserted(forward, span, span', e, level, zsl.level, u)
  <2>1. PICK s : s = NodesIn(forward) /\ s = zslNodes
    BY NodesAre
  <2>2. zsl.length = Cardinality(s) /\ DOMAIN span = DOMAIN forward
    BY <1>2, <2>1 DEF ListInv, ListTypeOK
  <2>3. \A k \in Levels : Stop(0).rank - Stop(k).rank = Rank(s, u[0]) - Rank(s, u[k])
    BY <1>2, <1>3, <2>1
  <2>4. ASSUME NEW k \in 0..(level - 1)
        PROVE  span'[e][k] = (IF k < zsl.level THEN span[u[k]][k] ELSE Cardinality(s))
                             - (Rank(s, u[0]) - Rank(s, u[k]))
    <3>1. span'[e] = [j \in 0..(level - 1) |-> SpanAt(Stop(j).node, j) - (Stop(0).rank - Stop(j).rank)]
      BY <1>5
    <3>2. span'[e][k] = SpanAt(Stop(k).node, k) - (Stop(0).rank - Stop(k).rank)
      BY <3>1, <2>4
    <3>3. SpanAt(Stop(k).node, k) = IF k < zsl.level THEN span[u[k]][k] ELSE Cardinality(s)
      BY <1>3, <1>6, <2>2, <2>4 DEF SpanAt
    <3> QED BY <1>6, <2>3, <2>4, <3>2, <3>3
  <2>5. ASSUME NEW y \in DOMAIN forward, NEW k \in DOMAIN forward[y], k < level \/ k < zsl.level
        PROVE  span'[y][k] = IF u[k] # y THEN span[y][k]
                             ELSE IF k < level THEN (Rank(s, u[0]) - Rank(s, u[k])) + 1 ELSE span[y][k] + 1
    <3>1. y # e /\ y \in DOMAIN span /\ k \in Levels /\ k \in Nat /\ DOMAIN span[y] = DOMAIN forward[y]
      BY <1>2, <1>6, <2>2, <2>5 DEF ListTypeOK
    <3>2. span'[y] = [j \in DOMAIN span[y] |->
             IF j >= (IF level > zsl.level THEN level ELSE zsl.level) \/ Stop(j).node # y THEN span[y][j]
             ELSE IF j < level THEN (Stop(0).rank - Stop(j).rank) + 1 ELSE span[y][j] + 1]
      BY <1>5, <3>1
    <3>3. span'[y][k] =
             IF k >= (IF level > zsl.level THEN level ELSE zsl.level) \/ Stop(k).node # y THEN span[y][k]
             ELSE IF k < level THEN (Stop(0).rank - Stop(k).rank) + 1 ELSE span[y][k] + 1
      BY <3>1, <3>2
    <3>4. ~(k >= (IF level > zsl.level THEN level ELSE zsl.level))
      BY <1>2, <2>5, <3>1
    <3>5. span'[y][k] = IF Stop(k).node # y THEN span[y][k]
             ELSE IF k < level THEN (Stop(0).rank - Stop(k).rank) + 1 ELSE span[y][k] + 1
      BY <3>3, <3>4
    <3>6. Stop(k).node = u[k] /\ Stop(0).rank - Stop(k).rank = Rank(s, u[0]) - Rank(s, u[k])
      BY <1>3, <2>3, <3>1
    <3> QED BY <3>5, <3>6
  <2> QED BY <2>1, <2>4, <2>5 DEF SpansInserted
<1> QED BY <1>1, <1>3, <1>7, <1>8

LEMMA InsertRest ==
    ASSUME SkipInv, NEW level \in 1..MaxLevel, zslInsert(level)
    PROVE  /\ DOMAIN span' = DOMAIN forward' /\ DOMAIN backward' = DOMAIN forward'
           /\ \A y \in DOMAIN forward' :
                /\ forward'[y] = [k \in DOMAIN forward'[y] |-> forward'[y][k]]
                /\ span'[y] = [k \in DOMAIN forward'[y] |-> span'[y][k]]
                /\ \A k \in DOMAIN forward'[y] :
                    ~(k < IF level > zsl.level THEN level ELSE zsl.level) => span'[y][k] \in Nat
<1>1. PICK e : e = call.arg
  OBVIOUS
<1>2. PICK height : height = IF level > zsl.level THEN level ELSE zsl.level
  OBVIOUS
<1>3. /\ ListTypeOK /\ ListInv /\ level \in Nat /\ zsl.level \in Nat /\ height \in Nat /\ level <= height
      /\ DOMAIN span = DOMAIN forward /\ DOMAIN backward = DOMAIN forward
  <2>1. ListTypeOK /\ ListInv
    BY InvParts
  <2>2. zsl.level \in Nat
    BY <2>1, NodeTypes
  <2>3. height \in Nat /\ level <= height
    BY <1>2, <2>2
  <2>4. DOMAIN span = DOMAIN forward /\ DOMAIN backward = DOMAIN forward
    BY <2>1 DEF ListTypeOK
  <2> QED BY <2>1, <2>2, <2>3, <2>4
<1>4. /\ DOMAIN forward' = DOMAIN forward \cup {e} /\ DOMAIN span' = DOMAIN forward \cup {e}
      /\ DOMAIN backward' = DOMAIN forward \cup {e}
  BY <1>1, <1>3 DEF zslInsert
<1>5. /\ forward'[e] = [k \in 0..(level - 1) |-> forward[Stop(k).node][k]]
      /\ span'[e] = [k \in 0..(level - 1) |-> SpanAt(Stop(k).node, k) - (Stop(0).rank - Stop(k).rank)]
  BY <1>1 DEF zslInsert
<1>6. ASSUME NEW y \in DOMAIN forward, y # e
      PROVE  /\ forward'[y] = [k \in DOMAIN forward[y] |->
                    IF k < level /\ Stop(k).node = y THEN e ELSE forward[y][k]]
             /\ span'[y] = [k \in DOMAIN span[y] |->
                    IF k >= height \/ Stop(k).node # y THEN span[y][k]
                    ELSE IF k < level THEN (Stop(0).rank - Stop(k).rank) + 1 ELSE span[y][k] + 1]
  BY <1>1, <1>2, <1>3, <1>6 DEF zslInsert
<1>7. ASSUME NEW y \in DOMAIN forward'
      PROVE  /\ forward'[y] = [k \in DOMAIN forward'[y] |-> forward'[y][k]]
             /\ span'[y] = [k \in DOMAIN forward'[y] |-> span'[y][k]]
             /\ \A k \in DOMAIN forward'[y] : ~(k < height) => span'[y][k] \in Nat
  <2>1. CASE y = e
    <3>1. \A k \in 0..(level - 1) : k < height
      BY <1>3
    <3> QED BY <1>5, <2>1, <3>1
  <2>2. CASE y # e
    <3>1. y \in DOMAIN forward
      BY <1>4, <2>2
    <3>2. DOMAIN span[y] = DOMAIN forward[y] /\ \A k \in DOMAIN forward[y] : k \in Nat /\ span[y][k] \in Nat
      BY <1>3, <3>1 DEF ListTypeOK
    <3>3. \A k \in DOMAIN forward[y] : ~(k < height) => k >= height
      BY <1>3, <3>2
    <3>4. forward'[y] = [k \in DOMAIN forward'[y] |-> forward'[y][k]] /\ DOMAIN forward'[y] = DOMAIN forward[y]
      BY <1>6, <2>2, <3>1
    <3>5. /\ span'[y] = [k \in DOMAIN forward[y] |-> span'[y][k]]
          /\ \A k \in DOMAIN forward[y] : k >= height => span'[y][k] = span[y][k]
      BY <1>6, <2>2, <3>1, <3>2
    <3> QED BY <3>2, <3>3, <3>4, <3>5
  <2> QED BY <2>1, <2>2
<1> QED BY <1>2, <1>3, <1>4, <1>7

LEMMA InsertStep == ASSUME SkipInv, NEW level \in 1..MaxLevel, zslInsert(level) PROVE SkipInv'
<1>1. PICK e, u, s, n, height : /\ e = call.arg /\ u = [k \in Levels |-> Stop(k).node] /\ s = zslNodes
                                /\ n = forward[x][0] /\ height = IF level > zsl.level THEN level ELSE zsl.level
  OBVIOUS
<1>2. /\ Inserted(forward, forward', e, level, u)
      /\ SpansInserted(forward, span, span', e, level, zsl.level, u)
      /\ \A k \in Levels : LastBefore(On(forward, k), u[k], e)
  BY <1>1, InsertIs
<1>3. /\ ListTypeOK /\ ListInv /\ SearchInv /\ i = -1 /\ x # Nil /\ call.op = "insert"
      /\ Returns("insert", e) /\ s = NodesIn(forward) /\ s \in SUBSET Elements /\ IsFiniteSet(s)
      /\ MaxLevel \in Nat /\ zsl.level \in Nat /\ level \in Nat
      /\ DOMAIN forward = s \cup {Header} /\ 0 \in Levels
  BY <1>1, InvParts, NodeTypes, NodesAre DEF zslInsert, Returns
<1>4. e \in Elements /\ e \notin s /\ e # Header
  <2>1. e \in Elements /\ e \notin DOMAIN forward
    BY <1>2 DEF Inserted
  <2> QED BY <1>3, <2>1, BeforeOrder
<1>5. x \in s \cup {Header} /\ LastBefore(s, x, e) /\ IsNext(s, x, n) /\ n \in s \cup {Nil}
  <2>1. x \in s \cup {Header} /\ LastBefore(s, x, e)
    BY <1>1, <1>3, Ends
  <2>2. On(forward, 0) = s /\ 0 \in DOMAIN forward[x]
    BY <1>3, <2>1, OnIs, TowerLevels DEF ListInv
  <2>3. IsNext(s, x, n)
    BY <1>1, <1>3, <2>1, <2>2 DEF ListInv, Linked
  <2> QED BY <2>1, <2>3 DEF IsNext
<1>6. Towers(forward') /\ Linked(forward') /\ NodesIn(forward') = s \cup {e} /\ zslNodes' = s \cup {e}
  <2>1. Towers(forward') /\ Linked(forward') /\ NodesIn(forward') = s \cup {e}
    BY <1>2, <1>3, InsertedTowers, InsertedLinks DEF ListInv
  <2> QED BY <2>1 DEF zslNodes, NodesIn
<1>7. zsl' = [tail |-> IF n = Nil THEN e ELSE zsl.tail, length |-> zsl.length + 1, level |-> height]
  BY <1>1 DEF zslInsert
<1>8. TopLevel(forward', zsl'.level)
  <2>1. TopLevel(forward', height)
    BY <1>1, <1>2, <1>3, InsertedTop DEF ListInv
  <2> QED BY <1>7, <2>1
<1>9. SpanExact(forward', span', zsl'.level)
  <2>1. SUFFICES ASSUME NEW y \in DOMAIN forward', NEW k \in DOMAIN forward'[y], k < zsl'.level
                 PROVE  span'[y][k] = Target(NodesIn(forward'), forward'[y][k]) - Rank(NodesIn(forward'), y)
    BY DEF SpanExact
  <2>2. k < height
    BY <1>7, <2>1
  <2>3. k < level \/ k < zsl.level
    BY <1>1, <2>2
  <2>4. Towers(forward) /\ Linked(forward) /\ TopLevel(forward, zsl.level) /\ SpanExact(forward, span, zsl.level)
    BY <1>3 DEF ListInv
  <2> QED BY <1>2, <2>1, <2>3, <2>4, InsertedSpans
<1>10. Backs(zslNodes', backward', zsl'.tail) /\ backward'[Header] = Nil
  <2>1. backward' = [y \in DOMAIN backward \cup {e} |->
            IF y = e THEN (IF x = Header THEN Nil ELSE x) ELSE IF y = n THEN e ELSE backward[y]]
    BY <1>1 DEF zslInsert
  <2>2. DOMAIN backward = s \cup {Header} /\ backward[Header] = Nil /\ Backs(s, backward, zsl.tail)
    BY <1>1, <1>3 DEF ListTypeOK, ListInv
  <2>3. n # Header
    BY <1>3, <1>5, NilIsNoPlace DEF Places, NodesIn
  <2>4. backward'[Header] = Nil
    BY <1>4, <2>1, <2>2, <2>3
  <2>5. \A y \in s \cup {e} : backward'[y] = IF y = e THEN (IF x = Header THEN Nil ELSE x)
                                             ELSE IF y = n THEN e ELSE backward[y]
    BY <2>1, <2>2
  <2>6. Backs(s \cup {e}, backward', IF n = Nil THEN e ELSE zsl.tail)
    <3>1. PICK b, tail, c, v : b = backward /\ tail = zsl.tail /\ c = backward' /\ v = x
      OBVIOUS
    <3>2. /\ s \in SUBSET Elements /\ e \in Elements /\ e \notin s /\ LastBefore(s, v, e)
          /\ IsNext(s, v, n) /\ Backs(s, b, tail)
      BY <1>3, <1>4, <1>5, <2>2, <3>1
    <3>3. \A y \in s \cup {e} : c[y] = IF y = e THEN (IF v = Header THEN Nil ELSE v)
                                       ELSE IF y = n THEN e ELSE b[y]
      BY <2>5, <3>1
    <3>4. Backs(s \cup {e}, c, IF n = Nil THEN e ELSE tail)
      BY <3>2, <3>3, InsertedBacks
    <3> QED BY <3>1, <3>4
  <2>7. zsl'.tail = IF n = Nil THEN e ELSE zsl.tail
    BY <1>7
  <2> QED BY <1>6, <2>4, <2>6, <2>7
<1>11. zsl'.length = Cardinality(zslNodes') /\ zsl.length + 1 \in Nat
  <2>1. zsl.length = Cardinality(s) /\ Cardinality(s) \in Nat /\ Cardinality(s \cup {e}) = Cardinality(s) + 1
    BY <1>1, <1>3, <1>4, FS_AddElement, FS_CardinalityType DEF ListInv
  <2> QED BY <1>6, <1>7, <2>1
<1>12. \A y, z \in zslNodes' : y[2] = z[2] => y = z
  <2>1. \A y, z \in s : y[2] = z[2] => y = z
    BY <1>1, <1>3 DEF ListInv
  <2>2. \A y \in s : y[2] # e[2]
    BY <1>1, <1>3 DEF SearchInv
  <2> QED BY <1>6, <2>1, <2>2
<1>13. ListInv'
  BY <1>6, <1>8, <1>9, <1>10, <1>11, <1>12 DEF ListInv
<1>14. ListTypeOK'
  <2>1. zsl'.level = height
    BY <1>7
  <2>2. /\ DOMAIN span' = DOMAIN forward' /\ DOMAIN backward' = DOMAIN forward'
        /\ \A y \in DOMAIN forward' :
                /\ forward'[y] = [k \in DOMAIN forward'[y] |-> forward'[y][k]]
                /\ span'[y] = [k \in DOMAIN forward'[y] |-> span'[y][k]]
                /\ \A k \in DOMAIN forward'[y] : ~(k < zsl'.level) => span'[y][k] \in Nat
    BY <1>1, <2>1, InsertRest
  <2> QED BY <1>3, <1>6, <1>7, <1>8, <1>9, <1>10, <1>11, <2>2, ListAfter
<1> QED BY <1>3, <1>4, <1>13, <1>14, ReturnStep

\* The deletion takes the element out of its levels, on which u[k] is the last before it.
LEMMA DeleteIs ==
    ASSUME SkipInv, NEW value, Returns("delete", value), i = -1, NEW e, e = call.arg,
           forward[x][0] = e, Unlinks(e), NEW u, u = [k \in Levels |-> Stop(k).node]
    PROVE  /\ Deleted(forward, forward', e, u)
           /\ SpansDeleted(forward, span, span', e, zsl.level, u)
           /\ \A k \in Levels : LastBefore(On(forward, k), u[k], e)
           /\ x \in zslNodes \cup {Header} /\ LastBefore(zslNodes, x, e)
           /\ IsNext(zslNodes, x, e) /\ e \in zslNodes
<1>1. /\ ListTypeOK /\ ListInv /\ SearchInv /\ x # Nil /\ call.op = "delete"
      /\ MaxLevel \in Nat /\ zsl.level \in Nat /\ zslNodes \in SUBSET Elements
      /\ DOMAIN forward = zslNodes \cup {Header} /\ 0 \in Levels /\ Towers(forward) /\ Linked(forward)
  <2>1. ListInv
    BY InvParts
  <2> QED BY <2>1, InvParts, NodeTypes DEF Returns, ListInv
<1>2. /\ e \in Elements /\ \A k \in Levels : u[k] = Stop(k).node /\ LastBefore(On(forward, k), u[k], e)
      /\ x \in zslNodes \cup {Header} /\ LastBefore(zslNodes, x, e)
  BY <1>1, Ends
<1>3. IsNext(zslNodes, x, e) /\ e \in zslNodes
  <2>1. On(forward, 0) = zslNodes /\ 0 \in DOMAIN forward[x] /\ x \in DOMAIN forward
    BY <1>1, <1>2, OnIs, NodesAre, TowerLevels
  <2>2. IsNext(zslNodes, x, e)
    BY <1>1, <2>1 DEF Linked
  <2>3. e # Nil
    BY <1>2, NilIsNoPlace DEF Places
  <2> QED BY <2>2, <2>3 DEF IsNext
<1>4. /\ forward' = [y \in DOMAIN forward \ {e} |-> [k \in DOMAIN forward[y] |->
            IF k \in {j \in 0..(zsl.level - 1) : update[j].node = y} /\ forward[y][k] = e
            THEN forward[e][k] ELSE forward[y][k]]]
      /\ span' = [y \in DOMAIN span \ {e} |-> [k \in DOMAIN span[y] |->
            IF k \notin {j \in 0..(zsl.level - 1) : update[j].node = y} THEN span[y][k]
            ELSE IF forward[y][k] = e THEN span[y][k] + span[e][k] - 1
            ELSE span[y][k] - 1]]
  BY DEF Unlinks, SpanMerged
<1>5. e \in DOMAIN forward /\ e \in NodesIn(forward) /\ Header # e
  BY <1>1, <1>3 DEF NodesIn, zslNodes
\* The code looks at the next node and the proof at the levels of e.
<1>6. ASSUME NEW y \in DOMAIN forward, NEW k \in DOMAIN forward[y]
      PROVE  /\ k \in Levels /\ k \in Nat
             /\ k \in DOMAIN forward[e] /\ u[k] = y
                <=> k \in {j \in 0..(zsl.level - 1) : update[j].node = y} /\ forward[y][k] = e
             /\ k < zsl.level =>
                (k \in {j \in 0..(zsl.level - 1) : update[j].node = y} <=> u[k] = y)
  <2>1. k \in Levels /\ k \in Nat
    BY <1>1, <1>6, TowerLevels
  <2>2. k < zsl.level => k \in 0..(zsl.level - 1) /\ u[k] = update[k].node
    BY <1>1, <1>2, <2>1 DEF Stop
  <2>3. k \in DOMAIN forward[e] <=> e \in On(forward, k)
    BY <1>5 DEF On
  <2>4. e \in On(forward, k) => k < zsl.level
    <3>1. ~(k < zsl.level) => k >= zsl.level
      BY <1>1, <2>1
    <3> QED BY <1>1, <2>1, <3>1 DEF ListInv, TopLevel
  <2>5. IsNext(On(forward, k), y, forward[y][k])
    BY <1>1, <1>6 DEF Linked
  <2>6. ASSUME k \in DOMAIN forward[e], u[k] = y PROVE forward[y][k] = e
    <3>1. PICK t, v, n : t = On(forward, k) /\ v = u[k] /\ n = forward[y][k]
      OBVIOUS
    <3>2. e \in t /\ LastBefore(t, v, e) /\ IsNext(t, v, n) /\ t \in SUBSET Elements
      BY <1>1, <1>2, <2>1, <2>3, <2>5, <2>6, <3>1, OnIs
    <3>3. \A m : IsNext(t, v, m) => m = e
      BY <3>2, NextDelete
    <3>4. n = e
      BY <3>2, <3>3
    <3> QED BY <3>1, <3>4
  <2>7. forward[y][k] = e => e \in On(forward, k)
    BY <1>2, <2>5, NilIsNoPlace DEF IsNext, Places
  <2>8. k \in 0..(zsl.level - 1) => k < zsl.level
    BY <1>1, <2>1
  <2> QED BY <2>1, <2>2, <2>3, <2>4, <2>6, <2>7, <2>8
<1>7. Deleted(forward, forward', e, u)
  <2>1. DOMAIN forward' = DOMAIN forward \ {e}
    BY <1>4
  <2>2. ASSUME NEW y \in DOMAIN forward'
        PROVE  /\ DOMAIN forward'[y] = DOMAIN forward[y]
               /\ \A k \in DOMAIN forward[y] : forward'[y][k] =
                    IF k \in DOMAIN forward[e] /\ u[k] = y THEN forward[e][k] ELSE forward[y][k]
    <3>1. y \in DOMAIN forward
      BY <2>1, <2>2
    <3>2. forward'[y] = [k \in DOMAIN forward[y] |->
            IF k \in {j \in 0..(zsl.level - 1) : update[j].node = y} /\ forward[y][k] = e
            THEN forward[e][k] ELSE forward[y][k]]
      BY <1>4, <2>1, <2>2
    <3>3. DOMAIN forward'[y] = DOMAIN forward[y]
      BY <3>2
    <3>4. ASSUME NEW k \in DOMAIN forward[y]
          PROVE  forward'[y][k] =
                    IF k \in DOMAIN forward[e] /\ u[k] = y THEN forward[e][k] ELSE forward[y][k]
      <4>1. forward'[y][k] =
              IF k \in {j \in 0..(zsl.level - 1) : update[j].node = y} /\ forward[y][k] = e
              THEN forward[e][k] ELSE forward[y][k]
        BY <3>2, <3>4
      <4>2. k \in DOMAIN forward[e] /\ u[k] = y
            <=> k \in {j \in 0..(zsl.level - 1) : update[j].node = y} /\ forward[y][k] = e
        BY <1>6, <3>1, <3>4
      <4> HIDE DEF Levels
      <4> QED BY <4>1, <4>2, Zenon
    <3> QED BY <3>3, <3>4
  <2>3. \A k \in DOMAIN forward[e] : LastBefore(On(forward, k), u[k], e)
    BY <1>2, <1>5, <1>6
  <2> QED BY <1>5, <2>1, <2>2, <2>3 DEF Deleted
<1>8. SpansDeleted(forward, span, span', e, zsl.level, u)
  <2>1. DOMAIN span = DOMAIN forward /\ \A y \in DOMAIN forward : DOMAIN span[y] = DOMAIN forward[y]
    BY <1>1 DEF ListTypeOK
  <2>2. ASSUME NEW y \in DOMAIN forward \ {e}, NEW k \in DOMAIN forward[y], k < zsl.level
        PROVE  span'[y][k] = IF u[k] # y THEN span[y][k]
                   ELSE IF forward[y][k] = e THEN span[y][k] + span[e][k] - 1 ELSE span[y][k] - 1
    <3>1. y \in DOMAIN span \ {e} /\ k \in DOMAIN span[y]
      BY <2>1, <2>2
    <3>2. span'[y] = [m \in DOMAIN span[y] |->
            IF m \notin {j \in 0..(zsl.level - 1) : update[j].node = y} THEN span[y][m]
            ELSE IF forward[y][m] = e THEN span[y][m] + span[e][m] - 1 ELSE span[y][m] - 1]
      BY <1>4, <3>1
    <3>3. span'[y][k] =
            IF k \notin {j \in 0..(zsl.level - 1) : update[j].node = y} THEN span[y][k]
            ELSE IF forward[y][k] = e THEN span[y][k] + span[e][k] - 1 ELSE span[y][k] - 1
      BY <3>1, <3>2
    <3>4. k \in {j \in 0..(zsl.level - 1) : update[j].node = y} <=> u[k] = y
      BY <1>6, <2>2
    <3> QED BY <3>3, <3>4, Zenon
  <2> QED BY <2>2 DEF SpansDeleted
<1> QED BY <1>2, <1>3, <1>7, <1>8

LEMMA DeleteRest ==
    ASSUME SkipInv, NEW e \in DOMAIN forward, Unlinks(e)
    PROVE  /\ DOMAIN span' = DOMAIN forward' /\ DOMAIN backward' = DOMAIN forward'
           /\ \A y \in DOMAIN forward' :
                /\ forward'[y] = [k \in DOMAIN forward'[y] |-> forward'[y][k]]
                /\ span'[y] = [k \in DOMAIN forward'[y] |-> span'[y][k]]
                /\ \A k \in DOMAIN forward'[y] : ~(k < zsl.level) => span'[y][k] \in Nat
<1>1. ListTypeOK /\ zsl.level \in Nat
  BY InvParts, NodeTypes
<1>2. /\ DOMAIN span = DOMAIN forward /\ DOMAIN backward = DOMAIN forward
      /\ \A y \in DOMAIN forward : /\ DOMAIN span[y] = DOMAIN forward[y]
                                   /\ \A k \in DOMAIN forward[y] : span[y][k] \in Nat
  BY <1>1 DEF ListTypeOK
<1>3. /\ DOMAIN forward' = DOMAIN forward \ {e} /\ DOMAIN span' = DOMAIN forward \ {e}
      /\ DOMAIN backward' = DOMAIN forward \ {e}
  BY <1>2 DEF Unlinks
<1>4. ASSUME NEW y \in DOMAIN forward'
      PROVE  /\ forward'[y] = [k \in DOMAIN forward'[y] |-> forward'[y][k]]
             /\ span'[y] = [k \in DOMAIN forward'[y] |-> span'[y][k]]
             /\ \A k \in DOMAIN forward'[y] : ~(k < zsl.level) => span'[y][k] \in Nat
  <2>1. y \in DOMAIN forward \ {e} /\ y \in DOMAIN span \ {e} /\ DOMAIN span[y] = DOMAIN forward[y]
    BY <1>2, <1>3, <1>4
  <2>2. /\ forward'[y] = [k \in DOMAIN forward[y] |->
            IF k \in {j \in 0..(zsl.level - 1) : update[j].node = y} /\ forward[y][k] = e
            THEN forward[e][k] ELSE forward[y][k]]
        /\ span'[y] = [k \in DOMAIN span[y] |->
            IF k \notin {j \in 0..(zsl.level - 1) : update[j].node = y} THEN span[y][k]
            ELSE IF forward[y][k] = e THEN span[y][k] + span[e][k] - 1
            ELSE span[y][k] - 1]
    BY <2>1 DEF Unlinks, SpanMerged
  <2>3. DOMAIN forward'[y] = DOMAIN forward[y] /\ forward'[y] = [k \in DOMAIN forward'[y] |-> forward'[y][k]]
    BY <2>2
  <2>4. span'[y] = [k \in DOMAIN forward[y] |-> span'[y][k]]
    BY <2>1, <2>2
  <2>5. ASSUME NEW k \in DOMAIN forward[y], ~(k < zsl.level) PROVE span'[y][k] \in Nat
    <3>1. k \notin 0..(zsl.level - 1)
      BY <1>1, <2>5
    <3>2. span'[y][k] = span[y][k]
      BY <2>1, <2>2, <3>1
    <3> QED BY <1>2, <2>1, <3>2
  <2> QED BY <2>3, <2>4, <2>5
<1> QED BY <1>3, <1>4

LEMMA UnlinkStep ==
    ASSUME SkipInv, Returns("delete", 1), i = -1, forward[x][0] = call.arg, Unlinks(call.arg)
    PROVE  SkipInv' /\ zslNodes' = zslNodes \ {call.arg} /\ call.arg \in zslNodes
<1>1. PICK e, u, s, n : e = call.arg /\ u = [k \in Levels |-> Stop(k).node] /\ s = zslNodes /\ n = forward[e][0]
  OBVIOUS
<1>2. /\ Deleted(forward, forward', e, u)
      /\ SpansDeleted(forward, span, span', e, zsl.level, u)
      /\ \A k \in Levels : LastBefore(On(forward, k), u[k], e)
      /\ LastBefore(s, x, e) /\ IsNext(s, x, e) /\ e \in s
  BY <1>1, DeleteIs
<1>3. /\ ListTypeOK /\ ListInv /\ s = NodesIn(forward) /\ s \in SUBSET Elements /\ IsFiniteSet(s)
      /\ MaxLevel \in Nat /\ zsl.level \in 1..MaxLevel /\ zsl.level \in Nat
      /\ DOMAIN forward = s \cup {Header} /\ 0 \in Levels
  <2>1. ListInv
    BY InvParts
  <2>2. zsl.level \in 1..MaxLevel
    BY <2>1, NodeTypes
  <2> QED BY <1>1, <2>1, <2>2, InvParts, NodeTypes, NodesAre
<1>4. e \in DOMAIN forward /\ e \in Elements /\ e # Header
  BY <1>2, <1>3, BeforeOrder
<1>5. IsNext(s, e, n) /\ n \in s \cup {Nil}
  <2>1. On(forward, 0) = s /\ 0 \in DOMAIN forward[e]
    BY <1>3, <1>4, OnIs, TowerLevels DEF ListInv
  <2>2. IsNext(s, e, n)
    BY <1>1, <1>3, <1>4, <2>1 DEF ListInv, Linked
  <2> QED BY <2>2 DEF IsNext
<1>6. /\ Towers(forward') /\ Linked(forward') /\ NodesIn(forward') = s \ {e} /\ zslNodes' = s \ {e}
      /\ \A k \in Levels : On(forward', k) = On(forward, k) \ {e}
  <2>1. /\ Towers(forward') /\ Linked(forward') /\ NodesIn(forward') = s \ {e}
        /\ \A k \in Levels : On(forward', k) = On(forward, k) \ {e}
    BY <1>2, <1>3, DeletedTowers, DeletedLinks DEF ListInv
  <2> QED BY <2>1 DEF zslNodes, NodesIn
<1>7. PICK level : level = LevelsLeft(forward'[Header])
  OBVIOUS
<1>8. zsl' = [tail |-> IF n = Nil THEN backward[e] ELSE zsl.tail, length |-> zsl.length - 1, level |-> level]
  BY <1>1, <1>7 DEF Unlinks
<1>9. TopLevel(forward', zsl'.level) /\ zsl'.level <= zsl.level /\ zsl'.level \in Nat
  <2>1. \A k \in Levels : k >= zsl.level => On(forward', k) = {}
    BY <1>3, <1>6 DEF ListInv, TopLevel
  <2>2. TopLevel(forward', level) /\ level <= zsl.level
    BY <1>3, <1>6, <1>7, <2>1, TopLeft
  <2>3. level \in Nat
    BY <1>3, <2>2 DEF TopLevel
  <2> QED BY <1>8, <2>2, <2>3
<1>10. ASSUME NEW y \in DOMAIN forward', NEW k \in DOMAIN forward'[y], k < zsl.level
       PROVE  span'[y][k] = Target(NodesIn(forward'), forward'[y][k]) - Rank(NodesIn(forward'), y)
  <2>1. Towers(forward) /\ Linked(forward) /\ SpanExact(forward, span, zsl.level)
    BY <1>3 DEF ListInv
  <2> QED BY <1>2, <1>10, <2>1, DeletedSpans
<1>11. /\ SpanExact(forward', span', zsl'.level)
       /\ \A y \in DOMAIN forward' : \A k \in DOMAIN forward'[y] : k \in Nat
  <2>1. \A y \in DOMAIN forward' : \A k \in DOMAIN forward'[y] : k \in Nat
    BY <1>6, TowerLevels
  <2>2. ASSUME NEW k \in Nat, k < zsl'.level PROVE k < zsl.level
    BY <1>3, <1>9, <2>2
  <2> QED BY <1>10, <2>1, <2>2 DEF SpanExact
<1>12. Backs(zslNodes', backward', zsl'.tail) /\ backward'[Header] = Nil
  <2>1. backward' = [y \in DOMAIN backward \ {e} |-> IF y = n THEN backward[e] ELSE backward[y]]
    BY <1>1 DEF Unlinks
  <2>2. DOMAIN backward = s \cup {Header} /\ backward[Header] = Nil /\ Backs(s, backward, zsl.tail)
    BY <1>1, <1>3 DEF ListTypeOK, ListInv
  <2>3. n # Header
    BY <1>3, <1>5, NilIsNoPlace DEF Places, NodesIn
  <2>4. backward'[Header] = Nil
    BY <1>4, <2>1, <2>2, <2>3
  <2>5. \A y \in s \ {e} : backward'[y] = IF y = n THEN backward[e] ELSE backward[y]
    BY <2>1, <2>2
  <2>6. Backs(s \ {e}, backward', IF n = Nil THEN backward[e] ELSE zsl.tail)
    <3>1. PICK b, tail, c, v : b = backward /\ tail = zsl.tail /\ c = backward' /\ v = x
      OBVIOUS
    <3>2. /\ s \in SUBSET Elements /\ e \in s /\ LastBefore(s, v, e) /\ IsNext(s, v, e)
          /\ IsNext(s, e, n) /\ Backs(s, b, tail)
      BY <1>2, <1>3, <1>5, <2>2, <3>1
    <3>3. \A y \in s \ {e} : c[y] = IF y = n THEN b[e] ELSE b[y]
      BY <2>5, <3>1
    <3>4. Backs(s \ {e}, c, IF n = Nil THEN b[e] ELSE tail)
      BY <3>2, <3>3, DeletedBacks
    <3> QED BY <3>1, <3>4
  <2>7. zsl'.tail = IF n = Nil THEN backward[e] ELSE zsl.tail
    BY <1>8
  <2> QED BY <1>6, <2>4, <2>6, <2>7
<1>13. zsl'.length = Cardinality(zslNodes') /\ zsl.length - 1 \in Nat
  <2>1. zsl.length = Cardinality(s) /\ Cardinality(s) \in Nat /\ IsFiniteSet(s \ {e})
        /\ Cardinality(s \ {e}) = Cardinality(s) - 1 /\ Cardinality(s \ {e}) \in Nat
    BY <1>1, <1>2, <1>3, FS_RemoveElement, FS_CardinalityType DEF ListInv
  <2> QED BY <1>6, <1>8, <2>1
<1>14. ListInv'
  <2>1. \A y, z \in zslNodes' : y[2] = z[2] => y = z
    BY <1>1, <1>3, <1>6 DEF ListInv
  <2> QED BY <1>6, <1>9, <1>11, <1>12, <1>13, <2>1 DEF ListInv
<1>15. ListTypeOK'
  <2>1. /\ DOMAIN span' = DOMAIN forward' /\ DOMAIN backward' = DOMAIN forward'
        /\ \A y \in DOMAIN forward' :
                /\ forward'[y] = [k \in DOMAIN forward'[y] |-> forward'[y][k]]
                /\ span'[y] = [k \in DOMAIN forward'[y] |-> span'[y][k]]
                /\ \A k \in DOMAIN forward'[y] : ~(k < zsl.level) => span'[y][k] \in Nat
    BY <1>1, <1>4, DeleteRest
  <2>2. ASSUME NEW y \in DOMAIN forward', NEW k \in DOMAIN forward'[y], k < zsl.level
        PROVE  span'[y][k] \in Nat
    <3>1. span'[y][k] = Target(NodesIn(forward'), forward'[y][k]) - Rank(NodesIn(forward'), y)
      BY <1>10, <2>2
    <3>2. Target(NodesIn(forward'), forward'[y][k]) - Rank(NodesIn(forward'), y) \in Nat
      BY <1>6, <2>2, TargetAhead
    <3> QED BY <3>1, <3>2
  <2>3. \A y \in DOMAIN forward' :
                /\ forward'[y] = [k \in DOMAIN forward'[y] |-> forward'[y][k]]
                /\ span'[y] = [k \in DOMAIN forward'[y] |-> span'[y][k]]
                /\ \A k \in DOMAIN forward'[y] : ~(k < zsl'.level) => span'[y][k] \in Nat
    BY <2>1, <2>2
  <2> QED BY <1>3, <1>6, <1>8, <1>9, <1>11, <1>12, <1>13, <2>1, <2>3, ListAfter
<1>16. SkipInv'
  BY <1>14, <1>15, ReturnStep
<1> QED BY <1>1, <1>2, <1>6, <1>16

LEMMA DeleteStep == ASSUME SkipInv, zslDelete PROVE SkipInv'
<1>1. CASE Returns("delete", 1) /\ forward[x][0] = call.arg /\ Unlinks(call.arg)
  BY <1>1, UnlinkStep DEF zslDelete
<1>2. CASE Returns("delete", 0) /\ forward[x][0] # call.arg /\ UNCHANGED list
  <2>1. ListTypeOK' /\ ListInv'
    BY <1>2, InvParts, ListKept
  <2> QED BY <1>2, <2>1, ReturnStep
<1> QED BY <1>1, <1>2 DEF zslDelete

-----------------------------------------------------------------------------
(* The theorems *)

LEMMA SkipInvStep == ASSUME SkipInv, [zslNext]_zslVars PROVE SkipInv'
<1>1. CASE UNCHANGED zslVars
  <2>1. /\ ListTypeOK /\ LocalTypeOK /\ ListInv /\ SearchInv
        /\ UNCHANGED <<list, call, x, i, rank, update, result>>
    BY <1>1, InvParts DEF zslVars
  <2>2. ListTypeOK' /\ ListInv' /\ zslNodes' = zslNodes /\ forward' = forward /\ zsl' = zsl
        /\ \A y : Fore(y)' <=> Fore(y)
    BY <2>1, ListKept DEF list
  <2>3. \A k : (Left(k)' <=> Left(k)) /\ (Missed(k)' <=> Missed(k))
    BY <2>1, LeftKept
  <2>4. LocalTypeOK'
    BY <2>1, <2>2 DEF LocalTypeOK
  <2>5. SearchInv'
    <3>1. PICK y : y = x
      OBVIOUS
    <3>2. Fore(y)' <=> Fore(y)
      BY <2>2
    <3>3. Fore(x)' <=> Fore(x)
      BY <2>1, <3>1, <3>2
    <3> QED BY <2>1, <2>2, <2>3, <3>3 DEF SearchInv
  <2> QED BY <2>2, <2>4, <2>5, InvParts
<1>2. ASSUME NEW e \in Elements, (\A y \in zslNodes : y[2] # e[2]) /\ Call("insert", e)
      PROVE  SkipInv'
  BY <1>2, CallStep
<1>3. ASSUME NEW e \in Elements, Call("delete", e) \/ Call("rank", e)
      PROVE  SkipInv'
  BY <1>3, CallStep
<1>4. ASSUME NEW r \in Ranks, Call("element", r)
      PROVE  SkipInv'
  BY <1>4, CallStep
<1>5. CASE Advance
  BY <1>5, AdvanceStep
<1>6. CASE Descend
  BY <1>6, DescendStep
<1>7. ASSUME NEW level \in 1..MaxLevel, zslInsert(level)
      PROVE  SkipInv'
  BY <1>7, InsertStep
<1>8. CASE zslDelete
  BY <1>8, DeleteStep
<1>9. CASE zslGetRank
  BY <1>9, GetRankStep
<1>10. CASE zslGetElementByRank
  BY <1>10, GetElementStep
<1> QED BY <1>1, <1>2, <1>3, <1>4, <1>5, <1>6, <1>7, <1>8, <1>9, <1>10 DEF zslNext

\* The inductive invariant: after every step of zslInsert, zslDelete and the two lookups
\* the list is whole, and the loop of the call knows where it is and what it left behind.
THEOREM SkipInvariant == zslSpec => []SkipInv
<1>1. zslCreate => SkipInv
  BY CreateInv
<1>2. SkipInv /\ [zslNext]_zslVars => SkipInv'
  BY SkipInvStep
<1> QED BY <1>1, <1>2, PTL DEF zslSpec

\* Header, nodes and locals have the shape the code gives them: towers of 1 to MaxLevel
\* links, spans that never fall below 0, a level that zslDeleteNode keeps above 0.
THEOREM zslTypeCorrect == zslSpec => []zslTypeOK
<1>1. SkipInv => zslTypeOK
  BY DEF SkipInv
<1> QED BY <1>1, SkipInvariant, PTL

\* Every span is the distance to the node that its link leads to.
LEMMA SpansFollow == ASSUME ListTypeOK, ListInv PROVE SpansExact
<1>1. SUFFICES ASSUME NEW y \in DOMAIN span, NEW k \in DOMAIN span[y], k < zsl.level
               PROVE  span[y][k] = (IF forward[y][k] = Nil THEN zsl.length ELSE RankOf(forward[y][k])) - RankOf(y)
  BY DEF SpansExact
<1>2. y \in DOMAIN forward /\ k \in DOMAIN forward[y] /\ y \in zslNodes \cup {Header}
  <2>1. y \in DOMAIN forward /\ k \in DOMAIN forward[y]
    BY <1>1 DEF ListTypeOK
  <2> QED BY <2>1, NodeTypes
<1>3. PICK n : n = forward[y][k]
  OBVIOUS
<1>4. span[y][k] = Target(zslNodes, n) - Rank(zslNodes, y)
  BY <1>1, <1>2, <1>3, NodesAre DEF ListInv, SpanExact
<1>5. n # Nil => n \in zslNodes
  BY <1>2, <1>3, NodesAre, TargetAhead DEF ListInv
<1>6. Target(zslNodes, n) = IF n = Nil THEN zsl.length ELSE RankOf(n)
  BY <1>5, RanksAre DEF Target, ListInv
<1>7. Rank(zslNodes, y) = RankOf(y)
  BY <1>2, RanksAre
<1> QED BY <1>3, <1>4, <1>6, <1>7

\* The spans that zslInsert and zslDeleteNode add up from the ranks of the places they
\* change are the distances, for any sequence of calls and any levels drawn.
THEOREM SpansExactAlways == zslSpec => []SpansExact
<1>1. SkipInv => SpansExact
  BY InvParts, SpansFollow
<1> QED BY <1>1, SkipInvariant, PTL

LEMMA SearchFollows == ASSUME SkipInv PROVE SearchSound
<1>1. SUFFICES ASSUME x # Nil
               PROVE  /\ rank = RankOf(x) /\ (x = Header \/ Passes(x, RankOf(x))) /\ (i >= 0 => i \in DOMAIN forward[x])
                      /\ \A k \in (i + 1)..(zsl.level - 1) :
                          /\ update[k].rank = RankOf(update[k].node)
                          /\ update[k].node = Header \/ Passes(update[k].node, RankOf(update[k].node))
                          /\ update[k].node \in DOMAIN forward /\ k \in DOMAIN forward[update[k].node]
                          /\ \A y \in zslNodes : k \in DOMAIN forward[y] /\ RankOf(y) > RankOf(update[k].node)
                                                 => y # Header /\ ~Passes(y, RankOf(y))
  BY DEF SearchSound
<1>2. ListInv /\ SearchInv /\ LocalTypeOK
  BY InvParts
<1>3. \A y \in zslNodes \cup {Header} : /\ RankOf(y) = Rank(zslNodes, y)
                                        /\ Fore(y) <=> (y = Header \/ Passes(y, RankOf(y)))
  BY <1>2, RanksAre DEF Fore
<1>4. rank = RankOf(x) /\ (x = Header \/ Passes(x, RankOf(x))) /\ (i >= 0 => i \in DOMAIN forward[x])
  BY <1>1, <1>2, <1>3 DEF SearchInv
<1>5. ASSUME NEW k \in (i + 1)..(zsl.level - 1)
      PROVE  /\ update[k].rank = RankOf(update[k].node)
             /\ update[k].node = Header \/ Passes(update[k].node, RankOf(update[k].node))
             /\ update[k].node \in DOMAIN forward /\ k \in DOMAIN forward[update[k].node]
             /\ \A y \in zslNodes : k \in DOMAIN forward[y] /\ RankOf(y) > RankOf(update[k].node)
                                    => y # Header /\ ~Passes(y, RankOf(y))
  <2>1. Left(k)
    BY <1>1, <1>2 DEF SearchInv
  <2>2. PICK u : u = update[k].node
    OBVIOUS
  <2>3. k \in Levels
    BY <1>1, <1>2, NodeTypes DEF SearchInv, Levels
  <2>4. u \in On(forward, k) \cup {Header} /\ u \in zslNodes \cup {Header} /\ Fore(u)
        /\ update[k].rank = Rank(zslNodes, u) /\ \A y \in On(forward, k) : Before(u, y) => ~Fore(y)
    BY <2>1, <2>2, NodesAre DEF Left, On
  <2>5. u \in DOMAIN forward /\ k \in DOMAIN forward[u]
    <3>1. DOMAIN forward = zslNodes \cup {Header} /\ DOMAIN forward[Header] = Levels
      BY <1>2, NodeTypes, TowerLevels DEF ListInv
    <3> QED BY <2>3, <2>4, <3>1 DEF On
  <2>6. ASSUME NEW y \in zslNodes, k \in DOMAIN forward[y], RankOf(y) > RankOf(u)
        PROVE  y # Header /\ ~Passes(y, RankOf(y))
    <3>1. Rank(zslNodes, y) \in Nat /\ Rank(zslNodes, u) \in Nat /\ Rank(zslNodes, u) < Rank(zslNodes, y)
      BY <1>2, <1>3, <2>4, <2>6, NodeTypes, RankType
    <3>2. Before(u, y)
      BY <1>2, <2>4, <3>1, NodeTypes, RankOrder
    <3>3. y \in On(forward, k)
      BY <2>6, NodesAre DEF On
    <3> QED BY <1>3, <2>4, <3>2, <3>3
  <2> QED BY <1>3, <2>2, <2>4, <2>5, <2>6
<1> QED BY <1>4, <1>5

\* The loop of every call counts the rank of its node and leaves every level at the last
\* node before the place looked for, from which the updates of the links start.
THEOREM SearchSoundAlways == zslSpec => []SearchSound
<1>1. SkipInv => SearchSound
  BY SearchFollows
<1> QED BY <1>1, SkipInvariant, PTL

LEMMA Heights ==
    ASSUME Towers(forward), TopLevel(forward, zsl.level), NEW y \in zslNodes
    PROVE  /\ Cardinality(DOMAIN forward[y]) <= zsl.level
           /\ zsl.level > 1 /\ y \in On(forward, zsl.level - 1) => Cardinality(DOMAIN forward[y]) = zsl.level
<1>1. PICK height \in 1..MaxLevel : DOMAIN forward[y] = 0..(height - 1)
  BY DEF Towers, zslNodes
<1>2. MaxLevel \in Nat /\ zsl.level \in 1..MaxLevel /\ zsl.level \in Nat /\ height \in Nat
  <2>1. MaxLevel \in Nat
    BY SkipListAssumption
  <2>2. zsl.level \in 1..MaxLevel
    BY DEF TopLevel
  <2> QED BY <2>1, <2>2
<1>3. Cardinality(DOMAIN forward[y]) = height
  <2>1. Cardinality(0..(height - 1)) = IF 0 > height - 1 THEN 0 ELSE (height - 1) - 0 + 1
    BY <1>2, FS_Interval
  <2>2. ~(0 > height - 1) /\ (height - 1) - 0 + 1 = height
    BY <1>1, <1>2
  <2> QED BY <1>1, <2>1, <2>2
<1>4. height <= zsl.level
  <2>1. height - 1 \in DOMAIN forward[y] /\ height - 1 \in Levels
    BY <1>1, <1>2 DEF Levels
  <2>2. y \in On(forward, height - 1)
    BY <2>1, NodesAre DEF On
  <2>3. ~(height - 1 >= zsl.level)
    BY <2>1, <2>2 DEF TopLevel
  <2> QED BY <1>2, <2>3
<1>5. y \in On(forward, zsl.level - 1) => zsl.level <= height
  <2>1. y \in On(forward, zsl.level - 1) => zsl.level - 1 \in 0..(height - 1)
    BY <1>1 DEF On
  <2> QED BY <1>2, <2>1
<1> QED BY <1>2, <1>3, <1>4, <1>5

LEMMA LinksFollow ==
    ASSUME ListInv, NEW y \in DOMAIN forward, NEW k \in DOMAIN forward[y]
    PROVE  LET after == {z \in zslNodes : k \in DOMAIN forward[z] /\ RankOf(z) > RankOf(y)} IN
           IF after = {} THEN forward[y][k] = Nil
           ELSE forward[y][k] \in after /\ \A z \in after : RankOf(forward[y][k]) <= RankOf(z)
<1>1. PICK n, s : n = forward[y][k] /\ s = zslNodes
  OBVIOUS
<1>2. PICK after : after = {z \in s : k \in DOMAIN forward[z] /\ RankOf(z) > RankOf(y)}
  OBVIOUS
<1>3. s \in SUBSET Elements /\ IsFiniteSet(s) /\ y \in s \cup {Header}
  BY <1>1, NodeTypes
<1>4. \A z \in s \cup {Header} : RankOf(z) = Rank(s, z) /\ Rank(s, z) \in Nat
  BY <1>1, <1>3, RanksAre, RankType
<1>5. after = {z \in On(forward, k) : Before(y, z)}
  <2>1. ASSUME NEW z \in s PROVE RankOf(z) > RankOf(y) <=> Before(y, z)
    <3>1. Rank(s, y) < Rank(s, z) <=> Before(y, z)
      BY <1>3, RankOrder
    <3>2. PICK p, q : p = Rank(s, y) /\ q = Rank(s, z)
      OBVIOUS
    <3>3. p \in Nat /\ q \in Nat /\ RankOf(y) = p /\ RankOf(z) = q
      BY <1>3, <1>4, <3>2
    <3> QED BY <3>1, <3>2, <3>3
  <2> QED BY <1>1, <1>2, <2>1, NodesAre DEF On
<1>6. IsNext(On(forward, k), y, n) /\ On(forward, k) \subseteq s
  BY <1>1, NodesAre DEF ListInv, Linked, On
<1>7. CASE n = Nil
  <2>1. after = {}
    BY <1>5, <1>6, <1>7 DEF IsNext
  <2> QED BY <1>1, <1>2, <1>7, <2>1
<1>8. CASE n # Nil
  <2>1. n \in after /\ \A z \in after : z \in s /\ ~Before(z, n)
    BY <1>5, <1>6, <1>8 DEF IsNext
  <2>2. n \in s
    BY <2>1
  <2>3. \A z \in after : RankOf(n) <= RankOf(z)
    <3>1. SUFFICES ASSUME NEW z \in after PROVE Rank(s, n) <= Rank(s, z)
      BY <1>4, <2>1, <2>2
    <3> QED BY <1>3, <2>1, <2>2, RankOrder
  <2> QED BY <1>1, <1>2, <2>1, <2>3
<1> QED BY <1>7, <1>8

LEMMA BacksFollow ==
    ASSUME ListInv
    PROVE  /\ \A y \in zslNodes : IF RankOf(y) = 1 THEN backward[y] = Nil
                        ELSE backward[y] \in zslNodes /\ RankOf(backward[y]) = RankOf(y) - 1
           /\ IF zslNodes = {} THEN zsl.tail = Nil
              ELSE zsl.tail \in zslNodes /\ RankOf(zsl.tail) = zsl.length
<1>1. PICK s : s = zslNodes
  OBVIOUS
<1>2. s \in SUBSET Elements /\ IsFiniteSet(s) /\ Backs(s, backward, zsl.tail) /\ zsl.length = Cardinality(s)
  BY <1>1, NodeTypes DEF ListInv
<1>3. \A z \in s \cup {Header} : RankOf(z) = Rank(s, z) /\ Rank(s, z) \in Nat
  BY <1>1, <1>2, RanksAre, RankType
<1>4. Rank(s, Header) = 0
  BY <1>2, RankOfHeader
<1>5. ASSUME NEW z \in s PROVE Rank(s, z) # 0
  <2>1. Before(Header, z)
    BY <1>2, BeforeOrder
  <2>2. Header # z
    BY <1>2, BeforeOrder
  <2> QED BY <1>2, <1>4, <2>2, RankOrder
<1>6. ASSUME NEW y \in s
      PROVE  IF RankOf(y) = 1 THEN backward[y] = Nil
             ELSE backward[y] \in s /\ RankOf(backward[y]) = RankOf(y) - 1
  <2>1. PICK b : b = backward[y]
    OBVIOUS
  <2>2. b \in s \cup {Nil} /\ IsNext(s, Back(b), y)
    BY <1>2, <2>1 DEF Backs
  <2>3. PICK p, q : p = Rank(s, Back(b)) /\ q = Rank(s, y)
    OBVIOUS
  <2>4. Back(b) \in s \cup {Header} /\ (Back(b) = Header <=> b = Nil)
    BY <1>2, <2>2, BackIs
  <2>5. y # Nil
    BY <1>2, NilIsNoPlace DEF Places
  <2>6. Rank(s, y) = Rank(s, Back(b)) + 1
    BY <1>2, <2>2, <2>4, <2>5, RankNext
  <2>7. q = p + 1 /\ p \in Nat /\ RankOf(y) = q
    BY <1>3, <2>3, <2>4, <2>6
  <2>8. CASE b = Nil
    <3>1. p = 0
      BY <1>4, <2>3, <2>4, <2>8
    <3> QED BY <2>1, <2>7, <2>8, <3>1
  <2>9. CASE b # Nil
    <3>1. b \in s /\ Back(b) = b
      BY <2>2, <2>9 DEF Back
    <3>2. p # 0 /\ RankOf(b) = p
      BY <1>3, <1>5, <2>3, <3>1
    <3>3. q # 1 /\ p = q - 1
      BY <2>7, <3>2
    <3> QED BY <2>1, <2>7, <3>1, <3>2, <3>3
  <2> QED BY <2>8, <2>9
<1>7. IF s = {} THEN zsl.tail = Nil ELSE zsl.tail \in s /\ RankOf(zsl.tail) = zsl.length
  <2>1. PICK t : t = zsl.tail
    OBVIOUS
  <2>2. t \in s \cup {Nil} /\ IsNext(s, Back(t), Nil)
    BY <1>2, <2>1 DEF Backs
  <2>3. Back(t) \in s \cup {Header} /\ (Back(t) = Header <=> t = Nil)
    BY <1>2, <2>2, BackIs
  <2>4. Rank(s, Back(t)) = Cardinality(s)
    BY <1>2, <2>2, <2>3, RankNext
  <2>5. CASE s = {}
    BY <2>1, <2>2, <2>5
  <2>6. CASE s # {}
    <3>1. t # Nil
      <4>1. Cardinality(s) # 0
        BY <1>2, <2>6, FS_EmptySet
      <4> QED BY <1>4, <2>3, <2>4, <4>1
    <3>2. t \in s /\ Back(t) = t
      BY <2>2, <3>1 DEF Back
    <3> QED BY <1>2, <1>3, <2>1, <2>4, <2>6, <3>2
  <2> QED BY <2>5, <2>6
<1> QED BY <1>1, <1>6, <1>7

LEMMA ListFollows == ASSUME ListInv PROVE ListSound
<1>1. \A y \in DOMAIN forward : \A k \in DOMAIN forward[y] : k < zsl.level =>
        LET after == {z \in zslNodes : k \in DOMAIN forward[z] /\ RankOf(z) > RankOf(y)} IN
        IF after = {} THEN forward[y][k] = Nil
        ELSE forward[y][k] \in after /\ \A z \in after : RankOf(forward[y][k]) <= RankOf(z)
  BY LinksFollow
<1>2. \A y \in zslNodes : Cardinality(DOMAIN forward[y]) <= zsl.level
  BY Heights DEF ListInv
<1>3. zsl.level > 1 => \E y \in zslNodes : Cardinality(DOMAIN forward[y]) = zsl.level
  <2>1. SUFFICES ASSUME zsl.level > 1 PROVE \E y \in zslNodes : Cardinality(DOMAIN forward[y]) = zsl.level
    OBVIOUS
  <2>2. PICK y \in On(forward, zsl.level - 1) : TRUE
    BY <2>1 DEF ListInv, TopLevel
  <2>3. y \in zslNodes
    BY NodesAre DEF On
  <2> QED BY <2>1, <2>2, <2>3, Heights DEF ListInv
<1>4. zsl.length = Cardinality(zslNodes)
  BY DEF ListInv
<1> QED BY <1>1, <1>2, <1>3, <1>4, BacksFollow DEF ListSound

\* Every level of forward links its nodes in order, backward and tail lead through all
\* of them, and length and level are right: none of the updates loses or strands a node.
THEOREM ListSoundAlways == zslSpec => []ListSound
<1>1. SkipInv => ListSound
  BY InvParts, ListFollows
<1> QED BY <1>1, SkipInvariant, PTL

-----------------------------------------------------------------------------
(* The set in order that the list implements                               *)

LEMMA RankInIs == ASSUME ListInv, NEW a \in Elements PROVE Ranked!RankIn(a) = Rank(zslNodes, a)
<1>1. zslNodes \in SUBSET Elements
  BY NodeTypes
<1>2. \A b \in zslNodes : <<a, b>> \in {p \in Elements \X Elements : Less(p[1], p[2])} <=> Before(a, b)
  BY <1>1, BeforeOrder
<1>3. {b \in zslNodes : <<a, b>> \notin {p \in Elements \X Elements : Less(p[1], p[2])}} = NotAfter(zslNodes, a)
  BY <1>2 DEF NotAfter
<1>4. ASSUME NEW t PROVE Ranked!Cardinality(t) = Cardinality(t)
  BY DEF Ranked!Cardinality, Cardinality
<1> QED BY <1>3, <1>4 DEF Ranked!RankIn, Rank

LEMMA AnswersAre ==
    ASSUME NEW op, NEW value, Returns(op, value)
    PROVE  Ranked!Answers(op, value)
BY DEF Returns, Ranked!Answers

LEMMA AskIs ==
    ASSUME NEW op, NEW arg, Call(op, arg), Nil # Header
    PROVE  Ranked!Ask(op, arg)
BY DEF Call, Ranked!Ask, list, zslNodes

LEMMA InsertAnswers ==
    ASSUME SkipInv, NEW level \in 1..MaxLevel, zslInsert(level)
    PROVE  Ranked!Insert
<1>1. Returns("insert", call.arg) /\ DOMAIN forward' = DOMAIN forward \cup {call.arg}
  BY DEF zslInsert
<1>2. call.arg # Header
  <2>1. call.arg \in Elements
    BY <1>1, InvParts, CallArg DEF Returns
  <2> QED BY <2>1, BeforeOrder
<1>3. zslNodes' = zslNodes \cup {call.arg}
  BY <1>1, <1>2 DEF zslNodes
<1> QED BY <1>1, <1>3, AnswersAre DEF Ranked!Insert

LEMMA DeleteAnswers == ASSUME SkipInv, zslDelete PROVE Ranked!Delete
<1>1. CASE Returns("delete", 1) /\ forward[x][0] = call.arg /\ Unlinks(call.arg)
  <2>1. zslNodes' = zslNodes \ {call.arg} /\ call.arg \in zslNodes
    BY <1>1, UnlinkStep DEF zslDelete
  <2>2. Ranked!Answers("delete", 1)
    BY <1>1, AnswersAre
  <2> QED BY <2>1, <2>2 DEF Ranked!Delete
<1>2. CASE Returns("delete", 0) /\ forward[x][0] # call.arg /\ UNCHANGED list
  <2>1. ListInv /\ x # Nil /\ i = -1 /\ call.op = "delete"
    BY <1>2, InvParts DEF Returns, zslDelete
  <2>2. PICK e, s, u, n : e = call.arg /\ s = zslNodes /\ u = x /\ n = forward[x][0]
    OBVIOUS
  <2>3. s \in SUBSET Elements /\ u \in s \cup {Header} /\ LastBefore(s, u, e)
    BY <2>1, <2>2, Ends, NodeTypes
  <2>4. IsNext(s, u, n)
    <3>1. On(forward, 0) = s /\ 0 \in DOMAIN forward[x] /\ x \in DOMAIN forward
      BY <2>1, <2>2, <2>3, OnIs, NodesAre, NodeTypes, TowerLevels DEF ListInv
    <3> QED BY <2>1, <2>2, <3>1 DEF ListInv, Linked
  \* The next of the last one before an element of the list is that element.
  <2>5. e \notin s
    <3>1. ASSUME e \in s PROVE n = e
      BY <2>3, <2>4, <3>1, NextDelete
    <3> QED BY <1>2, <2>2, <3>1
  <2>6. zslNodes' = zslNodes /\ zslNodes \ {call.arg} = zslNodes
    BY <1>2, <2>2, <2>5 DEF list, zslNodes
  <2>7. Ranked!Answers("delete", 0)
    BY <1>2, AnswersAre
  <2> QED BY <2>2, <2>5, <2>6, <2>7 DEF Ranked!Delete
<1> QED BY <1>1, <1>2 DEF zslDelete

\* What a search that comes to its end has not found.
LEMMA EndOfSearch ==
    ASSUME SkipInv, x # Nil, i = -1
    PROVE  /\ x \in zslNodes \cup {Header} /\ Fore(x) /\ rank = Rank(zslNodes, x)
           /\ \A a \in zslNodes : Fore(a) => ~Before(x, a)
           /\ call.op = "rank" /\ x # Header => x[2] # call.arg[2]
           /\ call.op = "element" => rank # call.arg
<1>1. ListInv /\ SearchInv /\ Left(0) /\ Missed(0)
  <2>1. ListInv /\ SearchInv
    BY InvParts
  <2>2. 0 \in (i + 1)..(zsl.level - 1)
    BY <2>1, NodeTypes
  <2> QED BY <2>1, <2>2 DEF SearchInv
<1>2. x \in zslNodes \cup {Header} /\ Fore(x) /\ rank = Rank(zslNodes, x) /\ update[0].node = x
  BY <1>1 DEF SearchInv
<1>3. On(forward, 0) = zslNodes
  BY <1>1, OnIs, NodesAre DEF ListInv
<1>4. \A a \in zslNodes : Fore(a) => ~Before(x, a)
  BY <1>1, <1>2, <1>3 DEF Left
<1>5. update[0].rank = rank
  BY <1>1, <1>2 DEF Left
<1> QED BY <1>1, <1>2, <1>4, <1>5 DEF Missed

LEMMA RankAnswers == ASSUME SkipInv, zslGetRank PROVE Ranked!Rank
<1>1. ListInv /\ SearchInv /\ LocalTypeOK /\ zslNodes' = zslNodes /\ UNCHANGED list
  BY InvParts DEF zslGetRank, list, zslNodes
<1>2. CASE Searching /\ ~MovesOn /\ Hit /\ Returns("rank", rank)
  <2>1. call.op = "rank" /\ x # Header /\ x[2] = call.arg[2] /\ x # Nil
    BY <1>2 DEF Hit, Returns
  <2>2. x \in zslNodes /\ rank = Rank(zslNodes, x)
    BY <1>1, <2>1 DEF SearchInv
  <2>3. rank = Ranked!RankIn(x)
    BY <1>1, <2>2, RankInIs, NodeTypes
  <2>4. Ranked!Answers("rank", Ranked!RankIn(x))
    BY <1>2, <2>3, AnswersAre
  <2> QED BY <1>1, <2>1, <2>2, <2>4 DEF Ranked!Rank
<1>3. CASE i = -1 /\ Returns("rank", 0)
  <2>1. call.op = "rank" /\ x # Nil
    BY <1>3 DEF Returns
  \* The loop would have passed the element.
  <2>2. call.arg \notin zslNodes
    <3>1. SUFFICES ASSUME call.arg \in zslNodes PROVE FALSE
      OBVIOUS
    <3>2. PICK e, u : e = call.arg /\ u = x
      OBVIOUS
    <3>3. e \in Elements /\ e \in zslNodes /\ zslNodes \in SUBSET Elements
      BY <1>1, <3>1, <3>2, NodeTypes
    <3>4. Fore(e)
      BY <2>1, <3>2, <3>3, LessOrder DEF Fore, Passes, RankPasses
    <3>5. u \in zslNodes \cup {Header} /\ Fore(u) /\ ~Before(u, e) /\ (u # Header => u[2] # e[2])
      BY <1>3, <2>1, <3>2, <3>3, <3>4, EndOfSearch
    <3>6. u # Header
      BY <3>3, <3>5, BeforeOrder
    <3>7. ~Less(u, e) /\ ~Less(e, u) /\ u \in Elements
      BY <2>1, <3>2, <3>3, <3>5, <3>6, BeforeOrder DEF Fore, Passes, RankPasses
    <3> QED BY <3>3, <3>5, <3>6, <3>7, LessOrder
  <2>3. Ranked!Answers("rank", 0)
    BY <1>3, AnswersAre
  <2> QED BY <1>1, <2>2, <2>3 DEF Ranked!Rank
<1> QED BY <1>2, <1>3 DEF zslGetRank

LEMMA ElementAnswers == ASSUME SkipInv, zslGetElementByRank PROVE Ranked!Element
<1>1. ListInv /\ SearchInv /\ LocalTypeOK /\ zslNodes' = zslNodes /\ zslNodes \in SUBSET Elements /\ IsFiniteSet(zslNodes)
  <2>1. ListInv
    BY InvParts
  <2> QED BY <2>1, InvParts, NodeTypes DEF zslGetElementByRank, list, zslNodes
<1>2. Rank(zslNodes, Header) = 0
  BY <1>1, RankOfHeader
<1>3. CASE Searching /\ ~MovesOn /\ Hit /\ Returns("element", x)
  <2>1. call.op = "element" /\ rank = call.arg /\ x # Nil /\ call.arg \in Nat /\ call.arg > 0
    BY <1>1, <1>3, CallArg DEF Hit, Returns
  <2>2. x \in zslNodes \cup {Header} /\ rank = Rank(zslNodes, x)
    BY <1>1, <2>1 DEF SearchInv
  <2>3. rank # 0
    BY <2>1
  <2>4. x \in zslNodes
    BY <1>2, <2>2, <2>3
  <2>5. Ranked!RankIn(x) = call.arg
    BY <1>1, <2>1, <2>2, <2>4, RankInIs
  <2>6. Ranked!Answers("element", x)
    BY <1>3, AnswersAre
  <2> QED BY <1>1, <2>4, <2>5, <2>6 DEF Ranked!Element
<1>4. CASE i = -1 /\ Returns("element", Nil)
  <2>1. call.op = "element" /\ x # Nil /\ call.arg \in Nat /\ call.arg > 0
    BY <1>1, <1>4, CallArg DEF Returns
  \* The loop would have passed the element that has the rank.
  <2>2. ASSUME NEW a \in zslNodes, Ranked!RankIn(a) = call.arg PROVE FALSE
    <3>1. PICK p, q, r, u : p = Rank(zslNodes, a) /\ q = Rank(zslNodes, u) /\ r = call.arg /\ u = x
      OBVIOUS
    <3>2. p = r /\ r \in Nat /\ r > 0 /\ p \in Nat /\ q \in Nat
      BY <1>1, <2>1, <2>2, <3>1, RankInIs, RankType
    <3>3. Fore(a)
      <4>1. p <= r
        BY <3>2
      <4> QED BY <2>1, <3>1, <4>1 DEF Fore, Passes
    <3>4. u \in zslNodes \cup {Header} /\ Fore(u) /\ ~Before(u, a) /\ q # r
      BY <1>4, <2>1, <2>2, <3>1, <3>3, EndOfSearch
    <3>5. p <= q
      BY <1>1, <2>2, <3>1, <3>4, RankOrder
    <3>6. u # Header
      <4>1. q # 0
        BY <3>2, <3>5
      <4> QED BY <1>2, <3>1, <4>1
    <3>7. q <= r
      BY <2>1, <3>1, <3>4, <3>6 DEF Fore, Passes
    <3> QED BY <3>2, <3>4, <3>5, <3>7
  <2>3. Ranked!Answers("element", Nil)
    BY <1>4, AnswersAre
  <2> QED BY <1>1, <2>2, <2>3 DEF Ranked!Element
<1> QED BY <1>3, <1>4 DEF zslGetElementByRank

LEMMA RankedInit == ASSUME zslCreate PROVE Ranked!Init
<1>1. zslNodes = {} /\ call = [op |-> "none"] /\ x = Nil /\ result = Nil
  BY DEF zslCreate, zslNodes
<1> QED BY <1>1 DEF Ranked!Init

LEMMA RankedStep ==
    ASSUME SkipInv, [zslNext]_zslVars
    PROVE  [Ranked!Next]_<<zslNodes, call, x # Nil, result>>
<1>1. CASE UNCHANGED zslVars
  BY <1>1 DEF zslVars, list, zslNodes
<1>2. Nil # Header
  BY SkipListAssumption
<1>3. ASSUME NEW e \in Elements, (\A y \in zslNodes : y[2] # e[2]) /\ Call("insert", e)
      PROVE  Ranked!Next
  <2>1. Ranked!Ask("insert", e) /\ ~Ranked!HasObject(e[2])
    BY <1>2, <1>3, AskIs DEF Ranked!HasObject
  <2> QED BY <2>1 DEF Ranked!Next
<1>4. ASSUME NEW e \in Elements, Call("delete", e) \/ Call("rank", e)
      PROVE  Ranked!Next
  <2>1. Ranked!Ask("delete", e) \/ Ranked!Ask("rank", e)
    BY <1>2, <1>4, AskIs
  <2> QED BY <2>1 DEF Ranked!Next
<1>5. ASSUME NEW r \in Ranks, Call("element", r)
      PROVE  Ranked!Next
  <2>1. Ranked!Ask("element", r)
    BY <1>2, <1>5, AskIs
  <2> QED BY <2>1 DEF Ranked!Next
\* The steps of the loop are not seen.
<1>6. ASSUME Advance \/ Descend PROVE UNCHANGED <<zslNodes, call, x # Nil, result>>
  <2>1. x # Nil /\ UNCHANGED <<list, call, result>>
    BY <1>6 DEF Advance, Descend, Searching
  <2>2. x' # Nil
    BY <1>6 DEF Advance, Descend, MovesOn, Searching
  <2> QED BY <2>1, <2>2 DEF list, zslNodes
<1>7. ASSUME NEW level \in 1..MaxLevel, zslInsert(level) PROVE Ranked!Next
  BY <1>7, InsertAnswers DEF Ranked!Next
<1>8. ASSUME zslDelete PROVE Ranked!Next
  BY <1>8, DeleteAnswers DEF Ranked!Next
<1>9. ASSUME zslGetRank PROVE Ranked!Next
  BY <1>9, RankAnswers DEF Ranked!Next
<1>10. ASSUME zslGetElementByRank PROVE Ranked!Next
  BY <1>10, ElementAnswers DEF Ranked!Next
<1> QED BY <1>1, <1>3, <1>4, <1>5, <1>6, <1>7, <1>8, <1>9, <1>10 DEF zslNext

\* What the four functions return is what the set in order promises: zslDelete finds the
\* element if it is in the list, and the lookups answer with ranks and elements of the set.
THEOREM ImplementsRankedSetAlways == zslSpec => ImplementsRankedSet
<1>1. zslCreate => Ranked!Init
  BY RankedInit
<1>2. SkipInv /\ [zslNext]_zslVars => [Ranked!Next]_<<zslNodes, call, x # Nil, result>>
  BY RankedStep
<1>3. Ranked!Spec <=> Ranked!Init /\ [][Ranked!Next]_<<zslNodes, call, x # Nil, result>>
  BY DEF Ranked!Spec
<1> QED BY <1>1, <1>2, <1>3, SkipInvariant, PTL DEF zslSpec, ImplementsRankedSet
=============================================================================
