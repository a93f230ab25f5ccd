------------------------------ MODULE SkipList ------------------------------
(***************************************************************************)
(* The skip list of skiplist/skiplist.c, a sequential data structure: a    *)
(* sorted list whose nodes have further links that skip nodes, each with   *)
(* its span, the number of nodes it moves on.  The search that all         *)
(* functions share is a loop of steps, what follows it is one step; the    *)
(* file is not part of build.sh.                                           *)
(*                                                                         *)
(* A node stands for its element <<score, obj>>.  Levels count from 0 as   *)
(* in the code.  The comment at line 110 has the caller see to it that an  *)
(* object is in the list once.  malloc is taken not to fail.               *)
(***************************************************************************)
EXTENDS Integers, FiniteSets

CONSTANTS
    Scores, Objs,   \* both numbers; compareStringObjects orders the objects
    Ranks,          \* the ranks that are asked for, counted from 1
    MaxLevel,       \* ZSKIPLIST_MAXLEVEL
    Header, Nil     \* zsl->header and the null pointer

Elements == Scores \X Objs
Levels == 0..(MaxLevel - 1)

ASSUME SkipListAssumption ==
    /\ Scores \subseteq Int /\ Objs \subseteq Int /\ Ranks \subseteq Nat \ {0}
    /\ MaxLevel \in Nat \ {0}
    /\ Header \notin Elements /\ Nil \notin Elements \cup {Header}

VARIABLES
    forward,    \* node -> level -> the next node of that level
    span,       \* node -> level -> how far that is
    backward,   \* node -> the node before it
    zsl,        \* tail, length and level of the list
    call,       \* the function that was called last, and its argument
    x, i,       \* the node and the level its loop is at; no node when it has returned
    rank,       \* rank[i] of zslInsert, rank of zslGetRank, traversed
    update,     \* level -> where the loop left it: update[], and the rest of rank[]
    result      \* what the last call returned

list == <<forward, span, backward, zsl>>
zslVars == <<list, call, x, i, rank, update, result>>

zslNodes == DOMAIN forward \ {Header}
Stops == [node : Elements \cup {Header}, rank : Nat]
AtHeader == [node |-> Header, rank |-> 0]

zslTypeOK ==
    /\ zslNodes \subseteq Elements /\ Header \in DOMAIN forward /\ IsFiniteSet(zslNodes)
    /\ DOMAIN span = DOMAIN forward /\ DOMAIN backward = DOMAIN forward
    /\ \A y \in DOMAIN forward : \E height \in 1..MaxLevel :
        /\ y = Header => height = MaxLevel
        /\ forward[y] \in [0..(height - 1) -> zslNodes \cup {Nil}]
        /\ span[y] \in [0..(height - 1) -> Nat]
        /\ backward[y] \in zslNodes \cup {Nil}
    /\ zsl \in [tail : zslNodes \cup {Nil}, length : Nat, level : 1..MaxLevel]
    /\ call \in [op : {"insert", "delete", "rank"}, arg : Elements]
                \cup [op : {"element"}, arg : Ranks] \cup {[op |-> "none"]}
    /\ x \in DOMAIN forward \cup {Nil} /\ i \in -1..(MaxLevel - 1)
    /\ rank \in Nat /\ update \in [Levels -> Stops]
    /\ IF call.op \in {"insert", "element"} THEN result \in {Nil} \cup Elements
       ELSE result \in {Nil} \cup Nat

\* Before zslCreate returns the header has all levels.
zslCreate ==
    /\ forward = [y \in {Header} |-> [k \in Levels |-> Nil]]
    /\ span = [y \in {Header} |-> [k \in Levels |-> 0]]
    /\ backward = [y \in {Header} |-> Nil]
    /\ zsl = [tail |-> Nil, length |-> 0, level |-> 1]
    /\ call = [op |-> "none"] /\ x = Nil /\ result = Nil
    /\ i = -1 /\ rank = 0 /\ update = [k \in Levels |-> AtHeader]

-----------------------------------------------------------------------------
(* The loop: from the highest level down, on each as far as it may go      *)

Less(a, b) == a[1] < b[1] \/ (a[1] = b[1] /\ a[2] < b[2])

Call(op, arg) ==
    /\ x = Nil
    /\ call' = [op |-> op, arg |-> arg]
    /\ x' = Header /\ i' = zsl.level - 1 /\ rank' = 0
    /\ UNCHANGED <<list, update>> /\ result' = Nil

\* The end of a call.  The locals are no more.
Returns(op, value) ==
    /\ call.op = op /\ x # Nil
    /\ x' = Nil /\ i' = -1 /\ rank' = 0 /\ update' = [k \in Levels |-> AtHeader]
    /\ result' = value
    /\ UNCHANGED call

\* Slip: the walk does not go onto the element itself.
RankPassesShort(next, e) == Less(next, e)
RankPasses(next, e) == ~Less(e, next)

\* The next node may be passed, which has this rank.
Passes(next, reached) ==
    \/ call.op \in {"insert", "delete"} /\ Less(next, call.arg)
    \/ call.op = "rank" /\ RankPasses(next, call.arg)
    \/ call.op = "element" /\ reached <= call.arg

Searching == x # Nil /\ i >= 0
MovesOn == forward[x][i] # Nil /\ Passes(forward[x][i], rank + span[x][i])

\* The first level that stops at the object, or at the rank, answers.
Hit ==
    \/ call.op = "rank" /\ x # Header /\ x[2] = call.arg[2]
    \/ call.op = "element" /\ rank = call.arg

Advance ==
    /\ Searching /\ MovesOn
    /\ x' = forward[x][i] /\ rank' = rank + span[x][i]
    /\ UNCHANGED <<list, call, i, update, result>>

\* Slip: the rank is counted from the beginning on every level.
RankFromZero(r) == 0
RankBelow(r) == r

Descend ==
    /\ Searching /\ ~MovesOn /\ ~Hit
    /\ update' = [update EXCEPT ![i] = [node |-> x, rank |-> rank]]
    /\ i' = i - 1 /\ rank' = RankBelow(rank)
    /\ UNCHANGED <<list, call, x, result>>

-----------------------------------------------------------------------------
(* What the functions do after it *)

\* The places where a level changes, the levels a new node adds included (lines 115-123).
Stop(k) == IF k < zsl.level THEN update[k] ELSE AtHeader
SpanAt(y, k) == IF k < zsl.level THEN span[y][k] ELSE zsl.length

\* level is what zslRandomLevel returns.
zslInsert(level) ==
    LET e == call.arg
        height == IF level > zsl.level THEN level ELSE zsl.level
        next == forward[x][0]
        Crossed(k) == Stop(0).rank - Stop(k).rank
    IN
    /\ i = -1 /\ Returns("insert", e)
    /\ forward' = [y \in DOMAIN forward \cup {e} |->
            IF y = e THEN [k \in 0..(level - 1) |-> forward[Stop(k).node][k]]
            ELSE [k \in DOMAIN forward[y] |->
                    IF k < level /\ Stop(k).node = y THEN e ELSE forward[y][k]]]
    /\ span' = [y \in DOMAIN span \cup {e} |->
            IF y = e THEN [k \in 0..(level - 1) |-> SpanAt(Stop(k).node, k) - Crossed(k)]
            ELSE [k \in DOMAIN span[y] |->
                    IF k >= height \/ Stop(k).node # y THEN span[y][k]
                    ELSE IF k < level THEN Crossed(k) + 1 ELSE span[y][k] + 1]]
    /\ backward' = [y \in DOMAIN backward \cup {e} |->
            IF y = e THEN (IF x = Header THEN Nil ELSE x)
            ELSE IF y = next THEN e ELSE backward[y]]
    /\ zsl' = [tail |-> IF next = Nil THEN e ELSE zsl.tail,
               length |-> zsl.length + 1, level |-> height]

\* Slip: the node taken out still counts.
SpanMergedWhole(n, m) == n + m
SpanMerged(n, m) == n + m - 1

Used(links) == {k \in 0..(zsl.level - 1) : links[k] # Nil}

\* Slip: the level stays.
LevelsKept(links) == zsl.level

\* Levels that have become empty are given up.
LevelsLeft(links) ==
    IF Used(links) = {} THEN 1
    ELSE 1 + CHOOSE k \in Used(links) : \A j \in Used(links) : j <= k

\* zslDeleteNode of the node e that the loop has found
Unlinks(e) ==
    LET Behind(y) == {k \in 0..(zsl.level - 1) : update[k].node = y} IN
    /\ forward' = [y \in DOMAIN forward \ {e} |-> [k \in DOMAIN forward[y] |->
            IF k \in Behind(y) /\ forward[y][k] = e THEN forward[e][k] ELSE forward[y][k]]]
    /\ span' = [y \in DOMAIN span \ {e} |-> [k \in DOMAIN span[y] |->
            IF k \notin Behind(y) THEN span[y][k]
            ELSE IF forward[y][k] = e THEN SpanMerged(span[y][k], span[e][k])
            ELSE span[y][k] - 1]]
    /\ backward' = [y \in DOMAIN backward \ {e} |->
            IF y = forward[e][0] THEN backward[e] ELSE backward[y]]
    /\ zsl' = [tail |-> IF forward[e][0] = Nil THEN backward[e] ELSE zsl.tail,
               length |-> zsl.length - 1, level |-> LevelsLeft(forward'[Header])]

zslDelete ==
    /\ i = -1
    /\ \/ Returns("delete", 1) /\ forward[x][0] = call.arg /\ Unlinks(call.arg)
       \/ Returns("delete", 0) /\ forward[x][0] # call.arg /\ UNCHANGED list

zslGetRank ==
    /\ \/ Searching /\ ~MovesOn /\ Hit /\ Returns("rank", rank)
       \/ i = -1 /\ Returns("rank", 0)
    /\ UNCHANGED list

zslGetElementByRank ==
    /\ \/ Searching /\ ~MovesOn /\ Hit /\ Returns("element", x)
       \/ i = -1 /\ Returns("element", Nil)
    /\ UNCHANGED list

zslNext ==
    \/ \E e \in Elements :
        \/ (\A y \in zslNodes : y[2] # e[2]) /\ Call("insert", e)
        \/ Call("delete", e) \/ Call("rank", e)
    \/ \E r \in Ranks : Call("element", r)
    \/ Advance \/ Descend
    \/ \E level \in 1..MaxLevel : zslInsert(level)
    \/ zslDelete \/ zslGetRank \/ zslGetElementByRank

zslSpec == zslCreate /\ [][zslNext]_zslVars

-----------------------------------------------------------------------------
\* The place of a node in the order of the elements, 0 for the header.
RankOf(y) == IF y = Header THEN 0 ELSE Cardinality({z \in zslNodes : ~Less(y, z)})

\* Every level links the nodes it has in order, the pointers back lead through all of
\* them from the tail, and length and level are those of the nodes.
ListSound ==
    /\ \A y \in DOMAIN forward : \A k \in DOMAIN forward[y] : k < zsl.level =>
        LET after == {z \in zslNodes : k \in DOMAIN forward[z] /\ RankOf(z) > RankOf(y)} IN
        IF after = {} THEN forward[y][k] = Nil
        ELSE forward[y][k] \in after /\ \A z \in after : RankOf(forward[y][k]) <= RankOf(z)
    /\ \A y \in zslNodes : IF RankOf(y) = 1 THEN backward[y] = Nil
                        ELSE backward[y] \in zslNodes /\ RankOf(backward[y]) = RankOf(y) - 1
    /\ IF zslNodes = {} THEN zsl.tail = Nil
       ELSE zsl.tail \in zslNodes /\ RankOf(zsl.tail) = zsl.length
    /\ zsl.length = Cardinality(zslNodes)
    /\ \A y \in zslNodes : Cardinality(DOMAIN forward[y]) <= zsl.level
    /\ zsl.level > 1 => \E y \in zslNodes : Cardinality(DOMAIN forward[y]) = zsl.level

\* Every span is the distance to the node it leads to, or to the end of the list,
\* after any sequence of insertions and deletions at any levels.
SpansExact == \A y \in DOMAIN span : \A k \in DOMAIN span[y] : k < zsl.level =>
    span[y][k] = (IF forward[y][k] = Nil THEN zsl.length ELSE RankOf(forward[y][k])) - RankOf(y)

\* A loop that is under way knows the rank of its node, which is not behind the place
\* it looks for and is on the level it goes along; every level above was left at the
\* last of its nodes that is before that place.
SearchSound == x # Nil =>
    LET Behind(y) == y # Header /\ ~Passes(y, RankOf(y)) IN
    /\ rank = RankOf(x) /\ ~Behind(x) /\ (i >= 0 => i \in DOMAIN forward[x])
    /\ \A k \in (i + 1)..(zsl.level - 1) :
        /\ update[k].rank = RankOf(update[k].node) /\ ~Behind(update[k].node)
        /\ update[k].node \in DOMAIN forward /\ k \in DOMAIN forward[update[k].node]
        /\ \A y \in zslNodes : k \in DOMAIN forward[y] /\ RankOf(y) > RankOf(update[k].node)
                               => Behind(y)

\* The list implements the set in order: what it returns is right, after any sequence
\* of calls, and an element that is in it is found to be deleted.
Ranked == INSTANCE RankedSet WITH
    Order <- {p \in Elements \X Elements : Less(p[1], p[2])},
    members <- zslNodes, open <- x # Nil, ret <- result
ImplementsRankedSet == Ranked!Spec
=============================================================================
