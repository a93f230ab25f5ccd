----------------------------- MODULE HashTable -----------------------------
(***************************************************************************)
(* The hash table of hash/uc_hash.c: an array of chains.  Each call is one *)
(* action, the table has no lock of its own.  The two loops over a table,  *)
(* uc_hash_test_print_table and the one of uc_hash.h that deletes what it  *)
(* visits, go step by step; nobody else uses the table meanwhile, as the   *)
(* comment at line 760 asks.                                               *)
(*                                                                         *)
(* The seventeen kinds of keys differ in how they are copied, compared and *)
(* hashed; a key stands for its value and Hash for hash_cal_fun.  Find     *)
(* returns the value of the node, which may be NULL.                       *)
(***************************************************************************)
EXTENDS Naturals, Sequences, SequencesExt

CONSTANTS
    Keys, Vals,     \* the keys, and the memory values are allocated in
    Height,         \* the number of chains
    Hash,           \* key -> hash value
    Randoms,        \* arguments of uc_hash_random_node
    NULL

ASSUME TableAssumption ==
    /\ Height \in Nat \ {0}
    /\ Hash \in [Keys -> Nat]
    /\ Randoms \subseteq Nat
    /\ NULL \notin Keys \cup Vals

VARIABLES
    nodes,      \* the chains, newest node first
    node_ttl,   \* how many nodes there are
    ret,        \* what the last call returned
    held,       \* the values the caller owns
    freed,      \* how often each value was freed
    loop,       \* "none", "walk" or "clear": the loop under way
    item,       \* the node it is at
    seen        \* history: the keys it has visited, in this order

table == <<nodes, node_ttl>>
vars == <<table, ret, held, freed, loop, item, seen>>

Buckets == 0..(Height - 1)
Values == Vals \cup {NULL}
KeysOf(chain) == {chain[i].key : i \in 1..Len(chain)}
Stored == UNION {KeysOf(nodes[b]) : b \in Buckets}

TypeOK ==
    /\ nodes \in [Buckets -> Seq([key : Keys, val : Values])]
    /\ node_ttl \in Nat
    /\ ret \in {"ok", "error"} \cup Values
    /\ held \subseteq Vals /\ freed \in [Vals -> Nat]
    /\ loop \in {"none", "walk", "clear"}
    /\ item \in Keys \cup {NULL} /\ seen \in Seq(Keys)

Init ==
    /\ nodes = [b \in Buckets |-> <<>>] /\ node_ttl = 0
    /\ ret = "ok"
    /\ held = Vals /\ freed = [v \in Vals |-> 0]
    /\ loop = "none" /\ item = NULL /\ seen = <<>>

-----------------------------------------------------------------------------
Bucket(k) == Hash[k] % Height
Chain(k) == nodes[Bucket(k)]

\* Where a key is in its chain, 0 if it is not there.
Position(k) == SelectInSeq(Chain(k), LAMBDA n : n.key = k)
Found(k) == Position(k) # 0
ValueOf(k) == Chain(k)[Position(k)].val

SetValue(k, v) == nodes' = [nodes EXCEPT ![Bucket(k)][Position(k)].val = v]

\* Slip: the rest of the chain goes with the node.
UnlinkRest(k) == nodes' = [nodes EXCEPT ![Bucket(k)] = SubSeq(@, 1, Position(k) - 1)]

Unlink(k) == nodes' = [nodes EXCEPT ![Bucket(k)] = RemoveAt(@, Position(k))]

\* uc_hash_mem_free of some values; free(NULL) does nothing.
Frees(vals) == freed' = [v \in Vals |-> freed[v] + (IF v \in vals THEN 1 ELSE 0)]

Idle == loop = "none"
LoopIdle == UNCHANGED <<loop, item, seen>>

\* Slip: the old value is not freed.
InsertReplacesOnly(k, v) ==
    /\ Idle /\ Found(k)
    /\ SetValue(k, v) /\ UNCHANGED freed
    /\ held' = held \ {v}
    /\ ret' = "ok"
    /\ UNCHANGED node_ttl /\ LoopIdle

\* The new value replaces the old one, which is freed.
InsertReplaces(k, v) ==
    /\ Idle /\ Found(k)
    /\ SetValue(k, v) /\ Frees({ValueOf(k)})
    /\ held' = held \ {v}
    /\ ret' = "ok"
    /\ UNCHANGED node_ttl /\ LoopIdle

InsertNew(k, v) ==
    /\ Idle /\ ~Found(k)
    /\ nodes' = [nodes EXCEPT ![Bucket(k)] = <<[key |-> k, val |-> v]>> \o @]
    /\ node_ttl' = node_ttl + 1
    /\ held' = held \ {v}
    /\ ret' = "ok"
    /\ UNCHANGED freed /\ LoopIdle

\* malloc fails for the node.
InsertFails(k) ==
    /\ Idle /\ ~Found(k)
    /\ ret' = "error"
    /\ UNCHANGED <<table, held, freed>> /\ LoopIdle

\* Slip: node_ttl goes down although nothing was found.
DeleteCountsAlways(k) ==
    /\ Idle
    /\ IF Found(k) THEN Unlink(k) /\ Frees({ValueOf(k)}) ELSE UNCHANGED <<nodes, freed>>
    /\ node_ttl' = node_ttl - 1
    /\ ret' = "ok"
    /\ UNCHANGED held /\ LoopIdle

\* Deleting what is not there is no error.
Delete(k) ==
    /\ Idle
    /\ IF Found(k)
       THEN Unlink(k) /\ Frees({ValueOf(k)}) /\ node_ttl' = node_ttl - 1
       ELSE UNCHANGED <<table, freed>>
    /\ ret' = "ok"
    /\ UNCHANGED held /\ LoopIdle

\* Slip: the new value is returned.
UpdateReturnsNew(k, v) ==
    /\ Idle
    /\ IF Found(k)
       THEN /\ SetValue(k, v)
            /\ held' = (held \ {v}) \cup ({ValueOf(k)} \ {NULL})
            /\ ret' = v
       ELSE ret' = NULL /\ UNCHANGED <<nodes, held>>
    /\ UNCHANGED <<node_ttl, freed>> /\ LoopIdle

\* The caller gets the old value, or NULL and keeps its own.
Update(k, v) ==
    /\ Idle
    /\ IF Found(k)
       THEN /\ SetValue(k, v)
            /\ held' = (held \ {v}) \cup ({ValueOf(k)} \ {NULL})
            /\ ret' = ValueOf(k)
       ELSE ret' = NULL /\ UNCHANGED <<nodes, held>>
    /\ UNCHANGED <<node_ttl, freed>> /\ LoopIdle

Find(k) ==
    /\ Idle
    /\ ret' = IF Found(k) THEN ValueOf(k) ELSE NULL
    /\ UNCHANGED <<table, held, freed>> /\ LoopIdle

\* Where there are nodes
Places == UNION {{b} \X (1..Len(nodes[b])) : b \in Buckets}

\* Counts node_ttl down by one for every node it frees, and is content with 0.
Reset ==
    /\ Idle
    /\ Frees({ValueOf(k) : k \in Stored})
    /\ nodes' = [b \in Buckets |-> <<>>]
    /\ LET left == node_ttl - Cardinality(Places) IN
        node_ttl' = left /\ ret' = IF left = 0 THEN "ok" ELSE "error"
    /\ UNCHANGED held /\ LoopIdle

-----------------------------------------------------------------------------
\* The first node of the first chain from b on that is not empty.
FirstFrom(b) ==
    LET filled == {i \in b..(Height - 1) : nodes[i] # <<>>} IN
    IF filled = {} THEN NULL
    ELSE LET first == CHOOSE i \in filled : \A j \in filled : i <= j IN nodes[first][1].key

\* Slip: after a chain the search goes on in the same chain.
NextOfSameChain(k) ==
    IF ~Found(k) THEN NULL
    ELSE IF Position(k) < Len(Chain(k)) THEN Chain(k)[Position(k) + 1].key
    ELSE FirstFrom(Bucket(k))

\* uc_hash_next: the node after that of a key, or the first one.
NextOf(k) ==
    IF ~Found(k) THEN NULL
    ELSE IF Position(k) < Len(Chain(k)) THEN Chain(k)[Position(k) + 1].key
    ELSE FirstFrom(Bucket(k) + 1)

Begin(kind) ==
    /\ Idle
    /\ loop' = kind /\ item' = FirstFrom(0) /\ seen' = <<>>
    /\ UNCHANGED <<table, ret, held, freed>>

\* The next node is looked up before this one is deleted.
Step ==
    /\ loop # "none" /\ item # NULL
    /\ item' = NextOf(item)
    /\ seen' = Append(seen, item)
    /\ IF loop = "clear"
       THEN Unlink(item) /\ Frees({ValueOf(item)}) /\ node_ttl' = node_ttl - 1 /\ ret' = "ok"
       ELSE UNCHANGED <<table, freed, ret>>
    /\ UNCHANGED <<held, loop>>

End ==
    /\ loop # "none" /\ item = NULL
    /\ loop' = "none" /\ seen' = <<>>
    /\ UNCHANGED <<table, ret, held, freed, item>>

\* Slip: only upwards.
RandomNodeUp(r) ==
    LET up == {i \in (r % Height)..(Height - 1) : nodes[i] # <<>>}
        At(b) == nodes[b][(r % Len(nodes[b])) + 1].key
    IN IF up # {} THEN At(CHOOSE i \in up : \A j \in up : i <= j) ELSE NULL

\* uc_hash_random_node: from the chain of the number upwards, then downwards.
RandomNode(r) ==
    LET up == {i \in (r % Height)..(Height - 1) : nodes[i] # <<>>}
        down == {i \in 0..(r % Height) : i < r % Height /\ nodes[i] # <<>>}
        At(b) == nodes[b][(r % Len(nodes[b])) + 1].key
    IN IF node_ttl = 0 THEN NULL
       ELSE IF up # {} THEN At(CHOOSE i \in up : \A j \in up : i <= j)
       ELSE IF down # {} THEN At(CHOOSE i \in down : \A j \in down : i >= j)
       ELSE NULL

-----------------------------------------------------------------------------
Next ==
    \/ \E k \in Keys : InsertFails(k) \/ Delete(k) \/ Find(k)
    \/ \E k \in Keys, v \in held \cup {NULL} :
        InsertReplaces(k, v) \/ InsertNew(k, v) \/ Update(k, v)
    \/ Reset
    \/ Begin("walk") \/ Begin("clear") \/ Step \/ End

Spec == Init /\ [][Next]_vars

-----------------------------------------------------------------------------
\* Every node is in the chain of its key, no key has two, and node_ttl counts them:
\* uc_hash_find and uc_hash_delete look at one chain and stop at the first match.
ChainsSound ==
    /\ \A b \in Buckets : \A i \in 1..Len(nodes[b]) :
        /\ Bucket(nodes[b][i].key) = b
        /\ \A j \in 1..Len(nodes[b]) : nodes[b][i].key = nodes[b][j].key => i = j
    /\ node_ttl = Cardinality(Stored)

\* A value belongs to the caller, to one node, or was freed, once: nothing leaks and
\* nothing is freed twice, whichever calls replace, return and delete it.
ValuesOwned == \A v \in Vals :
    LET owners == {k \in Stored : ValueOf(k) = v} IN
    freed[v] + Cardinality(owners) + (IF v \in held THEN 1 ELSE 0) = 1

\* A loop visits every node once, also when it deletes what it visits (uc_hash.h:75),
\* and then the table is empty.
LoopVisitsAll == loop # "none" =>
    /\ IsInjective(seen)
    /\ item # NULL => item \in Stored \ (IF loop = "walk" THEN ToSet(seen) ELSE {})
    /\ item = NULL => Stored = IF loop = "clear" THEN {} ELSE ToSet(seen)

\* uc_hash_random_node finds a node whenever there is one, whatever the number.
RandomFindsNode == \A r \in Randoms :
    IF node_ttl = 0 THEN RandomNode(r) = NULL ELSE RandomNode(r) \in Stored

\* The table implements the map, results included; the loop that deletes removes the
\* keys one by one.
Map == INSTANCE KeyMap WITH map <- [k \in Stored |-> ValueOf(k)]
ImplementsKeyMap == Map!Spec
=============================================================================
