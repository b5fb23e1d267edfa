------------------------------ MODULE SkipList ------------------------------
(***************************************************************************)
(* SkipListMap.java: a sorted map as a list of nodes with forward and      *)
(* backward links on several levels.                                       *)
(*                                                                         *)
(* A data node is its key and a generation, which tells a node from later  *)
(* ones with the same key; the arrays next and prev of a node are          *)
(* functions on its levels.  Nodes nobody can get to any more are not      *)
(* kept.                                                                   *)
(***************************************************************************)
EXTENDS Integers, Sequences, FiniteSets

CONSTANTS
    Key,        \* integers, in the order of the comparator
    Val,
    Null,
    MAX_LEVEL,
    Drawn       \* bound: levels that randomLevel draws

head == <<"head">>
tail == <<"tail">>
DataNode == Key \X {0, 1}

ASSUME SkipListAssumption ==
    /\ Key \subseteq Int /\ Null \notin Val /\ Null \notin DataNode \union {head, tail}
    /\ MAX_LEVEL \in Nat \ {0} /\ Drawn \subseteq 1..MAX_LEVEL

VARIABLES
    next, prev,  \* for each node, a node or Null on each of its levels
    value,       \* for each data node
    level, size,
    reply,       \* what the last call returned; no operation reads it
    harm         \* history: "none", "cleared", or "lost" when something was
                 \* removed after that

links == <<next, prev, value>>
vars == <<links, level, size, reply, harm>>

Levels == 0..(MAX_LEVEL - 1)
IsData(n) == n \notin {Null, head, tail}
Least(S) == CHOOSE x \in S : \A y \in S : x <= y

----------------------------------------------------------------------------
(* Searching *)

(* compare(node, key) < 0, with the special cases of the sentinels.        *)
Less(n, k) == n = head \/ (IsData(n) /\ n[1] < k)

(* From n along level i to the last node that is less than k.              *)
WalkStep(i, k, walk, n) ==
    IF i \in DOMAIN next[n] /\ next[n][i] # Null /\ Less(next[n][i], k)
    THEN walk[next[n][i]] ELSE n
Walk(i, k) == LET walk[n \in DOMAIN next] == WalkStep(i, k, walk, n) IN walk

(* The array `update` of findClosestNode, below level; at level the walk   *)
(* starts.                                                                 *)
PathStep(k, path, i) == IF i = level THEN head ELSE Walk(i, k)[path[i + 1]]
Path(k) == LET path[i \in 0..level] == PathStep(k, path, i) IN path

DataNodeOrNull(n) == IF IsData(n) THEN n ELSE Null
FindGE(k) == DataNodeOrNull(next[Path(k)[0]][0])
FindLT(k) == DataNodeOrNull(Path(k)[0])
FindEQ(k) == IF FindGE(k) # Null /\ FindGE(k)[1] = k THEN FindGE(k) ELSE Null

firstNode == DataNodeOrNull(next[head][0])
lastNode == DataNodeOrNull(prev[tail][0])
get(k) == IF FindEQ(k) = Null THEN Null ELSE value[FindEQ(k)]

(* The iterator of a sub map, from a node to its bound, the last one; a    *)
(* bound of null ends it at once.                                          *)
IterateStep(bound, iterate, n) ==
    <<n>> \o (IF n = bound \/ next[n][0] = Null THEN <<>> ELSE iterate[next[n][0]])
Nodes(bound) == LET iterate[n \in DOMAIN next] == IterateStep(bound, iterate, n) IN iterate
Iterate(from, bound) == IF from = Null \/ bound = Null THEN <<>> ELSE Nodes(bound)[from]
headMap(high) == Iterate(firstNode, FindLT(high))
tailMap(low) == Iterate(FindGE(low), lastNode)
subMap(low, high) == Iterate(FindGE(low), FindLT(high))

----------------------------------------------------------------------------
(* Changing links *)

(* The nodes of level i, and those the links nxt lead to from each.        *)
On(nxt, i) == {n \in DOMAIN nxt : i \in DOMAIN nxt[n]}
ChainStep(nxt, i, chain, n) ==
    {n} \union (IF nxt[n][i] = Null THEN {} ELSE chain[nxt[n][i]])
Chain(nxt, i) == LET chain[n \in On(nxt, i)] == ChainStep(nxt, i, chain, n) IN chain

(* Reachable by next from the head, or by prev[.] from the tail.           *)
Kept(nxt, prv) ==
    {tail} \union UNION {Chain(nxt, i)[head] \union ({prv[tail][i]} \ {Null}) : i \in Levels}

Links(nxt, prv, val) ==
    LET kept == Kept(nxt, prv)
    IN  /\ next' = [n \in kept |-> nxt[n]]
        /\ prev' = [n \in kept |-> prv[n]]
        /\ value' = [n \in kept \ {head, tail} |-> val[n]]

(* linkNode(after[i], new, i) and linkNode(new, after[i].next[i], i) for   *)
(* each level of new.                                                      *)
LinkedNext(new, after) ==
    [n \in DOMAIN next \union {new} |->
        IF n = new THEN [i \in DOMAIN after |-> next[after[i]][i]]
        ELSE [i \in DOMAIN next[n] |->
                IF i \in DOMAIN after /\ after[i] = n THEN new ELSE next[n][i]]]
LinkedPrevTail(new, after) ==      \* which forgets the node behind
    [n \in DOMAIN prev \union {new} |-> IF n = new THEN after ELSE prev[n]]
LinkedPrev(new, after) ==
    [n \in DOMAIN prev \union {new} |->
        IF n = new THEN after
        ELSE [i \in DOMAIN prev[n] |->
                IF i \in DOMAIN after /\ next[after[i]][i] = n THEN new ELSE prev[n][i]]]

(* linkNode(node.prev[i], node.next[i], i), each if it is not null.        *)
UnlinkedNextBottom(node) ==        \* on the bottom level only
    [n \in DOMAIN next |->
        [i \in DOMAIN next[n] |->
            IF n = node THEN Null
            ELSE IF i = 0 /\ prev[node][i] = n THEN next[node][i] ELSE next[n][i]]]
UnlinkedNext(node) ==
    [n \in DOMAIN next |->
        [i \in DOMAIN next[n] |->
            IF n = node THEN Null
            ELSE IF i \in DOMAIN prev[node] /\ prev[node][i] = n THEN next[node][i]
            ELSE next[n][i]]]
UnlinkedPrev(node) ==
    [n \in DOMAIN prev |->
        [i \in DOMAIN prev[n] |->
            IF n = node THEN Null
            ELSE IF i \in DOMAIN next[node] /\ next[node][i] = n THEN prev[node][i]
            ELSE prev[n][i]]]

----------------------------------------------------------------------------
(* Operations *)

Replies(op, k, v, res) == reply' = [op |-> op, key |-> k, val |-> v, res |-> res]

(* Of an entry that an iterator returned, or that put found.               *)
setValue(node, v) ==
    /\ value' = [value EXCEPT ![node] = v]
    /\ Replies("put", node[1], v, value[node])
    /\ UNCHANGED <<next, prev, level, size, harm>>

Overwrite(k, v) == FindEQ(k) # Null /\ setValue(FindEQ(k), v)

Insert(k, v, newLevel) ==
    LET path  == Path(k)
        after == [i \in 0..(newLevel - 1) |-> IF i < level THEN path[i] ELSE head]
    IN  /\ FindEQ(k) = Null
        /\ \E g \in {0, 1} :
            /\ <<k, g>> \notin DOMAIN next
            /\ g = 0 \/ <<k, 0>> \in DOMAIN next
            /\ Links(LinkedNext(<<k, g>>, after), LinkedPrev(<<k, g>>, after),
                     [n \in DOMAIN value \union {<<k, g>>} |-> IF n = <<k, g>> THEN v ELSE value[n]])
        /\ level' = IF newLevel > level THEN newLevel ELSE level
        /\ size' = size + 1
        /\ Replies("put", k, v, Null)
        /\ UNCHANGED harm

put(k, v) == Overwrite(k, v) \/ \E newLevel \in Drawn : Insert(k, v, newLevel)

(* The loop at the end of deleteNode goes down to a level whose index, not *)
(* whose number, has a node.  At MAX_LEVEL it throws before size changes.  *)
LevelAfter(nxt) ==
    IF level = MAX_LEVEL THEN level
    ELSE CHOOSE l \in 0..level :
            /\ l > 0 => nxt[head][l] # Null
            /\ \A m \in (l + 1)..level : nxt[head][m] = Null
SizeAfter == IF level = MAX_LEVEL THEN size ELSE size - 1

remove(k) ==
    LET node == FindEQ(k)
    IN  \/ node = Null /\ Replies("remove", k, Null, Null) /\ UNCHANGED <<links, level, size, harm>>
        \/ /\ node # Null
           /\ Links(UnlinkedNext(node), UnlinkedPrev(node), value)
           /\ level' = LevelAfter(UnlinkedNext(node))
           /\ size' = SizeAfter
           /\ Replies("remove", k, Null, IF level = MAX_LEVEL THEN "thrown" ELSE value[node])
           /\ harm' = IF harm = "none" THEN "none" ELSE "lost"

(* Every next of every node on a chain is set to null; prev and level stay.*)
clear ==
    /\ Links([n \in DOMAIN next |->
                [i \in DOMAIN next[n] |-> IF n \in Chain(next, i)[head] THEN Null ELSE next[n][i]]],
             prev, value)
    /\ size' = 0
    /\ Replies("clear", Null, Null, Null)
    /\ harm' = "cleared"
    /\ UNCHANGED level

Init ==
    /\ next = [n \in {head, tail} |-> [i \in Levels |-> IF n = head THEN tail ELSE Null]]
    /\ prev = [n \in {head, tail} |-> [i \in Levels |-> IF n = tail THEN head ELSE Null]]
    /\ value = [n \in {} |-> Null]
    /\ level = 0 /\ size = 0 /\ harm = "none"
    /\ reply = [op |-> "new", key |-> Null, val |-> Null, res |-> Null]

(* Bound: a map that lost keys is not followed any further.                *)
Next ==
    /\ harm # "lost"
    /\ \/ \E k \in Key, v \in Val : put(k, v)
       \/ \E n \in Chain(next, 0)[head] \ {head, tail}, v \in Val : setValue(n, v)
       \/ \E k \in Key : remove(k)
       \/ clear

Spec == Init /\ [][Next]_vars

----------------------------------------------------------------------------
(* Properties *)

(* What the bottom level holds.                                            *)
Content ==
    LET nodes == {n \in Chain(next, 0)[head] : IsData(n)}
    IN  [k \in {n[1] : n \in nodes} |-> value[CHOOSE n \in nodes : n[1] = k]]
Keys == DOMAIN Content

(* put and remove answer and change the map as KeyValue says, through any  *)
(* levels that are drawn, until something is removed from a map that was   *)
(* cleared.                                                                *)
Map == INSTANCE KeyValue WITH
    map <- IF harm # "lost" THEN Content ELSE [k \in {} |-> Null],
    serving <- harm # "lost"
ImplementsMap == Map!Spec

(* What a search or an iteration finds is what the bottom level has: get   *)
(* every key, firstKey the least; until the map is cleared also lastKey    *)
(* the greatest, and each sub map that is not empty its keys in order.     *)
InOrder(nodes, keys) ==
    /\ {nodes[i][1] : i \in DOMAIN nodes} = keys /\ Len(nodes) = Cardinality(keys)
    /\ \A i, j \in DOMAIN nodes : i < j => nodes[i][1] < nodes[j][1]
FoundAsStored ==
    /\ harm # "lost" =>
        /\ \A k \in Keys : get(k) = Content[k]
        /\ size = Cardinality(Keys)
        /\ IF Keys = {} THEN firstNode = Null ELSE firstNode # Null /\ firstNode[1] = Least(Keys)
    /\ harm = "none" =>
        /\ IF Keys = {} THEN lastNode = Null
           ELSE lastNode # Null /\ \A k \in Keys : k <= lastNode[1]
        /\ \A low, high \in Key :
            LET Below == {k \in Keys : k < high}
                From  == {k \in Keys : low <= k}
            IN  /\ Below # {} => InOrder(headMap(high), Below)
                /\ From # {} => InOrder(tailMap(low), From)
                /\ Below \intersect From # {} => InOrder(subMap(low, high), Below \intersect From)
=============================================================================
