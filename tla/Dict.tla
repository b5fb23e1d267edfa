-------------------------------- MODULE Dict --------------------------------
(***************************************************************************)
(* The hash table of dict.c, with the sizes it takes (doubling when full,  *)
(* shrunk by serverCron when sparse), its iterator, and the random key.    *)
(*                                                                         *)
(* A chain is a set of entries: the order inside it is left open, and with *)
(* it what the iterator finds next in a chain.                             *)
(***************************************************************************)
EXTENDS Integers, FiniteSets

CONSTANTS
    Key, Val,
    Nil,          \* NULL
    Hash,         \* what hashFunction returns for each key
    InitialSize,  \* DICT_HT_INITIAL_SIZE
    Width,        \* bits of an int
    MinSlots,     \* REDIS_HT_MINSLOTS
    MinFill       \* REDIS_HT_MINFILL, a percentage

ASSUME NilAssumption == Nil \notin Key \union Val
ASSUME HashAssumption == Hash \in [Key -> Nat]
ASSUME FillAssumption == MinSlots \in Nat /\ MinFill \in Nat

Modulus == 2^Width
MaxSize == 2^(Width - 1)
Sizes == {n \in {InitialSize * 2^i : i \in 0..Width} : n <= MaxSize}

(* Both are powers of two, the first not above the second.  The provers    *)
(* have no theory of powers: what they need is stated, and TLC checks it.  *)
ASSUME PowerAssumption ==
    /\ MaxSize \in Nat \ {0} /\ Modulus = 2 * MaxSize
    /\ InitialSize \in Sizes /\ MaxSize \in Sizes
    /\ \A n \in Sizes : n \in Nat \ {0} /\ (n = MaxSize \/ 2 * n \in Sizes)

VARIABLES
    table,    \* ht->table: the chain of each slot
    size,     \* ht->size
    used,     \* ht->used
    it,       \* the iterator
    start,    \* history: the keys when the iterator was created
    seen,     \* history: the keys dictNext has returned
    probing,  \* dictGetRandomKey looks for a slot with a chain
    crashed,  \* a NULL pointer was followed
    reply     \* answer of the last call

dict == <<table, size, used>>
iter == <<it, start, seen>>
vars == <<dict, iter, probing, crashed, reply>>

----------------------------------------------------------------------------
(* Sizes, slots and chains *)

Entry == [key : Key, val : Val]
NoTable == [s \in {} |-> {}]

Unsigned(n) == n % Modulus
Signed(n) == LET u == Unsigned(n) IN IF u < MaxSize THEN u ELSE u - Modulus

_dictNextPower(n) ==
    IF n >= MaxSize THEN MaxSize
    ELSE CHOOSE p \in Sizes : p >= n /\ \A q \in Sizes : q >= n => p <= q

Slot(k, n) == Hash[k] % n
Keys(chain) == {e.key : e \in chain}
Entries(t) == UNION {t[s] : s \in DOMAIN t}
Find(t, n, k) == IF n = 0 THEN {} ELSE {e \in t[Slot(k, n)] : e.key = k}
RehashPast(t, n) == [s \in 0..n |-> {e \in Entries(t) : Slot(e.key, n) = s}]  \* mutant: one slot more
Rehash(t, n) == [s \in 0..(n - 1) |-> {e \in Entries(t) : Slot(e.key, n) = s}]

(* Mutant: doubles when a quarter is full. *)
WantedEarly == IF size = 0 THEN InitialSize
               ELSE IF used * 4 >= size THEN Unsigned(size * 2) ELSE size

(* The size _dictExpandIfNeeded asks dictExpand for, if it does; doubling  *)
(* the largest size asks for 0, which dictExpand refuses.                  *)
Wanted == IF size = 0 THEN InitialSize
          ELSE IF used = size THEN Unsigned(size * 2) ELSE size
Refused == used > Wanted

SizeAfter  == IF Refused \/ Wanted = size THEN size ELSE _dictNextPower(Wanted)
TableAfter == IF SizeAfter = size THEN table ELSE Rehash(table, SizeAfter)

TypeOK ==
    /\ size \in Sizes \union {0}
    /\ table \in [0..(size - 1) -> SUBSET Entry]
    /\ used \in 0..MaxSize
    /\ it \in [state : {"closed", "open", "done"}, index : -1..MaxSize,
               entry : Key \union {Nil}, next : Key \union {Nil}, rest : SUBSET Key]
    /\ start \subseteq Key /\ seen \subseteq Key
    /\ probing \in BOOLEAN /\ crashed \in BOOLEAN
    /\ reply \in [op : {"none", "add", "replace", "delete", "find", "empty", "random"},
                  key : Key \union {Nil}, res : {"ok", "err", Nil} \union Val]

----------------------------------------------------------------------------
(* Calls *)

Closed == [state |-> "closed", index |-> -1, entry |-> Nil, next |-> Nil, rest |-> {}]

Ready == ~probing /\ ~crashed
Idle == Ready /\ it.state = "closed"
Answer(op, k, res) == reply' = [op |-> op, key |-> k, res |-> res]

Added(k, v) ==
    /\ size' = SizeAfter
    /\ table' = [TableAfter EXCEPT ![Slot(k, size')] = @ \union {[key |-> k, val |-> v]}]
    /\ used' = used + 1

(* _dictKeyIndex returns -1: the key is there, or the table cannot grow. *)
AddFails(k) == Refused \/ Find(TableAfter, SizeAfter, k) # {}

dictAdd(k, v) ==
    /\ Idle
    /\ \/ ~AddFails(k) /\ Added(k, v) /\ Answer("add", k, "ok")
       \/ /\ AddFails(k)
          /\ size' = SizeAfter /\ table' = TableAfter
          /\ UNCHANGED used
          /\ Answer("add", k, "err")
    /\ UNCHANGED <<iter, probing, crashed>>

(* Mutant: the new value is added beside the old one. *)
dictReplaceBeside(k, v) ==
    /\ Idle
    /\ Added(k, v)
    /\ Answer("replace", k, "ok")
    /\ UNCHANGED <<iter, probing, crashed>>

(* When dictAdd fails, the entry dictFind returns gets the new value,      *)
(* without a look at whether it is NULL.                                   *)
dictReplace(k, v) ==
    /\ Idle
    /\ \/ /\ ~AddFails(k) /\ Added(k, v)
          /\ Answer("replace", k, "ok")
          /\ UNCHANGED crashed
       \/ /\ AddFails(k) /\ Find(TableAfter, SizeAfter, k) # {}
          /\ size' = SizeAfter
          /\ table' = [TableAfter EXCEPT ![Slot(k, size')] =
                         (@ \ Find(TableAfter, SizeAfter, k)) \union {[key |-> k, val |-> v]}]
          /\ Answer("replace", k, "ok")
          /\ UNCHANGED <<used, crashed>>
       \/ /\ AddFails(k) /\ Find(TableAfter, SizeAfter, k) = {}
          /\ size' = SizeAfter /\ table' = TableAfter
          /\ crashed' = TRUE
          /\ UNCHANGED <<used, reply>>
    /\ UNCHANGED <<iter, probing>>

(* Mutant: used is only counted down for the head of a chain. *)
dictDeleteMiscounted(k) ==
    /\ Idle /\ Find(table, size, k) # {}
    /\ table' = [table EXCEPT ![Slot(k, size)] = @ \ Find(table, size, k)]
    /\ used' \in {used - 1, used}
    /\ Answer("delete", k, "ok")
    /\ UNCHANGED <<size, iter, probing, crashed>>

(* dictDelete and dictDeleteNoFree; while iterating, of the entry that was *)
(* returned last.                                                          *)
dictDelete(k) ==
    /\ Ready /\ (it.state # "closed" => it.state = "open" /\ k = it.entry)
    /\ \/ /\ Find(table, size, k) # {}
          /\ table' = [table EXCEPT ![Slot(k, size)] = @ \ Find(table, size, k)]
          /\ used' = used - 1
          /\ Answer("delete", k, "ok")
       \/ /\ Find(table, size, k) = {}
          /\ UNCHANGED <<table, used>>
          /\ Answer("delete", k, "err")
    /\ UNCHANGED <<size, iter, probing, crashed>>

dictFind(k) ==
    /\ Ready
    /\ \/ Find(table, size, k) = {} /\ Answer("find", k, Nil)
       \/ \E e \in Find(table, size, k) : Answer("find", k, e.val)
    /\ UNCHANGED <<dict, iter, probing, crashed>>

dictEmpty ==
    /\ Idle
    /\ table' = NoTable /\ size' = 0 /\ used' = 0
    /\ Answer("empty", Nil, "ok")
    /\ UNCHANGED <<iter, probing, crashed>>

(* serverCron: shrink a table that is sparse.  used * 100 is an int.       *)
TooSparse == /\ Signed(size) > 0 /\ used > 0
             /\ Signed(size) > MinSlots
             /\ Signed(used * 100) < MinFill * size

(* Mutant: half of what is in use is enough. *)
redisDbResizeHalf ==
    /\ Idle /\ TooSparse
    /\ size' = _dictNextPower(used \div 2)
    /\ table' = [s \in 0..(size' - 1) |-> IF s \in DOMAIN table THEN table[s] ELSE {}]
    /\ UNCHANGED <<used, iter, probing, crashed, reply>>

redisDbResize ==
    /\ Idle /\ TooSparse
    /\ size' = _dictNextPower(IF used < InitialSize THEN InitialSize ELSE used)
    /\ table' = Rehash(table, size')
    /\ UNCHANGED <<used, iter, probing, crashed, reply>>

----------------------------------------------------------------------------
(* Iteration *)

dictGetIterator ==
    /\ Idle
    /\ it' = [Closed EXCEPT !.state = "open"]
    /\ start' = Keys(Entries(table)) /\ seen' = {}
    /\ UNCHANGED <<dict, probing, crashed, reply>>

(* Mutant: the next entry is the one returned, read again later. *)
ReturnEntryUnsaved(s, k, behind) ==
    /\ it' = [it EXCEPT !.index = s, !.entry = k, !.rest = behind, !.next = k]
    /\ seen' = seen \union {k}

(* dictNext returns the entry of key k in slot s and saves the next of the *)
(* entries that are behind it in its chain.                                *)
ReturnEntry(s, k, behind) ==
    /\ \E n \in IF behind = {} THEN {Nil} ELSE behind :
          it' = [it EXCEPT !.index = s, !.entry = k, !.next = n, !.rest = behind \ {n}]
    /\ seen' = seen \union {k}

SizeMask == IF size = 0 THEN 0 ELSE size - 1

(* Mutant: the index moves twice. *)
AheadTooFar == {s \in DOMAIN table : s > it.index + 1 /\ s < SizeMask /\ table[s] # {}}

Ahead == {s \in DOMAIN table : s > it.index /\ s < SizeMask /\ table[s] # {}}

(* The slot sizemask itself is not looked at. *)
dictNext ==
    /\ Ready /\ it.state = "open"
    /\ \/ /\ it.next # Nil
          /\ ReturnEntry(it.index, it.next, it.rest)
       \/ /\ it.next = Nil
          /\ \E s \in Ahead :
                /\ \A t \in Ahead : s <= t
                /\ \E k \in Keys(table[s]) : ReturnEntry(s, k, Keys(table[s]) \ {k})
       \/ /\ it.next = Nil /\ Ahead = {}
          /\ it' = [it EXCEPT !.state = "done", !.entry = Nil]
          /\ UNCHANGED seen
    /\ UNCHANGED <<dict, start, probing, crashed, reply>>

dictReleaseIterator ==
    /\ Ready /\ it.state # "closed"
    /\ it' = Closed /\ start' = {} /\ seen' = {}
    /\ UNCHANGED <<dict, probing, crashed, reply>>

----------------------------------------------------------------------------
(* The random key *)

(* The call, up to its loop. *)
dictGetRandomKey ==
    /\ Idle
    /\ \/ size = 0 /\ Answer("random", Nil, Nil) /\ UNCHANGED probing
       \/ size # 0 /\ probing' = TRUE /\ UNCHANGED reply
    /\ UNCHANGED <<dict, iter, crashed>>

(* Mutant: random() % sizemask. *)
ProbeShort ==
    /\ probing
    /\ \E s \in 0..(size - 2) : \E e \in table[s] : Answer("random", e.key, e.val)
    /\ probing' = FALSE
    /\ UNCHANGED <<dict, iter, crashed>>

(* random() hits a slot with a chain; a miss changes nothing. *)
Probe ==
    /\ probing
    /\ \E s \in DOMAIN table : \E e \in table[s] : Answer("random", e.key, e.val)
    /\ probing' = FALSE
    /\ UNCHANGED <<dict, iter, crashed>>

----------------------------------------------------------------------------

Init == /\ table = NoTable /\ size = 0 /\ used = 0
        /\ it = Closed /\ start = {} /\ seen = {}
        /\ probing = FALSE /\ crashed = FALSE
        /\ reply = [op |-> "none", key |-> Nil, res |-> Nil]

Next == \/ \E k \in Key : dictDelete(k) \/ dictFind(k)
        \/ \E k \in Key, v \in Val : dictAdd(k, v) \/ dictReplace(k, v)
        \/ dictEmpty \/ redisDbResize
        \/ dictGetIterator \/ dictNext \/ dictReleaseIterator
        \/ dictGetRandomKey \/ Probe

Spec == Init /\ [][Next]_vars

(* random() takes every value of its low bits again and again. *)
FairSpec == Spec /\ WF_vars(Probe)

----------------------------------------------------------------------------
(* Properties *)

(* Every entry is where dictFind looks for it, at every size the table has *)
(* gone through, and no key has two entries.                               *)
WellPlaced ==
    /\ \A s \in DOMAIN table : \A e \in table[s] : Slot(e.key, size) = s
    /\ \A e, f \in Entries(table) : e.key = f.key => e = f

(* used, which decides about every change of size and sizes saved sets,    *)
(* counts the entries exactly, and the table is never over full.           *)
UsedIsCount == used = Cardinality(Entries(table)) /\ used <= size

(* A walk with dictNext, even one that deletes what it is given, returns   *)
(* exactly the keys there were, but for those whose slot is the last one.  *)
WalkAllButLastSlot ==
    it.state = "done" => seen = {k \in start : Slot(k, size) # size - 1}

(* Deleting the entry just returned never pulls the next one away.         *)
NextIsAlive == it.next # Nil => it.next \in Keys(table[it.index]) \ seen

(* A table in use becomes too sparse by deletions only, so the cron        *)
(* resizes at most once after them and growing never calls for shrinking,  *)
(* as long as used * 100 is in the range of an int.                        *)
OnlyDeletesMakeSparse ==
    [][used > 0 /\ used' * 100 < MaxSize /\ ~TooSparse /\ TooSparse'
         => used' < used]_vars

(* RANDOMKEY answers if there is a key.  Without one it never answers,     *)
(* unless the table was never allocated.                                   *)
RandomKeyEnds == probing /\ used > 0 ~> ~probing

(* The dict is the map dict.h describes, whatever its sizes.               *)
Map == INSTANCE KeyMap WITH
    map <- [k \in Keys(Entries(table)) |-> (CHOOSE e \in Entries(table) : e.key = k).val]
ImplementsMap == Map!Spec

(* ---- what comments and assertions say, and the code does not do ---- *)

(* redis.c:2398 asserts that a walk over a set returns dictGetHashTableUsed *)
(* entries (j == vectorlen); writeSetToFile's format relies on the same.   *)
WalkIsComplete == it.state = "done" => seen = start
=============================================================================
