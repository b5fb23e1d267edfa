------------------------------ MODULE Keyspace ------------------------------
(***************************************************************************)
(* The databases of redis.c: reference-counted objects, the commands over  *)
(* them, and reply lists that hold objects while later commands run.       *)
(*                                                                         *)
(* The server is one thread, and a command with the release of its         *)
(* arguments is one step.  A command that refuses (no such key, another    *)
(* type, an index out of range) changes nothing and is no step, and so are *)
(* the commands that answer numbers.  Objects for arguments are made only  *)
(* where the command keeps them.  Fresh and shared objects in replies are  *)
(* balanced within a command and left out.                                 *)
(***************************************************************************)
EXTENDS Integers, Sequences, FiniteSets, SequencesExt

CONSTANTS
    Str,       \* strings: names of keys, values and elements
    Db,        \* the databases
    Index,     \* list indexes a client sends
    Bumped,    \* INCR and its like: the new string, by the old one or Nil
    Nil,
    MaxObj,    \* bound: objects alive at the same time
    MaxReply,  \* bound: objects in the reply lists before a command adds more
    MaxAnswer  \* bound: objects that KEYS, SINTER or SORT answers

ASSUME NilAssumption == Nil \notin Str
ASSUME BumpedAssumption == Bumped \in [Str \union {Nil} -> Str]
ASSUME IndexAssumption == Index \subseteq Int
ASSUME BoundAssumption == {MaxObj, MaxReply, MaxAnswer} \subseteq Nat

VARIABLES
    heap,     \* the objects: type, refcount and what ptr leads to
    db,       \* server.dict: the entries of each database
    reply,    \* the objects in c->reply
    dirty,    \* server.dirty modulo 2: whether a command counted a change
    fate      \* the server is up, aborted, or has used freed memory

vars == <<heap, db, reply, dirty, fate>>

Oid == 1..MaxObj

----------------------------------------------------------------------------
(* Objects *)

Dead == [type |-> "free", ref |-> 0, str |-> Nil, elems |-> <<>>, members |-> {}]
String(s) == [Dead EXCEPT !.type = "string", !.ref = 1, !.str = s]
List(es)  == [Dead EXCEPT !.type = "list", !.ref = 1, !.elems = es]
Set(ms)   == [Dead EXCEPT !.type = "set", !.ref = 1, !.members = ms]

SetElems(h, o, es) == [h EXCEPT ![o].elems = es]
SetMembers(h, o, ms) == [h EXCEPT ![o].members = ms]

(* createObject takes objects from anywhere: here the first free ones. *)
FreeSlots == {o \in Oid : heap[o].type = "free"}
Slot(i) == CHOOSE o \in FreeSlots : Cardinality({x \in FreeSlots : x < o}) = i - 1
Slots(n) == [i \in 1..n |-> Slot(i)]

(* The heap with objects for the arguments strs in the first free slots.   *)
Given(strs) == [o \in Oid |-> IF \E i \in DOMAIN strs : o = Slot(i)
                              THEN String(strs[CHOOSE i \in DOMAIN strs : o = Slot(i)])
                              ELSE heap[o]]

Up(h, S) == [o \in Oid |-> IF o \in S THEN [h[o] EXCEPT !.ref = @ + 1] ELSE h[o]]
Dropped(obj) == IF obj.ref = 1 THEN Dead ELSE [obj EXCEPT !.ref = @ - 1]
Down(h, S) == [o \in Oid |-> IF o \in S THEN Dropped(h[o]) ELSE h[o]]

incrRefCount(h, o) == Up(h, {o})

decrRefCountShallow(h, o) == Down(h, {o})  \* mutant: what is freed keeps its elements

(* A list or set that is freed drops its elements, which are strings. *)
decrRefCount(h, o) ==
    IF h[o].ref > 1 THEN Down(h, {o})
    ELSE Down(Down(h, {o}), ToSet(h[o].elems) \union h[o].members)

decrAll(h, S) == FoldSet(LAMBDA o, g : decrRefCount(g, o), h, S)

Holding(h, os) ==
    [o \in Oid |-> [h[o] EXCEPT !.ref = @ + Cardinality({i \in DOMAIN os : os[i] = o})]]

----------------------------------------------------------------------------
(* Databases *)

Entry(k, v) == [key |-> k, val |-> v]

Named(d, k) == {e \in db[d] : heap[e.key].str = k}
Typed(d, k, type) == {e \in Named(d, k) : heap[e.val].type = type}

Rebind(d, old, new) == db' = [db EXCEPT ![d] = (@ \ old) \union new]
SameKeys == UNCHANGED db

(* What a walk with dictNext returns, in any order: it may miss the last   *)
(* slot.                                                                   *)
Walks(S) == {os \in BoundedSeq(S, MaxAnswer) : IsInjective(os)}

----------------------------------------------------------------------------
(* What all commands share: they begin with room for n objects, and end    *)
(* with heap h when addReply has the objects os and the references to      *)
(* released are dropped, those of freeClientArgv among them.               *)

Begin(n) == fate = "up" /\ Cardinality(FreeSlots) >= n

Answer(h, os, released) ==
    /\ os = <<>> \/ Len(reply) < MaxReply
    /\ reply' = reply \o os
    /\ heap' = decrAll(Holding(h, os), released)
    /\ UNCHANGED fate

Counted == dirty' = 1 - dirty
Uncounted == UNCHANGED dirty

Nothing == [d \in Db |-> {}]
NoObjects == [o \in Oid |-> Dead]

(* The process ends and takes its memory and unsent replies with it. *)
Ends(how) ==
    /\ fate' = how
    /\ heap' = NoObjects /\ db' = Nothing /\ reply' = <<>> /\ dirty' = 0

----------------------------------------------------------------------------
(* Strings and keys *)

echoCommand(m) ==
    LET a == Slots(1) IN
    /\ Begin(1) /\ SameKeys /\ Uncounted
    /\ Answer(Given(<<m>>), a, ToSet(a))

(* SET and SETNX *)
setGenericCommand(d, k, v, nx) ==
    LET a == Slots(2) IN
    \/ /\ Begin(2) /\ Counted
       /\ Named(d, k) = {}
       /\ Rebind(d, {}, {Entry(a[1], a[2])})
       /\ Answer(Up(Given(<<k, v>>), {a[1], a[2]}), <<>>, {a[1], a[2]})
    \/ /\ Begin(1) /\ Counted
       /\ ~nx
       /\ \E e \in Named(d, k) :
             /\ Rebind(d, {e}, {Entry(e.key, a[1])})
             /\ Answer(incrRefCount(decrRefCount(Given(<<v>>), e.val), a[1]), <<>>, {a[1]})

getCommand(d, k) ==
    /\ Begin(0) /\ SameKeys /\ Uncounted
    /\ \E e \in Typed(d, k, "string") : Answer(heap, <<e.val>>, {})

(* INCR, DECR, INCRBY, DECRBY: a value of another type counts as 0. *)
incrDecrCommand(d, k) ==
    LET a == Slots(2)
        old == {heap[e.val].str : e \in Typed(d, k, "string")}
        new == Bumped[IF old = {} THEN Nil ELSE CHOOSE s \in old : TRUE]
    IN
    \/ /\ Begin(2) /\ Counted
       /\ Named(d, k) = {}
       /\ Rebind(d, {}, {Entry(a[1], a[2])})
       /\ Answer(incrRefCount(Given(<<k, new>>), a[1]), <<a[2]>>, {a[1]})
    \/ /\ Begin(1) /\ Counted
       /\ \E e \in Named(d, k) :
             /\ Rebind(d, {e}, {Entry(e.key, a[1])})
             /\ Answer(decrRefCount(Given(<<new>>), e.val), <<a[1]>>, {})

delCommand(d, k) ==
    /\ Begin(0) /\ Counted
    /\ \E e \in Named(d, k) :
          /\ Rebind(d, {e}, {})
          /\ Answer(heap, <<>>, {e.key, e.val})

renameGenericUnheld(d, k, l, nx) ==  \* mutant: o is not incremented first
    LET a == Slot(1) IN
    \E e \in Named(d, k) :
       /\ Begin(1) /\ Counted
       /\ Named(d, l) = {}
       /\ Rebind(d, {e}, {Entry(a, e.val)})
       /\ Answer(incrRefCount(Given(<<l>>), a), <<>>, {e.key, e.val, a})

(* RENAME and RENAMENX.  RENAME of a key to itself answers an error and    *)
(* goes on: the entry, which has replaced its own value, is deleted.       *)
renameGenericCommand(d, k, l, nx) ==
    LET a == Slot(1) IN
    \E e \in Named(d, k) :
       \/ /\ Begin(1) /\ Counted
          /\ Named(d, l) = {}
          /\ Rebind(d, {e}, {Entry(a, e.val)})
          /\ Answer(Up(Given(<<l>>), {e.val, a}), <<>>, {e.key, e.val, a})
       \/ /\ Begin(0) /\ Counted
          /\ ~nx
          /\ \E f \in Named(d, l) :
                /\ Rebind(d, {e, f}, IF e = f THEN {} ELSE {Entry(f.key, e.val)})
                /\ Answer(decrRefCount(incrRefCount(heap, e.val), f.val), <<>>, {e.key, e.val})

moveCommand(d, k, to) ==
    /\ Begin(0) /\ Counted
    /\ d # to /\ Named(to, k) = {}
    /\ \E e \in Named(d, k) :
          /\ db' = [db EXCEPT ![d] = @ \ {e}, ![to] = @ \union {e}]
          /\ Answer(Up(heap, {e.key, e.val}), <<>>, {e.key, e.val})

keysCommand(d) ==
    /\ Begin(0) /\ SameKeys /\ Uncounted
    /\ \E os \in Walks({e.key : e \in db[d]}) : Answer(heap, os, {})

randomkeyCommand(d) ==
    /\ Begin(0) /\ SameKeys /\ Uncounted
    /\ \E e \in db[d] : Answer(heap, <<e.key>>, {})

(* FLUSHDB and FLUSHALL *)
Emptied(D) ==
    LET gone == UNION {db[d] : d \in D} IN
    /\ Begin(0) /\ Uncounted
    /\ db' = [d \in Db |-> IF d \in D THEN {} ELSE db[d]]
    /\ Answer(heap, <<>>, {e.key : e \in gone} \union {e.val : e \in gone})

flushdbCommand(d) == Emptied({d})
flushallCommand == Emptied(Db)

----------------------------------------------------------------------------
(* Lists *)

lindexToPositive(i, n) == IF i >= 0 THEN i ELSE IF i + n < 0 THEN 0 ELSE i + n

(* Position of listIndex's node, if there is one. *)
listIndex(es, i) == {p \in DOMAIN es : p = IF i < 0 THEN Len(es) + i + 1 ELSE i + 1}

(* What is from start to end of a list; nothing if that is no range. *)
Between(es, i, j) ==
    LET start == lindexToPositive(i, Len(es))
        end   == lindexToPositive(j, Len(es))
    IN  SubSeq(es, start + 1, IF end >= Len(es) THEN Len(es) ELSE end + 1)

(* RPUSH *)
pushTail(d, k, v) ==
    LET a == Slots(3)
        new == [Given(<<k, v>>) EXCEPT ![a[3]] = List(<<a[2]>>)]
    IN
    \/ /\ Begin(3) /\ Counted
       /\ Named(d, k) = {}
       /\ Rebind(d, {}, {Entry(a[1], a[3])})
       /\ Answer(Up(new, {a[1], a[2]}), <<>>, {a[1], a[2]})
    \/ /\ Begin(1) /\ SameKeys /\ Counted
       /\ \E e \in Typed(d, k, "list") :
             LET h == SetElems(Given(<<v>>), e.val, Append(heap[e.val].elems, a[1])) IN
             Answer(incrRefCount(h, a[1]), <<>>, {a[1]})

(* LPUSH: addToList takes the list that listAddNodeHead returns for a      *)
(* failure and aborts.                                                     *)
pushHead(d, k) ==
    /\ Begin(0)
    /\ \A e \in Named(d, k) : heap[e.val].type = "list"
    /\ Ends("aborted")

lindexCommand(d, k, i) ==
    /\ Begin(0) /\ SameKeys /\ Uncounted
    /\ \E e \in Typed(d, k, "list") :
       \E p \in listIndex(heap[e.val].elems, i) : Answer(heap, <<heap[e.val].elems[p]>>, {})

(* The index is read from the object of the argument i instead of its      *)
(* string.  The first byte of an object is that of the type REDIS_STRING,  *)
(* 0, so atoi sees an empty string, and the index is 0 for every i.        *)
lsetCommand(d, k, i, v) ==
    LET a == Slots(1)
        h == Given(<<v>>)
    IN
    /\ Begin(1) /\ SameKeys /\ Counted
    /\ \E e \in Typed(d, k, "list") :
       \E p \in listIndex(heap[e.val].elems, 0) :
          LET es == heap[e.val].elems IN
          Answer(incrRefCount(SetElems(decrRefCount(h, es[p]), e.val, ReplaceAt(es, p, a[1])), a[1]),
                 <<>>, {a[1]})

popGenericFreed(d, k, head) ==  \* mutant: the node is deleted before the reply
    /\ Begin(0) /\ SameKeys /\ Counted
    /\ \E e \in Typed(d, k, "list") :
       LET es == heap[e.val].elems IN
       \E p \in listIndex(es, IF head THEN 0 ELSE -1) :
          Answer(decrRefCount(SetElems(heap, e.val, RemoveAt(es, p)), es[p]), <<es[p]>>, {})

(* LPOP and RPOP: the element is in the reply before listDelNode drops the *)
(* list's reference to it.                                                 *)
popGenericCommand(d, k, head) ==
    /\ Begin(0) /\ SameKeys /\ Counted
    /\ \E e \in Typed(d, k, "list") :
       LET es == heap[e.val].elems IN
       \E p \in listIndex(es, IF head THEN 0 ELSE -1) :
          Answer(SetElems(heap, e.val, RemoveAt(es, p)), <<es[p]>>, {es[p]})

lrangeCommand(d, k, i, j) ==
    /\ Begin(0) /\ SameKeys /\ Uncounted
    /\ \E e \in Typed(d, k, "list") : Answer(heap, Between(heap[e.val].elems, i, j), {})

ltrimCommand(d, k, i, j) ==
    /\ Begin(0) /\ SameKeys /\ Counted
    /\ \E e \in Typed(d, k, "list") :
       LET es   == heap[e.val].elems
           kept == Between(es, i, j)
       IN  Answer(SetElems(heap, e.val, kept), <<>>, ToSet(es) \ ToSet(kept))

----------------------------------------------------------------------------
(* Sets *)

Member(S, m) == {o \in S : heap[o].str = m}

saddCommand(d, k, m) ==
    LET a == Slots(3)
        new == [Given(<<k, m>>) EXCEPT ![a[3]] = Set({a[2]})]
    IN
    \/ /\ Begin(3) /\ Counted
       /\ Named(d, k) = {}
       /\ Rebind(d, {}, {Entry(a[1], a[3])})
       /\ Answer(Up(new, {a[1], a[2]}), <<>>, {a[1], a[2]})
    \/ /\ Begin(1) /\ SameKeys /\ Counted
       /\ \E e \in Typed(d, k, "set") :
             LET h == SetMembers(Given(<<m>>), e.val, heap[e.val].members \union {a[1]}) IN
             /\ Member(heap[e.val].members, m) = {}
             /\ Answer(incrRefCount(h, a[1]), <<>>, {a[1]})

sremUncounted(d, k, m) ==  \* mutant: without server.dirty++
    /\ Begin(0) /\ SameKeys /\ Uncounted
    /\ \E e \in Typed(d, k, "set") :
       \E o \in Member(heap[e.val].members, m) :
          Answer(SetMembers(heap, e.val, heap[e.val].members \ {o}), <<>>, {o})

sremCommand(d, k, m) ==
    /\ Begin(0) /\ SameKeys /\ Counted
    /\ \E e \in Typed(d, k, "set") :
       \E o \in Member(heap[e.val].members, m) :
          Answer(SetMembers(heap, e.val, heap[e.val].members \ {o}), <<>>, {o})

(* The sets under the keys ks, and the members of s that all of them have. *)
SetsOf(d, ks) == UNION {{e.val : e \in Typed(d, k, "set")} : k \in ks}
AllSets(d, ks) == \A k \in ks : Typed(d, k, "set") # {}
Smallest(S) == {s \in S : \A t \in S : Cardinality(heap[s].members) <= Cardinality(heap[t].members)}
Common(s, S) == {o \in heap[s].members : \A t \in S : Member(heap[t].members, heap[o].str) # {}}

(* SINTER and SMEMBERS *)
sinterCommand(d, ks) ==
    LET S == SetsOf(d, ks) IN
    /\ Begin(0) /\ SameKeys /\ Uncounted
    /\ AllSets(d, ks)
    /\ \E s \in Smallest(S) :
       \E os \in Walks(Common(s, S)) : Answer(heap, os, {})

(* The old value of the destination is deleted before the sets are read.   *)
(* A source that is the destination is freed then: reading it may end the  *)
(* server, and no member is found in it.                                   *)
sinterstoreCommand(d, to, ks) ==
    LET a   == Slots(2)
        S   == SetsOf(d, ks)
        old == {e.key : e \in Named(d, to)} \union {e.val : e \in Named(d, to)}
    IN
    /\ AllSets(d, ks)
    /\ \E s \in Smallest(S) :
       \/ /\ Begin(2) /\ Uncounted
          /\ to \in ks => s \notin old
          /\ Rebind(d, Named(d, to), {Entry(a[1], a[2])})
          /\ \E M \in SUBSET (IF to \in ks THEN {} ELSE Common(s, S)) :
                Answer(Up(decrAll([Given(<<to>>) EXCEPT ![a[2]] = Set(M)], old), M \union {a[1]}),
                       <<>>, {a[1]})
       \/ /\ Begin(0) /\ to \in ks
          /\ s \in old \/ heap[s].members # {}
          /\ Ends("wild")

(* SORT with any order and LIMIT, and GET of patterns that find strings;   *)
(* sortval is held meanwhile.  assert(j == vectorlen) fails when the walk  *)
(* of a set misses members.                                                *)
sortCommand(d, k) ==
    \E e \in Named(d, k) :
       LET vector  == ToSet(heap[e.val].elems) \union heap[e.val].members
           strings == {f.val : f \in {g \in db[d] : heap[g.val].type = "string"}}
       IN
       /\ Begin(0) /\ heap[e.val].type # "string"
       /\ \/ /\ \E os \in Walks(vector) \union BoundedSeq(strings, MaxAnswer) :
                   Answer(incrRefCount(heap, e.val), os, {e.val})
             /\ SameKeys /\ Uncounted
          \/ /\ heap[e.val].members # {}
             /\ Ends("aborted")

----------------------------------------------------------------------------
(* EXISTS searches the client as if it were a dict, and DBSIZE and LASTSAVE *)
(* add a bare string to the reply, whose count addReply increments beyond   *)
(* its end.                                                                 *)
strayCommand == Begin(0) /\ Ends("wild")

(* The network takes the first reply. *)
sendReplyToClient ==
    /\ fate = "up" /\ reply # <<>>
    /\ reply' = Tail(reply)
    /\ heap' = decrRefCount(heap, Head(reply))
    /\ UNCHANGED <<db, dirty, fate>>

Init ==
    /\ heap = NoObjects
    /\ db = Nothing
    /\ reply = <<>>
    /\ dirty = 0
    /\ fate = "up"

(* c->dict of the client that sends the command is any database. *)
Next ==
    \/ \E m \in Str : echoCommand(m)
    \/ \E d \in Db, k, v \in Str, nx \in BOOLEAN : setGenericCommand(d, k, v, nx)
    \/ \E d \in Db, k \in Str : getCommand(d, k)
    \/ \E d \in Db, k \in Str : incrDecrCommand(d, k)
    \/ \E d \in Db, k \in Str : delCommand(d, k)
    \/ \E d \in Db, k, l \in Str, nx \in BOOLEAN : renameGenericCommand(d, k, l, nx)
    \/ \E d, to \in Db, k \in Str : moveCommand(d, k, to)
    \/ \E d \in Db : keysCommand(d)
    \/ \E d \in Db : randomkeyCommand(d)
    \/ \E d \in Db : flushdbCommand(d)
    \/ flushallCommand
    \/ \E d \in Db, k, v \in Str : pushTail(d, k, v)
    \/ \E d \in Db, k \in Str : pushHead(d, k)
    \/ \E d \in Db, k \in Str, i \in Index : lindexCommand(d, k, i)
    \/ \E d \in Db, k, v \in Str, i \in Index : lsetCommand(d, k, i, v)
    \/ \E d \in Db, k \in Str, head \in BOOLEAN : popGenericCommand(d, k, head)
    \/ \E d \in Db, k \in Str, i, j \in Index : lrangeCommand(d, k, i, j)
    \/ \E d \in Db, k \in Str, i, j \in Index : ltrimCommand(d, k, i, j)
    \/ \E d \in Db, k, m \in Str : saddCommand(d, k, m)
    \/ \E d \in Db, k, m \in Str : sremCommand(d, k, m)
    \/ \E d \in Db, ks \in (SUBSET Str) \ {{}} : sinterCommand(d, ks)
    \/ \E d \in Db, to \in Str, ks \in (SUBSET Str) \ {{}} : sinterstoreCommand(d, to, ks)
    \/ \E d \in Db, k \in Str : sortCommand(d, k)
    \/ strayCommand
    \/ sendReplyToClient

Spec == Init /\ [][Next]_vars

----------------------------------------------------------------------------
(* Properties *)

Object ==
    [type : {"free", "string", "list", "set"}, ref : Nat, str : Str \union {Nil},
     elems : Seq(Oid), members : SUBSET Oid]

IsString(o) == heap[o].type = "string" /\ heap[o].str \in Str

(* Every pointer leads to an object of the type its user casts it to: keys,*)
(* elements, members and replies to strings, values to live objects.       *)
TypeOK ==
    /\ heap \in [Oid -> Object]
    /\ db \in [Db -> SUBSET [key : Oid, val : Oid]]
    /\ reply \in Seq(Oid)
    /\ dirty \in 0..1
    /\ fate \in {"up", "aborted", "wild"}
    /\ \A d \in Db : \A e \in db[d] : IsString(e.key) /\ heap[e.val].type # "free"
    /\ \A o \in Oid : \A x \in ToSet(heap[o].elems) \union heap[o].members : IsString(x)
    /\ \A o \in ToSet(reply) : IsString(o)

(* How often o is held: as key, as value, as element, as member and by     *)
(* replies.                                                                *)
Holders(o) ==
    LET entries == UNION {{<<d, e>> : e \in db[d]} : d \in Db}
        nodes   == UNION {{<<l, p>> : p \in DOMAIN heap[l].elems} : l \in Oid}
    IN  Cardinality({x \in entries : x[2].key = o})
          + Cardinality({x \in entries : x[2].val = o})
          + Cardinality({x \in nodes : heap[x[1]].elems[x[2]] = o})
          + Cardinality({s \in Oid : o \in heap[s].members})
          + Cardinality({i \in DOMAIN reply : reply[i] = o})

(* The count of an object is the number of its holders (decrRefCount frees *)
(* at 0): nothing that is held is freed, and nothing is leaked, whatever   *)
(* commands moved, shared, replaced and answered the object.               *)
RefsExact == \A o \in Oid : heap[o].ref = Holders(o) /\ (heap[o].ref = 0 <=> heap[o] = Dead)

Value(o) ==
    CASE heap[o].type = "list" -> <<"list", [i \in DOMAIN heap[o].elems |-> heap[heap[o].elems[i]].str]>>
      [] heap[o].type = "set"  -> <<"set", {heap[m].str : m \in heap[o].members}>>
      [] OTHER                 -> <<heap[o].type, heap[o].str>>

Content == [d \in Db |-> [k \in {heap[e.key].str : e \in db[d]} |->
                             Value((CHOOSE e \in Named(d, k) : TRUE).val)]]

Store == INSTANCE KeyStore WITH
    content <- Content,
    pending <- [i \in DOMAIN reply |-> heap[reply[i]].str],
    serving <- fate = "up"

(* The sharing of objects cannot be seen: a command changes what it names  *)
(* and nothing else, in the other databases, in sets that share members    *)
(* (SINTERSTORE, 2163) and in replies that are not sent yet.               *)
ImplementsKeyStore == Store!Spec

(* Whatever changes the data counts in server.dirty, by which the server   *)
(* decides to save, except SINTERSTORE and the two that save at once.      *)
ChangesAreCounted ==
    [][dirty' = dirty /\ fate' = "up" =>
          \/ Content' = Content
          \/ \E d \in Db : flushdbCommand(d)
          \/ flushallCommand
          \/ \E d \in Db, to \in Str, ks \in SUBSET Str : sinterstoreCommand(d, to, ks)]_vars
=============================================================================
