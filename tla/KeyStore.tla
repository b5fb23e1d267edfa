------------------------------ MODULE KeyStore ------------------------------
(***************************************************************************)
(* What the commands of redis.c promise about the databases, said without  *)
(* objects: each database is a function from keys to values, and strings   *)
(* on their way to the client do not change.                               *)
(***************************************************************************)
EXTENDS Integers, Sequences, FiniteSets, SequencesExt

CONSTANTS
    Str, Db, Index, Bumped, Nil,
    MaxAnswer  \* bound: strings in one answer of KEYS, SINTER, SORT

VARIABLES
    content,  \* the databases
    pending,  \* the strings the clients have yet to read
    serving   \* the server has not ended itself

vars == <<content, pending, serving>>

String(s) == <<"string", s>>
List(es)  == <<"list", es>>
Set(ms)   == <<"set", ms>>

Keys(d) == DOMAIN content[d]
Is(d, k, type) == k \in Keys(d) /\ content[d][k][1] = type
Inside(d, k) == content[d][k][2]

WithKey(f, k, v) == [x \in DOMAIN f \union {k} |-> IF x = k THEN v ELSE f[x]]
Bind(d, k, v) == content' = [content EXCEPT ![d] = WithKey(@, k, v)]
Without(f, k) == [x \in DOMAIN f \ {k} |-> f[x]]

Say(strs) == pending' = pending \o strs

Positive(i, n) == IF i < 0 THEN (IF i + n < 0 THEN 0 ELSE i + n) ELSE i
Part(es, i, j) == SubSeq(es, Positive(i, Len(es)) + 1,
                         IF Positive(j, Len(es)) < Len(es) THEN Positive(j, Len(es)) + 1
                                                           ELSE Len(es))

----------------------------------------------------------------------------
Nothing == [d \in Db |-> <<>>]

Init == /\ content = Nothing
        /\ pending = <<>>
        /\ serving = TRUE

Put(d, k, s) == Bind(d, k, String(s))

Increment(d, k) ==
    LET s == Bumped[IF Is(d, k, "string") THEN Inside(d, k) ELSE Nil]
    IN  Say(<<s>>) /\ Bind(d, k, String(s))

Delete(d, k) ==
    /\ k \in Keys(d)
    /\ content' = [content EXCEPT ![d] = Without(@, k)]

Rename(d, k, l) ==
    /\ k \in Keys(d) /\ l # k
    /\ content' = [content EXCEPT ![d] = WithKey(Without(@, k), l, @[k])]

Move(d, k, to) ==
    /\ k \in Keys(d) \ Keys(to)
    /\ content' = [content EXCEPT ![d] = Without(@, k),
                                  ![to] = WithKey(@, k, content[d][k])]

Empty(D) ==
    /\ content' = [d \in Db |-> IF d \in D THEN <<>> ELSE content[d]]

Push(d, k, s) ==
    /\ \/ k \notin Keys(d) /\ Bind(d, k, List(<<s>>))
       \/ Is(d, k, "list") /\ Bind(d, k, List(Append(Inside(d, k), s)))

SetFirst(d, k, s) ==
    /\ Is(d, k, "list") /\ Inside(d, k) # <<>>
    /\ Bind(d, k, List(ReplaceAt(Inside(d, k), 1, s)))

Pop(d, k) ==
    /\ Is(d, k, "list") /\ Inside(d, k) # <<>>
    /\ \/ Say(<<Head(Inside(d, k))>>) /\ Bind(d, k, List(Tail(Inside(d, k))))
       \/ Say(<<Last(Inside(d, k))>>) /\ Bind(d, k, List(Front(Inside(d, k))))

Trim(d, k, i, j) ==
    /\ Is(d, k, "list")
    /\ Bind(d, k, List(Part(Inside(d, k), i, j)))

Add(d, k, s) ==
    /\ \/ k \notin Keys(d) /\ Bind(d, k, Set({s}))
       \/ Is(d, k, "set") /\ Bind(d, k, Set(Inside(d, k) \union {s}))

Discard(d, k, s) ==
    /\ Is(d, k, "set")
    /\ Bind(d, k, Set(Inside(d, k) \ {s}))

(* A walk may miss members, so the result is a part of the intersection.   *)
Store(d, to, ks) ==
    /\ \A k \in ks : Is(d, k, "set")
    /\ \E ms \in SUBSET {s \in Str : \A k \in ks : s \in Inside(d, k)} :
          Bind(d, to, Set(ms))

----------------------------------------------------------------------------
(* Commands that only read, by what they may answer. *)

Answers(S) == BoundedSeq(S, MaxAnswer)
InOrder(S) == {s \in Answers(S) : IsInjective(s)}

Echo == \E s \in Str : Say(<<s>>)
Get(d, k) == Is(d, k, "string") /\ Say(<<Inside(d, k)>>)
KeyNames(d) == \E s \in InOrder(Keys(d)) : Say(s)
AnyKey(d) == \E k \in Keys(d) : Say(<<k>>)
Element(d, k) == Is(d, k, "list") /\ \E i \in DOMAIN Inside(d, k) : Say(<<Inside(d, k)[i]>>)
Slice(d, k, i, j) == Is(d, k, "list") /\ Say(Part(Inside(d, k), i, j))
Inter(d, ks) ==
    /\ \A k \in ks : Is(d, k, "set")
    /\ \E s \in InOrder({x \in Str : \A k \in ks : x \in Inside(d, k)}) : Say(s)

Elements(d, k) == IF Is(d, k, "list") THEN ToSet(Inside(d, k)) ELSE Inside(d, k)
Strings(d) == {Inside(d, k) : k \in {x \in Keys(d) : Is(d, x, "string")}}

(* The elements in some order, or strings of the same database. *)
Sorted(d, k) ==
    /\ Is(d, k, "list") \/ Is(d, k, "set")
    /\ \E s \in Answers(Elements(d, k)) \union Answers(Strings(d)) : Say(s)

----------------------------------------------------------------------------
Deliver ==
    /\ pending # <<>> /\ pending' = Tail(pending)
    /\ UNCHANGED <<content, serving>>

(* The server ends itself: what is not in a dump is gone. *)
End ==
    /\ serving' = FALSE
    /\ content' = Nothing /\ pending' = <<>>

Read ==
    /\ UNCHANGED content
    /\ \/ Echo
       \/ \E d \in Db : KeyNames(d) \/ AnyKey(d)
       \/ \E d \in Db, k \in Str : Get(d, k) \/ Element(d, k) \/ Sorted(d, k)
       \/ \E d \in Db, k \in Str, i, j \in Index : Slice(d, k, i, j)
       \/ \E d \in Db, ks \in (SUBSET Str) \ {{}} : Inter(d, ks)

Change ==
    /\ UNCHANGED pending
    /\ \/ \E D \in SUBSET Db : Empty(D)
       \/ \E d, to \in Db, k \in Str : Delete(d, k) \/ Move(d, k, to)
       \/ \E d \in Db, k \in Str, i, j \in Index : Trim(d, k, i, j)
       \/ \E d \in Db, k, s \in Str :
             \/ Rename(d, k, s) \/ Put(d, k, s)
             \/ Push(d, k, s) \/ SetFirst(d, k, s)
             \/ Add(d, k, s) \/ Discard(d, k, s)
       \/ \E d \in Db, to \in Str, ks \in (SUBSET Str) \ {{}} : Store(d, to, ks)

ReadAndChange == \E d \in Db, k \in Str : Increment(d, k) \/ Pop(d, k)

Next ==
    \/ End
    \/ Deliver
    \/ serving /\ UNCHANGED serving /\ (Read \/ Change \/ ReadAndChange)

Spec == Init /\ [][Next]_vars
=============================================================================
