--------------------------- MODULE ClientsProofs ---------------------------
(***************************************************************************)
(* Proofs about Clients: the events, the lists and the master stay linked  *)
(* to the clients that exist, for any number of clients and descriptors,   *)
(* and the handlers keep the contract of the event loop.                   *)
(*                                                                         *)
(* The functions of the model map server states to server states, and so   *)
(* do the lemmas: each says what one function keeps of the invariant.      *)
(***************************************************************************)
EXTENDS Clients, NaturalMinimum

Event_ == [fd : Fds, mask : {{"r"}, {"w"}}, data : Client \union {Server}]

(* Every server state the functions are applied to. *)
States == [events : Seq(Event_), open : SUBSET Fds,
           client : [Client -> {Nil} \union redisClient],
           clients : Seq(Client), slaves : Seq(Client),
           master : Client \union {Nil}, replstate : {"none", "connect", "connected"},
           fate : {"up", "hangs", "stuck", "died"}]

LiveIn(s) == {c \in Client : s.client[c] # Nil}
Elements(l) == {l[i] : i \in DOMAIN l}

(* No two events have both their descriptor and their mask in common.      *)
Apart(l) == \A i, j \in DOMAIN l : l[i].fd = l[j].fd /\ l[i].mask = l[j].mask => i = j

(* The events E are those of the live clients and the listening socket.    *)
Watching(s, E) ==
    /\ \A e \in E : e.fd \in s.open
    /\ \A e \in E : \/ e.data = Server /\ e.fd = Listening
                    \/ e.data \in LiveIn(s) /\ s.client[e.data].fd = e.fd
    /\ \A c \in LiveIn(s) : \E e \in E : e.data = c /\ e.mask = {"r"}
    /\ \A c \in LiveIn(s) : s.client[c].reply > 0 <=> \E e \in E : e.data = c /\ e.mask = {"w"}

Descriptors(s) ==
    /\ Listening \in s.open
    /\ \A c \in LiveIn(s) : s.client[c].fd \in s.open /\ s.client[c].fd # Listening
    /\ \A b, c \in LiveIn(s) : s.client[b].fd = s.client[c].fd => b = c

(* tw: a client asked for SYNC twice. *)
Listed(s, tw) ==
    /\ IsInjective(s.clients) /\ Elements(s.clients) = LiveIn(s)
    /\ \A c \in LiveIn(s) : IsSlave(s, c) => c \in Elements(s.slaves)
    /\ ~tw => /\ IsInjective(s.slaves)
              /\ \A c \in Elements(s.slaves) : c \in LiveIn(s) /\ IsSlave(s, c)

Mastered(s) ==
    /\ s.replstate = "connected" <=> s.master # Nil
    /\ \A c \in LiveIn(s) : IsMaster(s, c) <=> c = s.master
    /\ s.master # Nil => s.master \in LiveIn(s)

Linked(s, tw) == /\ Apart(s.events) /\ Watching(s, Elements(s.events))
                 /\ Descriptors(s) /\ Listed(s, tw) /\ Mastered(s)

Fine(s, tw) == s \in States /\ (s.fate = "up" => Linked(s, tw))

CInv == Fine(State, twice) /\ ready \subseteq open \X Loop!Kinds

----------------------------------------------------------------------------
(* Lists *)

LEMMA WithoutAt ==
    ASSUME NEW S, NEW l \in Seq(S), NEW i \in 1..Len(l)
    PROVE  LET r == Loop!Without(l, i) IN
           /\ r \in Seq(S) /\ Len(r) = Len(l) - 1
           /\ \A j \in 1..Len(r) : r[j] = IF j < i THEN l[j] ELSE l[j + 1]
<1> DEFINE a == SubSeq(l, 1, i - 1)
           b == SubSeq(l, i + 1, Len(l))
<1>1. a \in Seq(S) /\ Len(a) = i - 1 /\ \A j \in 1..(i - 1) : a[j] = l[j]
  OBVIOUS
<1>2. b \in Seq(S) /\ Len(b) = Len(l) - i /\ \A j \in 1..(Len(l) - i) : b[j] = l[i + j]
  OBVIOUS
<1> HIDE DEF a, b
<1>3. a \o b \in Seq(S) /\ Len(a \o b) = Len(l) - 1
  <2>1. a \o b \in Seq(S) /\ Len(a \o b) = Len(a) + Len(b)
    <3>1. a \in Seq(S) /\ b \in Seq(S)
      BY <1>1, <1>2
    <3> QED BY <3>1
  <2>2. Len(l) \in Nat /\ i \in Int
    OBVIOUS
  <2> QED BY <1>1, <1>2, <2>1, <2>2
<1>4. ASSUME NEW j \in 1..(Len(l) - 1)
      PROVE  (a \o b)[j] = IF j < i THEN l[j] ELSE l[j + 1]
  BY <1>1, <1>2
<1> QED BY <1>3, <1>4 DEF Loop!Without, a, b

LEMMA WithoutElements ==
    ASSUME NEW S, NEW l \in Seq(S), NEW i \in 1..Len(l)
    PROVE  LET r == Loop!Without(l, i) IN
           /\ Elements(r) = {l[j] : j \in DOMAIN l \ {i}}
           /\ \A j, k \in DOMAIN r : \E m, n \in DOMAIN l \ {i} :
                 r[j] = l[m] /\ r[k] = l[n] /\ (m = n => j = k)
<1> DEFINE r == Loop!Without(l, i)
           At(j) == IF j < i THEN j ELSE j + 1
<1>1. /\ r \in Seq(S) /\ Len(r) = Len(l) - 1
      /\ \A j \in 1..Len(r) : r[j] = l[At(j)]
  BY WithoutAt
<1> HIDE DEF r
<1>2. \A j \in 1..Len(r) : At(j) \in DOMAIN l \ {i}
  BY <1>1
<1>3. \A j, k \in 1..Len(r) : At(j) = At(k) => j = k
  OBVIOUS
<1>4. DOMAIN r = 1..Len(r)
  BY <1>1
<1>5. ASSUME NEW m \in DOMAIN l \ {i} PROVE \E j \in 1..Len(r) : At(j) = m
  <2>1. CASE m < i
    BY <1>1, <2>1
  <2>2. CASE m > i
    <3>1. m - 1 \in 1..Len(r) /\ At(m - 1) = m
      BY <1>1, <2>2
    <3> QED BY <3>1
  <2> QED BY <2>1, <2>2
<1>6. Elements(r) = {l[j] : j \in DOMAIN l \ {i}}
  <2> HIDE DEF At
  <2>1. ASSUME NEW x \in Elements(r) PROVE x \in {l[j] : j \in DOMAIN l \ {i}}
    BY <1>1, <1>2, <1>4 DEF Elements
  <2>2. ASSUME NEW m \in DOMAIN l \ {i} PROVE l[m] \in Elements(r)
    BY <1>1, <1>4, <1>5 DEF Elements
  <2> QED BY <2>1, <2>2
<1>7. \A j, k \in DOMAIN r : \E m, n \in DOMAIN l \ {i} :
         r[j] = l[m] /\ r[k] = l[n] /\ (m = n => j = k)
  <2> HIDE DEF At
  <2> QED BY <1>1, <1>2, <1>3, <1>4
<1> QED BY <1>6, <1>7 DEF r

(* Deleting the head of a list of different clients. *)
LEMMA DeleteHead ==
    ASSUME NEW S, NEW l \in Seq(S), l # <<>>
    PROVE  LET r == listDelNode(l, 1) IN
           /\ r \in Seq(S) /\ Len(r) = Len(l) - 1
           /\ Elements(l) \ {Head(l)} \subseteq Elements(r) /\ Elements(r) \subseteq Elements(l)
           /\ IsInjective(l) => IsInjective(r) /\ Elements(r) = Elements(l) \ {Head(l)}
<1> DEFINE r == Loop!Without(l, 1)
<1>1. 1 \in 1..Len(l) /\ Head(l) = l[1]
  OBVIOUS
<1>2. /\ Elements(r) = {l[j] : j \in DOMAIN l \ {1}}
      /\ \A j, k \in DOMAIN r : \E m, n \in DOMAIN l \ {1} :
            r[j] = l[m] /\ r[k] = l[n] /\ (m = n => j = k)
  BY <1>1, WithoutElements
<1>3. r \in Seq(S) /\ Len(r) = Len(l) - 1
  BY <1>1, WithoutAt
<1> HIDE DEF r
<1>4. Elements(l) \ {Head(l)} \subseteq Elements(r) /\ Elements(r) \subseteq Elements(l)
  BY <1>1, <1>2 DEF Elements
<1>5. ASSUME IsInjective(l)
      PROVE  IsInjective(r) /\ Elements(r) = Elements(l) \ {Head(l)}
  <2>1. \A m, n \in DOMAIN l : l[m] = l[n] => m = n
    BY <1>5 DEF IsInjective
  <2>2. Head(l) \notin Elements(r)
    BY <1>1, <1>2, <2>1
  <2>3. \A j, k \in DOMAIN r : r[j] = r[k] => j = k
    BY <1>2, <2>1
  <2> QED BY <1>4, <2>2, <2>3 DEF IsInjective
<1> QED BY <1>3, <1>4, <1>5 DEF r, listDelNode

LEMMA AddTail ==
    ASSUME NEW S, NEW l \in Seq(S), NEW c \in S
    PROVE  LET r == listAddNodeTail(l, c) IN
           /\ r \in Seq(S) /\ Elements(r) = Elements(l) \union {c}
           /\ IsInjective(l) /\ c \notin Elements(l) => IsInjective(r)
<1> DEFINE r == Append(l, c)
<1>1. /\ r \in Seq(S) /\ Len(r) = Len(l) + 1 /\ r[Len(l) + 1] = c
      /\ \A i \in 1..Len(l) : r[i] = l[i]
  OBVIOUS
<1> HIDE DEF r
<1>2. DOMAIN r = 1..Len(l) \union {Len(l) + 1} /\ DOMAIN l = 1..Len(l)
  BY <1>1
<1>3. Elements(r) = Elements(l) \union {c}
  BY <1>1, <1>2 DEF Elements
<1>4. IsInjective(l) /\ c \notin Elements(l) => IsInjective(r)
  BY <1>1, <1>2 DEF Elements, IsInjective
<1> QED BY <1>1, <1>3, <1>4 DEF r, listAddNodeTail

(* The lists of events: deleting one takes it from the set of events. *)
Named(e, fd, mask) == e.fd = fd /\ e.mask = mask

LEMMA EventDeleted ==
    ASSUME NEW l \in Seq(Event_), Apart(l), NEW fd, NEW mask
    PROVE  LET r == Loop!aeDeleteFileEvent(l, fd, mask) IN
           /\ r \in Seq(Event_) /\ Apart(r)
           /\ Elements(r) = {e \in Elements(l) : ~Named(e, fd, mask)}
<1> DEFINE same == {i \in DOMAIN l : l[i].fd = fd /\ l[i].mask = mask}
           r == Loop!aeDeleteFileEvent(l, fd, mask)
<1>1. CASE same = {}
  <2>1. r = l
    BY <1>1 DEF Loop!aeDeleteFileEvent
  <2>2. \A e \in Elements(l) : ~Named(e, fd, mask)
    BY <1>1 DEF Elements, Named
  <2> QED BY <2>1, <2>2
<1>2. CASE same # {}
  <2>1. PICK i \in same : \A j \in same : i <= j
    <3>1. same \in SUBSET Nat
      OBVIOUS
    <3> HIDE DEF same
    <3> QED BY <1>2, <3>1, NatMin
  <2>2. Loop!Least(same) \in same
    <3> HIDE DEF same
    <3> QED BY <2>1 DEF Loop!Least
  <2>3. Loop!Least(same) = i
    BY <2>1, <2>2 DEF Apart
  <2>4. r = Loop!Without(l, i)
    BY <1>2, <2>3 DEF Loop!aeDeleteFileEvent
  <2>5. i \in 1..Len(l) /\ Named(l[i], fd, mask)
    BY <2>1 DEF Named
  <2>6. /\ Elements(r) = {l[j] : j \in DOMAIN l \ {i}}
        /\ \A j, k \in DOMAIN r : \E m, n \in DOMAIN l \ {i} :
              r[j] = l[m] /\ r[k] = l[n] /\ (m = n => j = k)
    BY <2>4, <2>5, WithoutElements
  <2>7. r \in Seq(Event_)
    BY <2>4, <2>5, WithoutAt
  <2> HIDE DEF r, same
  <2>8. Apart(r)
    BY <2>6 DEF Apart
  <2>9. ASSUME NEW j \in DOMAIN l, j # i PROVE ~Named(l[j], fd, mask)
    BY <2>5, <2>9 DEF Apart, Named
  <2>10. Elements(r) = {e \in Elements(l) : ~Named(e, fd, mask)}
    BY <2>5, <2>6, <2>9 DEF Elements
  <2> QED BY <2>7, <2>8, <2>10 DEF r
<1> QED BY <1>1, <1>2

LEMMA EventCreated ==
    ASSUME NEW l \in Seq(Event_), Apart(l), NEW fd \in Fds, NEW mask \in {{"r"}, {"w"}},
           NEW c \in Client \union {Server}, \A e \in Elements(l) : ~Named(e, fd, mask)
    PROVE  LET r == Loop!aeCreateFileEvent(l, fd, mask, c) IN
           /\ r \in Seq(Event_) /\ Apart(r)
           /\ Elements(r) = Elements(l) \union {[fd |-> fd, mask |-> mask, data |-> c]}
<1> DEFINE e == [fd |-> fd, mask |-> mask, data |-> c]
           r == <<e>> \o l
<1>1. e \in Event_ /\ Named(e, fd, mask)
  BY DEF Event_, Named
<1>2. /\ r \in Seq(Event_) /\ Len(r) = Len(l) + 1 /\ r[1] = e
      /\ \A i \in 2..(Len(l) + 1) : r[i] = l[i - 1]
  <2> HIDE DEF e
  <2> QED BY <1>1
<1>3. \A i \in 1..Len(l) : l[i] \in Elements(l)
  BY DEF Elements
<1> HIDE DEF r, e
<1>4. DOMAIN r = {1} \union 2..(Len(l) + 1) /\ DOMAIN l = 1..Len(l)
  BY <1>2
<1>5. \A i \in 2..(Len(l) + 1) : i - 1 \in DOMAIN l /\ ~Named(r[i], fd, mask)
  BY <1>2, <1>3, <1>4
<1>6. ASSUME NEW i \in DOMAIN r, NEW j \in DOMAIN r, r[i].fd = r[j].fd, r[i].mask = r[j].mask
      PROVE  i = j
  <2>1. CASE i = 1
    BY <1>1, <1>2, <1>4, <1>5, <1>6, <2>1 DEF Named
  <2>2. CASE j = 1
    BY <1>1, <1>2, <1>4, <1>5, <1>6, <2>2 DEF Named
  <2>3. CASE i # 1 /\ j # 1
    <3>1. i \in 2..(Len(l) + 1) /\ j \in 2..(Len(l) + 1)
      BY <1>4, <2>3
    <3>2. i - 1 \in DOMAIN l /\ j - 1 \in DOMAIN l /\ r[i] = l[i - 1] /\ r[j] = l[j - 1]
      BY <1>2, <1>5, <3>1
    <3>3. i - 1 = j - 1
      BY <1>6, <3>2 DEF Apart
    <3> QED BY <3>1, <3>3
  <2> QED BY <2>1, <2>2, <2>3
<1>7. Elements(r) = Elements(l) \union {e}
  <2>1. ASSUME NEW i \in DOMAIN r PROVE r[i] \in Elements(l) \union {e}
    BY <1>2, <1>3, <1>4
  <2>2. ASSUME NEW i \in DOMAIN l PROVE l[i] \in Elements(r)
    <3>1. i + 1 \in DOMAIN r /\ i + 1 \in 2..(Len(l) + 1) /\ (i + 1) - 1 = i
      BY <1>4
    <3>2. r[i + 1] = l[i]
      BY <1>2, <3>1
    <3> QED BY <3>1, <3>2 DEF Elements
  <2>3. e \in Elements(r)
    BY <1>2, <1>4 DEF Elements
  <2> QED BY <2>1, <2>2, <2>3 DEF Elements
<1> QED BY <1>2, <1>6, <1>7 DEF Apart, r, e, Loop!aeCreateFileEvent

----------------------------------------------------------------------------
(* Freeing a client *)

LEMMA Unwatched ==
    ASSUME NEW l \in Seq(Event_), Apart(l), NEW fd
    PROVE  /\ Unwatch(l, fd) \in Seq(Event_) /\ Apart(Unwatch(l, fd))
           /\ Elements(Unwatch(l, fd)) = {e \in Elements(l) : e.fd # fd}
<1> DEFINE r == Loop!aeDeleteFileEvent(l, fd, {"r"})
           w == Loop!aeDeleteFileEvent(r, fd, {"w"})
<1>1. /\ r \in Seq(Event_) /\ Apart(r)
      /\ Elements(r) = {e \in Elements(l) : ~Named(e, fd, {"r"})}
  BY EventDeleted
<1> HIDE DEF r
<1>2. /\ w \in Seq(Event_) /\ Apart(w)
      /\ Elements(w) = {e \in Elements(r) : ~Named(e, fd, {"w"})}
  BY <1>1, EventDeleted
<1>3. \A e \in Elements(l) : e.mask \in {{"r"}, {"w"}}
  <2>1. \A i \in DOMAIN l : l[i] \in Event_
    OBVIOUS
  <2>2. \A e \in Event_ : e.mask \in {{"r"}, {"w"}}
    BY DEF Event_
  <2> QED BY <2>1, <2>2 DEF Elements
<1>4. Unwatch(l, fd) = w
  BY DEF Unwatch, r
<1> HIDE DEF w
<1>5. Elements(w) = {e \in Elements(l) : e.fd # fd}
  BY <1>1, <1>2, <1>3 DEF Named
<1> QED BY <1>2, <1>4, <1>5

LEMMA ClientType ==
    ASSUME NEW s \in States, NEW c \in LiveIn(s)
    PROVE  c \in Client /\ s.client[c] \in redisClient
BY DEF LiveIn, States

LEMMA FieldsChanged ==
    ASSUME NEW s \in States, NEW l \in Seq(Client), NEW m \in Seq(Client),
           NEW f \in [Client -> {Nil} \union redisClient],
           NEW c \in Client \union {Nil}, NEW r \in {"none", "connect", "connected"}
    PROVE  [s EXCEPT !.clients = l, !.client = f, !.slaves = m, !.master = c, !.replstate = r]
             \in States
BY DEF States

(* What freeClient returns, field by field. *)
LEMMA FreedFields ==
    ASSUME NEW s \in States, Apart(s.events), s.fate = "up", NEW c \in LiveIn(s)
    PROVE  LET t == freeClient(s, c) IN
           /\ t \in States
           /\ t.events = Unwatch(s.events, s.client[c].fd)
           /\ t.open = s.open \ {s.client[c].fd}
           /\ t.fate = "up" =>
                /\ s.clients # <<>> /\ Head(s.clients) = c
                /\ t.clients = listDelNode(s.clients, 1)
                /\ t.client = [s.client EXCEPT ![c] = Nil]
                /\ t.slaves = IF IsSlave(s, c) THEN listDelNode(s.slaves, 1) ELSE s.slaves
                /\ IsSlave(s, c) => s.slaves # <<>> /\ Head(s.slaves) = c
                /\ t.master = IF IsMaster(s, c) THEN Nil ELSE s.master
                /\ t.replstate = IF IsMaster(s, c) THEN "connect" ELSE s.replstate
<1> DEFINE fd == s.client[c].fd
           closed == [s EXCEPT !.events = Unwatch(@, fd), !.open = @ \ {fd}]
           a == Fate(listSearchKey(s.clients, c))
           b == IF IsSlave(s, c) THEN Fate(listSearchKey(s.slaves, c)) ELSE "up"
<1>1. Unwatch(s.events, fd) \in Seq(Event_)
  BY Unwatched DEF States
<1>2. closed \in States
  BY <1>1 DEF States
<1>3. /\ closed.events = Unwatch(s.events, fd) /\ closed.open = s.open \ {fd}
      /\ closed.client = s.client /\ closed.clients = s.clients /\ closed.slaves = s.slaves
      /\ closed.master = s.master /\ closed.replstate = s.replstate /\ closed.fate = s.fate
  BY DEF States
<1>4. /\ a \in {"up", "died", "hangs"} /\ b \in {"up", "died", "hangs"}
      /\ a = "up" => s.clients # <<>> /\ Head(s.clients) = c
      /\ b = "up" /\ IsSlave(s, c) => s.slaves # <<>> /\ Head(s.slaves) = c
  BY DEF Fate, listSearchKey
<1>5. c \in Client /\ s.clients \in Seq(Client) /\ s.slaves \in Seq(Client)
      /\ s.client \in [Client -> {Nil} \union redisClient]
  BY DEF LiveIn, States
<1>6. /\ s.clients # <<>> => listDelNode(s.clients, 1) \in Seq(Client)
      /\ s.slaves # <<>> => listDelNode(s.slaves, 1) \in Seq(Client)
  BY <1>5, DeleteHead
<1>7. freeClient(s, c) = IF a # "up" THEN [closed EXCEPT !.fate = a]
                         ELSE IF b # "up"
                         THEN [closed EXCEPT !.fate = b, !.clients = listDelNode(@, 1)]
                         ELSE Forget(closed, c)
  BY DEF freeClient
<1> HIDE DEF closed, a, b, fd
<1>8. CASE a # "up"
  <2>1. [closed EXCEPT !.fate = a] \in States
    BY <1>2, <1>4 DEF States
  <2>2. [closed EXCEPT !.fate = a].events = closed.events
        /\ [closed EXCEPT !.fate = a].open = closed.open
        /\ [closed EXCEPT !.fate = a].fate = a
    BY <1>2 DEF States
  <2> QED BY <1>3, <1>7, <1>8, <2>1, <2>2 DEF fd
<1>9. CASE a = "up" /\ b # "up"
  <2> DEFINE t == [closed EXCEPT !.fate = b, !.clients = listDelNode(@, 1)]
  <2>1. t \in States
    BY <1>2, <1>3, <1>4, <1>6, <1>9 DEF States
  <2>2. t.events = closed.events /\ t.open = closed.open /\ t.fate = b
    BY <1>2 DEF States
  <2> QED BY <1>3, <1>7, <1>9, <2>1, <2>2 DEF fd
<1>10. CASE a = "up" /\ b = "up"
  <2> DEFINE t == Forget(closed, c)
  <2>1. /\ IsSlave(closed, c) = IsSlave(s, c) /\ IsMaster(closed, c) = IsMaster(s, c)
    BY <1>3 DEF IsSlave, IsMaster
  <2>2. /\ t.events = closed.events /\ t.open = closed.open /\ t.fate = closed.fate
        /\ t.clients = listDelNode(closed.clients, 1)
        /\ t.client = [closed.client EXCEPT ![c] = Nil]
        /\ t.slaves = IF IsSlave(closed, c) THEN listDelNode(closed.slaves, 1) ELSE closed.slaves
        /\ t.master = IF IsMaster(closed, c) THEN Nil ELSE closed.master
        /\ t.replstate = IF IsMaster(closed, c) THEN "connect" ELSE closed.replstate
    BY <1>2 DEF Forget, States
  <2>3. t \in States
    <3>1. /\ t.events \in Seq(Event_) /\ t.open \in SUBSET Fds
          /\ t.client \in [Client -> {Nil} \union redisClient]
          /\ t.clients \in Seq(Client) /\ t.slaves \in Seq(Client)
          /\ t.master \in Client \union {Nil}
          /\ t.replstate \in {"none", "connect", "connected"}
          /\ t.fate \in {"up", "hangs", "stuck", "died"}
      BY <1>2, <1>3, <1>4, <1>5, <1>6, <1>10, <2>1, <2>2 DEF States
    <3>2. t = [closed EXCEPT !.clients = t.clients, !.client = t.client, !.slaves = t.slaves,
                             !.master = t.master, !.replstate = t.replstate]
      BY <2>2 DEF Forget
    <3> HIDE DEF t
    <3>3. [closed EXCEPT !.clients = t.clients, !.client = t.client, !.slaves = t.slaves,
                         !.master = t.master, !.replstate = t.replstate] \in States
      BY <1>2, <3>1, FieldsChanged, ZenonT(60)
    <3> QED BY <3>2, <3>3
  <2> HIDE DEF t
  <2>4. freeClient(s, c) = t
    BY <1>7, <1>10 DEF t
  <2> QED BY <1>3, <1>4, <1>10, <2>1, <2>2, <2>3, <2>4 DEF fd
<1> QED BY <1>4, <1>8, <1>9, <1>10

(* A freed client leaves no event, no descriptor and no node behind. *)
LEMMA FreeKeeps ==
    ASSUME NEW s \in States, NEW tw, Linked(s, tw), s.fate = "up", NEW c \in LiveIn(s)
    PROVE  Fine(freeClient(s, c), tw)
<1> DEFINE t == freeClient(s, c)
           fd == s.client[c].fd
<1>1. /\ Apart(s.events) /\ s.events \in Seq(Event_)
      /\ s.client \in [Client -> {Nil} \union redisClient] /\ s.slaves \in Seq(Client)
      /\ s.clients \in Seq(Client) /\ c \in Client
  BY DEF Linked, States, LiveIn
<1>2. /\ t \in States /\ t.events = Unwatch(s.events, fd) /\ t.open = s.open \ {fd}
  BY <1>1, FreedFields
<1>3. SUFFICES ASSUME t.fate = "up" PROVE Linked(t, tw)
  BY <1>2 DEF Fine
<1>4. /\ s.clients # <<>> /\ Head(s.clients) = c
      /\ t.clients = listDelNode(s.clients, 1)
      /\ t.client = [s.client EXCEPT ![c] = Nil]
      /\ t.slaves = IF IsSlave(s, c) THEN listDelNode(s.slaves, 1) ELSE s.slaves
      /\ IsSlave(s, c) => s.slaves # <<>> /\ Head(s.slaves) = c
      /\ t.master = IF IsMaster(s, c) THEN Nil ELSE s.master
      /\ t.replstate = IF IsMaster(s, c) THEN "connect" ELSE s.replstate
  BY <1>1, <1>3, FreedFields
<1>5. Apart(t.events) /\ Elements(t.events) = {e \in Elements(s.events) : e.fd # fd}
  BY <1>1, <1>2, Unwatched
<1> HIDE DEF t
<1>6. /\ LiveIn(t) = LiveIn(s) \ {c}
      /\ \A b \in LiveIn(t) : t.client[b] = s.client[b] /\ b # c
      /\ \A b \in LiveIn(t) : IsSlave(t, b) = IsSlave(s, b) /\ IsMaster(t, b) = IsMaster(s, b)
  <2>1. \A b \in Client : t.client[b] = IF b = c THEN Nil ELSE s.client[b]
    BY <1>1, <1>4
  <2>2. LiveIn(t) = LiveIn(s) \ {c}
    BY <2>1 DEF LiveIn
  <2>3. \A b \in LiveIn(t) : t.client[b] = s.client[b] /\ b # c
    BY <2>1, <2>2 DEF LiveIn
  <2> QED BY <2>2, <2>3 DEF IsSlave, IsMaster
<1>7. Watching(s, Elements(s.events)) /\ Descriptors(s) /\ Listed(s, tw) /\ Mastered(s)
  BY DEF Linked
<1>8. \A b \in LiveIn(t) : s.client[b].fd # fd
  BY <1>6, <1>7 DEF Descriptors
<1>9. Watching(t, Elements(t.events))
  <2> DEFINE E == Elements(s.events)
             F == Elements(t.events)
  <2>1. F = {e \in E : e.fd # fd} /\ Watching(s, E)
    BY <1>5, <1>7
  <2> HIDE DEF E, F
  <2>2. \A e \in F : e.fd \in t.open
    BY <1>2, <2>1 DEF Watching
  <2>3. \A e \in F : \/ e.data = Server /\ e.fd = Listening
                     \/ e.data \in LiveIn(t) /\ t.client[e.data].fd = e.fd
    <3> TAKE e \in F
    <3>1. e \in E /\ e.fd # fd
      BY <2>1
    <3>2. CASE e.data = Server /\ e.fd = Listening
      BY <3>2
    <3>3. CASE e.data \in LiveIn(s) /\ s.client[e.data].fd = e.fd
      <4>1. e.data # c
        BY <3>1, <3>3
      <4> QED BY <1>6, <3>3, <4>1
    <3> QED BY <2>1, <3>1, <3>2, <3>3 DEF Watching
  <2>4. ASSUME NEW b \in LiveIn(t)
        PROVE  \A m : (\E e \in F : e.data = b /\ e.mask = m) <=> \E e \in E : e.data = b /\ e.mask = m
    <3>1. b \in LiveIn(s) /\ b # Server /\ s.client[b].fd # fd
      BY <1>6, <1>8, <2>4, ClientsAssumption DEF LiveIn
    <3>2. \A e \in E : e.data = b => e.fd = s.client[b].fd
      BY <2>1, <3>1 DEF Watching
    <3> QED BY <2>1, <3>1, <3>2
  <2>5. ASSUME NEW b \in LiveIn(t)
        PROVE  /\ \E e \in F : e.data = b /\ e.mask = {"r"}
               /\ t.client[b].reply > 0 <=> \E e \in F : e.data = b /\ e.mask = {"w"}
    <3>1. /\ \E e \in E : e.data = b /\ e.mask = {"r"}
          /\ s.client[b].reply > 0 <=> \E e \in E : e.data = b /\ e.mask = {"w"}
      BY <1>6, <2>1 DEF Watching
    <3> QED BY <1>6, <2>4, <3>1, SMTT(30)
  <2>6. Watching(t, F)
    BY <2>2, <2>3, <2>5 DEF Watching
  <2> QED BY <2>6 DEF F
<1>10. Descriptors(t)
  BY <1>2, <1>6, <1>7, <1>8 DEF Descriptors
<1>11. Listed(t, tw)
  <2>1. IsInjective(t.clients) /\ Elements(t.clients) = LiveIn(t)
    BY <1>1, <1>4, <1>6, <1>7, DeleteHead DEF Listed
  <2>2. \A b \in LiveIn(t) : IsSlave(t, b) => b \in Elements(t.slaves)
    <3>1. \A b \in LiveIn(t) : IsSlave(t, b) => b \in Elements(s.slaves) /\ b # c
      BY <1>6, <1>7 DEF Listed
    <3>2. IsSlave(s, c) => Elements(s.slaves) \ {c} \subseteq Elements(listDelNode(s.slaves, 1))
      BY <1>1, <1>4, DeleteHead
    <3> QED BY <1>4, <3>1, <3>2
  <2>3. ASSUME ~tw PROVE /\ IsInjective(t.slaves)
                         /\ \A b \in Elements(t.slaves) : b \in LiveIn(t) /\ IsSlave(t, b)
    <3>1. /\ IsInjective(s.slaves)
          /\ \A b \in Elements(s.slaves) : b \in LiveIn(s) /\ IsSlave(s, b)
      BY <1>7, <2>3 DEF Listed
    <3>2. IsSlave(s, c) => /\ IsInjective(listDelNode(s.slaves, 1))
                           /\ Elements(listDelNode(s.slaves, 1)) = Elements(s.slaves) \ {c}
      BY <1>1, <1>4, <3>1, DeleteHead
    <3>3. IsInjective(t.slaves) /\ Elements(t.slaves) = Elements(s.slaves) \ {c}
      BY <1>4, <3>1, <3>2
    <3> QED BY <1>6, <3>1, <3>3
  <2> QED BY <2>1, <2>2, <2>3 DEF Listed
<1>12. Mastered(t)
  <2>1. /\ s.replstate = "connected" <=> s.master # Nil
        /\ \A b \in LiveIn(s) : IsMaster(s, b) <=> b = s.master
        /\ s.master # Nil => s.master \in LiveIn(s)
    BY <1>7 DEF Mastered
  <2>2. CASE IsMaster(s, c)
    <3>1. t.master = Nil /\ t.replstate = "connect" /\ s.master = c
      BY <1>4, <2>1, <2>2
    <3>2. \A b \in LiveIn(t) : ~IsMaster(t, b) /\ b # Nil
      BY <1>6, <2>1, <3>1, ClientsAssumption DEF LiveIn
    <3> QED BY <3>1, <3>2 DEF Mastered
  <2>3. CASE ~IsMaster(s, c)
    <3>1. t.master = s.master /\ t.replstate = s.replstate /\ s.master # c
      BY <1>4, <2>1, <2>3
    <3> QED BY <1>6, <2>1, <3>1 DEF Mastered
  <2> QED BY <2>2, <2>3
<1> QED BY <1>5, <1>9, <1>10, <1>11, <1>12 DEF Linked

----------------------------------------------------------------------------
(* Creating a client *)

(* The operators keep the instances of the next lemmas first-order. *)
Fresh(fd, c) == [fd |-> fd, mask |-> {"r"}, data |-> c]
Blank(fd) == [fd |-> fd, reply |-> 0, flags |-> {}]
With(f, c, r) == [f EXCEPT ![c] = r]

LEMMA CreatedFields ==
    ASSUME NEW s \in States, NEW tw, Linked(s, tw), NEW c \in Client \ LiveIn(s),
           NEW fd \in Fds \ s.open
    PROVE  LET t == createClient(s, c, fd) IN
           /\ t \in States
           /\ Apart(t.events)
           /\ Elements(t.events) = Elements(s.events) \union {Fresh(fd, c)}
           /\ t.open = s.open \union {fd}
           /\ t.client = With(s.client, c, Blank(fd))
           /\ t.clients = listAddNodeTail(s.clients, c) /\ t.slaves = s.slaves
           /\ t.master = s.master /\ t.replstate = s.replstate /\ t.fate = s.fate
<1> DEFINE l == Loop!aeCreateFileEvent(s.events, fd, {"r"}, c)
           k == listAddNodeTail(s.clients, c)
           t == createClient(s, c, fd)
<1>1. s.events \in Seq(Event_) /\ Apart(s.events) /\ s.clients \in Seq(Client)
  BY DEF States, Linked
<1>2. \A e \in Elements(s.events) : ~Named(e, fd, {"r"})
  BY DEF Linked, Watching, Named
<1>3. /\ l \in Seq(Event_) /\ Apart(l)
      /\ Elements(l) = Elements(s.events) \union {[fd |-> fd, mask |-> {"r"}, data |-> c]}
  BY <1>1, <1>2, EventCreated
<1>4. k \in Seq(Client)
  BY <1>1, AddTail
<1>5. [fd |-> fd, reply |-> 0, flags |-> {}] \in redisClient
  BY ClientsAssumption DEF redisClient
<1>6. /\ t.events = l /\ t.open = s.open \union {fd}
      /\ t.client = [s.client EXCEPT ![c] = [fd |-> fd, reply |-> 0, flags |-> {}]]
      /\ t.clients = k /\ t.slaves = s.slaves
      /\ t.master = s.master /\ t.replstate = s.replstate /\ t.fate = s.fate
  BY DEF createClient, States
<1>7. t \in States
  <2>1. t = [s EXCEPT !.open = s.open \union {fd}, !.client = t.client, !.events = l, !.clients = k]
    BY <1>6 DEF createClient
  <2>2. t.client \in [Client -> {Nil} \union redisClient]
    BY <1>5, <1>6 DEF States
  <2> HIDE DEF t, l, k
  <2>3. [s EXCEPT !.open = s.open \union {fd}, !.client = t.client, !.events = l, !.clients = k]
          \in States
    BY <1>3, <1>4, <2>2 DEF States
  <2> QED BY <2>1, <2>3
<1> QED BY <1>3, <1>6, <1>7 DEF Fresh, Blank, With

(* What changes when client c is new, with record r. *)
LEMMA CreateLinks ==
    ASSUME NEW s \in States, NEW tw, Linked(s, tw), NEW c \in Client \ LiveIn(s),
           NEW fd \in Fds \ s.open, NEW r \in redisClient, r.fd = fd, r.reply = 0,
           "slave" \notin r.flags,
           NEW t \in States, Apart(t.events),
           Elements(t.events) = Elements(s.events) \union {Fresh(fd, c)},
           t.open = s.open \union {fd}, t.client = With(s.client, c, r),
           t.clients = listAddNodeTail(s.clients, c), t.slaves = s.slaves,
           Mastered(t)
    PROVE  Linked(t, tw)
<1> DEFINE e0 == Fresh(fd, c)
           E == Elements(s.events)
           F == Elements(t.events)
<1>1. /\ F = E \union {e0} /\ e0.fd = fd /\ e0.mask = {"r"} /\ e0.data = c
      /\ {"r"} # {"w"}
  BY DEF Fresh
<1>2. Watching(s, E) /\ Descriptors(s) /\ Listed(s, tw)
  BY DEF Linked
<1>3. s.client \in [Client -> {Nil} \union redisClient] /\ s.clients \in Seq(Client)
  BY DEF States
<1> HIDE DEF E, F, e0
<1>4. /\ LiveIn(t) = LiveIn(s) \union {c} /\ t.client[c] = r
      /\ \A b \in LiveIn(s) : t.client[b] = s.client[b] /\ b # c
      /\ \A b \in LiveIn(s) : IsSlave(t, b) = IsSlave(s, b)
      /\ ~IsSlave(t, c)
  <2>1. r # Nil
    BY ClientsAssumption
  <2>2. \A b \in Client : t.client[b] = IF b = c THEN r ELSE s.client[b]
    BY <1>3 DEF With
  <2> QED BY <2>1, <2>2 DEF LiveIn, IsSlave
<1>5. Watching(t, F)
  <2>1. \A e \in F : e.fd \in t.open
    BY <1>1, <1>2 DEF Watching
  <2>2. \A e \in F : \/ e.data = Server /\ e.fd = Listening
                     \/ e.data \in LiveIn(t) /\ t.client[e.data].fd = e.fd
    BY <1>1, <1>2, <1>4 DEF Watching
  <2>3. ASSUME NEW b \in LiveIn(s)
        PROVE  /\ \E e \in F : e.data = b /\ e.mask = {"r"}
               /\ t.client[b].reply > 0 <=> \E e \in F : e.data = b /\ e.mask = {"w"}
    <3>1. /\ \E e \in E : e.data = b /\ e.mask = {"r"}
          /\ s.client[b].reply > 0 <=> \E e \in E : e.data = b /\ e.mask = {"w"}
      BY <1>2 DEF Watching
    <3> QED BY <1>1, <1>4, <3>1
  <2>4. /\ \E e \in F : e.data = c /\ e.mask = {"r"}
        /\ t.client[c].reply > 0 <=> \E e \in F : e.data = c /\ e.mask = {"w"}
    <3>1. \A e \in E : e.data # c
      BY <1>2, ClientsAssumption DEF Watching
    <3>2. ~(t.client[c].reply > 0)
      BY <1>4
    <3> QED BY <1>1, <3>1, <3>2
  <2> QED BY <1>4, <2>1, <2>2, <2>3, <2>4 DEF Watching
<1>6. Descriptors(t)
  BY <1>2, <1>4 DEF Descriptors
<1>7. Listed(t, tw)
  <2>1. c \notin Elements(s.clients)
    BY <1>2 DEF Listed
  <2>2. /\ Elements(t.clients) = Elements(s.clients) \union {c}
        /\ IsInjective(s.clients) => IsInjective(t.clients)
    BY <1>3, <2>1, AddTail
  <2>3. IsInjective(t.clients) /\ Elements(t.clients) = LiveIn(t)
    BY <1>2, <1>4, <2>2 DEF Listed
  <2>4. \A b \in LiveIn(t) : IsSlave(t, b) => b \in Elements(t.slaves)
    BY <1>2, <1>4 DEF Listed
  <2>5. ~tw => /\ IsInjective(t.slaves)
               /\ \A b \in Elements(t.slaves) : b \in LiveIn(t) /\ IsSlave(t, b)
    BY <1>2, <1>4 DEF Listed
  <2> QED BY <2>3, <2>4, <2>5 DEF Listed
<1> QED BY <1>5, <1>6, <1>7 DEF Linked, F

LEMMA CreateKeeps ==
    ASSUME NEW s \in States, NEW tw, Linked(s, tw), NEW c \in Client \ LiveIn(s),
           NEW fd \in Fds \ s.open
    PROVE  Fine(createClient(s, c, fd), tw)
<1> DEFINE t == createClient(s, c, fd)
           r == Blank(fd)
<1>2. /\ t \in States /\ Apart(t.events)
      /\ Elements(t.events) = Elements(s.events) \union {Fresh(fd, c)}
      /\ t.open = s.open \union {fd} /\ t.client = With(s.client, c, r)
      /\ t.clients = listAddNodeTail(s.clients, c) /\ t.slaves = s.slaves
      /\ t.master = s.master /\ t.replstate = s.replstate /\ t.fate = s.fate
  BY CreatedFields
<1>3. r \in redisClient /\ r.fd = fd /\ r.reply = 0 /\ r.flags = {}
  BY ClientsAssumption DEF redisClient, Blank
<1> HIDE DEF t, r
<1>4. Mastered(t)
  <2>1. \A b \in Client : t.client[b] = IF b = c THEN r ELSE s.client[b]
    BY <1>2 DEF States, With
  <2>2. LiveIn(t) = LiveIn(s) \union {c} /\ ~IsMaster(t, c)
        /\ \A b \in LiveIn(s) : IsMaster(t, b) = IsMaster(s, b)
    BY <1>3, <2>1, ClientsAssumption DEF LiveIn, IsMaster
  <2>3. Mastered(s) /\ c # Nil
    BY ClientsAssumption DEF Linked
  <2> QED BY <1>2, <2>2, <2>3 DEF Mastered
<1>5. Linked(t, tw)
  BY <1>2, <1>3, <1>4, CreateLinks
<1> QED BY <1>2, <1>5 DEF Fine, t

(* A connection to the master, which there is none of yet. *)
LEMMA ConnectKeeps ==
    ASSUME NEW s \in States, NEW tw, Linked(s, tw), NEW c \in Client \ LiveIn(s),
           NEW fd \in Fds \ s.open, s.replstate = "connect"
    PROVE  Fine(Connected(s, c, fd), tw)
<1> DEFINE u == createClient(s, c, fd)
           t == Connected(s, c, fd)
           q == Blank(fd)
           r == [fd |-> fd, reply |-> 0, flags |-> {"master"}]
<1>2. /\ u \in States /\ Apart(u.events)
      /\ Elements(u.events) = Elements(s.events) \union {Fresh(fd, c)}
      /\ u.open = s.open \union {fd} /\ u.client = With(s.client, c, q)
      /\ u.clients = listAddNodeTail(s.clients, c) /\ u.slaves = s.slaves
      /\ u.master = s.master /\ u.replstate = s.replstate /\ u.fate = s.fate
  BY CreatedFields
<1>3. r \in redisClient /\ r.fd = fd /\ r.reply = 0 /\ r.flags = {"master"}
  BY ClientsAssumption DEF redisClient
<1>4. t = [u EXCEPT !.client[c].flags = {"master"}, !.master = c, !.replstate = "connected"]
  BY DEF Connected
<1> HIDE DEF u, t
<1>5. /\ t.events = u.events /\ t.open = u.open /\ t.clients = u.clients
      /\ t.slaves = u.slaves /\ t.master = c /\ t.replstate = "connected" /\ t.fate = u.fate
      /\ t.client = [u.client EXCEPT ![c].flags = {"master"}]
  BY <1>2, <1>4 DEF States
<1>6. t.client = With(s.client, c, r) /\ t.client \in [Client -> {Nil} \union redisClient]
  <2>1. s.client \in [Client -> {Nil} \union redisClient]
    BY DEF States
  <2>2. [q EXCEPT !.flags = {"master"}] = r
    BY DEF Blank
  <2>3. t.client = [s.client EXCEPT ![c] = [q EXCEPT !.flags = {"master"}]]
    <3> HIDE DEF q, r
    <3> QED BY <1>2, <1>5, <2>1 DEF With
  <2> HIDE DEF q, r
  <2> QED BY <1>3, <2>1, <2>2, <2>3 DEF With
<1>7. t \in States
  <2>1. t = [u EXCEPT !.client = t.client, !.master = c, !.replstate = "connected"]
    BY <1>4, <1>5
  <2>2. [u EXCEPT !.client = t.client, !.master = c, !.replstate = "connected"] \in States
    <3> HIDE DEF r
    <3> QED BY <1>2, <1>6 DEF States
  <2> QED BY <2>1, <2>2
<1> HIDE DEF r
<1>8. Mastered(t)
  <2>1. \A b \in Client : t.client[b] = IF b = c THEN r ELSE s.client[b]
    BY <1>6 DEF States, With
  <2>2. /\ LiveIn(t) = LiveIn(s) \union {c} /\ IsMaster(t, c)
        /\ \A b \in LiveIn(s) : IsMaster(t, b) = IsMaster(s, b) /\ b # c
    BY <1>3, <2>1, ClientsAssumption DEF LiveIn, IsMaster
  <2>3. s.master = Nil /\ \A b \in LiveIn(s) : ~IsMaster(s, b)
    BY ClientsAssumption DEF Linked, Mastered, LiveIn
  <2> QED BY <1>5, <2>2, <2>3, ClientsAssumption DEF Mastered
<1>9. Linked(t, tw)
  <2>1. /\ Apart(t.events) /\ Elements(t.events) = Elements(s.events) \union {Fresh(fd, c)}
        /\ t.open = s.open \union {fd} /\ t.clients = listAddNodeTail(s.clients, c)
        /\ t.slaves = s.slaves /\ "slave" \notin r.flags
    BY <1>2, <1>3, <1>5
  <2> QED BY <1>3, <1>6, <1>7, <1>8, <2>1, CreateLinks
<1> QED BY <1>7, <1>9 DEF Fine, t

----------------------------------------------------------------------------
(* Answering a client *)

Pending(fd, c) == [fd |-> fd, mask |-> {"w"}, data |-> c]

(* The events E, with the writable one of fd there if replies wait. *)
Rewatched(E, fd, c, reply) ==
    {e \in E : ~Named(e, fd, {"w"})} \union (IF reply > 0 THEN {Pending(fd, c)} ELSE {})

(* t is s with other replies for client c. *)
Answered(s, t, c, r) ==
    /\ t \in States /\ r \in redisClient
    /\ r.fd = s.client[c].fd /\ r.flags = s.client[c].flags
    /\ Apart(t.events) /\ Elements(t.events) = Rewatched(Elements(s.events), r.fd, c, r.reply)
    /\ t.open = s.open /\ t.client = With(s.client, c, r)
    /\ t.clients = s.clients /\ t.slaves = s.slaves
    /\ t.master = s.master /\ t.replstate = s.replstate /\ t.fate = s.fate

LEMMA AnsweredLinks ==
    ASSUME NEW s \in States, NEW tw, Linked(s, tw), NEW c \in LiveIn(s), NEW r, NEW t,
           Answered(s, t, c, r)
    PROVE  Linked(t, tw)
<1> DEFINE E == Elements(s.events)
           F == Elements(t.events)
           fd == r.fd
           w == Pending(fd, c)
<1>1. Watching(s, E) /\ Descriptors(s) /\ Listed(s, tw) /\ Mastered(s)
  BY DEF Linked
<1>2. /\ F = {e \in E : ~Named(e, fd, {"w"})} \union (IF r.reply > 0 THEN {w} ELSE {})
      /\ w.fd = fd /\ w.mask = {"w"} /\ w.data = c /\ {"r"} # {"w"}
      /\ r \in redisClient /\ fd = s.client[c].fd /\ r.flags = s.client[c].flags
      /\ t.open = s.open
  BY DEF Answered, Rewatched, Pending
<1>3. s.client \in [Client -> {Nil} \union redisClient] /\ c \in Client
  BY DEF States, LiveIn
<1> HIDE DEF E, F, fd, w
<1>4. /\ LiveIn(t) = LiveIn(s) /\ t.client[c] = r
      /\ \A b \in LiveIn(s) : b # c => t.client[b] = s.client[b]
      /\ \A b \in LiveIn(s) : t.client[b].fd = s.client[b].fd
      /\ \A b \in LiveIn(s) : IsSlave(t, b) = IsSlave(s, b) /\ IsMaster(t, b) = IsMaster(s, b)
  <2>1. r # Nil
    BY <1>2, ClientsAssumption
  <2>2. \A b \in Client : t.client[b] = IF b = c THEN r ELSE s.client[b]
    BY <1>3 DEF Answered, With
  <2>3. LiveIn(t) = LiveIn(s)
    BY <2>1, <2>2 DEF LiveIn
  <2>4. \A b \in LiveIn(s) : /\ t.client[b].flags = s.client[b].flags
                             /\ t.client[b].fd = s.client[b].fd
    BY <1>2, <2>2 DEF LiveIn, fd
  <2> QED BY <1>3, <2>2, <2>3, <2>4 DEF LiveIn, IsSlave, IsMaster
<1>5. Watching(t, F)
  <2>1. fd \in s.open
    BY <1>1, <1>2 DEF Descriptors
  <2>2. \A e \in F : e.fd \in t.open
    BY <1>1, <1>2, <2>1 DEF Watching
  <2>3. \A e \in F : \/ e.data = Server /\ e.fd = Listening
                     \/ e.data \in LiveIn(t) /\ t.client[e.data].fd = e.fd
    BY <1>1, <1>2, <1>4 DEF Watching, fd
  <2>4. ASSUME NEW b \in LiveIn(t), b # c
        PROVE  /\ \E e \in F : e.data = b /\ e.mask = {"r"}
               /\ t.client[b].reply > 0 <=> \E e \in F : e.data = b /\ e.mask = {"w"}
    <3>1. /\ \E e \in E : e.data = b /\ e.mask = {"r"}
          /\ s.client[b].reply > 0 <=> \E e \in E : e.data = b /\ e.mask = {"w"}
      BY <1>1, <1>4, <2>4 DEF Watching
    <3>2. \A e \in E : e.data = b => ~Named(e, fd, {"w"})
      BY <1>1, <1>2, <1>4, <2>4, ClientsAssumption DEF Watching, Descriptors, Named, LiveIn
    <3>3. \A e : e \in F /\ e.data = b <=> e \in E /\ e.data = b
      BY <1>2, <2>4, <3>2
    <3> QED BY <1>4, <2>4, <3>1, <3>3
  <2>5. \E e \in F : e.data = c /\ e.mask = {"r"}
    <3>1. PICK e \in E : e.data = c /\ e.mask = {"r"}
      BY <1>1 DEF Watching
    <3> QED BY <1>2, <3>1 DEF Named
  <2>6. t.client[c].reply > 0 <=> \E e \in F : e.data = c /\ e.mask = {"w"}
    <3>1. \A e \in E : e.data = c => e.fd = fd
      BY <1>1, <1>2, <1>3, ClientsAssumption DEF Watching
    <3>2. CASE r.reply > 0
      BY <1>2, <1>4, <3>2
    <3>3. CASE ~(r.reply > 0)
      <4>1. \A e \in F : e.data = c => e.mask # {"w"}
        BY <1>2, <3>1, <3>3 DEF Named
      <4> QED BY <1>4, <3>3, <4>1
    <3> QED BY <3>2, <3>3
  <2> QED BY <1>4, <2>2, <2>3, <2>4, <2>5, <2>6 DEF Watching
<1>6. Descriptors(t)
  BY <1>1, <1>2, <1>4 DEF Descriptors
<1>7. Listed(t, tw)
  BY <1>1, <1>4 DEF Listed, Answered
<1>8. Mastered(t)
  BY <1>1, <1>4 DEF Mastered, Answered
<1> QED BY <1>5, <1>6, <1>7, <1>8 DEF Linked, Answered, F

(* A writable event of c's descriptor is c's, and there if replies wait. *)
LEMMA WaitingEvent ==
    ASSUME NEW s \in States, NEW tw, Linked(s, tw), NEW c \in LiveIn(s)
    PROVE  /\ \A e \in Elements(s.events) :
                Named(e, s.client[c].fd, {"w"}) => e = Pending(s.client[c].fd, c)
           /\ s.client[c].reply > 0 <=> Pending(s.client[c].fd, c) \in Elements(s.events)
<1> DEFINE E == Elements(s.events)
           fd == s.client[c].fd
<1>1. Watching(s, E) /\ Descriptors(s) /\ s.events \in Seq(Event_) /\ c \in Client
  BY DEF Linked, States, LiveIn
<1>2. \A e \in E : e \in Event_
  <2>1. \A i \in DOMAIN s.events : s.events[i] \in Event_
    BY <1>1
  <2> QED BY <2>1 DEF Elements
<1>3. ASSUME NEW e \in E, Named(e, fd, {"w"}) PROVE e = Pending(fd, c)
  <2>1. fd # Listening
    BY <1>1 DEF Descriptors
  <2>2. e.data \in LiveIn(s) /\ s.client[e.data].fd = fd
    BY <1>1, <1>3, <2>1 DEF Watching, Named
  <2>3. e.data = c
    BY <1>1, <2>2 DEF Descriptors
  <2> QED BY <1>2, <1>3, <2>3 DEF Event_, Named, Pending
<1>4. \A e \in E : e.data = c /\ e.mask = {"w"} => Named(e, fd, {"w"})
  BY <1>1, ClientsAssumption DEF Watching, Named
<1>5. s.client[c].reply > 0 <=> \E e \in E : e.data = c /\ e.mask = {"w"}
  BY <1>1 DEF Watching
<1>6. (\E e \in E : e.data = c /\ e.mask = {"w"}) <=> Pending(fd, c) \in E
  BY <1>3, <1>4 DEF Pending
<1> HIDE DEF E, fd
<1>7. s.client[c].reply > 0 <=> Pending(fd, c) \in E
  BY <1>5, <1>6
<1> QED BY <1>3, <1>7 DEF E, fd

Replies(q, n) == [q EXCEPT !.reply = n]

LEMMA EventsChanged ==
    ASSUME NEW s \in States, NEW l \in Seq(Event_), Apart(l), NEW c \in LiveIn(s),
           NEW n \in 0..MaxReply, Elements(l) = Rewatched(Elements(s.events), s.client[c].fd, c, n)
    PROVE  Answered(s, [s EXCEPT !.events = l, !.client[c].reply = n], c, Replies(s.client[c], n))
<1> DEFINE r == Replies(s.client[c], n)
           t == [s EXCEPT !.events = l, !.client[c].reply = n]
<1>1. r \in redisClient /\ r.reply = n /\ r.fd = s.client[c].fd /\ r.flags = s.client[c].flags
  BY ClientType DEF redisClient, Replies
<1>2. c \in Client /\ s.client \in [Client -> {Nil} \union redisClient]
  BY DEF LiveIn, States
<1>3. t.client = With(s.client, c, r)
  BY DEF States, With, Replies
<1>4. With(s.client, c, r) \in [Client -> {Nil} \union redisClient]
  <2> HIDE DEF r
  <2> QED BY <1>1, <1>2 DEF With
<1>5. t = [s EXCEPT !.events = l, !.client = t.client]
  BY DEF States
<1>6. [s EXCEPT !.events = l, !.client = t.client] \in States
  <2> HIDE DEF t, r
  <2> QED BY <1>3, <1>4 DEF States
<1>7. /\ t.events = l /\ t.open = s.open /\ t.clients = s.clients /\ t.slaves = s.slaves
      /\ t.master = s.master /\ t.replstate = s.replstate /\ t.fate = s.fate
  BY DEF States
<1>8. t \in States
  BY <1>5, <1>6
<1> HIDE DEF t, r
<1>9. Answered(s, t, c, r)
  BY <1>1, <1>3, <1>7, <1>8 DEF Answered
<1> QED BY <1>9 DEF t, r

LEMMA ReplyType ==
    ASSUME NEW s \in States, NEW c \in LiveIn(s)
    PROVE  /\ s.client[c].reply \in 0..MaxReply /\ MaxReply \in Nat
           /\ s.client[c].fd \in Fds /\ c \in Client
BY ClientType, ClientsAssumption DEF redisClient

LEMMA AddAnswers ==
    ASSUME NEW s \in States, NEW tw, Linked(s, tw), NEW c \in LiveIn(s),
           s.client[c].reply < MaxReply
    PROVE  Answered(s, addReply(s, c), c, Replies(s.client[c], s.client[c].reply + 1))
<1> DEFINE E == Elements(s.events)
           fd == s.client[c].fd
           reply == s.client[c].reply
           l == IF reply = 0 THEN Loop!aeCreateFileEvent(s.events, fd, {"w"}, c) ELSE s.events
<1>1. /\ reply \in Nat /\ reply + 1 \in 0..MaxReply /\ reply + 1 > 0
      /\ fd \in Fds /\ c \in Client /\ Apart(s.events) /\ s.events \in Seq(Event_)
  BY ReplyType DEF Linked, States
<1>2. /\ \A e \in E : Named(e, fd, {"w"}) => e = Pending(fd, c)
      /\ reply > 0 <=> Pending(fd, c) \in E
      /\ Named(Pending(fd, c), fd, {"w"})
  BY WaitingEvent DEF Named, Pending
<1>3. addReply(s, c) = [s EXCEPT !.events = l, !.client[c].reply = reply + 1]
  BY DEF addReply
<1> HIDE DEF E, fd, reply
<1>4. l \in Seq(Event_) /\ Apart(l) /\ Elements(l) = Rewatched(E, fd, c, reply + 1)
  <2>1. CASE reply = 0
    <3>1. \A e \in E : ~Named(e, fd, {"w"})
      BY <1>1, <1>2, <2>1
    <3>2. l \in Seq(Event_) /\ Apart(l) /\ Elements(l) = E \union {Pending(fd, c)}
      BY <1>1, <2>1, <3>1, EventCreated DEF Pending, E
    <3> QED BY <1>1, <3>1, <3>2 DEF Rewatched
  <2>2. CASE reply # 0
    <3>1. Pending(fd, c) \in E
      BY <1>1, <1>2, <2>2
    <3>2. Rewatched(E, fd, c, reply + 1) = E
      BY <1>1, <1>2, <3>1 DEF Rewatched
    <3> QED BY <1>1, <2>2, <3>2 DEF E
  <2> QED BY <2>1, <2>2
<1> HIDE DEF l
<1>5. Answered(s, [s EXCEPT !.events = l, !.client[c].reply = reply + 1], c,
               Replies(s.client[c], reply + 1))
  BY <1>1, <1>4, EventsChanged DEF E, fd
<1> QED BY <1>3, <1>5 DEF reply

LEMMA SendAnswers ==
    ASSUME NEW s \in States, NEW tw, Linked(s, tw), NEW c \in LiveIn(s),
           NEW m \in 0..s.client[c].reply, s.client[c].reply > 0
    PROVE  Answered(s, sendReplyToClient(s, c, m), c, Replies(s.client[c], s.client[c].reply - m))
<1> DEFINE E == Elements(s.events)
           fd == s.client[c].fd
           reply == s.client[c].reply
           l == IF m = reply THEN Loop!aeDeleteFileEvent(s.events, fd, {"w"}) ELSE s.events
<1>1. /\ reply \in Nat /\ m \in 0..reply /\ reply - m \in 0..MaxReply /\ reply > 0
      /\ fd \in Fds /\ c \in Client /\ Apart(s.events) /\ s.events \in Seq(Event_)
  BY ReplyType DEF Linked, States
<1>2. /\ \A e \in E : Named(e, fd, {"w"}) => e = Pending(fd, c)
      /\ reply > 0 <=> Pending(fd, c) \in E
      /\ Named(Pending(fd, c), fd, {"w"})
  BY WaitingEvent DEF Named, Pending
<1>3. sendReplyToClient(s, c, m) = [s EXCEPT !.events = l, !.client[c].reply = reply - m]
  BY DEF sendReplyToClient
<1> HIDE DEF E, fd, reply
<1>4. l \in Seq(Event_) /\ Apart(l) /\ Elements(l) = Rewatched(E, fd, c, reply - m)
  <2>1. CASE m = reply
    <3>1. l \in Seq(Event_) /\ Apart(l) /\ Elements(l) = {e \in E : ~Named(e, fd, {"w"})}
      BY <1>1, <2>1, EventDeleted DEF E
    <3>2. ~(reply - m > 0)
      BY <1>1, <2>1
    <3> QED BY <3>1, <3>2 DEF Rewatched
  <2>2. CASE m # reply
    <3>1. Pending(fd, c) \in E /\ reply - m > 0
      BY <1>1, <1>2, <2>2
    <3>2. Rewatched(E, fd, c, reply - m) = E
      BY <1>2, <3>1 DEF Rewatched
    <3> QED BY <1>1, <2>2, <3>2 DEF E
  <2> QED BY <2>1, <2>2
<1> HIDE DEF l
<1>5. Answered(s, [s EXCEPT !.events = l, !.client[c].reply = reply - m], c,
               Replies(s.client[c], reply - m))
  BY <1>1, <1>4, EventsChanged DEF E, fd
<1> QED BY <1>3, <1>5 DEF reply

(* A reply is added or sent: the writable event comes and goes with them. *)
LEMMA AddReplyKeeps ==
    ASSUME NEW s \in States, NEW tw, Linked(s, tw), NEW c \in LiveIn(s),
           s.client[c].reply < MaxReply
    PROVE  Fine(addReply(s, c), tw) /\ addReply(s, c).fate = s.fate
<1> DEFINE t == addReply(s, c)
           r == Replies(s.client[c], s.client[c].reply + 1)
<1>1. Answered(s, t, c, r)
  BY AddAnswers
<1> HIDE DEF t, r
<1>2. Linked(t, tw)
  BY <1>1, AnsweredLinks
<1> QED BY <1>1, <1>2 DEF Answered, Fine, t

(* What syncCommand adds to a client it could answer. *)
Enslaved(s, c) == [s EXCEPT !.client[c].flags = @ \union {"slave"},
                            !.slaves = listAddNodeTail(@, c)]
Slave(q) == [q EXCEPT !.flags = @ \union {"slave"}]

LEMMA EnslavedFields ==
    ASSUME NEW s \in States, NEW c \in LiveIn(s)
    PROVE  LET t == Enslaved(s, c) IN
           /\ t \in States
           /\ t.client = With(s.client, c, Slave(s.client[c]))
           /\ t.slaves = listAddNodeTail(s.slaves, c)
           /\ t.events = s.events /\ t.open = s.open /\ t.clients = s.clients
           /\ t.master = s.master /\ t.replstate = s.replstate /\ t.fate = s.fate
<1> DEFINE t == Enslaved(s, c)
           r == Slave(s.client[c])
<1>1. c \in Client /\ s.client[c] \in redisClient
  BY ClientType
<1>2. r \in redisClient
  BY <1>1 DEF redisClient, Slave
<1>3. t.client = With(s.client, c, r)
  BY DEF States, With, Slave, Enslaved
<1>4. /\ t.events = s.events /\ t.open = s.open /\ t.clients = s.clients
      /\ t.master = s.master /\ t.replstate = s.replstate /\ t.fate = s.fate
      /\ t.slaves = listAddNodeTail(s.slaves, c)
  BY DEF States, Enslaved
<1>5. t.slaves \in Seq(Client)
  BY <1>1, <1>4, AddTail DEF States
<1>6. t = [s EXCEPT !.client = t.client, !.slaves = t.slaves]
  BY DEF States, Enslaved
<1>7. With(s.client, c, r) \in [Client -> {Nil} \union redisClient]
  <2> HIDE DEF r
  <2> QED BY <1>1, <1>2 DEF With, States
<1> HIDE DEF t, r
<1>8. [s EXCEPT !.client = t.client, !.slaves = t.slaves] \in States
  BY <1>3, <1>5, <1>7 DEF States
<1> QED BY <1>3, <1>4, <1>6, <1>8 DEF t, r

(* tw2 holds if c was a slave already, or tw did. *)
AskedAgain(s, c, tw, tw2) == ~tw2 => ~tw /\ ~IsSlave(s, c)

LEMMA EnslavedKeeps ==
    ASSUME NEW s \in States, NEW tw, NEW tw2, Linked(s, tw), NEW c \in LiveIn(s),
           AskedAgain(s, c, tw, tw2)
    PROVE  Fine(Enslaved(s, c), tw2)
<1> DEFINE t == Enslaved(s, c)
           r == Slave(s.client[c])
<1>1. /\ t \in States /\ t.client = With(s.client, c, r)
      /\ t.slaves = listAddNodeTail(s.slaves, c)
      /\ t.events = s.events /\ t.open = s.open /\ t.clients = s.clients
      /\ t.master = s.master /\ t.replstate = s.replstate /\ t.fate = s.fate
  BY EnslavedFields
<1>2. /\ r # Nil /\ r.fd = s.client[c].fd /\ r.reply = s.client[c].reply
      /\ r.flags = s.client[c].flags \union {"slave"} /\ c \in Client
  <2>1. r \in redisClient
    BY ClientType DEF redisClient, Slave
  <2> QED BY <2>1, ClientType, ClientsAssumption DEF redisClient, Slave
<1> HIDE DEF t, r
<1>3. \A b \in Client : t.client[b] = IF b = c THEN r ELSE s.client[b]
  BY <1>1 DEF States, With
<1>4. LiveIn(t) = LiveIn(s)
  BY <1>2, <1>3 DEF LiveIn
<1>5. \A b \in LiveIn(s) : /\ t.client[b].fd = s.client[b].fd
                           /\ t.client[b].reply = s.client[b].reply
  BY <1>2, <1>3 DEF LiveIn
<1>6. /\ \A b \in LiveIn(s) : IsMaster(t, b) = IsMaster(s, b)
      /\ \A b \in LiveIn(s) : b # c => IsSlave(t, b) = IsSlave(s, b)
      /\ IsSlave(t, c)
  BY <1>2, <1>3 DEF LiveIn, IsSlave, IsMaster
<1>7. Apart(t.events) /\ Descriptors(t) /\ Watching(t, Elements(t.events)) /\ Mastered(t)
  <2>1. Apart(t.events) /\ Descriptors(t)
    BY <1>1, <1>4, <1>5 DEF Linked, Descriptors
  <2>2. Watching(t, Elements(t.events))
    <3> DEFINE E == Elements(s.events)
               More(q) == q.reply > 0
    <3>1. \A b \in LiveIn(s) : More(t.client[b]) = More(s.client[b])
      BY <1>5
    <3>2. Watching(s, E)
      BY DEF Linked
    <3>3. /\ \A e \in E : e.fd \in s.open
          /\ \A e \in E : \/ e.data = Server /\ e.fd = Listening
                          \/ e.data \in LiveIn(s) /\ s.client[e.data].fd = e.fd
          /\ \A b \in LiveIn(s) : \E e \in E : e.data = b /\ e.mask = {"r"}
          /\ \A b \in LiveIn(s) : More(s.client[b]) <=> \E e \in E : e.data = b /\ e.mask = {"w"}
      BY <3>2, Zenon DEF Watching
    <3>4. Watching(t, E) <=>
          /\ \A e \in E : e.fd \in t.open
          /\ \A e \in E : \/ e.data = Server /\ e.fd = Listening
                          \/ e.data \in LiveIn(t) /\ t.client[e.data].fd = e.fd
          /\ \A b \in LiveIn(t) : \E e \in E : e.data = b /\ e.mask = {"r"}
          /\ \A b \in LiveIn(t) : More(t.client[b]) <=> \E e \in E : e.data = b /\ e.mask = {"w"}
      BY Zenon DEF Watching
    <3> HIDE DEF More, E
    <3>5. Watching(t, E)
      <4>1. /\ \A e \in E : e.fd \in t.open
            /\ \A e \in E : \/ e.data = Server /\ e.fd = Listening
                            \/ e.data \in LiveIn(t) /\ t.client[e.data].fd = e.fd
            /\ \A b \in LiveIn(t) : \E e \in E : e.data = b /\ e.mask = {"r"}
        BY <1>1, <1>4, <1>5, <3>3
      <4>2. \A b \in LiveIn(t) : More(t.client[b]) <=> \E e \in E : e.data = b /\ e.mask = {"w"}
        BY <1>4, <3>1, <3>3
      <4> QED BY <3>4, <4>1, <4>2
    <3> QED BY <1>1, <3>5 DEF E
  <2>3. Mastered(t)
    BY <1>1, <1>4, <1>6 DEF Linked, Mastered
  <2> QED BY <2>1, <2>2, <2>3
<1>8. Listed(t, tw2)
  <2>1. /\ Elements(t.slaves) = Elements(s.slaves) \union {c}
        /\ IsInjective(s.slaves) /\ c \notin Elements(s.slaves) => IsInjective(t.slaves)
    <3>1. s.slaves \in Seq(Client)
      BY DEF States
    <3> QED BY <1>1, <1>2, <3>1, AddTail
  <2>2. /\ IsInjective(s.clients) /\ Elements(s.clients) = LiveIn(s)
        /\ \A b \in LiveIn(s) : IsSlave(s, b) => b \in Elements(s.slaves)
        /\ ~tw => /\ IsInjective(s.slaves)
                  /\ \A b \in Elements(s.slaves) : b \in LiveIn(s) /\ IsSlave(s, b)
    BY DEF Linked, Listed
  <2>3. ASSUME ~tw2
        PROVE  /\ IsInjective(t.slaves)
               /\ \A b \in Elements(t.slaves) : b \in LiveIn(t) /\ IsSlave(t, b)
    BY <1>4, <1>6, <2>1, <2>2, <2>3 DEF AskedAgain
  <2> QED BY <1>1, <1>4, <1>6, <2>1, <2>2, <2>3 DEF Listed
<1> QED BY <1>1, <1>7, <1>8 DEF Linked, Fine, t

LEMMA SyncKeeps ==
    ASSUME NEW s \in States, NEW tw, NEW tw2, Linked(s, tw), NEW c \in LiveIn(s),
           NEW saved, NEW n \in 0..s.client[c].reply, AskedAgain(s, c, tw, tw2)
    PROVE  Fine(syncCommand(s, c, n, saved), tw2) /\ syncCommand(s, c, n, saved).fate = s.fate
<1> DEFINE u == IF s.client[c].reply = 0 THEN s ELSE sendReplyToClient(s, c, n)
<1>1. /\ u \in States /\ Linked(u, tw) /\ c \in LiveIn(u)
      /\ IsSlave(u, c) = IsSlave(s, c) /\ u.fate = s.fate
  <2>1. CASE s.client[c].reply = 0
    BY <2>1
  <2>2. CASE s.client[c].reply # 0
    <3> DEFINE t == sendReplyToClient(s, c, n)
               r == Replies(s.client[c], s.client[c].reply - n)
    <3>1. s.client[c].reply > 0
      BY <2>2, ReplyType
    <3>2. Answered(s, t, c, r)
      BY <3>1, SendAnswers
    <3> HIDE DEF t, r
    <3>3. Linked(t, tw)
      BY <3>2, AnsweredLinks
    <3>4. /\ c \in LiveIn(t) /\ IsSlave(t, c) = IsSlave(s, c) /\ t \in States
          /\ t.fate = s.fate
      <4>1. c \in Client /\ t.client[c] = r /\ r # Nil
        BY <3>2, ClientsAssumption DEF Answered, LiveIn, With, States
      <4> QED BY <3>2, <4>1 DEF Answered, LiveIn, IsSlave
    <3> QED BY <2>2, <3>3, <3>4 DEF t
  <2> QED BY <2>1, <2>2
<1>2. syncCommand(s, c, n, saved) = IF u.client[c].reply > 0 \/ ~saved THEN u ELSE Enslaved(u, c)
  BY DEF syncCommand, Enslaved
<1> HIDE DEF u
<1>3. Fine(Enslaved(u, c), tw2)
  <2>1. AskedAgain(u, c, tw, tw2)
    BY <1>1 DEF AskedAgain
  <2>2. u \in States /\ Linked(u, tw) /\ c \in LiveIn(u)
    BY <1>1
  <2> QED BY <2>1, <2>2, EnslavedKeeps
<1>4. Fine(u, tw2)
  BY <1>1 DEF Fine, Linked, Listed, AskedAgain
<1>5. Enslaved(u, c).fate = s.fate
  BY <1>1, EnslavedFields
<1> QED BY <1>1, <1>2, <1>3, <1>4, <1>5

----------------------------------------------------------------------------
(* Freeing slaves that were idle *)

LEMMA Endless ==
    ASSUME NEW l \in Seq(Client), NEW c \in Elements(l), listSearchKey(l, c) = "endless"
    PROVE  Len(l) > 1
<1>1. PICK i \in DOMAIN l : l[i] = c
  BY DEF Elements
<1>2. l # <<>> /\ Head(l) # c
  BY DEF listSearchKey
<1>3. i \in 1..Len(l) /\ i # 1
  BY <1>1, <1>2
<1> QED BY <1>3

(* The search hangs behind another client or another slave only. *)
LEMMA FreeHangs ==
    ASSUME NEW s \in States, NEW tw, Linked(s, tw), s.fate = "up", NEW c \in LiveIn(s),
           freeClient(s, c).fate = "hangs"
    PROVE  Len(s.clients) > 1 \/ Len(s.slaves) > 1
<1> DEFINE fd == s.client[c].fd
           closed == [s EXCEPT !.events = Unwatch(@, fd), !.open = @ \ {fd}]
           inClients == listSearchKey(s.clients, c)
           inSlaves == listSearchKey(s.slaves, c)
<1>1. closed.fate = "up" /\ DOMAIN closed = DOMAIN s /\ "fate" \in DOMAIN s
  BY DEF States
<1>2. Forget(closed, c).fate = closed.fate
  <2> HIDE DEF closed
  <2> QED BY DEF Forget
<1>3. /\ [closed EXCEPT !.fate = Fate(inClients)].fate = Fate(inClients)
      /\ [closed EXCEPT !.fate = Fate(inSlaves), !.clients = listDelNode(@, 1)].fate = Fate(inSlaves)
  <2> HIDE DEF closed
  <2> QED BY <1>1
<1>4. /\ inClients \in {"null", "found", "endless"} /\ inSlaves \in {"null", "found", "endless"}
  BY DEF listSearchKey
<1> HIDE DEF inClients, inSlaves
<1>5. Fate(inClients) = "hangs" \/ (IsSlave(s, c) /\ Fate(inSlaves) = "hangs")
  <2> HIDE DEF closed
  <2>1. CASE Fate(inClients) # "up"
    BY <1>3, <2>1 DEF freeClient, closed, inClients
  <2>2. CASE Fate(inClients) = "up" /\ ~IsSlave(s, c)
    BY <1>1, <1>2, <2>2 DEF freeClient, closed, inClients
  <2>3. CASE Fate(inClients) = "up" /\ IsSlave(s, c) /\ Fate(inSlaves) # "up"
    BY <1>3, <2>3 DEF freeClient, closed, inClients, inSlaves
  <2>4. CASE Fate(inClients) = "up" /\ IsSlave(s, c) /\ Fate(inSlaves) = "up"
    BY <1>1, <1>2, <2>4 DEF freeClient, closed, inClients, inSlaves
  <2> QED BY <2>1, <2>2, <2>3, <2>4
<1>6. inClients = "endless" \/ (IsSlave(s, c) /\ inSlaves = "endless")
  BY <1>4, <1>5 DEF Fate
<1>7. c \in Elements(s.clients) /\ (IsSlave(s, c) => c \in Elements(s.slaves))
  BY DEF Linked, Listed
<1>8. s.clients \in Seq(Client) /\ s.slaves \in Seq(Client)
  BY DEF States
<1> QED BY <1>6, <1>7, <1>8, Endless DEF inClients, inSlaves

----------------------------------------------------------------------------
(* What callbacks leave of the list of events *)

(* The events of m are some of those of l, in the order of l. *)
Sublist(m, l) ==
    \E f \in [DOMAIN m -> DOMAIN l] :
        /\ \A i, j \in DOMAIN m : i < j => f[i] < f[j]
        /\ \A i \in DOMAIN m : m[i] = l[f[i]]

LEMMA SublistWithout ==
    ASSUME NEW S, NEW l \in Seq(S), NEW i \in 1..Len(l)
    PROVE  Sublist(Loop!Without(l, i), l)
<1> DEFINE r == Loop!Without(l, i)
           f == [j \in DOMAIN r |-> IF j < i THEN j ELSE j + 1]
<1>1. /\ r \in Seq(S) /\ Len(r) = Len(l) - 1
      /\ \A j \in 1..Len(r) : r[j] = IF j < i THEN l[j] ELSE l[j + 1]
  BY WithoutAt
<1> HIDE DEF r
<1>2. DOMAIN r = 1..Len(r) /\ DOMAIN l = 1..Len(l) /\ Len(l) \in Nat
  BY <1>1
<1>3. f \in [DOMAIN r -> DOMAIN l]
  BY <1>1, <1>2
<1>4. \A j, k \in DOMAIN r : j < k => f[j] < f[k]
  BY <1>1, <1>2
<1>5. \A j \in DOMAIN r : r[j] = l[f[j]]
  BY <1>1, <1>2
<1> HIDE DEF f
<1> QED BY <1>3, <1>4, <1>5 DEF Sublist, r

LEMMA SublistSelf ==
    ASSUME NEW S, NEW l \in Seq(S)
    PROVE  Sublist(l, l)
<1> DEFINE f == [i \in DOMAIN l |-> i]
<1>1. /\ f \in [DOMAIN l -> DOMAIN l] /\ \A i \in DOMAIN l : f[i] = i
  OBVIOUS
<1> HIDE DEF f
<1> QED BY <1>1 DEF Sublist

LEMMA SublistOfSublist ==
    ASSUME NEW l, NEW m, NEW n, Sublist(m, l), Sublist(n, m)
    PROVE  Sublist(n, l)
<1>1. PICK f \in [DOMAIN m -> DOMAIN l] :
        /\ \A i, j \in DOMAIN m : i < j => f[i] < f[j]
        /\ \A i \in DOMAIN m : m[i] = l[f[i]]
  BY DEF Sublist
<1>2. PICK g \in [DOMAIN n -> DOMAIN m] :
        /\ \A i, j \in DOMAIN n : i < j => g[i] < g[j]
        /\ \A i \in DOMAIN n : n[i] = m[g[i]]
  BY DEF Sublist
<1> DEFINE h == [i \in DOMAIN n |-> f[g[i]]]
<1>3. h \in [DOMAIN n -> DOMAIN l] /\ \A i \in DOMAIN n : h[i] = f[g[i]]
  OBVIOUS
<1> HIDE DEF h
<1>4. \A i, j \in DOMAIN n : i < j => h[i] < h[j]
  BY <1>1, <1>2, <1>3
<1>5. \A i \in DOMAIN n : n[i] = l[h[i]]
  BY <1>1, <1>2, <1>3
<1> QED BY <1>3, <1>4, <1>5 DEF Sublist

LEMMA SublistDeleted ==
    ASSUME NEW l \in Seq(Event_), NEW fd, NEW mask
    PROVE  Sublist(Loop!aeDeleteFileEvent(l, fd, mask), l)
<1> DEFINE same == {i \in DOMAIN l : l[i].fd = fd /\ l[i].mask = mask}
<1>1. CASE same = {}
  BY <1>1, SublistSelf DEF Loop!aeDeleteFileEvent
<1>2. CASE same # {}
  <2>1. same \in SUBSET Nat
    OBVIOUS
  <2>2. Loop!Least(same) \in 1..Len(l)
    <3> HIDE DEF same
    <3>1. \E x \in same : \A y \in same : x <= y
      BY <1>2, <2>1, NatMin
    <3>2. Loop!Least(same) \in same
      BY <3>1 DEF Loop!Least
    <3> QED BY <3>2 DEF same
  <2> QED BY <1>2, <2>2, SublistWithout DEF Loop!aeDeleteFileEvent
<1> QED BY <1>1, <1>2

LEMMA SublistUnwatched ==
    ASSUME NEW l \in Seq(Event_), Apart(l), NEW fd
    PROVE  Sublist(Unwatch(l, fd), l)
<1> DEFINE r == Loop!aeDeleteFileEvent(l, fd, {"r"})
<1>1. r \in Seq(Event_) /\ Sublist(r, l)
  BY EventDeleted, SublistDeleted
<1> HIDE DEF r
<1>2. Sublist(Loop!aeDeleteFileEvent(r, fd, {"w"}), r)
  BY <1>1, SublistDeleted
<1>3. Unwatch(l, fd) = Loop!aeDeleteFileEvent(r, fd, {"w"})
  BY DEF Unwatch, r
<1> QED BY <1>1, <1>2, <1>3, SublistOfSublist

(* The list that a callback leaves is the one of its contract. *)
LEMMA SameCardinality ==
    ASSUME NEW S
    PROVE  Loop!Cardinality(S) = Cardinality(S)
BY DEF Loop!Cardinality, Cardinality, Loop!IsFiniteSet, IsFiniteSet

LEMMA SublistIsOthers ==
    ASSUME NEW l \in Seq(Event_), Apart(l), NEW m \in Seq(Event_), Sublist(m, l), NEW gone,
           Elements(m) = {e \in Elements(l) : e.fd \notin gone}
    PROVE  m = Loop!Others(l, gone)
<1> DEFINE stay == {i \in DOMAIN l : l[i].fd \notin gone}
           n == Len(m)
<1>1. PICK f \in [DOMAIN m -> DOMAIN l] :
        /\ \A i, j \in DOMAIN m : i < j => f[i] < f[j]
        /\ \A i \in DOMAIN m : m[i] = l[f[i]]
  BY DEF Sublist
<1>2. DOMAIN m = 1..n /\ n \in Nat /\ DOMAIN l \subseteq Nat
  OBVIOUS
<1>3. \A i \in 1..n : f[i] \in stay
  <2>1. \A i \in 1..n : m[i] \in Elements(m)
    BY <1>2 DEF Elements
  <2> QED BY <1>1, <1>2, <2>1
<1>4. ASSUME NEW k \in stay PROVE \E i \in 1..n : f[i] = k
  <2>1. l[k] \in Elements(m)
    BY DEF Elements
  <2>2. PICK i \in 1..n : l[k] = m[i]
    BY <1>2, <2>1 DEF Elements
  <2>3. l[k] = l[f[i]] /\ f[i] \in DOMAIN l
    BY <1>1, <1>2, <2>2
  <2>4. f[i] = k
    BY <2>3 DEF Apart
  <2> QED BY <2>4
<1>14. \A i \in 1..n : f[i] \in Nat
  BY <1>2
<1> HIDE DEF n
<1>15. \A i, j \in 1..n : i < j => f[i] < f[j]
  BY <1>1, <1>2
<1>5. \A i, j \in 1..n : f[i] = f[j] => i = j
  BY <1>2, <1>14, <1>15
<1>6. \A i, j \in 1..n : f[i] <= f[j] <=> i <= j
  BY <1>2, <1>14, <1>15
<1> HIDE DEF stay
<1>7. ASSUME NEW i \in 0..n PROVE Cardinality({f[j] : j \in 1..i}) = i
  <2> DEFINE g == [j \in 1..i |-> f[j]]
  <2>1. IsFiniteSet(1..i) /\ Cardinality(1..i) = i
    BY <1>2, FS_Interval
  <2>2. g \in Bijection(1..i, {f[j] : j \in 1..i})
    <3>1. g \in [1..i -> {f[j] : j \in 1..i}] /\ \A j \in 1..i : g[j] = f[j]
      OBVIOUS
    <3> HIDE DEF g
    <3>2. \A j, k \in 1..i : g[j] = g[k] => j = k
      BY <1>2, <1>5, <3>1
    <3>3. \A x \in {f[j] : j \in 1..i} : \E j \in 1..i : g[j] = x
      BY <3>1
    <3> QED BY <3>1, <3>2, <3>3 DEF Bijection, Injection, Surjection, IsInjective
  <2> HIDE DEF g
  <2> QED BY <2>1, <2>2, FS_Bijection DEF ExistsBijection
<1>8. stay = {f[j] : j \in 1..n}
  BY <1>3, <1>4
<1>9. Cardinality(stay) = n
  BY <1>2, <1>7, <1>8
<1> DEFINE Upto(k) == {j \in stay : j <= k}
<1>10. ASSUME NEW i \in 1..n PROVE Cardinality(Upto(f[i])) = i
  <2>1. Upto(f[i]) = {f[j] : j \in 1..i}
    BY <1>2, <1>3, <1>4, <1>6
  <2>2. i \in 0..n
    BY <1>2
  <2> HIDE DEF Upto
  <2> QED BY <1>7, <2>1, <2>2
<1>11. ASSUME NEW i \in 1..n PROVE Loop!Nth(stay, i) = f[i]
  <2>1. Loop!Nth(stay, i) = CHOOSE k \in stay : Cardinality(Upto(k)) = i
    BY SameCardinality DEF Loop!Nth
  <2> HIDE DEF Upto
  <2>2. f[i] \in stay /\ Cardinality(Upto(f[i])) = i
    BY <1>3, <1>10
  <2>3. ASSUME NEW k \in stay, Cardinality(Upto(k)) = i PROVE k = f[i]
    <3>1. PICK h \in 1..n : f[h] = k
      BY <1>4
    <3>2. Cardinality(Upto(f[h])) = h
      BY <1>10
    <3> QED BY <2>3, <3>1, <3>2
  <2> QED BY <2>1, <2>2, <2>3
<1>12. Loop!Others(l, gone) = [i \in 1..Cardinality(stay) |-> l[Loop!Nth(stay, i)]]
  BY SameCardinality DEF Loop!Others, stay
<1>13. m = [i \in 1..n |-> l[f[i]]]
  <2>1. m = [i \in 1..n |-> m[i]]
    BY <1>2
  <2> QED BY <1>1, <1>2, <2>1
<1> QED BY <1>9, <1>11, <1>12, <1>13

(* t is s without the descriptors gone and the events on them. *)
Lost(s, t, gone) ==
    /\ gone \subseteq s.open /\ t.open = s.open \ gone
    /\ Sublist(t.events, s.events)
    /\ Elements(t.events) = {e \in Elements(s.events) : e.fd \notin gone}

LEMMA NothingLost ==
    ASSUME NEW s \in States
    PROVE  Lost(s, s, {})
<1>1. s.events \in Seq(Event_) /\ s.open \ {} = s.open
  BY DEF States
<1> QED BY <1>1, SublistSelf DEF Lost

LEMMA LostTwice ==
    ASSUME NEW s, NEW t, NEW u, NEW A, NEW B, Lost(s, t, A), Lost(t, u, B)
    PROVE  Lost(s, u, A \union B)
<1>1. A \union B \subseteq s.open /\ u.open = s.open \ (A \union B)
  BY DEF Lost
<1>2. Sublist(u.events, s.events)
  BY SublistOfSublist DEF Lost
<1>3. Elements(u.events) = {e \in Elements(s.events) : e.fd \notin A \union B}
  BY DEF Lost
<1> QED BY <1>1, <1>2, <1>3 DEF Lost

LEMMA FreeLoses ==
    ASSUME NEW s \in States, NEW tw, Linked(s, tw), s.fate = "up", NEW c \in LiveIn(s)
    PROVE  Lost(s, freeClient(s, c), {s.client[c].fd})
<1> DEFINE t == freeClient(s, c)
<1>1. Apart(s.events) /\ s.events \in Seq(Event_) /\ s.client[c].fd \in s.open
  BY DEF Linked, Descriptors, States
<1>2. t.events = Unwatch(s.events, s.client[c].fd) /\ t.open = s.open \ {s.client[c].fd}
  BY <1>1, FreedFields
<1> HIDE DEF t
<1>3. Sublist(t.events, s.events)
  BY <1>1, <1>2, SublistUnwatched
<1>4. Elements(t.events) = {e \in Elements(s.events) : e.fd # s.client[c].fd}
  BY <1>1, <1>2, Unwatched
<1> QED BY <1>1, <1>2, <1>3, <1>4 DEF Lost, t

----------------------------------------------------------------------------
(* The walk over the clients *)

(* The states it may reach from s. *)
Within(s, tw) ==
    {t \in States :
        /\ Fine(t, tw)
        /\ t.fate = "up" => Len(t.clients) <= Len(s.clients) /\ Len(t.slaves) <= Len(s.slaves)
        /\ t.fate = "hangs" => Len(s.clients) > 1 \/ Len(s.slaves) > 1
        /\ \E gone \in SUBSET s.open : Lost(s, t, gone)}

Close(t, c, idle) ==
    IF t.fate = "up" /\ c \in idle \intersect Slaves(t) THEN freeClient(t, c) ELSE t

LEMMA CloseKeeps ==
    ASSUME NEW s \in States, NEW tw, NEW t \in Within(s, tw), NEW c, NEW idle
    PROVE  Close(t, c, idle) \in Within(s, tw)
<1>1. SUFFICES ASSUME t.fate = "up", c \in Slaves(t)
               PROVE  freeClient(t, c) \in Within(s, tw)
  BY DEF Close
<1> DEFINE u == freeClient(t, c)
<1>2. /\ t \in States /\ Linked(t, tw) /\ c \in LiveIn(t)
      /\ t.clients \in Seq(Client) /\ t.slaves \in Seq(Client) /\ s.clients \in Seq(Client)
      /\ s.slaves \in Seq(Client) /\ Apart(t.events)
      /\ Len(t.clients) <= Len(s.clients) /\ Len(t.slaves) <= Len(s.slaves)
  BY <1>1 DEF Within, Fine, Slaves, LiveIn, States, Linked
<1>3. Fine(u, tw) /\ u \in States
  BY <1>1, <1>2, FreeKeeps DEF Fine
<1>4. ASSUME u.fate = "up"
      PROVE  Len(u.clients) <= Len(s.clients) /\ Len(u.slaves) <= Len(s.slaves)
  <2>1. /\ t.clients # <<>> /\ u.clients = listDelNode(t.clients, 1)
        /\ u.slaves = IF IsSlave(t, c) THEN listDelNode(t.slaves, 1) ELSE t.slaves
        /\ IsSlave(t, c) => t.slaves # <<>>
    BY <1>1, <1>2, <1>4, FreedFields
  <2>2. Len(u.clients) = Len(t.clients) - 1
    BY <1>2, <2>1, DeleteHead
  <2>3. Len(u.slaves) = Len(t.slaves) - 1 \/ Len(u.slaves) = Len(t.slaves)
    BY <1>2, <2>1, DeleteHead
  <2> HIDE DEF u
  <2>4. /\ Len(t.clients) \in Nat /\ Len(t.slaves) \in Nat
        /\ Len(s.clients) \in Nat /\ Len(s.slaves) \in Nat
    BY <1>2
  <2> QED BY <1>2, <2>2, <2>3, <2>4
<1>5. ASSUME u.fate = "hangs" PROVE Len(s.clients) > 1 \/ Len(s.slaves) > 1
  <2>1. Len(t.clients) > 1 \/ Len(t.slaves) > 1
    BY <1>1, <1>2, <1>5, FreeHangs
  <2>2. /\ Len(t.clients) \in Nat /\ Len(t.slaves) \in Nat
        /\ Len(s.clients) \in Nat /\ Len(s.slaves) \in Nat
    BY <1>2
  <2> QED BY <1>2, <2>1, <2>2
<1>6. \E gone \in SUBSET s.open : Lost(s, u, gone)
  <2>1. PICK gone \in SUBSET s.open : Lost(s, t, gone)
    BY DEF Within
  <2>2. Lost(t, u, {t.client[c].fd})
    BY <1>1, <1>2, FreeLoses
  <2>3. Lost(s, u, gone \union {t.client[c].fd})
    BY <2>1, <2>2, LostTwice
  <2> QED BY <2>3 DEF Lost
<1> HIDE DEF u
<1>7. u \in Within(s, tw)
  BY <1>3, <1>4, <1>5, <1>6 DEF Within
<1> QED BY <1>7 DEF u

(* The fold of closeTimeoutClients is a function on the sets of positions. *)
LEMMA SweepKeeps ==
    ASSUME NEW s \in States, NEW tw, Linked(s, tw), s.fate = "up", NEW idle
    PROVE  closeTimeoutClients(s, idle) \in Within(s, tw)
<1> DEFINE D == DOMAIN s.clients
           X == Within(s, tw)
           ch == [T \in SUBSET D |-> Max(T)]
           op == [p \in D \X X |-> Close(p[2], s.clients[p[1]], idle)]
           Walk(f, T) == IF T = {} THEN s ELSE Close(f[T \ {Max(T)}], s.clients[Max(T)], idle)
           iter == CHOOSE f : f = [T \in SUBSET D |-> Walk(f, T)]
           Good == {T \in SUBSET D : iter[T] \in X}
<1>1. s \in X
  BY NothingLost DEF Within, Fine, States
<1>2. IsFiniteSet(D) /\ D \subseteq Nat
  <2>1. D = 1..Len(s.clients) /\ Len(s.clients) \in Nat
    BY DEF States
  <2> QED BY <2>1, FS_Interval
<1>3. ASSUME NEW T \in SUBSET D, T # {} PROVE Max(T) \in T
  <2> HIDE DEF D
  <2>1. PICK x \in T : \A y \in T : x >= y
    <3>1. T \in SUBSET (0..Len(s.clients)) /\ Len(s.clients) \in Nat
      BY DEF States, D
    <3> QED BY <1>3, <3>1, NatMax
  <2> QED BY <2>1 DEF Max
<1>4. op \in [D \X X -> X]
  <2> HIDE DEF D, X
  <2>1. \A p \in D \X X : Close(p[2], s.clients[p[1]], idle) \in X
    BY CloseKeeps DEF X
  <2> QED BY <2>1
<1>5. \E f \in [SUBSET D -> X] : f = [T \in SUBSET D |-> Walk(f, T)]
  <2> HIDE DEF D, X
  <2>1. \A T \in SUBSET D : T # {} => ch[T] \in T
    BY <1>3
  <2> HIDE DEF op, ch
  <2>2. PICK f \in [SUBSET D -> X] : FoldsOver(f, D, s, op, ch)
    BY <1>1, <1>2, <1>4, <2>1, SubsetRecursion
  <2>3. ASSUME NEW T \in SUBSET D
        PROVE  (IF T = {} THEN s ELSE op[<<ch[T], f[T \ {ch[T]}]>>]) = Walk(f, T)
    <3>1. CASE T = {}
      BY <3>1
    <3>2. CASE T # {}
      <4>1. ch[T] = Max(T) /\ ch[T] \in D /\ f[T \ {ch[T]}] \in X
        BY <2>1, <3>2 DEF ch
      <4>2. op[<<ch[T], f[T \ {ch[T]}]>>] = Close(f[T \ {ch[T]}], s.clients[ch[T]], idle)
        BY <4>1 DEF op
      <4> QED BY <3>2, <4>1, <4>2
    <3> QED BY <3>1, <3>2
  <2> HIDE DEF Walk
  <2>4. f = [T \in SUBSET D |-> Walk(f, T)]
    BY <2>2, <2>3 DEF FoldsOver
  <2> QED BY <2>4
<1>6. iter = [T \in SUBSET D |-> Walk(iter, T)]
  <2> HIDE DEF Walk, D, X
  <2> QED BY <1>5
<1>7. closeTimeoutClients(s, idle) = iter[D]
  BY DEF closeTimeoutClients, FoldLeft, MapThenFoldSet, Close
<1> HIDE DEF iter
<1>8. \A T \in SUBSET D : T # {} /\ (\A x \in T : T \ {x} \in Good) => T \in Good
  <2> TAKE T \in SUBSET D
  <2> HAVE T # {} /\ \A x \in T : T \ {x} \in Good
  <2>1. Max(T) \in T /\ iter[T \ {Max(T)}] \in X
    BY <1>3
  <2>2. iter[T] = Close(iter[T \ {Max(T)}], s.clients[Max(T)], idle)
    <3>1. iter[T] = Walk(iter, T)
      <4> HIDE DEF Walk
      <4> QED BY <1>6
    <3> QED BY <3>1
  <2> HIDE DEF D
  <2>3. iter[T] \in X
    BY <2>1, <2>2, CloseKeeps
  <2> QED BY <2>3
<1>9. {} \in Good
  <2>1. iter[{}] = Walk(iter, {})
    <3> HIDE DEF Walk
    <3> QED BY <1>6
  <2> QED BY <1>1, <2>1
<1>10. D \in Good
  <2> HIDE DEF Good, D
  <2> QED BY <1>2, <1>8, <1>9, SubsetInduction
<1> QED BY <1>7, <1>10

----------------------------------------------------------------------------
(* The steps *)

(* What a step keeps, and when it hangs. *)
Hung == fate' = "hangs" => Len(clients) > 1 \/ Len(slaves) > 1
Kept == CInv' /\ Hung

LEMMA StateFields ==
    /\ State.events = fileEvents /\ State.open = open /\ State.client = client
    /\ State.clients = clients /\ State.slaves = slaves /\ State.master = master
    /\ State.replstate = replstate /\ State.fate = fate
BY DEF State

LEMMA Becoming ==
    ASSUME CInv, NEW t, Becomes(t), t \in States, Fine(t, twice'),
           t.fate = "hangs" => Len(clients) > 1 \/ Len(slaves) > 1,
           ready' \subseteq {p \in ready : p[1] \in open'}
    PROVE  Kept
<1>1. /\ fileEvents' = t.events /\ open' = t.open /\ client' = t.client
      /\ clients' = t.clients /\ slaves' = t.slaves
      /\ master' = t.master /\ replstate' = t.replstate /\ fate' = t.fate
  BY DEF Becomes
<1>2. State' = t
  BY <1>1 DEF State, States
<1>3. Fine(State', twice')
  BY <1>2
<1>4. ready' \subseteq open' \X Loop!Kinds
  BY DEF CInv
<1> QED BY <1>1, <1>3, <1>4 DEF CInv, Kept, Hung

(* The same for a step that leaves the server as it is. *)
LEMMA Unchanged ==
    ASSUME CInv, UNCHANGED <<fileEvents, open, ready, server>>
    PROVE  CInv'
BY DEF CInv, State, server, Loop!Kinds

LEMMA LeastOf ==
    ASSUME NEW S \in SUBSET Nat, S # {}
    PROVE  Loop!Least(S) \in S
<1>1. \E x \in S : \A y \in S : x <= y
  BY NatMin
<1> QED BY <1>1 DEF Loop!Least

LEMMA Accepted ==
    ASSUME NEW s, FreeFds(s) # {}
    PROVE  anetAccept(s) \in Fds \ s.open
<1>1. FreeFds(s) \in SUBSET Nat
  BY ClientsAssumption DEF FreeFds
<1>2. Loop!Least(FreeFds(s)) \in FreeFds(s)
  BY <1>1, LeastOf
<1> QED BY <1>2 DEF anetAccept, FreeFds

(* The event a callback is called for, and what it finds. *)
LEMMA EventCalled ==
    ASSUME CInv, NEW c, NEW kind, Calls(kind, c)
    PROVE  /\ fate = "up" /\ Event \in Elements(State.events) /\ Event.data = c
           /\ State \in States /\ Linked(State, twice)
<1>1. fate = "up" /\ Loop!Hits # {} /\ Event.data = c
  BY DEF Calls
<1>2. State \in States /\ Linked(State, twice)
  BY <1>1, StateFields DEF CInv, Fine
<1>3. Loop!Hits \in SUBSET DOMAIN fileEvents /\ DOMAIN fileEvents \subseteq Nat
  <2>1. fileEvents \in Seq(Event_)
    BY <1>2, StateFields DEF States
  <2> QED BY <2>1 DEF Loop!Hits
<1>4. Loop!Least(Loop!Hits) \in DOMAIN fileEvents
  BY <1>1, <1>3, LeastOf
<1>5. Event \in Elements(State.events)
  BY <1>4, StateFields DEF Event, Elements
<1> QED BY <1>1, <1>2, <1>5

(* The client is there. *)
LEMMA CalledFor ==
    ASSUME CInv, NEW c \in Client, NEW kind, Calls(kind, c)
    PROVE  c \in LiveIn(State) /\ State \in States /\ Linked(State, twice) /\ fate = "up"
<1>1. /\ fate = "up" /\ Event \in Elements(State.events) /\ Event.data = c
      /\ State \in States /\ Linked(State, twice)
  BY EventCalled
<1>2. Event.data = Server \/ Event.data \in LiveIn(State)
  BY <1>1 DEF Linked, Watching
<1> QED BY <1>1, <1>2, ClientsAssumption

LEMMA Returned ==
    ASSUME CInv, NEW used, NEW d, Return(used, d)
    PROVE  ready' \subseteq {p \in ready : p[1] \in open'}
BY DEF Return

LEMMA FreeSteps ==
    ASSUME CInv, NEW c \in Client, NEW kind, Calls(kind, c), Becomes(freeClient(State, c)),
           twice' = twice, ready' \subseteq {p \in ready : p[1] \in open'}
    PROVE  Kept
<1>1. PICK t : t = freeClient(State, c) /\ Becomes(t)
  BY DEF Becomes
<1>2. /\ c \in LiveIn(State) /\ State \in States /\ Linked(State, twice)
      /\ State.fate = "up"
  BY CalledFor, StateFields
<1>3. Fine(t, twice)
  BY <1>1, <1>2, FreeKeeps
<1>4. t.fate = "hangs" => Len(clients) > 1 \/ Len(slaves) > 1
  BY <1>1, <1>2, FreeHangs, StateFields
<1> QED BY <1>1, <1>3, <1>4, Becoming DEF Fine

LEMMA AcceptSteps ==
    ASSUME CInv, NEW d, acceptHandler(d)
    PROVE  Kept
<1> DEFINE cfd == anetAccept(State)
<1>1. /\ State \in States /\ Linked(State, twice) /\ State.fate = "up" /\ twice' = twice
  BY StateFields DEF CInv, Fine, acceptHandler, Calls
<1>2. ready' \subseteq {p \in ready : p[1] \in open'}
  BY Returned DEF acceptHandler
<1>3. CASE cfd # ANET_ERR /\ \E c \in FreeAddress(State) : Becomes(createClient(State, c, cfd))
  <2>1. cfd \in Fds \ State.open
    BY <1>3, Accepted DEF anetAccept
  <2>2. PICK c \in FreeAddress(State) : Becomes(createClient(State, c, cfd))
    BY <1>3
  <2>3. c \in Client \ LiveIn(State)
    BY DEF FreeAddress, LiveIn
  <2>4. PICK t : t = createClient(State, c, cfd) /\ Becomes(t)
    BY <2>2 DEF Becomes
  <2> HIDE DEF cfd
  <2>5. Fine(t, twice)
    BY <1>1, <2>1, <2>3, <2>4, CreateKeeps
  <2>6. t.fate = "up"
    BY <1>1, <2>1, <2>3, <2>4, CreatedFields
  <2> QED BY <1>1, <1>2, <2>4, <2>5, <2>6, Becoming DEF Fine
<1>4. CASE Becomes(State)
  <2>1. PICK t : t = State /\ Becomes(t)
    BY <1>4 DEF Becomes
  <2> QED BY <1>1, <1>2, <2>1, Becoming DEF Fine
<1> QED BY <1>3, <1>4 DEF acceptHandler

LEMMA ReplySteps ==
    ASSUME CInv, NEW d, NEW c \in Client, Reply(c, d)
    PROVE  Kept
<1>1. /\ c \in LiveIn(State) /\ State \in States /\ Linked(State, twice)
      /\ State.fate = "up"
  BY CalledFor, StateFields DEF Reply
<1>2. PICK n \in 1..client[c].reply : Becomes(sendReplyToClient(State, c, n))
  BY DEF Reply
<1>3. PICK t : t = sendReplyToClient(State, c, n) /\ Becomes(t)
  BY <1>2 DEF Becomes
<1>4. n \in 0..State.client[c].reply /\ State.client[c].reply > 0
  BY <1>1, <1>2, ReplyType, StateFields
<1> DEFINE r == Replies(State.client[c], State.client[c].reply - n)
<1>5. Answered(State, t, c, r)
  BY <1>1, <1>3, <1>4, SendAnswers
<1> HIDE DEF r
<1>6. Linked(t, twice)
  BY <1>1, <1>5, AnsweredLinks
<1>7. t \in States /\ t.fate = "up"
  BY <1>1, <1>5 DEF Answered
<1>8. ready' \subseteq {p \in ready : p[1] \in open'} /\ twice' = twice
  BY Returned DEF Reply
<1> QED BY <1>3, <1>6, <1>7, <1>8, Becoming DEF Fine

LEMMA ReadSteps ==
    ASSUME CInv, NEW d, NEW c \in Client, readQueryFromClient(c, d)
    PROVE  Kept
<1>1. /\ c \in LiveIn(State) /\ State \in States /\ Linked(State, twice)
      /\ State.fate = "up"
  BY CalledFor, StateFields DEF readQueryFromClient
<1>2. ready' \subseteq {p \in ready : p[1] \in open'}
  BY Returned DEF readQueryFromClient
<1>3. CASE Becomes(State) /\ twice' = twice
  <2>1. PICK t : t = State /\ Becomes(t)
    BY <1>3 DEF Becomes
  <2> QED BY <1>1, <1>2, <1>3, <2>1, Becoming DEF Fine
<1>4. CASE Becomes(freeClient(State, c)) /\ twice' = twice
  BY <1>2, <1>4, FreeSteps DEF readQueryFromClient
<1>5. CASE Becomes([State EXCEPT !.fate = "died"]) /\ twice' = twice
  <2>1. PICK t : t = [State EXCEPT !.fate = "died"] /\ Becomes(t)
    BY <1>5 DEF Becomes
  <2>2. t \in States /\ t.fate = "died"
    BY <1>1, <2>1 DEF States
  <2> QED BY <1>2, <2>1, <2>2, Becoming DEF Fine
<1>6. CASE client[c].reply < MaxReply /\ Becomes(addReply(State, c)) /\ twice' = twice
  <2>1. PICK t : t = addReply(State, c) /\ Becomes(t)
    BY <1>6 DEF Becomes
  <2>2. State.client[c].reply < MaxReply
    BY <1>6, StateFields
  <2>3. Fine(t, twice) /\ t.fate = "up"
    BY <1>1, <2>1, <2>2, AddReplyKeeps
  <2> QED BY <1>2, <1>6, <2>1, <2>3, Becoming DEF Fine
<1>7. ASSUME NEW saved \in BOOLEAN, NEW n \in 0..client[c].reply,
             Becomes(syncCommand(State, c, n, saved)),
             twice' = (twice \/ "slave" \in client[c].flags)
      PROVE  Kept
  <2>1. PICK t : t = syncCommand(State, c, n, saved) /\ Becomes(t)
    BY <1>7 DEF Becomes
  <2>2. AskedAgain(State, c, twice, twice')
    BY <1>7, StateFields DEF AskedAgain, IsSlave
  <2>3. n \in 0..State.client[c].reply
    BY <1>7, StateFields
  <2>4. Fine(t, twice') /\ t.fate = "up"
    BY <1>1, <2>1, <2>2, <2>3, SyncKeeps
  <2> QED BY <1>2, <2>1, <2>4, Becoming DEF Fine
<1> QED BY <1>3, <1>4, <1>5, <1>6, <1>7 DEF readQueryFromClient, processCommand

(* Whatever serverCron becomes. *)
LEMMA CronStates ==
    ASSUME NEW s \in States, NEW tw, NEW t \in Within(s, tw),
           NEW u \in IF t.replstate = "connect" /\ t.fate = "up"
                     THEN syncWithMaster(t) ELSE {t}
    PROVE  Fine(u, tw) /\ (u.fate = "hangs" => Len(s.clients) > 1 \/ Len(s.slaves) > 1)
<1>1. /\ t \in States /\ Fine(t, tw)
      /\ t.fate = "hangs" => Len(s.clients) > 1 \/ Len(s.slaves) > 1
  BY DEF Within
<1>2. CASE u = t
  BY <1>1, <1>2
<1>3. CASE u = [t EXCEPT !.fate = "stuck"]
  <2>1. u \in States /\ u.fate = "stuck"
    BY <1>1, <1>3 DEF States
  <2> QED BY <2>1 DEF Fine
<1>4. ASSUME NEW c \in FreeAddress(t), NEW fd \in anetTcpConnect(t) \ {ANET_ERR},
             u = Connected(t, c, fd), t.replstate = "connect", t.fate = "up"
      PROVE  Fine(u, tw) /\ u.fate = "up"
  <2>1. Linked(t, tw)
    BY <1>1, <1>4 DEF Fine
  <2>2. fd \in Fds \ t.open
    <3>1. fd = anetAccept(t) /\ fd # ANET_ERR
      BY DEF anetTcpConnect
    <3> QED BY <3>1, Accepted DEF anetAccept
  <2>3. c \in Client \ LiveIn(t)
    BY DEF FreeAddress, LiveIn
  <2>4. Fine(u, tw)
    BY <1>1, <1>4, <2>1, <2>2, <2>3, ConnectKeeps
  <2>5. createClient(t, c, fd) \in States /\ createClient(t, c, fd).fate = "up"
    BY <1>1, <1>4, <2>1, <2>2, <2>3, CreatedFields
  <2>6. Connected(t, c, fd).fate = createClient(t, c, fd).fate
    BY <2>5 DEF Connected, States
  <2> QED BY <1>4, <2>4, <2>5, <2>6
<1> QED BY <1>1, <1>2, <1>3, <1>4 DEF syncWithMaster

LEMMA CronSteps ==
    ASSUME CInv, NEW d, serverCron(d)
    PROVE  Kept
<1>1. /\ State \in States /\ Linked(State, twice) /\ State.fate = "up"
      /\ twice' = twice
  BY StateFields DEF CInv, Fine, serverCron
<1>2. PICK idle \in SUBSET Slaves(State) :
        LET swept == closeTimeoutClients(State, idle)
        IN  \E s \in IF swept.replstate = "connect" /\ swept.fate = "up"
                     THEN syncWithMaster(swept) ELSE {swept} : Becomes(s)
  BY DEF serverCron
<1> DEFINE swept == closeTimeoutClients(State, idle)
<1>3. PICK u \in IF swept.replstate = "connect" /\ swept.fate = "up"
                 THEN syncWithMaster(swept) ELSE {swept} : Becomes(u)
  BY <1>2
<1>4. swept \in Within(State, twice)
  BY <1>1, SweepKeeps
<1> HIDE DEF swept
<1>5. Fine(u, twice) /\ (u.fate = "hangs" => Len(clients) > 1 \/ Len(slaves) > 1)
  BY <1>1, <1>3, <1>4, CronStates, StateFields
<1>6. ready' \subseteq {p \in ready : p[1] \in open'}
  BY DEF serverCron
<1> QED BY <1>1, <1>3, <1>5, <1>6, Becoming DEF Fine

(* Peers act on what is open. *)
LEMMA PeerActsOnOpen ==
    ASSUME CInv, PeerActs
    PROVE  \E p \in open \X Loop!Kinds : p \notin ready /\ ready' = ready \union {p}
<1>1. /\ State \in States /\ Linked(State, twice)
  BY StateFields DEF CInv, Fine, PeerActs
<1>2. PICK p \in (Loop!Watched \union open \X {"r"}) \ ready : ready' = ready \union {p}
  BY DEF PeerActs
<1>3. p \in open \X Loop!Kinds
  <2>1. CASE p \in open \X {"r"}
    BY <2>1 DEF Loop!Kinds
  <2>2. CASE p \in Loop!Watched
    <3>1. PICK i \in DOMAIN fileEvents : p \in {fileEvents[i].fd} \X fileEvents[i].mask
      BY <2>2 DEF Loop!Watched
    <3>2. fileEvents[i] \in Event_ /\ fileEvents[i] \in Elements(State.events)
      BY <1>1, StateFields DEF States, Elements
    <3>3. fileEvents[i].fd \in open /\ fileEvents[i].mask \subseteq Loop!Kinds
      BY <1>1, <3>2, StateFields DEF Linked, Watching, Event_, Loop!Kinds
    <3> QED BY <3>1, <3>3
  <2> QED BY <1>2, <2>1, <2>2
<1> QED BY <1>2, <1>3

LEMMA PeerSteps ==
    ASSUME CInv, PeerActs
    PROVE  CInv'
<1>1. PICK p \in open \X Loop!Kinds : ready' = ready \union {p}
  BY PeerActsOnOpen
<1>2. UNCHANGED <<fileEvents, open, server>>
  BY DEF PeerActs
<1>3. State' = State /\ twice' = twice /\ open' = open
  BY <1>2 DEF State, server
<1> QED BY <1>1, <1>3 DEF CInv, Loop!Kinds

LEMMA CInvInit ==
    Init => CInv
<1> SUFFICES ASSUME Init PROVE CInv
  OBVIOUS
<1> DEFINE e == [fd |-> Listening, mask |-> {"r"}, data |-> Server]
<1>1. /\ State.events = <<e>> /\ State.open = {Listening}
      /\ State.client = [c \in Client |-> Nil] /\ State.clients = <<>> /\ State.slaves = <<>>
      /\ State.master = Nil /\ State.replstate = IF SlaveOf THEN "connect" ELSE "none"
      /\ State.fate = "up"
  BY DEF State, Init
<1>2. e \in Event_ /\ e.fd = Listening /\ e.data = Server /\ Listening \in Fds
  BY ClientsAssumption DEF Event_, Listening
<1>3. State \in States
  <2>1. <<e>> \in Seq(Event_)
    <3> HIDE DEF e
    <3> QED BY <1>2
  <2>2. State = [events |-> State.events, open |-> State.open, client |-> State.client,
                 clients |-> State.clients, slaves |-> State.slaves, master |-> State.master,
                 replstate |-> State.replstate, fate |-> State.fate]
    BY DEF State
  <2>3. /\ State.events \in Seq(Event_) /\ State.open \in SUBSET Fds
        /\ State.clients \in Seq(Client) /\ State.slaves \in Seq(Client)
        /\ State.master \in Client \union {Nil}
        /\ State.replstate \in {"none", "connect", "connected"}
        /\ State.fate \in {"up", "hangs", "stuck", "died"}
    <3> HIDE DEF e
    <3> QED BY <1>1, <1>2, <2>1
  <2>4. State.client \in [Client -> {Nil} \union redisClient]
    BY <1>1
  <2> HIDE DEF e
  <2> QED BY <2>2, <2>3, <2>4 DEF States
<1>4. LiveIn(State) = {} /\ Elements(State.clients) = {} /\ Elements(State.slaves) = {}
  BY <1>1 DEF LiveIn, Elements
<1>5. Elements(State.events) = {e} /\ Apart(State.events)
  <2> HIDE DEF e
  <2> QED BY <1>1 DEF Elements, Apart
<1>6. Watching(State, {e}) /\ Descriptors(State)
  <2> HIDE DEF e
  <2> QED BY <1>1, <1>2, <1>4 DEF Watching, Descriptors
<1>7. Listed(State, twice)
  BY <1>1, <1>4 DEF Listed, IsInjective
<1>8. Mastered(State)
  BY <1>1, <1>4 DEF Mastered
<1>9. Linked(State, twice)
  BY <1>5, <1>6, <1>7, <1>8 DEF Linked
<1> QED BY <1>3, <1>9 DEF Fine, CInv, Init

LEMMA StepsKeep ==
    CInv /\ [Next]_vars => CInv' /\ (fate = "up" => UNCHANGED fate \/ Hung)
<1> SUFFICES ASSUME CInv, [Next]_vars
             PROVE  CInv' /\ (fate = "up" => UNCHANGED fate \/ Hung)
  OBVIOUS
<1>1. CASE Turn
  <2>1. UNCHANGED <<fileEvents, open, ready, server>>
    BY <1>1 DEF Turn, Loop!Begin, Loop!SelectTimeout, Loop!SelectReady, Loop!FilesDone,
                Loop!TimersDone
  <2> QED BY <2>1, Unchanged DEF server
<1>2. CASE Wait
  <2>1. UNCHANGED <<fileEvents, open, ready, server>>
    BY <1>2 DEF Wait, Loop!Wait
  <2> QED BY <2>1, Unchanged DEF server
<1>3. CASE PeerActs
  BY <1>3, PeerSteps DEF PeerActs, server
<1>4. CASE UNCHANGED vars
  <2>1. UNCHANGED <<fileEvents, open, ready, server>>
    BY <1>4 DEF vars, loop
  <2> QED BY <2>1, Unchanged DEF server
<1>5. CASE Callbacks
  <2>1. PICK d \in 0..Slow :
          \/ acceptHandler(d)
          \/ \E c \in Client : ReadFails(c, d) \/ readQueryFromClient(c, d) \/ Reply(c, d)
          \/ serverCron(d)
    BY <1>5 DEF Callbacks
  <2>2. ASSUME NEW c \in Client, ReadFails(c, d) PROVE Kept
    <3>1. Calls("r", c) /\ Becomes(freeClient(State, c)) /\ twice' = twice
      BY <2>2 DEF ReadFails
    <3>2. ready' \subseteq {p \in ready : p[1] \in open'}
      BY <2>2, Returned DEF ReadFails
    <3> QED BY <3>1, <3>2, FreeSteps
  <2>3. Kept
    BY <2>1, <2>2, AcceptSteps, ReadSteps, ReplySteps, CronSteps
  <2> QED BY <2>3 DEF Kept
<1> QED BY <1>1, <1>2, <1>3, <1>4, <1>5 DEF Next

(* What the run checks of a state follows from the invariant. *)
LEMMA CInvAlways ==
    Spec => []CInv
BY CInvInit, StepsKeep, PTL DEF Spec

----------------------------------------------------------------------------
(* What follows for the properties *)

LEMMA LinksMatch ==
    CInv => EventsMatchClients /\ ListsMatchClients /\ MasterIsAlive
<1> SUFFICES ASSUME CInv, fate = "up"
             PROVE  EventsMatchClients /\ ListsMatchClients /\ MasterIsAlive
  BY Zenon DEF EventsMatchClients, ListsMatchClients, MasterIsAlive
<1> DEFINE E == Elements(fileEvents)
<1>1. /\ State \in States /\ Linked(State, twice) /\ LiveIn(State) = Live
      /\ Live \subseteq Client
  BY StateFields DEF CInv, Fine, LiveIn, Live
<1>2. /\ Apart(fileEvents) /\ Watching(State, E) /\ Descriptors(State)
      /\ Listed(State, twice) /\ Mastered(State) /\ fileEvents \in Seq(Event_)
  BY <1>1, StateFields DEF Linked, States
<1>3. \A i \in DOMAIN fileEvents : fileEvents[i] \in E
  BY DEF Elements
<1>4. ASSUME NEW i \in DOMAIN fileEvents
      PROVE  LET e == fileEvents[i] IN
             \/ e.data = Server /\ e.fd = Listening
             \/ e.data \in Live /\ client[e.data].fd = e.fd
  BY <1>1, <1>2, <1>3, StateFields DEF Watching
<1>5. ASSUME NEW c \in Live, NEW k \in Loop!Kinds
      PROVE  Cardinality({i \in DOMAIN fileEvents : fileEvents[i].data = c
                                                    /\ fileEvents[i].mask = {k}})
               = IF k = "r" \/ client[c].reply > 0 THEN 1 ELSE 0
  <2> DEFINE S == {i \in DOMAIN fileEvents : fileEvents[i].data = c /\ fileEvents[i].mask = {k}}
             Waiting == client[c].reply > 0
  <2>1. \A i, j \in S : i = j
    <3>1. \A i \in S : fileEvents[i].fd = client[c].fd
      BY <1>1, <1>4, ClientsAssumption
    <3> QED BY <1>2, <3>1 DEF Apart
  <2>2. S # {} <=> \E e \in E : e.data = c /\ e.mask = {k}
    BY <1>3 DEF Elements
  <2>3. S # {} <=> k = "r" \/ Waiting
    <3> DEFINE Has(m) == \E e \in E : e.data = c /\ e.mask = {m}
    <3>1. Has("r")
      BY <1>1, <1>2 DEF Watching
    <3>2. Waiting <=> Has("w")
      <4>1. State.client[c].reply > 0 <=> Has("w")
        BY <1>1, <1>2 DEF Watching
      <4> QED BY <4>1, StateFields
    <3>3. k = "r" \/ k = "w"
      BY DEF Loop!Kinds
    <3>4. S # {} <=> Has(k)
      BY <2>2
    <3> HIDE DEF S, Waiting, Has
    <3> QED BY <3>1, <3>2, <3>3, <3>4
  <2>4. CASE S = {}
    <3>1. Cardinality(S) = 0
      BY <2>4, FS_EmptySet
    <3> HIDE DEF S, Waiting
    <3>2. (IF k = "r" \/ Waiting THEN 1 ELSE 0) = 0
      BY <2>3, <2>4
    <3> QED BY <3>1, <3>2 DEF S, Waiting
  <2>5. CASE S # {}
    <3>1. PICK i : S = {i}
      BY <2>1, <2>5, ZenonT(60)
    <3>2. Cardinality(S) = 1
      BY <3>1, FS_Singleton
    <3> HIDE DEF S, Waiting
    <3>3. (IF k = "r" \/ Waiting THEN 1 ELSE 0) = 1
      BY <2>3, <2>5
    <3> QED BY <3>2, <3>3 DEF S, Waiting
  <2> QED BY <2>4, <2>5
<1>6. \A b, c \in Live : client[b].fd = client[c].fd => b = c
  BY <1>1, <1>2, StateFields DEF Descriptors
<1>7. EventsMatchClients
  BY <1>4, <1>5, <1>6, Zenon DEF EventsMatchClients
<1>8. ToSet(clients) = Elements(clients) /\ ToSet(slaves) = Elements(slaves)
  BY DEF ToSet, Elements
<1>9. IsInjective(clients) /\ ToSet(clients) = Live
  BY <1>1, <1>2, <1>8, StateFields DEF Listed
<1>10. ASSUME ~twice
       PROVE  /\ IsInjective(slaves)
              /\ ToSet(slaves) = {c \in Live : "slave" \in client[c].flags}
  <2>1. /\ IsInjective(slaves)
        /\ \A c \in Elements(slaves) : c \in Live /\ IsSlave(State, c)
        /\ \A c \in Live : IsSlave(State, c) => c \in Elements(slaves)
    BY <1>1, <1>2, <1>10, StateFields DEF Listed
  <2>2. \A c : IsSlave(State, c) <=> "slave" \in client[c].flags
    BY StateFields DEF IsSlave
  <2> QED BY <1>8, <2>1, <2>2
<1>11. ListsMatchClients
  BY <1>9, <1>10 DEF ListsMatchClients
<1>12. {c \in Live : "master" \in client[c].flags} = {master} \ {Nil}
  <2>1. \A c \in Live : IsMaster(State, c) <=> "master" \in client[c].flags
    BY StateFields DEF IsMaster
  <2>2. /\ \A c \in Live : IsMaster(State, c) <=> c = master
        /\ master # Nil => master \in Live
    BY <1>1, <1>2, StateFields DEF Mastered
  <2>3. Nil \notin Live
    BY <1>1, ClientsAssumption
  <2> QED BY <2>1, <2>2, <2>3
<1>13. MasterIsAlive
  BY <1>2, <1>12, StateFields DEF MasterIsAlive, Mastered
<1> QED BY <1>7, <1>11, <1>13

(* Whatever the order of accepts, reads, answers and frees, and however     *)
(* descriptors and addresses are reused, the event loop has exactly the     *)
(* events of the clients that exist.                                        *)
THEOREM LoopPointsToClients ==
    Spec => []EventsMatchClients
BY CInvAlways, LinksMatch, PTL

(* server.clients has each client once, and so has server.slaves each slave *)
(* unless one asked for SYNC again.                                         *)
THEOREM ListsPointToClients ==
    Spec => []ListsMatchClients
BY CInvAlways, LinksMatch, PTL

(* server.master is the client of the connection to the master, and there   *)
(* is one exactly in the state REDIS_REPL_CONNECTED.                        *)
THEOREM MasterPointsToClient ==
    Spec => []MasterIsAlive
BY CInvAlways, LinksMatch, PTL

(* freeClient does not hang the server as long as there is no second client *)
(* and no second slave.                                                     *)
THEOREM AloneNothingHangs ==
    Spec => HangsBehindAnother
<1>1. CInv /\ [Next]_vars => [fate = "up" /\ fate' = "hangs" => Len(clients) > 1 \/ Len(slaves) > 1]_vars
  BY StepsKeep DEF Hung
<1> QED BY <1>1, CInvAlways, PTL DEF Spec, HangsBehindAnother

----------------------------------------------------------------------------
(* The contract of the loop's callbacks *)

(* The list has room for an event that is not in it. *)
LEMMA RoomForEvent ==
    ASSUME NEW l \in Seq(Event_), Apart(l), NEW fd \in Fds, NEW mask \in {{"r"}, {"w"}},
           \A e \in Elements(l) : ~Named(e, fd, mask)
    PROVE  Len(l) < 2 * Cardinality(Fds)
<1> DEFINE M == {{"r"}, {"w"}}
           all == Fds \X M
           T == all \ {<<fd, mask>>}
           f == [i \in 1..Len(l) |-> <<l[i].fd, l[i].mask>>]
<1>1. IsFiniteSet(Fds) /\ IsFiniteSet(M) /\ Cardinality(M) = 2
  <2> DEFINE R == {"r"}
             W == {"w"}
  <2>1. R # W /\ M = {R, W}
    OBVIOUS
  <2> HIDE DEF R, W, M
  <2>2. IsFiniteSet({R}) /\ Cardinality({R}) = 1
    BY FS_Singleton
  <2>3. M = {R} \union {W} /\ W \notin {R}
    BY <2>1
  <2>4. IsFiniteSet({R} \union {W}) /\ Cardinality({R} \union {W}) = 1 + 1
    BY <2>2, <2>3, FS_AddElement
  <2>5. IsFiniteSet(M) /\ Cardinality(M) = 2
    BY <2>3, <2>4
  <2> QED BY <2>5, ClientsAssumption
<1>2. IsFiniteSet(all) /\ Cardinality(all) = Cardinality(Fds) * 2
  <2> HIDE DEF M
  <2> QED BY <1>1, FS_Product
<1>3. IsFiniteSet(T) /\ Cardinality(T) = Cardinality(all) - 1 /\ <<fd, mask>> \in all
  <2>1. <<fd, mask>> \in all
    OBVIOUS
  <2> HIDE DEF all
  <2> QED BY <1>2, <2>1, FS_RemoveElement
<1>4. ASSUME NEW i \in 1..Len(l) PROVE f[i] \in T
  <2>1. l[i] \in Event_ /\ l[i] \in Elements(l)
    BY DEF Elements
  <2>2. l[i].fd \in Fds /\ l[i].mask \in M
    BY <2>1 DEF Event_
  <2>3. <<l[i].fd, l[i].mask>> # <<fd, mask>>
    BY <2>1 DEF Named
  <2> QED BY <2>2, <2>3
<1>5. ASSUME NEW i \in 1..Len(l), NEW j \in 1..Len(l), f[i] = f[j] PROVE i = j
  <2>1. l[i].fd = l[j].fd /\ l[i].mask = l[j].mask
    BY <1>5
  <2> QED BY <2>1 DEF Apart
<1>6. DOMAIN f = 1..Len(l) /\ f \in [1..Len(l) -> T]
  <2>1. f = [i \in 1..Len(l) |-> f[i]]
    OBVIOUS
  <2> HIDE DEF T, f
  <2> QED BY <1>4, <2>1
<1> HIDE DEF T, f, all
<1>7. f \in Injection(1..Len(l), T)
  BY <1>5, <1>6 DEF Injection, IsInjective
<1>8. Cardinality(1..Len(l)) <= Cardinality(T)
  BY <1>3, <1>7, FS_Injection
<1>9. Len(l) \in Nat /\ Cardinality(1..Len(l)) = Len(l) /\ Cardinality(Fds) \in Nat
  <2>1. Len(l) \in Nat
    OBVIOUS
  <2>2. Cardinality(1..Len(l)) = IF 1 > Len(l) THEN 0 ELSE Len(l) - 1 + 1
    BY <2>1, FS_Interval
  <2>3. Cardinality(Fds) \in Nat
    BY <1>1, FS_CardinalityType
  <2> QED BY <2>1, <2>2, <2>3
<1> QED BY <1>2, <1>3, <1>8, <1>9

(* Closing, whatever was closed. *)
LEMMA ClosingAllowed ==
    ASSUME State \in States, Apart(fileEvents), NEW u \in States, NEW gone, NEW mine,
           NEW closable, gone \subseteq closable, Lost(State, u, gone),
           fileEvents' = u.events, open' = u.open
    PROVE  Loop!Callback(closable, mine)
<1>1. fileEvents \in Seq(Event_) /\ u.events \in Seq(Event_)
  BY StateFields DEF States
<1>2. /\ Sublist(u.events, fileEvents) /\ u.open = open \ gone /\ gone \subseteq open
      /\ Elements(u.events) = {e \in Elements(fileEvents) : e.fd \notin gone}
  BY StateFields DEF Lost
<1>3. u.events = Loop!Others(fileEvents, gone)
  BY <1>1, <1>2, SublistIsOthers
<1>4. gone \in SUBSET (closable \intersect open)
  BY <1>2
<1> QED BY <1>2, <1>3, <1>4 DEF Loop!Callback

(* Closing and then creating an event. *)
LEMMA CreatingAllowed ==
    ASSUME State \in States, Apart(fileEvents), NEW t \in States, Apart(t.events),
           NEW gone, NEW mine, NEW closable, gone \subseteq closable, Lost(State, t, gone),
           NEW fd \in Fds, fd \in mine \/ fd \notin t.open,
           NEW kind \in {"r", "w"}, NEW data \in Client \union {Server},
           \A e \in Elements(t.events) : ~Named(e, fd, {kind}),
           fileEvents' = Loop!aeCreateFileEvent(t.events, fd, {kind}, data),
           open' = t.open \union {fd}
    PROVE  Loop!Callback(closable, mine)
<1>1. fileEvents \in Seq(Event_) /\ t.events \in Seq(Event_)
  BY StateFields DEF States
<1>2. /\ Sublist(t.events, fileEvents) /\ t.open = open \ gone /\ gone \subseteq open
      /\ Elements(t.events) = {e \in Elements(fileEvents) : e.fd \notin gone}
  BY StateFields DEF Lost
<1>3. t.events = Loop!Others(fileEvents, gone)
  BY <1>1, <1>2, SublistIsOthers
<1>4. gone \in SUBSET (closable \intersect open)
  BY <1>2
<1>5. Len(t.events) < 2 * Cardinality(Fds)
  BY <1>1, RoomForEvent
<1>6. \A i \in DOMAIN t.events : <<t.events[i].fd, t.events[i].mask>> # <<fd, {kind}>>
  BY DEF Elements, Named
<1>7. fd \in (Fds \ (open \ gone)) \union mine /\ kind \in Loop!Kinds
  BY <1>2 DEF Loop!Kinds
<1> QED BY <1>2, <1>3, <1>4, <1>5, <1>6, <1>7 DEF Loop!Callback

(* Deleting the event of the writable kind. *)
LEMMA DeletingAllowed ==
    ASSUME State \in States, NEW e \in Elements(fileEvents), NEW mine, e.fd \in mine,
           e.mask = {"w"}, NEW closable,
           fileEvents' = Loop!aeDeleteFileEvent(fileEvents, e.fd, {"w"}), open' = open
    PROVE  Loop!Callback(closable, mine)
<1>1. PICK i \in DOMAIN fileEvents : fileEvents[i] = e
  BY DEF Elements
<1>2. <<e.fd, "w">> \in Loop!Watched
  BY <1>1 DEF Loop!Watched
<1>3. {} \in SUBSET (closable \intersect open)
  OBVIOUS
<1>4. \E w \in Loop!Watched :
        /\ {} = {} /\ w[1] \in mine
        /\ fileEvents' = Loop!aeDeleteFileEvent(fileEvents, w[1], {w[2]})
        /\ open' = open
  BY <1>2
<1> QED BY <1>3, <1>4 DEF Loop!Callback

(* Where the callback stands: its event is that of the client. *)
LEMMA CalledAt ==
    ASSUME CInv, NEW c \in Client, NEW kind, Calls(kind, c)
    PROVE  /\ State \in States /\ Apart(fileEvents) /\ Event.fd \in open
           /\ Event.fd = State.client[c].fd
<1>1. /\ Event \in Elements(State.events) /\ Event.data = c
      /\ State \in States /\ Linked(State, twice)
  BY EventCalled
<1>2. Watching(State, Elements(State.events)) /\ Apart(fileEvents)
  BY <1>1, StateFields DEF Linked
<1>3. Event.fd \in State.open /\ State.client[c].fd = Event.fd
  BY <1>1, <1>2, ClientsAssumption DEF Watching
<1> QED BY <1>1, <1>2, <1>3, StateFields

LEMMA CalledAtListening ==
    ASSUME CInv, NEW kind, Calls(kind, Server)
    PROVE  /\ State \in States /\ Linked(State, twice) /\ State.fate = "up"
           /\ Apart(fileEvents) /\ Event.fd = Listening
<1>1. /\ fate = "up" /\ Event \in Elements(State.events) /\ Event.data = Server
      /\ State \in States /\ Linked(State, twice)
  BY EventCalled
<1>2. Watching(State, Elements(State.events)) /\ Apart(fileEvents)
  BY <1>1, StateFields DEF Linked
<1>3. Server \notin LiveIn(State)
  BY ClientsAssumption DEF LiveIn
<1>4. Event.fd = Listening
  BY <1>1, <1>2, <1>3 DEF Watching
<1> QED BY <1>1, <1>2, <1>4, StateFields

(* A file callback that returns is a step of the loop. *)
LEMMA FileReturns ==
    ASSUME CInv, NEW d \in 0..Slow, NEW used, Return(used, d),
           used \subseteq {Event.fd} \X Loop!Kinds, phase = "files", Loop!Hits # {},
           Loop!Callback({Event.fd}, {Event.fd})
    PROVE  Loop!Turn
<1>1. Loop!Consume({Event.fd})
  <2>1. ready' = {p \in ready \ used : p[1] \in open \intersect open'}
    <3>1. ready' = {p \in ready \ used : p[1] \in open'}
      BY DEF Return
    <3>2. \A p \in ready : p[1] \in open
      BY DEF CInv
    <3> QED BY <3>1, <3>2
  <2> QED BY <2>1 DEF Loop!Consume
<1>2. /\ set' = Loop!FdClear(Event.fd) /\ timeEvents' = Loop!Later(timeEvents, d)
      /\ UNCHANGED <<timeEventNextId, phase, flags, maxId, wild, skips>>
  BY DEF Return
<1>3. Event.fd = fileEvents[Loop!Least(Loop!Hits)].fd
  BY DEF Event
<1>4. Loop!FileCall(d)
  BY <1>1, <1>2, <1>3 DEF Loop!FileCall
<1> QED BY <1>4 DEF Loop!Turn

(* The handlers of file events. *)
LEMMA FreeAllowed ==
    ASSUME CInv, NEW c \in Client, NEW kind, Calls(kind, c), Becomes(freeClient(State, c))
    PROVE  Loop!Callback({Event.fd}, {Event.fd})
<1>1. PICK t : t = freeClient(State, c) /\ Becomes(t)
  BY DEF Becomes
<1>2. /\ c \in LiveIn(State) /\ State \in States /\ Linked(State, twice)
      /\ State.fate = "up" /\ Apart(fileEvents) /\ Event.fd = State.client[c].fd
  BY CalledFor, CalledAt, StateFields
<1>3. Lost(State, t, {Event.fd}) /\ t \in States
  BY <1>1, <1>2, FreeLoses, FreeKeeps DEF Fine
<1>4. fileEvents' = t.events /\ open' = t.open
  BY <1>1 DEF Becomes
<1> QED BY <1>2, <1>3, <1>4, ClosingAllowed

LEMMA StayAllowed ==
    ASSUME State \in States, Apart(fileEvents), UNCHANGED <<fileEvents, open>>,
           NEW closable, NEW mine
    PROVE  Loop!Callback(closable, mine)
<1>1. Lost(State, State, {})
  BY NothingLost
<1>2. {} \subseteq closable
  OBVIOUS
<1> QED BY <1>1, <1>2, ClosingAllowed, StateFields

LEMMA AddReplyAllowed ==
    ASSUME CInv, NEW c \in Client, NEW kind, Calls(kind, c), Becomes(addReply(State, c)),
           client[c].reply < MaxReply
    PROVE  Loop!Callback({Event.fd}, {Event.fd})
<1> DEFINE fd == State.client[c].fd
           l == IF State.client[c].reply = 0
                THEN Loop!aeCreateFileEvent(State.events, fd, {"w"}, c) ELSE State.events
<1>1. /\ c \in LiveIn(State) /\ State \in States /\ Linked(State, twice)
      /\ Apart(fileEvents) /\ Event.fd = fd /\ fd \in open
  BY CalledFor, CalledAt, StateFields
<1>2. addReply(State, c).events = l /\ addReply(State, c).open = State.open
  BY <1>1 DEF addReply, States
<1>3. fileEvents' = l /\ open' = open
  BY <1>2, StateFields DEF Becomes
<1>4. CASE State.client[c].reply = 0
  <2>1. \A e \in Elements(State.events) : ~Named(e, fd, {"w"})
    BY <1>1, <1>4, WaitingEvent
  <2>2. Lost(State, State, {}) /\ {} \subseteq {Event.fd}
    BY <1>1, NothingLost
  <2>3. fileEvents' = Loop!aeCreateFileEvent(State.events, fd, {"w"}, c)
    BY <1>3, <1>4
  <2>4. fd \in Fds /\ open' = State.open \union {fd}
    BY <1>1, <1>3, ReplyType, StateFields
  <2> HIDE DEF fd, l
  <2>5. "w" \in {"r", "w"} /\ c \in Client \union {Server} /\ fd \in {Event.fd}
    BY <1>1
  <2> QED BY <1>1, <2>1, <2>2, <2>3, <2>4, <2>5, CreatingAllowed, StateFields
<1>5. CASE State.client[c].reply # 0
  BY <1>1, <1>3, <1>5, StayAllowed, StateFields
<1> QED BY <1>4, <1>5

(* Sending may take the writable event back. *)
LEMMA SendAllowed ==
    ASSUME CInv, NEW c \in Client, NEW kind, Calls(kind, c), NEW n,
           client[c].reply > 0, open' = open,
           fileEvents' = sendReplyToClient(State, c, n).events
    PROVE  Loop!Callback({Event.fd}, {Event.fd})
<1> DEFINE fd == State.client[c].fd
           l == IF n = State.client[c].reply
                THEN Loop!aeDeleteFileEvent(State.events, fd, {"w"}) ELSE State.events
<1>1. /\ c \in LiveIn(State) /\ State \in States /\ Linked(State, twice)
      /\ Apart(fileEvents) /\ Event.fd = fd /\ fd \in open
  BY CalledFor, CalledAt, StateFields
<1>2. sendReplyToClient(State, c, n).events = l
  BY <1>1 DEF sendReplyToClient, States
<1>3. Pending(fd, c) \in Elements(fileEvents)
  BY <1>1, WaitingEvent, StateFields
<1>4. Pending(fd, c).fd = fd /\ Pending(fd, c).mask = {"w"}
  BY DEF Pending
<1>5. CASE n = State.client[c].reply
  <2>1. fileEvents' = Loop!aeDeleteFileEvent(fileEvents, fd, {"w"})
    BY <1>2, <1>5, StateFields
  <2> HIDE DEF fd, l
  <2> QED BY <1>1, <1>3, <1>4, <2>1, DeletingAllowed
<1>6. CASE n # State.client[c].reply
  BY <1>1, <1>2, <1>6, StayAllowed, StateFields
<1> QED BY <1>5, <1>6

LEMMA SyncAllowed ==
    ASSUME CInv, NEW c \in Client, NEW kind, Calls(kind, c), NEW saved \in BOOLEAN,
           NEW n \in 0..client[c].reply, Becomes(syncCommand(State, c, n, saved))
    PROVE  Loop!Callback({Event.fd}, {Event.fd})
<1>1. /\ c \in LiveIn(State) /\ State \in States /\ Linked(State, twice)
      /\ Apart(fileEvents)
  BY CalledFor, CalledAt, StateFields
<1> DEFINE u == IF State.client[c].reply = 0 THEN State ELSE sendReplyToClient(State, c, n)
           t == syncCommand(State, c, n, saved)
<1>2. u \in States /\ u.open = State.open
  <2>1. CASE State.client[c].reply = 0
    BY <1>1, <2>1
  <2>2. CASE State.client[c].reply # 0
    <3>1. State.client[c].reply > 0 /\ n \in 0..State.client[c].reply
      BY <1>1, <2>2, ReplyType, StateFields
    <3> QED BY <1>1, <2>2, <3>1, SendAnswers DEF Answered
  <2> QED BY <2>1, <2>2
<1>3. t = u \/ t = Enslaved(u, c)
  BY DEF syncCommand, Enslaved
<1>4. t.events = u.events /\ t.open = u.open
  <2> HIDE DEF t, u
  <2> QED BY <1>2, <1>3 DEF Enslaved, States
<1>5. fileEvents' = u.events /\ open' = open
  BY <1>2, <1>4, StateFields DEF Becomes
<1>6. CASE State.client[c].reply = 0
  BY <1>1, <1>5, <1>6, StayAllowed, StateFields
<1>7. CASE State.client[c].reply # 0
  <2>1. client[c].reply > 0
    BY <1>1, <1>7, ReplyType, StateFields
  <2> QED BY <1>5, <1>7, <2>1, SendAllowed
<1> QED BY <1>6, <1>7

LEMMA AcceptTurns ==
    ASSUME CInv, NEW d \in 0..Slow, acceptHandler(d)
    PROVE  Loop!Turn
<1> DEFINE cfd == anetAccept(State)
           M == {Event.fd}
<1>1. Calls("r", Server) /\ phase = "files" /\ Loop!Hits # {}
  BY DEF acceptHandler, Calls
<1>2. /\ State \in States /\ Linked(State, twice) /\ State.fate = "up" /\ Apart(fileEvents)
      /\ Event.fd = Listening
  BY <1>1, CalledAtListening
<1>3. ASSUME cfd # ANET_ERR, NEW c \in FreeAddress(State), Becomes(createClient(State, c, cfd)),
             Return({<<Listening, "r">>}, d)
      PROVE  Loop!Turn
  <2>1. cfd \in Fds \ State.open
    BY <1>3, Accepted DEF anetAccept
  <2>2. c \in Client
    BY DEF FreeAddress
  <2> HIDE DEF cfd
  <2>3. createClient(State, c, cfd).events = Loop!aeCreateFileEvent(State.events, cfd, {"r"}, c)
        /\ createClient(State, c, cfd).open = State.open \union {cfd}
    BY <1>2 DEF createClient, States
  <2>4. /\ fileEvents' = Loop!aeCreateFileEvent(State.events, cfd, {"r"}, c)
        /\ open' = State.open \union {cfd}
    BY <1>3, <2>3 DEF Becomes
  <2>5. \A e \in Elements(State.events) : ~Named(e, cfd, {"r"})
    BY <1>2, <2>1 DEF Linked, Watching, Named
  <2>6. Lost(State, State, {}) /\ {} \subseteq M
    BY <1>2, NothingLost
  <2>7. "r" \in {"r", "w"} /\ c \in Client \union {Server} /\ cfd \notin State.open
    BY <2>1, <2>2
  <2>8. Loop!Callback(M, M)
    <3> HIDE DEF M
    <3> QED BY <1>2, <2>1, <2>4, <2>5, <2>6, <2>7, CreatingAllowed, StateFields
  <2>9. {<<Listening, "r">>} \subseteq M \X Loop!Kinds
    BY <1>2 DEF Loop!Kinds
  <2> QED BY <1>1, <1>3, <2>8, <2>9, FileReturns
<1>4. ASSUME Becomes(State), Return({}, d) PROVE Loop!Turn
  <2>1. fileEvents' = fileEvents /\ open' = open
    BY <1>4, StateFields DEF Becomes
  <2>2. Loop!Callback(M, M)
    BY <1>2, <2>1, StayAllowed
  <2>3. {} \subseteq M \X Loop!Kinds
    OBVIOUS
  <2> QED BY <1>1, <1>4, <2>2, <2>3, FileReturns
<1> QED BY <1>3, <1>4 DEF acceptHandler

LEMMA ClientTurns ==
    ASSUME CInv, NEW d \in 0..Slow, NEW c \in Client,
           ReadFails(c, d) \/ readQueryFromClient(c, d) \/ Reply(c, d)
    PROVE  Loop!Turn
<1> DEFINE M == {Event.fd}
<1>1. PICK kind \in {"r", "w"} : Calls(kind, c)
  BY DEF ReadFails, readQueryFromClient, Reply
<1>2. phase = "files" /\ Loop!Hits # {}
  BY <1>1 DEF Calls
<1>3. State \in States /\ Apart(fileEvents) /\ c \in LiveIn(State)
  BY <1>1, CalledAt, CalledFor
<1>5. CASE ReadFails(c, d)
  <2>1. Loop!Callback(M, M)
    BY <1>1, <1>5, FreeAllowed DEF ReadFails
  <2>2. Return({<<Event.fd, "r">>}, d)
    BY <1>5 DEF ReadFails
  <2>3. {<<Event.fd, "r">>} \subseteq M \X Loop!Kinds
    BY DEF Loop!Kinds
  <2> QED BY <1>2, <2>1, <2>2, <2>3, FileReturns
<1>6. CASE Reply(c, d)
  <2>1. PICK n \in 1..client[c].reply : Becomes(sendReplyToClient(State, c, n))
    BY <1>6 DEF Reply
  <2>2. sendReplyToClient(State, c, n).open = State.open
    BY <1>3 DEF sendReplyToClient, States
  <2>3. fileEvents' = sendReplyToClient(State, c, n).events /\ open' = open
    BY <2>1, <2>2, StateFields DEF Becomes
  <2>4. client[c].reply > 0
    BY <1>3, <2>1, ReplyType, StateFields
  <2>5. Loop!Callback(M, M)
    BY <1>1, <2>3, <2>4, SendAllowed
  <2>6. Return({<<Event.fd, "w">>}, d)
    BY <1>6 DEF Reply
  <2>7. {<<Event.fd, "w">>} \subseteq M \X Loop!Kinds
    BY DEF Loop!Kinds
  <2> QED BY <1>2, <2>5, <2>6, <2>7, FileReturns
<1>7. CASE readQueryFromClient(c, d)
  <2> DEFINE used == {<<Event.fd, "r">>} \union
              (IF client'[c] # Nil /\ client'[c].reply = 0 THEN {<<Event.fd, "w">>} ELSE {})
  <2>1. Return(used, d) /\ processCommand(c)
    BY <1>7 DEF readQueryFromClient
  <2>2. used \subseteq M \X Loop!Kinds
    BY DEF Loop!Kinds
  <2> HIDE DEF used
  <2>3. CASE Becomes(State) \/ Becomes([State EXCEPT !.fate = "died"])
    <3>1. [State EXCEPT !.fate = "died"].events = State.events
          /\ [State EXCEPT !.fate = "died"].open = State.open
      BY DEF State
    <3>2. fileEvents' = fileEvents /\ open' = open
      BY <2>3, <3>1, StateFields DEF Becomes
    <3>3. Loop!Callback(M, M)
      BY <1>3, <3>2, StayAllowed
    <3> QED BY <1>2, <2>1, <2>2, <3>3, FileReturns
  <2>4. CASE Becomes(freeClient(State, c))
    <3>1. Loop!Callback(M, M)
      BY <1>1, <2>4, FreeAllowed
    <3> QED BY <1>2, <2>1, <2>2, <3>1, FileReturns
  <2>5. CASE client[c].reply < MaxReply /\ Becomes(addReply(State, c))
    <3>1. Loop!Callback(M, M)
      BY <1>1, <2>5, AddReplyAllowed
    <3> QED BY <1>2, <2>1, <2>2, <3>1, FileReturns
  <2>6. ASSUME NEW saved \in BOOLEAN, NEW n \in 0..client[c].reply,
               Becomes(syncCommand(State, c, n, saved))
        PROVE  Loop!Turn
    <3>1. Loop!Callback(M, M)
      BY <1>1, <2>6, SyncAllowed
    <3> QED BY <1>2, <2>1, <2>2, <3>1, FileReturns
  <2> QED BY <2>1, <2>3, <2>4, <2>5, <2>6 DEF processCommand
<1> QED BY <1>5, <1>6, <1>7

(* serverCron closes idle slaves and may open a connection to the master. *)
LEMMA CronAllowed ==
    ASSUME CInv, NEW d, serverCron(d)
    PROVE  Loop!Callback(Fds, {})
<1>1. /\ State \in States /\ Linked(State, twice) /\ State.fate = "up" /\ Apart(fileEvents)
  BY StateFields DEF CInv, Fine, serverCron, Linked
<1>2. PICK idle \in SUBSET Slaves(State) :
        LET swept == closeTimeoutClients(State, idle)
        IN  \E s \in IF swept.replstate = "connect" /\ swept.fate = "up"
                     THEN syncWithMaster(swept) ELSE {swept} : Becomes(s)
  BY DEF serverCron
<1> DEFINE t == closeTimeoutClients(State, idle)
<1>3. PICK u \in IF t.replstate = "connect" /\ t.fate = "up"
                 THEN syncWithMaster(t) ELSE {t} : Becomes(u)
  BY <1>2
<1>4. t \in Within(State, twice)
  BY <1>1, SweepKeeps
<1> HIDE DEF t
<1>5. t \in States /\ Fine(t, twice)
  BY <1>4 DEF Within
<1>6. PICK gone \in SUBSET State.open : Lost(State, t, gone)
  BY <1>4 DEF Within
<1>7. gone \subseteq Fds
  BY <1>1, <1>6 DEF States
<1>8. fileEvents' = u.events /\ open' = u.open
  BY <1>3 DEF Becomes
<1>9. CASE u = t \/ u = [t EXCEPT !.fate = "stuck"]
  <2>1. u.events = t.events /\ u.open = t.open
    BY <1>5, <1>9 DEF States
  <2> QED BY <1>1, <1>5, <1>6, <1>7, <1>8, <2>1, ClosingAllowed
<1>10. ASSUME NEW c \in FreeAddress(t), NEW fd \in anetTcpConnect(t) \ {ANET_ERR},
              u = Connected(t, c, fd), t.fate = "up"
       PROVE  Loop!Callback(Fds, {})
  <2>1. Linked(t, twice) /\ Apart(t.events)
    BY <1>5, <1>10 DEF Fine, Linked
  <2>2. fd \in Fds \ t.open
    <3>1. fd = anetAccept(t) /\ fd # ANET_ERR
      BY DEF anetTcpConnect
    <3> QED BY <3>1, Accepted DEF anetAccept
  <2>3. c \in Client \ LiveIn(t)
    BY DEF FreeAddress, LiveIn
  <2>4. createClient(t, c, fd) \in States
    BY <1>5, <2>1, <2>2, <2>3, CreatedFields
  <2>5. /\ createClient(t, c, fd).events = Loop!aeCreateFileEvent(t.events, fd, {"r"}, c)
        /\ createClient(t, c, fd).open = t.open \union {fd}
    BY <1>5 DEF createClient, States
  <2>6. u.events = createClient(t, c, fd).events /\ u.open = createClient(t, c, fd).open
    BY <1>10, <2>4 DEF Connected, States
  <2>7. \A e \in Elements(t.events) : ~Named(e, fd, {"r"})
    BY <2>1, <2>2 DEF Linked, Watching, Named
  <2>8. "r" \in {"r", "w"} /\ c \in Client \union {Server}
    BY <2>3
  <2> QED BY <1>1, <1>5, <1>6, <1>7, <1>8, <2>1, <2>2, <2>5, <2>6, <2>7, <2>8, CreatingAllowed
<1> QED BY <1>3, <1>9, <1>10 DEF syncWithMaster

LEMMA CronTurns ==
    ASSUME CInv, NEW d \in 0..Slow, serverCron(d)
    PROVE  Loop!Turn
<1>1. Loop!Callback(Fds, {})
  BY CronAllowed
<1>2. /\ phase = "timers" /\ Loop!Due # {}
      /\ Loop!Rearm(Loop!Later(timeEvents, d), timeEvents[Loop!Least(Loop!Due)].id, CronDelay)
      /\ ready' = {p \in ready : p[1] \in open \intersect open'}
      /\ UNCHANGED <<timeEventNextId, phase, flags, set, maxId, skips>>
  BY DEF serverCron
<1>3. Loop!Consume({})
  <2>1. {} \in SUBSET ({} \X Loop!Kinds) /\ ready \ {} = ready
    OBVIOUS
  <2> QED BY <1>2, <2>1 DEF Loop!Consume
<1>4. CronDelay \in {CronDelay} \union {Loop!NOMORE}
  OBVIOUS
<1>5. Loop!TimeCall(d)
  BY <1>1, <1>2, <1>3, <1>4 DEF Loop!TimeCall
<1> QED BY <1>5 DEF Loop!Turn

LEMMA LoopStarts ==
    Init => Loop!Init
<1> SUFFICES ASSUME Init PROVE Loop!Init
  OBVIOUS
<1> DEFINE e == [fd |-> Listening, mask |-> {"r"}, data |-> Server]
           f == [id |-> 0, when |-> CronDelay]
<1>1. fileEvents = <<e>> /\ timeEvents = <<f>>
  BY DEF Init
<1>2. <<e>> = <<e>> \o <<>> /\ <<f>> = <<f>> \o <<>>
  <2> HIDE DEF e, f
  <2> QED OBVIOUS
<1>3. /\ fileEvents = Loop!aeCreateFileEvent(<<>>, Listening, {"r"}, Server)
      /\ timeEvents = Loop!aeCreateTimeEvent(<<>>, 0, CronDelay)
  BY <1>1, <1>2 DEF Loop!aeCreateFileEvent, Loop!aeCreateTimeEvent
<1>4. Listening \in Fds /\ Server \in Client \union {Server} /\ CronDelay \in {CronDelay}
  BY ClientsAssumption DEF Listening
<1>5. \E fd \in Fds, data \in Client \union {Server}, ms \in {CronDelay} :
        /\ open = {fd}
        /\ fileEvents = Loop!aeCreateFileEvent(<<>>, fd, {"r"}, data)
        /\ timeEvents = Loop!aeCreateTimeEvent(<<>>, 0, ms)
  BY <1>3, <1>4 DEF Init
<1> QED BY <1>5 DEF Loop!Init, Init

LEMMA LoopSteps ==
    CInv /\ [Next]_vars => [Loop!Next]_(Loop!vars)
<1> SUFFICES ASSUME CInv, [Next]_vars PROVE Loop!Next \/ UNCHANGED Loop!vars
  OBVIOUS
<1>1. CASE Turn
  <2>1. PICK d \in {0, 1} : \/ Loop!Begin({"file", "time"}, d) \/ Loop!SelectTimeout(d)
                            \/ Loop!SelectReady \/ Loop!FilesDone \/ Loop!TimersDone
    BY <1>1 DEF Turn
  <2>2. Loop!Turn
    BY <2>1 DEF Loop!Turn
  <2> QED BY <2>2 DEF Loop!Next
<1>2. CASE Wait
  BY <1>2 DEF Wait, Loop!Next
<1>3. CASE PeerActs
  BY <1>3, PeerActsOnOpen DEF PeerActs, Loop!BecomeReady, Loop!Next
<1>4. CASE Callbacks
  <2>1. PICK d \in 0..Slow :
          \/ acceptHandler(d)
          \/ \E c \in Client : ReadFails(c, d) \/ readQueryFromClient(c, d) \/ Reply(c, d)
          \/ serverCron(d)
    BY <1>4 DEF Callbacks
  <2>2. Loop!Turn
    BY <2>1, AcceptTurns, ClientTurns, CronTurns
  <2> QED BY <2>2 DEF Loop!Next
<1>5. CASE UNCHANGED vars
  BY <1>5 DEF vars, loop, Loop!vars, Loop!loop
<1> QED BY <1>1, <1>2, <1>3, <1>4, <1>5 DEF Next

(* The handlers of redis.c keep the contract of the event loop: what is    *)
(* proved of EventLoop holds of the server.                                *)
THEOREM LoopImplemented == Spec => ImplementsLoop
<1>1. Init => Loop!Init
  BY LoopStarts
<1>2. CInv /\ [Next]_vars => [Loop!Next]_(Loop!vars)
  BY LoopSteps
<1> QED BY <1>1, <1>2, CInvAlways, PTL DEF Spec, ImplementsLoop, Loop!Spec
=============================================================================
