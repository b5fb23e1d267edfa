------------------------------ MODULE Clients ------------------------------
(***************************************************************************)
(* The handlers redis.c hands to its event loop: accepting, reading,       *)
(* answering and freeing clients, and the part of serverCron that closes   *)
(* clients and connects to a master.  Composed with EventLoop: the steps   *)
(* of a turn are those of EventLoop, its callbacks the functions of        *)
(* redis.c.                                                                *)
(*                                                                         *)
(* The server is one thread; a callback is one step.  It is a composition  *)
(* of the functions it calls, each of which maps a server state (a record  *)
(* of what they share) to the next.                                        *)
(***************************************************************************)
EXTENDS Integers, FiniteSets, SequencesExt

CONSTANTS
    Client,        \* addresses of a redisClient
    Server,        \* the clientData of the accept event, which is NULL
    Nil,           \* NULL
    Fds,           \* descriptors; the first is the listening socket
    SlaveOf,       \* the configuration has a slaveof line
    CronDelay,     \* 1000 ms
    MaxReply,      \* bound: objects in a reply list
    Slow           \* bound: milliseconds a callback takes

redisClient == [fd : Fds, reply : 0..MaxReply, flags : SUBSET {"slave", "master"}]

ASSUME ClientsAssumption ==
    /\ Fds \subseteq Nat /\ 0 \in Fds /\ IsFiniteSet(Fds)
    /\ Cardinality(Client) >= Cardinality(Fds) - 1
    /\ Server \notin Client /\ Nil \notin Client \union redisClient
    /\ CronDelay \in Nat \ {0} /\ MaxReply \in Nat \ {0} /\ Slow \in Nat

VARIABLES
    fileEvents, timeEvents, timeEventNextId, open, ready, phase, flags, set,
    maxId, wild, skips,    \* those of EventLoop
    client,     \* the redisClient at each address, or Nil
    clients,    \* server.clients
    slaves,     \* server.slaves
    master,     \* server.master
    replstate,  \* REDIS_REPL_NONE, _CONNECT, _CONNECTED
    fate,       \* the process is up, hangs in listSearchKey, is stuck in
                \* dumpMasterRDB, or died
    twice       \* history: a client asked for SYNC again

Loop == INSTANCE EventLoop WITH
    Data <- Client \union {Server}, Delays <- {CronDelay}, NewDelays <- {CronDelay},
    FlagSets <- {{"file", "time"}}, MaxEvents <- 2 * Cardinality(Fds), MaxTimers <- 1

loop == <<fileEvents, timeEvents, timeEventNextId, open, ready, phase, flags,
          set, maxId, wild, skips>>
server == <<client, clients, slaves, master, replstate, fate, twice>>
vars == <<loop, server>>

Listening == 0
Live == {c \in Client : client[c] # Nil}

----------------------------------------------------------------------------
(* What the functions share *)

State == [events |-> fileEvents, open |-> open, client |-> client, clients |-> clients,
          slaves |-> slaves, master |-> master, replstate |-> replstate, fate |-> fate]

Becomes(s) == \E t \in {s} :
    /\ fileEvents' = t.events /\ open' = t.open /\ client' = t.client
    /\ clients' = t.clients /\ slaves' = t.slaves
    /\ master' = t.master /\ replstate' = t.replstate /\ fate' = t.fate

listAddNodeTail(l, c) == Append(l, c)
listDelNode(l, i) == Loop!Without(l, i)

(* listSearchKey compares its first node again and again: it finds what is *)
(* at the head, finds nothing in an empty list, and ends in no other case. *)
listSearchKey(l, c) ==
    IF l = <<>> THEN "null" ELSE IF Head(l) = c THEN "found" ELSE "endless"

Fate(search) == CASE search = "found" -> "up"
                  [] search = "null" -> "died"      \* assert(node != NULL)
                  [] search = "endless" -> "hangs"

(* A writable event is left behind; ...                                    *)
UnwatchRead(l, fd) == Loop!aeDeleteFileEvent(l, fd, {"r"})
(* ... or both are, as no event has this mask.                             *)
UnwatchBoth(l, fd) == Loop!aeDeleteFileEvent(l, fd, {"r", "w"})
Unwatch(l, fd) == Loop!aeDeleteFileEvent(Loop!aeDeleteFileEvent(l, fd, {"r"}), fd, {"w"})

IsSlave(s, c) == "slave" \in s.client[c].flags
IsMaster(s, c) == "master" \in s.client[c].flags

ForgetLast(s, c) == [s EXCEPT !.clients = Front(@), !.client[c] = Nil]
ForgetNotSlave(s, c) == [s EXCEPT !.clients = Tail(@), !.client[c] = Nil]
ForgetNotMaster(s, c) ==
    [s EXCEPT !.clients = Tail(@), !.client[c] = Nil,
              !.slaves = IF IsSlave(s, c) THEN Tail(@) ELSE @,
              !.master = IF IsMaster(s, c) THEN Nil ELSE @]
Forget(s, c) ==
    [s EXCEPT !.clients = listDelNode(@, 1), !.client[c] = Nil,
              !.slaves = IF IsSlave(s, c) THEN listDelNode(@, 1) ELSE @,
              !.master = IF IsMaster(s, c) THEN Nil ELSE @,
              !.replstate = IF IsMaster(s, c) THEN "connect" ELSE @]

freeClient(s, c) ==
    LET fd == s.client[c].fd
        closed == [s EXCEPT !.events = Unwatch(@, fd), !.open = @ \ {fd}]
        inClients == Fate(listSearchKey(s.clients, c))
        inSlaves == IF IsSlave(s, c) THEN Fate(listSearchKey(s.slaves, c)) ELSE "up"
    IN  IF inClients # "up" THEN [closed EXCEPT !.fate = inClients]
        ELSE IF inSlaves # "up" THEN [closed EXCEPT !.fate = inSlaves, !.clients = listDelNode(@, 1)]
        ELSE Forget(closed, c)

createClient(s, c, fd) ==
    [s EXCEPT
        !.open = @ \union {fd},
        !.client[c] = [fd |-> fd, reply |-> 0, flags |-> {}],
        !.events = Loop!aeCreateFileEvent(@, fd, {"r"}, c),
        !.clients = listAddNodeTail(@, c)]

(* A client that is not read while replies wait for it.                    *)
addReplyOnly(s, c) ==
    [s EXCEPT
        !.events = Loop!aeCreateFileEvent(UnwatchRead(@, s.client[c].fd), s.client[c].fd, {"w"}, c),
        !.client[c].reply = @ + 1]

(* The writable event is there while the list is not empty.                *)
addReply(s, c) ==
    [s EXCEPT
        !.events = IF s.client[c].reply = 0
                   THEN Loop!aeCreateFileEvent(@, s.client[c].fd, {"w"}, c) ELSE @,
        !.client[c].reply = @ + 1]

(* One object more than was sent.                                          *)
sendReplyToClientSkips(s, c, n) ==
    [s EXCEPT
        !.events = IF n = s.client[c].reply
                   THEN Loop!aeDeleteFileEvent(@, s.client[c].fd, {"w"}) ELSE @,
        !.client[c].reply = @ - n - 1]

(* Not defined at this commit: sends n of the objects, and takes back what *)
(* addReply registered when none is left.                                  *)
sendReplyToClient(s, c, n) ==
    [s EXCEPT
        !.events = IF n = s.client[c].reply
                   THEN Loop!aeDeleteFileEvent(@, s.client[c].fd, {"w"}) ELSE @,
        !.client[c].reply = @ - n]

(* flushClientOutput sends everything, or gives up after a part of it; the *)
(* save and the transfer come after it, and only the save is checked.      *)
syncCommand(s, c, n, saved) ==
    LET flushed == IF s.client[c].reply = 0 THEN s ELSE sendReplyToClient(s, c, n)
    IN  IF flushed.client[c].reply > 0 \/ ~saved THEN flushed
        ELSE [flushed EXCEPT !.client[c].flags = @ \union {"slave"},
                             !.slaves = listAddNodeTail(@, c)]

(* Frees slaves that were idle for more than maxidletime, and spares other *)
(* clients.  The walk takes the next node before it frees this one.        *)
Slaves(s) == {c \in Client : s.client[c] # Nil /\ "slave" \in s.client[c].flags}
closeTimeoutClients(s, idle) ==
    LET Close(t, c) ==
            IF t.fate = "up" /\ c \in idle \intersect Slaves(t) THEN freeClient(t, c) ELSE t
    IN  FoldLeft(Close, s, s.clients)

FreeAddress(s) == {c \in Client : s.client[c] = Nil}
FreeFds(s) == Fds \ s.open

ANET_ERR == -1
(* The least free descriptor, if there is one; a connection may fail too.  *)
anetAccept(s) == IF FreeFds(s) = {} THEN ANET_ERR ELSE Loop!Least(FreeFds(s))
anetTcpConnect(s) == {ANET_ERR, anetAccept(s)}

----------------------------------------------------------------------------
(* File events *)

Event == fileEvents[Loop!Least(Loop!Hits)]
Calls(kind, c) ==
    fate = "up" /\ phase = "files" /\ Loop!Hits # {}
    /\ Event.mask = {kind} /\ Event.data = c

(* What processedFileEvent does after the callback, d milliseconds later.  *)
Return(used, d) ==
    /\ set' = Loop!FdClear(Event.fd)
    /\ timeEvents' = Loop!Later(timeEvents, d)
    /\ ready' = {p \in ready \ used : p[1] \in open'}
    /\ UNCHANGED <<timeEventNextId, phase, flags, maxId, wild, skips>>

(* accept() fails without a free descriptor, and the connection stays.     *)
acceptHandler(d) ==
    /\ Calls("r", Server)
    /\ LET cfd == anetAccept(State)
       IN  \/ /\ cfd # ANET_ERR
              /\ \E c \in FreeAddress(State) : Becomes(createClient(State, c, cfd))
              /\ Return({<<Listening, "r">>}, d)
           \/ cfd = ANET_ERR /\ Becomes(State) /\ Return({}, d)
    /\ UNCHANGED twice

(* A read error or the end of the stream.                                  *)
ReadFails(c, d) ==
    /\ Calls("r", c)
    /\ Becomes(freeClient(State, c))
    /\ Return({<<Event.fd, "r">>}, d)
    /\ UNCHANGED twice

(* Data, which may complete a command.  The parsing of a request line and  *)
(* the call of the command are missing at this commit: a command is taken  *)
(* to answer or to be SYNC.  An unknown one passes the test `c == NULL`    *)
(* that was meant for it, and NULL is dereferenced.                        *)
processCommand(c) ==
    \/ Becomes(State) /\ twice' = twice                              \* incomplete
    \/ Becomes(freeClient(State, c)) /\ twice' = twice                \* QUIT
    \/ Becomes([State EXCEPT !.fate = "died"]) /\ twice' = twice      \* unknown
    \/ /\ client[c].reply < MaxReply
       /\ Becomes(addReply(State, c)) /\ twice' = twice
    \/ \E saved \in BOOLEAN, n \in 0..client[c].reply :
       /\ "slave" \in client[c].flags => Len(slaves) < Cardinality(Client)
       /\ Becomes(syncCommand(State, c, n, saved))
       /\ twice' = (twice \/ "slave" \in client[c].flags)

readQueryFromClient(c, d) ==
    /\ Calls("r", c) /\ client[c] # Nil
    /\ processCommand(c)
    /\ Return({<<Event.fd, "r">>} \union
              (IF client'[c] # Nil /\ client'[c].reply = 0 THEN {<<Event.fd, "w">>} ELSE {}), d)

Reply(c, d) ==
    /\ Calls("w", c) /\ client[c] # Nil
    /\ \E n \in 1..client[c].reply : Becomes(sendReplyToClient(State, c, n))
    /\ Return({<<Event.fd, "w">>}, d)
    /\ UNCHANGED twice

----------------------------------------------------------------------------
(* The time event *)

(* Fails, succeeds, or waits for ever for the rest of a dump.              *)
Connected(s, c, fd) ==
    [createClient(s, c, fd) EXCEPT
        !.client[c].flags = {"master"}, !.master = c, !.replstate = "connected"]
syncWithMaster(s) ==
    {s, [s EXCEPT !.fate = "stuck"]} \union
    {Connected(s, c, fd) : c \in FreeAddress(s), fd \in anetTcpConnect(s) \ {ANET_ERR}}

serverCron(d) ==
    /\ fate = "up" /\ phase = "timers" /\ Loop!Due # {}
    /\ \E idle \in SUBSET Slaves(State) :
       LET swept == closeTimeoutClients(State, idle)
       IN  \E s \in IF swept.replstate = "connect" /\ swept.fate = "up"
                    THEN syncWithMaster(swept) ELSE {swept} : Becomes(s)
    /\ Loop!Rearm(Loop!Later(timeEvents, d), timeEvents[Loop!Least(Loop!Due)].id, CronDelay)
    /\ ready' = {p \in ready : p[1] \in open \intersect open'}
    /\ UNCHANGED <<timeEventNextId, phase, flags, set, maxId, skips, twice>>

----------------------------------------------------------------------------
(* The rest of a turn, and the world outside *)

Turn ==
    /\ fate = "up"
    /\ \/ \E d \in {0, 1} : Loop!Begin({"file", "time"}, d) \/ Loop!SelectTimeout(d)
       \/ Loop!SelectReady \/ Loop!FilesDone \/ Loop!TimersDone
    /\ UNCHANGED server

Wait == fate = "up" /\ Loop!Wait /\ UNCHANGED server

(* A peer connects, sends, closes, or makes room for what waits for it.    *)
(* Only select looks at that, so it may as well happen there.              *)
PeerActs ==
    /\ fate = "up" /\ phase = "select"
    /\ \E p \in (Loop!Watched \union open \X {"r"}) \ ready : ready' = ready \union {p}
    /\ UNCHANGED <<fileEvents, timeEvents, timeEventNextId, open, phase, flags, set,
                   maxId, wild, skips, server>>

(* initServer and main, up to aeMain.                                      *)
Init ==
    /\ fileEvents = <<[fd |-> Listening, mask |-> {"r"}, data |-> Server]>>
    /\ timeEvents = <<[id |-> 0, when |-> CronDelay]>>
    /\ timeEventNextId = 1 /\ open = {Listening} /\ ready = {} /\ phase = "top"
    /\ flags = {} /\ set = {} /\ maxId = -1 /\ wild = FALSE /\ skips = 0
    /\ client = [c \in Client |-> Nil] /\ clients = <<>> /\ slaves = <<>>
    /\ master = Nil /\ replstate = IF SlaveOf THEN "connect" ELSE "none"
    /\ fate = "up" /\ twice = FALSE

Callbacks ==
    \E d \in 0..Slow :
        \/ acceptHandler(d)
        \/ \E c \in Client : ReadFails(c, d) \/ readQueryFromClient(c, d) \/ Reply(c, d)
        \/ serverCron(d)

Next ==
    Turn \/ Callbacks \/ Wait \/ PeerActs

Spec == Init /\ [][Next]_vars

(* The process runs and the clock moves as long as it neither died nor     *)
(* hangs; peers owe nothing.  Every step of Turn, Callbacks and Wait       *)
(* changes one of the three variables, and one is always enabled.          *)
FairSpec == Spec /\ (<>[](fate # "up") \/ []<><<TRUE>>_<<phase, set, timeEvents>>)

----------------------------------------------------------------------------
(* Properties *)

TypeOK ==
    /\ Loop!TypeOK
    /\ client \in [Client -> {Nil} \union redisClient]
    /\ clients \in Seq(Client) /\ slaves \in Seq(Client) /\ master \in Client \union {Nil}
    /\ replstate \in {"none", "connect", "connected"}
    /\ fate \in {"up", "hangs", "stuck", "died"} /\ twice \in BOOLEAN

(* The loop calls back with pointers to clients that exist: across         *)
(* accepts, frees and reused descriptors and addresses, each client has    *)
(* one readable event, a writable one while replies wait, and no more.     *)
EventsMatchClients ==
    fate = "up" =>
    /\ \A i \in DOMAIN fileEvents :
        LET e == fileEvents[i] IN
        \/ e.data = Server /\ e.fd = Listening
        \/ e.data \in Live /\ client[e.data].fd = e.fd
    /\ \A c \in Live : \A k \in Loop!Kinds :
        Cardinality({i \in DOMAIN fileEvents : fileEvents[i].data = c /\ fileEvents[i].mask = {k}})
            = IF k = "r" \/ client[c].reply > 0 THEN 1 ELSE 0
    /\ \A b, c \in Live : client[b].fd = client[c].fd => b = c

(* server.clients has each client once.  server.slaves has the clients     *)
(* that are slaves, once unless one asked for SYNC twice, after which it   *)
(* holds a freed client when that one leaves.                              *)
ListsMatchClients ==
    fate = "up" =>
    /\ IsInjective(clients) /\ ToSet(clients) = Live
    /\ ~twice => /\ IsInjective(slaves)
                 /\ ToSet(slaves) = {c \in Live : "slave" \in client[c].flags}

(* A server that is told to be a slave is connected exactly while it has a *)
(* client for its master; a lost master is looked for again.               *)
MasterIsAlive ==
    fate = "up" =>
    /\ replstate = "connected" <=> master # Nil
    /\ {c \in Live : "master" \in client[c].flags} = {master} \ {Nil}

(* freeClient hangs the server in listSearchKey, but never as long as      *)
(* there is no other client and no other slave: the lists lose exactly     *)
(* whom the searches found.                                                *)
HangsBehindAnother ==
    [][fate = "up" /\ fate' = "hangs" => Len(clients) > 1 \/ Len(slaves) > 1]_vars

(* Whoever waits is heard: a socket with something to read is read, also   *)
(* if replies to the same client are being sent, unless the server stops   *)
(* or has no descriptor left for a new connection.                         *)
ReadersAreServed ==
    \A fd \in Fds : <<fd, "r">> \in ready ~>
        <<fd, "r">> \notin ready \/ fate # "up" \/ (fd = Listening /\ FreeFds(State) = {})

(* The handlers keep the contract of the loop's callbacks.                 *)
ImplementsLoop == Loop!Spec
=============================================================================
