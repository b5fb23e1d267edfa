----------------------------- MODULE EventLoop -----------------------------
(***************************************************************************)
(* The event loop of ae.c: its lists of file and time events, one turn of  *)
(* aeProcessEvents after the other, and callbacks that change the lists    *)
(* they are called from.                                                   *)
(*                                                                         *)
(* What a callback does to the lists is left open up to the contract of    *)
(* Callback, which Clients shows the handlers of redis.c to keep.  Time is *)
(* relative: an event's `when` is the number of milliseconds left, and -1  *)
(* stands for every overdue one.                                           *)
(***************************************************************************)
EXTENDS Integers, FiniteSets, Sequences

CONSTANTS
    Fds,
    Data,       \* fileProc and clientData of a file event
    Delays,     \* what time callbacks return, except AE_NOMORE
    NewDelays,  \* what time events are created with
    FlagSets,   \* the flags aeProcessEvents is called with
    Slow,       \* bound: milliseconds a callback takes
    MaxEvents,  \* bound: length of the list of file events
    MaxTimers   \* bound: time events that are ever created

ASSUME LoopAssumption ==
    /\ Delays \subseteq Nat /\ NewDelays \subseteq Nat /\ Slow \in Nat
    /\ MaxEvents \in Nat /\ MaxTimers \in Nat \ {0}

VARIABLES
    fileEvents,       \* fileEventHead and what follows
    timeEvents,       \* timeEventHead and what follows
    timeEventNextId,
    open,             \* descriptors that are open
    ready,            \* <<fd, kind>> that select would report
    phase,            \* where aeProcessEvents stands
    flags,            \* its parameter
    set,              \* rfds and wfds: <<fd, kind>> still set
    maxId,            \* the local of processedTimeEvent
    wild,             \* a freed time event was written to
    skips             \* history: turns in a row whose select failed, up to one
                      \* more than MaxTimers

loop == <<fileEvents, timeEvents, timeEventNextId, open, ready, phase, flags,
          set, maxId, wild>>
vars == <<loop, skips>>

Kinds == {"r", "w"}    \* AE_READABLE, AE_WRITABLE; nothing uses AE_EXCEPTION
NOMORE == -1

Least(S) == CHOOSE i \in S : \A j \in S : i <= j
Without(l, i) == SubSeq(l, 1, i - 1) \o SubSeq(l, i + 1, Len(l))

(* The events on other descriptors than those of fds, in their order.      *)
Nth(S, n) == CHOOSE i \in S : Cardinality({j \in S : j <= i}) = n
Others(l, fds) ==
    LET stay == {i \in DOMAIN l : l[i].fd \notin fds}
    IN  [n \in 1..Cardinality(stay) |-> l[Nth(stay, n)]]

----------------------------------------------------------------------------
(* The lists *)

aeCreateFileEvent(l, fd, mask, data) ==
    <<[fd |-> fd, mask |-> mask, data |-> data]>> \o l

(* The first event with this descriptor and exactly this mask.             *)
aeDeleteFileEvent(l, fd, mask) ==
    LET same == {i \in DOMAIN l : l[i].fd = fd /\ l[i].mask = mask}
    IN  IF same = {} THEN l ELSE Without(l, Least(same))

(* At the tail, where file events are not put either.                      *)
aeCreateTimeEventLast(l, id, ms) == Append(l, [id |-> id, when |-> ms])
aeCreateTimeEvent(l, id, ms) == <<[id |-> id, when |-> ms]>> \o l

(* Whichever event stands at the head.                                     *)
aeDeleteTimeEventHead(l, id) ==
    IF \E i \in DOMAIN l : l[i].id = id THEN Tail(l) ELSE l
aeDeleteTimeEvent(l, id) ==
    LET same == {i \in DOMAIN l : l[i].id = id}
    IN  IF same = {} THEN l ELSE Without(l, Least(same))

(* Without the end at -1.                                                  *)
LaterUnbounded(l, d) == [i \in DOMAIN l |-> [l[i] EXCEPT !.when = @ - d]]
(* d milliseconds later.                                                   *)
Later(l, d) ==
    [i \in DOMAIN l |->
        [l[i] EXCEPT !.when = IF @ >= d THEN @ - d ELSE -1]]

Overdue(l) == \E i \in DOMAIN l : l[i].when < 0
Reached(l) == \E i \in DOMAIN l : l[i].when <= 0

FileSet(f) == "file" \in f
TimeSet(f) == "file" \in f    \* ae.h:63 tests the bit of file events
DontWaitSet(f) == "dontwait" \in f

----------------------------------------------------------------------------
(* A turn: select, file events, time events *)

(* What distinguishFileEventAndGetMaxFD puts into the sets.                *)
Watched ==
    UNION {{fileEvents[i].fd} \X fileEvents[i].mask : i \in DOMAIN fileEvents}

(* From there on only maxId is read of what is local to the call.          *)
ToTimers ==
    phase' = "timers" /\ maxId' = timeEventNextId - 1 /\ set' = {} /\ flags' = {}

(* select fails if a descriptor was closed (EBADF), or the timeout is      *)
(* negative because the nearest timer is overdue (EINVAL).                 *)
SelectFails(f) ==
    \/ \E w \in Watched : w[1] \notin open
    \/ TimeSet(f) /\ ~DontWaitSet(f) /\ Overdue(timeEvents')

(* The head of aeProcessEvents, up to where select blocks or fails.  d:    *)
(* the clock moves on before fillSelectTimeout reads it.                   *)
Begin(f, d) ==
    /\ phase = "top"
    /\ timeEvents' = Later(timeEvents, d)
    /\ \/ /\ ~FileSet(f) /\ ~TimeSet(f)
          /\ UNCHANGED <<phase, maxId, set, flags, skips>>
       \/ /\ FileSet(f) /\ SelectFails(f)
          /\ ToTimers /\ skips' = Least({skips + 1, MaxTimers + 1})
       \/ /\ FileSet(f) /\ ~SelectFails(f)
          /\ phase' = "select" /\ flags' = f
          /\ UNCHANGED <<maxId, set, skips>>
    /\ UNCHANGED <<fileEvents, timeEventNextId, open, ready, wild>>

(* select returns because of a descriptor, ...                             *)
SelectReady ==
    /\ phase = "select" /\ Watched \intersect ready # {}
    /\ set' = Watched \intersect ready
    /\ phase' = "files" /\ skips' = 0
    /\ UNCHANGED <<fileEvents, timeEvents, timeEventNextId, open, ready, flags,
                   maxId, wild>>

(* ... or because the time is over.                                        *)
SelectTimeout(d) ==
    /\ phase = "select" /\ Watched \intersect ready = {}
    /\ DontWaitSet(flags) \/ Reached(timeEvents)
    /\ timeEvents' = Later(timeEvents, d)
    /\ ToTimers /\ skips' = 0
    /\ UNCHANGED <<fileEvents, timeEventNextId, open, ready, wild>>

(* A millisecond passes in select.                                         *)
Wait ==
    /\ phase = "select" /\ Watched \intersect ready = {}
    /\ ~DontWaitSet(flags) /\ ~Reached(timeEvents) /\ timeEvents # <<>>
    /\ timeEvents' = Later(timeEvents, 1)
    /\ UNCHANGED <<fileEvents, timeEventNextId, open, ready, phase, flags, set,
                   maxId, wild, skips>>

(* The walk of processedFileEvent stops at the first event with a bit set. *)
(* After the callback it starts at the head again, as the list may have    *)
(* changed, and the bits of that descriptor are cleared.                   *)
Hit(i) == \E k \in fileEvents[i].mask : <<fileEvents[i].fd, k>> \in set
Hits == {i \in DOMAIN fileEvents : Hit(i)}
FdClearRead(fd) == set \ {<<fd, "r">>}
FdClear(fd) == {p \in set : p[1] # fd}

(* What callbacks are allowed: they close descriptors in `closable`, after *)
(* they deleted the events of those, delete an event of `mine`, or create  *)
(* one on a descriptor they opened, or of a kind that `mine` has none of.  *)
Callback(closable, mine) ==
    \E gone \in SUBSET (closable \intersect open) :
      LET kept  == Others(fileEvents, gone)
          fresh == Fds \ (open \ gone)
      IN  \/ fileEvents' = kept /\ open' = open \ gone
          \/ \E fd \in fresh \union mine, kind \in Kinds, data \in Data :
             /\ \A i \in DOMAIN kept : <<kept[i].fd, kept[i].mask>> # <<fd, {kind}>>
             /\ Len(kept) < MaxEvents
             /\ fileEvents' = aeCreateFileEvent(kept, fd, {kind}, data)
             /\ open' = (open \ gone) \union {fd}
          \/ \E w \in Watched :
             /\ gone = {} /\ w[1] \in mine
             /\ fileEvents' = aeDeleteFileEvent(fileEvents, w[1], {w[2]})
             /\ open' = open

(* A callback reads, accepts or writes: what it used up is not ready any   *)
(* more, nor is what it closed.                                            *)
Consume(mine) ==
    \E used \in SUBSET (mine \X Kinds) :
        ready' = {p \in ready \ used : p[1] \in open \intersect open'}

FileCall(d) ==
    /\ phase = "files" /\ Hits # {}
    /\ LET fd == fileEvents[Least(Hits)].fd
       IN  /\ Callback({fd}, {fd})
           /\ Consume({fd})
           /\ set' = FdClear(fd)
    /\ timeEvents' = Later(timeEvents, d)
    /\ UNCHANGED <<timeEventNextId, phase, flags, maxId, wild, skips>>

FilesDone ==
    /\ phase = "files" /\ Hits = {}
    /\ ToTimers
    /\ UNCHANGED <<fileEvents, timeEvents, timeEventNextId, open, ready,
                   wild, skips>>

(* Whatever is overdue.                                                    *)
DueAny == {i \in DOMAIN timeEvents : timeEvents[i].when < 0}
(* Without the newest event.                                               *)
DueBelow == {i \in DOMAIN timeEvents : timeEvents[i].id < maxId /\ timeEvents[i].when < 0}
(* processedTimeEvent: the first overdue event that is not newer than the  *)
(* pass.  An event at its very millisecond is not overdue yet.             *)
Due == {i \in DOMAIN timeEvents : timeEvents[i].id <= maxId /\ timeEvents[i].when < 0}

(* timeProc returned r.  The event it was called for is written to even if *)
(* timeProc deleted it.                                                    *)
Rearm(l, id, r) ==
    IF r = NOMORE
    THEN timeEvents' = aeDeleteTimeEvent(l, id) /\ wild' = wild
    ELSE /\ timeEvents' = [i \in DOMAIN l |-> IF l[i].id = id THEN [l[i] EXCEPT !.when = r] ELSE l[i]]
         /\ wild' = (wild \/ \A i \in DOMAIN l : l[i].id # id)

(* A timer's callback closes and opens descriptors, or creates a timer, or *)
(* deletes one; if it deletes its own it returns AE_NOMORE.                *)
TimeCall(d) ==
    /\ phase = "timers" /\ Due # {}
    /\ LET id == timeEvents[Least(Due)].id
           l  == Later(timeEvents, d)
       IN  \E r \in Delays \union {NOMORE} :
             \/ /\ Callback(Fds, {})
                /\ Rearm(l, id, r)
                /\ UNCHANGED timeEventNextId
             \/ \E ms \in NewDelays :
                /\ timeEventNextId < MaxTimers
                /\ Rearm(Later(aeCreateTimeEvent(timeEvents, timeEventNextId, ms), d), id, r)
                /\ timeEventNextId' = timeEventNextId + 1
                /\ UNCHANGED <<fileEvents, open>>
             \/ \E i \in DOMAIN timeEvents :
                /\ timeEvents[i].id = id => r = NOMORE
                /\ Rearm(aeDeleteTimeEvent(l, timeEvents[i].id), id, r)
                /\ UNCHANGED <<timeEventNextId, fileEvents, open>>
    /\ Consume({})
    /\ UNCHANGED <<phase, flags, set, maxId, skips>>

TimersDone ==
    /\ phase = "timers" /\ Due = {}
    /\ phase' = "top"
    /\ UNCHANGED <<fileEvents, timeEvents, timeEventNextId, open, ready, flags,
                   set, maxId, wild, skips>>

(* A peer connects, sends, closes, or makes room.                          *)
BecomeReady ==
    /\ \E p \in open \X Kinds : p \notin ready /\ ready' = ready \union {p}
    /\ UNCHANGED <<fileEvents, timeEvents, timeEventNextId, open, phase, flags,
                   set, maxId, wild, skips>>

(* aeMain is entered with one file event and one time event.               *)
Init ==
    /\ \E fd \in Fds, data \in Data, ms \in NewDelays :
        /\ open = {fd}
        /\ fileEvents = aeCreateFileEvent(<<>>, fd, {"r"}, data)
        /\ timeEvents = aeCreateTimeEvent(<<>>, 0, ms)
    /\ timeEventNextId = 1 /\ ready = {} /\ phase = "top" /\ flags = {}
    /\ set = {} /\ maxId = -1 /\ wild = FALSE
    /\ skips = 0

Turn ==
    \/ \E f \in FlagSets, d \in {0, 1} : Begin(f, d)
    \/ SelectReady
    \/ \E d \in {0, 1} : SelectTimeout(d)
    \/ \E d \in 0..Slow : FileCall(d)
    \/ FilesDone
    \/ \E d \in 0..Slow : TimeCall(d)
    \/ TimersDone

Next == Turn \/ Wait \/ BecomeReady

Spec == Init /\ [][Next]_vars

(* The process runs and the clock moves; peers owe nothing.                *)
FairSpec == Spec /\ WF_vars(Turn) /\ WF_vars(Wait)

----------------------------------------------------------------------------
(* Properties *)

TypeOK ==
    /\ fileEvents \in Seq([fd : Fds, mask : SUBSET Kinds, data : Data])
    /\ timeEvents \in Seq([id : Nat, when : Nat \union {-1}])
    /\ timeEventNextId \in Nat /\ open \subseteq Fds /\ ready \subseteq open \X Kinds
    /\ phase \in {"top", "select", "files", "timers"} /\ flags \in {{}} \union FlagSets
    /\ set \subseteq Fds \X Kinds /\ maxId \in Nat \union {-1}
    /\ wild \in BOOLEAN /\ skips \in Nat

(* select never fails for a closed descriptor: as long as handlers delete  *)
(* the events of what they close, every event watches an open one.         *)
WatchedAreOpen == \A i \in DOMAIN fileEvents : fileEvents[i].fd \in open

(* The bits of select outlive callbacks that close descriptors and open    *)
(* others under the same number; no handler is called for readiness of a   *)
(* connection that is gone (a blocking call would stop the server).        *)
NoStaleReadiness == \A i \in Hits : \E k \in fileEvents[i].mask :
                        <<fileEvents[i].fd, k>> \in set \intersect ready

(* A timer event is never written to after it was deleted, whatever the    *)
(* callbacks create and delete in the middle of the pass.                  *)
NoFreedTimer == ~wild

(* Ids tell the events of a pass from the ones created in it: they are     *)
(* unique, and the newest stands first.                                    *)
IdsDescend ==
    /\ \A i, j \in DOMAIN timeEvents : i < j => timeEvents[i].id > timeEvents[j].id
    /\ \A i \in DOMAIN timeEvents : timeEvents[i].id < timeEventNextId

(* A turn whose select fails on a negative timeout serves no descriptor,   *)
(* but then the timer that caused it runs: there are never more such turns *)
(* in a row than timers.                                                   *)
FewSkips == skips <= MaxTimers

(* A timer event that a callback created waits for the next pass, even if  *)
(* it is overdue: only events that were there when the pass began are set  *)
(* again.                                                                  *)
NewTimersWait ==
    [][phase = "timers" /\ Due # {} /\ phase' = "timers"
       => \A i \in DOMAIN timeEvents :
            timeEvents[i].id > maxId
            => \A j \in DOMAIN timeEvents' :
                 timeEvents'[j].id = timeEvents[i].id => timeEvents'[j].when <= timeEvents[i].when]_vars

(* A descriptor that is ready and watched is selected, and the handler of  *)
(* one that was selected is called (as FilesDone waits for it): neither    *)
(* timers, nor other descriptors, nor failing selects starve it.           *)
OfFd(fd) == {fd} \X Kinds
Waits(fd) == OfFd(fd) \intersect Watched \intersect ready # {}
ReadyIsServed == \A fd \in Fds : Waits(fd) ~> OfFd(fd) \intersect set # {} \/ ~Waits(fd)
=============================================================================
