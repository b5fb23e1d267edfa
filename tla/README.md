# A verification project for homemade

`homemade` is a collection of programs written to learn from: an early Redis
rewritten in C, the beginnings of a key-value store and a class-file parser in
Java, and exercises. Only the Redis runs as a system: it has concurrent
processes, an event loop, failure handling and a persistent state. This project
models it first, and the data structures of the other programs after it.

All paths below are relative to `src/`.

## 1. Inventory

| Part | State it keeps | Operations | Interacts with | What makes it correct |
|---|---|---|---|---|
| RDB persistence, `redis/src/redis.c` 960-1339, 2714-2748 | `server.dict`, `dirty`, `lastsave`, `bgsaveinprogress`; temp files and the dump in a directory; child processes | `saveDb`, `saveDbBackground`, `waitBgsaveFinish`, `bgsaveIfNeed`, `loadDb`, SAVE, BGSAVE, SHUTDOWN, FLUSHDB, FLUSHALL | forks children that share the directory and inherit the state of `random()`; `serverCron` reaps them; iterates every dict | the dump is always a whole snapshot of one moment, never newer than memory; unsaved changes stay counted; one child at a time |
| dict, `redis/src/dict.c` | slots with chains, `size`, `used`; iterators | add, replace, delete, find, iterate, random key, resize | used by the databases, set objects, object sharing; iterated by KEYS, SINTER, SORT and `saveDb`; `serverCron` shrinks it | a finite map whatever its size; iteration returns every key once; deletion of the returned entry is safe |
| event loop, `redis/src/ae.c` | lists of file and time events | create, delete, process, `aeMain` | calls back into clients, `serverCron` and `accept`, which change its lists | no freed event is used; every ready event and due timer is served |
| linked list, `redis/src/adlist.c` | node chain | add, delete, search, dup, index, iterate | clients, replies, list objects | the chain stays well linked; searching ends |
| clients, `redis/src/redis.c` 470-560, 2500-2700, 2970-3000 | one record per connection: query buffer, arguments, reply list, flags | accept, read, parse, reply, time out, free | event loop, replication, commands | the loop holds events of live clients only; the lists are those of the clients that exist; who waits is read |
| keyspace commands, `redis/src/redis.c` 1340-2480 | databases of shared, reference-counted objects | SET, GET, DEL, INCR, RENAME, MOVE, list, set and SORT commands | dict, adlist, clients (replies keep references), persistence (`dirty`) | a live object has one count per holder; failed commands change nothing |
| replication, `redis/src/redis.c` 785-930 | `server.replstate`, slave list, byte stream | `syncCommand`, `syncWithMaster`, `dumpMasterRDB` | persistence (saves and loads a dump), clients | a slave replaces its data only by a whole dump |
| sds, `redis/src/sds.c` | length, free space, bytes | append, range, trim, split | everywhere | pure functions on strings |
| zmalloc, anet, redis-cli | a byte counter; sockets | wrappers | - | thin |
| skip list map, `kvstore/lsm-tree/.../SkipListMap.java` | levelled nodes with `prev` links, `size`, views | put, remove, clear, navigation, sub maps | - | a sorted map; views agree with it |
| byte codecs, `kvstore/common/.../Binary.java`, `FixIntCodec.java` | none | encode and decode integers | - | decoding inverts encoding |
| `HTree`, `KVStore` (bitcask, storeengine) | - | interfaces and stubs | - | nothing to model yet |
| class-file parser, `jvm/.../parser` | position in a byte stream | one pass, printing | - | sequential input reading |
| `CQueue`, demos, Python, assembly | a ring buffer; none | - | - | exercises |

Hard behaviours, each at its line, are the `hazards` of `PROJECT.json`. The
hardest are in the persistence: two or three processes write temp files whose
names are drawn from a generator state that `fork` copies; children outlive
the server that forked them; any of them dies anywhere; results of system
calls are ignored; and a slave child's status is read after the data has moved
on. The dict is sequential and hard for another reason: an iterator lives
across calls that delete, sizes change behind every insertion, and
`serverCron` shrinks tables on arithmetic that overflows.

`redis.c` is not complete at this commit: `processCommand` dispatches to no
command, and `sendReplyToClient`, `lookupCommand`, `resetClient`,
`replicationFeedSlaves` and `existsCommand` are used and not defined. The
command functions and `saveDb` are; the models take each of them as the
operation a dispatcher runs between two turns of the event loop.

## 2. Modules

| Module | Models |
|---|---|
| `Persistence` | saveDb in the server and its children, `serverCron`'s saving part, crash and restart |
| `SnapshotStore` | what that promises: a store that publishes snapshots and restarts from the published one |
| `Dict` | the hash table, its iterator, the random key, shrinking |
| `KeyMap` | what that promises: a finite map |
| `Keyspace` | the commands over databases of shared, reference-counted objects, and the replies that hold them |
| `KeyStore` | what that promises: databases of plain values, and replies that do not change |
| `EventLoop` | the event lists of `ae.c` and a turn of `aeProcessEvents`, under any callbacks that keep a contract |
| `Clients` | the callbacks of `redis.c`, composed with `EventLoop` (an instance of it) |
| `Replication` | SYNC between a master and a slave over a stream that breaks |
| `Sds`, `Text` | the strings of `sds.c` with their header, and the texts they stand for |
| `Strings` | `stringmatchlen` and `sdssplitlen` as operators, with what they should answer |
| `SkipList`, `KeyValue` | the levelled nodes of `SkipListMap.java`, and the map they stand for |
| `MC...` | the instance of each for TLC: constants, symmetries, views |
| `PersistenceProofs` | theorems about `Persistence`, and about `Replication`, where a dump goes to another server; it extends both, which share no name |
| `DictProofs` | theorems about `Dict`: the table, its walks, the map it implements |
| `EventLoopProofs` | theorems about `EventLoop`: timers, readiness, watched descriptors, failing selects |
| `ClientsProofs` | theorems about `Clients`: its invariants, and the loop contract it keeps |
| `KeyspaceProofs` | theorems about `Keyspace`: counts, and the values it implements |
| `SdsProofs` | theorems about `Sds`: the header, and the texts it implements; about `Strings`: the language of a pattern, the split string |
| `SkipListProofs` | theorems about `SkipList`: the links and their order, what searches find, the map they implement |
| `NaturalMinimum` | first-order facts that stand for induction and recursion: least and greatest naturals, recursive functions that exist, subsets built member by member |

A definition marked "Mutant" in a comment is a plausible mistake in the code that
the definition after it translates. No specification uses it: replacing the real definition by it must break a property, which
shows that the property says something about the code.

### Persistence

State: one variable per field of `struct redisServer` the code decides on
(`dirty`, `lastsave`, `bgsave` for `bgsaveinprogress`), `mem` for the databases,
`saver`, the progress of every process inside `saveDb`, and the directory:
inodes (`files`), temp names (`tmp`) and `server.dbfilename` (`dump`). `kids`
are the children that a `wait4` would still find.

A database content is the number of the last write it includes and its form:
emptied, whole, or cut (a part of it is missing). A file is a head and a tail,
each a hole or the content it was written from. That is enough to tell a whole
file, a truncated one and a mixture of two writers apart, which is all the
properties look at.

| Action | Code |
|---|---|
| `Write`, `SilentWrite` | a command that changes data and counts it in `dirty` (1357), and one that does not count it (SINTERSTORE, 2124) |
| `saveCommand`, `shutdownCommand`, `flushCommand` | enter `saveDb` in the server, which serves nobody until it returns |
| `bgsaveCommand`, `bgsaveIfNeed` | `saveDbBackground`: fork, or the failing fork that takes the parent's branch |
| `SaveOpen`, `SaveWrite`, `SaveFlush`, `SaveRename`, `SaveFail` | `saveDb` 1040-1109 up to each point where another process or a crash can come between |
| `serverCron` | reaping by `wait4(-1, WNOHANG)` or the save parameters |
| `Crash`, `KillChild`, `Tick` | environment |
| `Restart` | `main`: `initServer`, `loadDb` |

Decisions a reader of the code would ask about:

- `random()` is not seeded and a child inherits its state, so a temp name is the
  second and the position of the generator in that process. RANDOMKEY draws
  from the same generator; leaving its draws out loses only behaviours in which
  names differ.
- `writeOneDBToFile` has no `return` at its end. The value is undefined and may
  read as an error, so `SaveFail` is possible in the writing step without a fault.
- `flose` at 1102 is taken for `fclose`, without which nothing links.
- `WEXITSTATUS` of a child ended by a signal is 0 on the platforms the code
  targets; when `wait4` finds no child it returns -1 and `statloc` is not written:
  any code.
- `dictNext` leaves out the last slot (section 3), so a saved image may lack
  entries of the memory: the fault kind `lastslot`. It is off except in the liveness
  run, so that the other properties speak about persistence alone.
- A crash is that of a process. The page cache survives it, so what reached the
  kernel is in the file; a crash of the machine is not modelled.
- `shared`, `lost` and `orphaned` are history variables. They mark the three ways out
  of what the properties promise; `MCTempClash` shows the first.

`SnapshotStore` is the promise: memory changes, snapshots are taken, one of those
taken may be published, and a start brings back what was published. It holds as
long as `sound`, which `Persistence` maps to "no temp file was shared and no flush
was lost". `ImplementsStore` is the refinement.

### Dict

State: the table as a function from slots to chains, `size`, `used`; one iterator;
`probing` while `dictGetRandomKey` draws; and the last answer. A chain is a set,
so its order is left open. The iterator saves the next entry before it returns one,
as `dictNext` does: `it.next` is that entry, `it.rest` the entries behind it.

- While an iterator is open only the entry returned last may be deleted, and
  nothing is added. That is the contract of `dict.c:291`, and no caller in
  `redis.c` adds to a dict it iterates.
- `dictDelete` and `dictDeleteNoFree` differ in who frees, and are one action.
- `dictRelease`, `dictPrintStats` and the string hash callbacks are left out: the hash is
  a CONSTANT, any function from keys to numbers.
- Sizes: `InitialSize`, `Width`, `MinSlots`, `MinFill` stand for 16, 32, 16384 and 10.
  Products and doublings wrap at `Width` bits as the `-g -Wall` build does.
- `PowerAssumption` states what the proofs need of powers of two; the provers have
  no theory of powers, and TLC evaluates the assumption in every run.
- A miss of `dictGetRandomKey` changes nothing and is no step. On an allocated table that
  is empty again every draw misses: the call never returns, and the model stops
  there (so does the server).

### Keyspace

State: `heap`, the objects with type, `refcount` and what `ptr` leads to; `db`, the
entries of each database; `reply`, the objects of reply lists; `dirty`. One action for each
command function that keeps, moves or releases an object.

- The server is one thread, so a command and the release of its arguments
  (`freeClientArgv`, which the missing `resetClient` is taken to call) are one step. Within it every
  increment and decrement of the code is carried out on the heap in the order of the code.
- A command that refuses changes nothing and is no step; commands that only answer a
  number or a type (LLEN, SCARD, SISMEMBER, TYPE, PING, INFO) are none either.
  LREM is one of them by accident: it compares the elements with the bytes of an object instead of a
  string and never removes any.
- Arguments that no path of a command keeps are not put on the heap. Fresh strings and
  shared objects in replies are balanced inside a command and left out; a reply list is
  the sequence of the other objects in it.
- The client's database is a parameter of each command: SELECT and several clients give any.
- A walk over a dict may miss entries (`dictNext`), so KEYS, SINTER and SORT answer
  some of what there is, and SORT of a set may fail its assertion.
- What ends the server: LPUSH always (`addToList` takes success for failure), SORT's assertion,
  SINTERSTORE into one of its sources (freed memory is read), EXISTS, DBSIZE and LASTSAVE, which
  pass memory of a wrong type. The last reads of SINTERSTORE and these three are undefined behaviour, and
  the model stops there. RANDOMKEY of an emptied database is in `Dict`.
- RENAME of a key to itself answers an error and then deletes the key. `KeyStore` has that as a deletion.
- `server.dirty` is kept modulo 2, which is enough to see that it changed.

### EventLoop

State: the lists `fileEvents` and `timeEvents`, heads first; the descriptors that are `open` and
those `ready`; the bits that `select` left (`set`); `maxId` of the running pass; and where in a turn the loop stands. One
step each for the beginning of `aeProcessEvents` with the choice of a timeout, for `select`, for every callback and for
the ends of the two passes; between two of them peers make descriptors ready.

- A file callback runs at the first event with a bit, as the walk that restarts at the head does, and its
  bits are cleared after it. It may close the descriptor it was called for and open others (under the
  same number, too), and create or delete events on these; a timer may close any, and create or delete a timer. `Callback` is the contract: what a callback
  closes it unwatches first, and a descriptor it opens is not ready yet.
- Time is relative: `when` is the number of milliseconds left, -1 for every overdue event. A negative time to the nearest
  timer makes `select` fail, which the code takes for "nothing is ready" (189-216).
- `isTimeEventSet` (`ae.h:63`) tests the bit of file events; `redis.c` always sets both, so it shows nowhere.
- `wild` marks a write to a time event that was freed. The code notes the event to go on with before the callback and
  looks it up again by id after it.

### Clients

State: that of `EventLoop`, with `Data` the client a handler is called for; `client`, one record per
address; the lists `clients` and `slaves`, `master`, `replstate`. `fate` says whether the server still serves: it `died` (a NULL
command, a full limit), `hangs` in `listSearchKey`, or is `stuck` in `dumpMasterRDB`.

- Every callback is a composition of the functions it calls (`freeClient`, `createClient`, `addReply`,
  `closeTimeoutClients`, `syncWithMaster`), each an operator from a server state to the next; `aeCreateFileEvent` and the others are those of
  `EventLoop`, so the two modules cannot disagree about the lists.
- `listSearchKey` (`adlist.c:171`) does not advance its iterator: it finds the head, or never returns.
- `closeTimeoutClients` tests the slave flag the wrong way round and frees from inside its walk, which is safe because the
  next node is read first.
- `processCommand` tests the wrong pointer, so an unknown command follows NULL. Parsing and dispatch are missing at this commit: a
  request is answered, syncs, asks to close or is unknown. `sendReplyToClient` is external, modelled from the call that installs it.
- `ImplementsLoop` shows that these handlers keep the contract `EventLoop` assumes. What TLC and the proofs say
  about `EventLoop` therefore holds of the server.

### Replication

State: the master's side of `syncCommand`, what it has `out` to write, the wire, the slave's buffer, temp file, dump
and memory. A dump is counted in units: its length depends on the data, so a dump may be shorter or longer than what
the slave reads first. Either end closes, dies or restarts, and the wire breaks.

- `syncRead` asks for 1024 bytes at once and looks for the newline in them: it takes the size line and the first part of the
  dump, which is then missing in the file (905, against the comment at 849). With a master that runs this code a slave never
  gets a dump it can load. The model has that: `replstate` never becomes "connected".
- `syncCommand` enters the client in `server.slaves` also when the transfer failed (828).
- `dumpMasterRDB` ends on `need`, and loops for ever when `read` returns 0. It has no `return` on success: either value.
- The `snprintf` at 787 passes its arguments in the wrong order: what the master prints then is undefined (`MasterDies`).
- `syncWithMaster` passes the host for the port (890); the model lets the connection succeed, as the port is not modelled.

### Sds, Text and Strings

`Sds` keeps the bytes, `free` and the size of the allocation, which the code does not store but must not pass;
`spoilt` marks a write past it. `Text` is the same calls on plain sequences. `call`, the last call, makes the
refinement compare call by call; no guard reads it.

- `sdscpylen` asks for the missing bytes beyond `free`, and `sdsMakeRoomFor` compares with `free` again: it may not
  grow. `FreeIsExact` says that this is the only way the header goes wrong.
- `sdsrange` keeps its last index, where the doc has a half-open interval, and takes an index behind the end for the last byte.
  `Text` has the code's reading. A zero-length string splits into no tokens, where the doc promises NULL.
- `GlobIsLanguage` compares `stringmatchlen` with the language of the pattern, over all patterns and keys of the bounds. Two known exceptions are
  excluded by name: an empty key against a negated class, and brackets that end in an escape (`Dangling`).
- `stringmatchlen` calls itself inside a star. `Strings` writes its loops, and the language, as recursive functions of the place they are at, so that
  they can be proved about.

### SkipList

State: `next` and `prev` of every node on each level, values, `level`, `size`. A node is its key and a generation; nodes nobody reaches
any more are dropped. `KeyValue` is the map that `get`, `put`, `remove` and `clear` answer for.

- `clear` leaves `tail.prev` and the level as they were. The history variable `harm` says `cleared` from then on while `lastKey` may find a
  node that is gone, and `lost` once a removal lowers the level below nodes that searches then miss. The properties hold up to there,
  and the model is not followed after `lost`.
- `randomLevel` is any level of `Drawn`. Once a node of full height was drawn (once in 4^31) `remove` throws after it changed the links and before it changes
  `size`; the model has the half-done removal.
- The loops of `findClosestNode` and of the iterators are recursive functions of the node they are at. Iteration of sub maps is an operator on the state, checked in every state. The collection views, nested sub maps and `EntrySet.isEmpty`
  (809, inverted) are left out.

## 3. What the checks show

Twelve configurations; each `.cfg` names its constants.

Passing:

| Run | Bounds | Shows |
|---|---|---|
| `MCPersistence` | 1 child, 2 writes, 2 seconds, 2 draws, 3 inodes, one fault (crash, kill, failing fork, flush or rename) | types; the dump is never ahead of memory; it goes back to older data only while a child of this server saves; refinement of `SnapshotStore` |
| `MCPersistenceTwo` | 2 children, 1 write, 4 inodes, the same faults; not continued after a clash of temp names | one child per server; the dump is whole; a foreground save publishes the present data |
| `MCPersistenceLive` | 1 child, kill or failing fork, short iteration | a background save always ends for the server |
| `MCKeyspace` | 5 objects, 2 strings, 2 databases, replies of up to 2 objects, indexes 0 and -1; databases symmetric, states compared without `dirty` | types; every count equals the number of holders, so nothing held is freed and nothing is leaked; refinement of `KeyStore`: no command is seen through shared objects; changes are counted |
| `MCDict` | 5 keys, 2 values, sizes 0 to 8, 9-bit ints, so that 3 entries make used * 100 wrap | placement, count, iteration, random key, when tables shrink, refinement of `KeyMap` |
| `MCEventLoop` | 2 descriptors, lists of 2 file events, 2 timers ever, delays of 0 and 3 ms, callbacks of up to 1 ms | no handler runs for readiness of a connection that is gone; no freed timer is written to; new timers wait; failing selects are bounded; a ready descriptor is selected |
| `MCClients` | 2 clients on 2 descriptors beside the listening one, replies of 1 object, a configured master | events and lists match the clients that exist; the master is looked for again; what hangs needs a second client; the contract of `EventLoop`; who waits is read |
| `MCReplication` | dumps of 1 to 5 units, reads of 3, a wire of 2, 4 writes, 3 faults | a slave keeps its own data until it has a file to replace it, publishes only files as long as announced, and no side blocks where the code has a time limit |
| `MCStrings` | arguments of up to 3 bytes, strings of up to 4, patterns of up to 4 symbols | header and allocation; each operation leaves the right text; glob language; splitting and joining |
| `MCSkipList` | 3 keys, 2 values, levels 1 to 3 of 4 | answers of a map; searches from both ends and over sub maps find what is stored |

Why the bounds are enough.

- Two children are the most that matter: a server forks a second one only after it waited for the first, so a second live child
  needs an orphan of an earlier incarnation, and `MCPersistenceTwo` has it. Three inodes hold a dump and the temp files of two
  savers, four those of three. One write suffices for a snapshot to be older than memory, two for two snapshots of different age. A clash needs two
  draws from the same position in one second: two seconds and two positions have clashing and distinct names.
- In the dict, five keys with `Hash` 0, 1, 2, 4, 7 fill the sizes 2 and 4, collide in each and leave the last slot of each
  occupied or empty; a table of 8 with few keys left is sparse.
- Five objects are two keys with a set member in both, or a list of three, with a reply that outlives them. `MCKeyspace` compares states without `dirty`
  because no guard reads it and the property about it is one of steps.
- A handler that closes the other descriptor and reopens its number needs two of them; two timers are one that runs and one it
  creates, deletes or leaves overdue behind it. A delay of 3 is far, one of 0 is overdue after a slow callback.
- Two clients are one at the head of a list and one behind it, which is what `listSearchKey` tells apart; addresses and descriptors are reused by the third.
- Dumps of 1 to 5 units end before, at and behind the first read of 3; three faults break two syncs and a restart.
- Strings of four bytes are longer than an argument, so growth, exact fit and spare room all occur; `0` is among the bytes. Four
  symbols of a pattern make every bracket form with one symbol beside it. Longer ones are left to the theorems.
- Three nodes on three levels have every order of heights around a removed or inserted one.

`CHECK_DEADLOCK FALSE` is set because the models stop: at their bounds, when the server refuses a cut dump, in the endless draw of RANDOMKEY, when a
server died or hangs, and in the endless read of `dumpMasterRDB`.

Fairness. `FairSpec` of `Persistence` assumes that every process inside `saveDb` is
scheduled (weak) and that `serverCron` runs (strong: it is disabled while a
foreground save keeps the server busy or the server is down; `aeProcessEvents` gets back to its
timers after every round of file events). Restarting is not assumed: a server that
stays down has cleared the flag. `FairSpec` of `Dict` assumes that the draws of `random()`
reach a slot in use if there is one. That of `EventLoop` says that the process runs and that a wait ends when
something is ready or the clock reaches a timer; that of `Clients` is the same as long as the server serves; `FairSyncSpec` of `Replication` that both
processes run and that the clock ends waits with a limit. Peers and clients owe nothing in any of them.

Violated, each a statement of a comment or an assertion that the code does not
keep (`findings` quotes it):

| Run | Behaviour |
|---|---|
| `MCTempClash` | SAVE in the second of a BGSAVE opens the child's temp file; the renamed file mixes both |
| `MCDictShortWalk` | `dictNext` never looks into the last slot |

In the models and without a run of its own:

- persistence: the end of a background save clears `dirty` though writes came after the fork; a child killed by a signal moves
  `lastsave`; a failing `fork` sets `bgsaveinprogress` and answers OK, and the next cron takes an unwritten status; a truncated dump loads as if it ended there; FLUSHALL
  empties memory without counting it, so after a failed save nothing is left to save; the unchecked `fflush` publishes a truncated dump
  on a full disk (history `lost`); a child forked before a foreground save publishes its older snapshot after it;
- dict: `dictReplace` follows NULL when the table is full at the largest size (`crashed`); `used * 100` wraps and a well filled table is resized by every cron;
- keyspace: LSET reads its index from the wrong memory and always sets the first element; SINTERSTORE does not count its change; RENAME to itself deletes;
- clients and replication: `freeClient` hangs behind another client; a client that asks for SYNC twice is freed and still listed (`twice`); a failed
  transfer lists the slave all the same; the slave's dump misses its beginning;
- strings and skip list: `sdscpylen` writes past the allocation; `clear` leaves stale links.

## 4. What is proved

All with `tlapm`, for every value of the constants that meets the named assumptions.

`Persistence`:

- `TypeCorrect`, `SingleChild`: from `IInv`, which adds to the types which steps
  of a saver are possible for which process: a child in `kids` is at work or has
  exited, one outside is idle or an orphan at work, the server saves exactly while
  `cmd` names a command. Without it `bgsave` could be cleared with a child left.
- `DiskInvariance`, `DumpWhole`: from `DiskInv`. That the dump is whole is not
  inductive: rename publishes a temp file, so the file must be complete by
  then (`held` says what is still in the buffer), must be the one its saver
  believes (`tmp[name] = ino`), must not be open in another saver and must not be
  the dump already. `OpenInode` holds always, `TempFiles` until two savers
  share a file or a flush is lost.
- `DumpNeverAhead`, `ForegroundExact`, `RegressOnlyDuringBgsave`: from `VInv` on top of the two. It follows the age of what is on its way to
  the disk: a saver has a snapshot that is no newer than memory (`Older`), the server's own is the present memory (`Foreground`), who is not
  saving has nothing (`Resting`), and a child that saves belongs to this server or marks itself an orphan (`Owned`).
- `StoreImplemented`: every step is a step of `SnapshotStore` or leaves it unchanged, for any number of children and of faults. Its
  assumption is that the iterator hands `saveDb` all entries (`lastslot` is not among the faults); without it `saveDb` publishes what never was in memory.

`Dict`:

- `DictTypes`, `EntriesPlaced`, `UsedExact`: from `DInv`, whose `Shape` says that the
  table has `size` slots, each chain holds the entries of that slot, no key has two entries and
  `used` is their number. It needs all of these at once: the count is kept by an
  insertion only because the key was not there, and that is known only because every
  entry is where `dictFind` looks. It covers the refused doubling at the largest
  size, and a table that grows and shrinks by any route.
- `SavedNextIsAlive`, `WalkReturns`: from `WInv`, which divides the keys a walk began with: those returned, the saved next entry and the rest of its
  chain, and those of slots behind the index. A deletion takes a key that was returned, and so changes nothing of the others.
- `MapImplemented`: the table implements `KeyMap` if there are fewer keys than slots in the largest table. The assumption is needed: at that size with
  all slots' worth of entries `dictExpand` refuses, `dictAdd` fails for a key that is not there, and the map would have taken it. `NeverRefused` derives from it, by an injection
  of the entries into the keys, that this case does not come.
- `SparseByDeletion`: only deletions make a table in use too sparse, while `used * 100` does not wrap and if `REDIS_HT_MINFILL` is at most 50: doubling
  happens when the table is full and leaves it half full.

`EventLoop`:

- `IdsInOrder`, `NoWriteToFreed`, `NewTimersAreLeft`: from `TInv`: the list of time events descends in ids, all below `timeEventNextId`, so that an event
  created in the pass stands before the others and has an id above `maxId`.
- `HandlersFindReady`: from `SInv`: the bits of `select` are bits of descriptors that are open and ready. A file handler closes only the descriptor it was
  called for, whose bits are cleared after it; a timer, which may close any, runs when no bit is left.
- `OpenIsWatched`: from `WInv`, the events' types and the theorem: a callback that closes descriptors leaves the events of the others (`Others`), and an
  event it creates is on a descriptor that is open.
- `SkipsAreFew`: from `KInv` on top of `TInv` and `WInv`. Each turn whose select failed has a timer of its own in a set P: one that
  ran since, or one that is due now (`Spent`). A timer in P has not become overdue again (`Rested`), so the next failure has another cause. Two assumptions: no timer
  is set again sooner than all the others take to run (`LongDelays`; `serverCron` returns 1000 milliseconds, and the constants of `MCEventLoop` satisfy it), as otherwise failing turns need not
  end (with a delay of 0 TLC finds more than there are timers); and every turn asks for file events, as `aeMain` does, for a turn that does not lets time pass for nothing.

`Replication`:

- `ReplicationTypes`, `AnnouncedLength`, `OwnDataKept`: from `RInv`. That a published file has the announced length needs to know at every moment what was
  announced (`Headed`), that file and remaining bytes add up to it (`Announced`), and where the units of a dump may be (`Streams`, `Held`), however the stream was cut.

`Clients`:

- `LoopPointsToClients`, `ListsPointToClients`, `MasterPointsToClient`, `AloneNothingHangs`: from `CInv`, the conjunction of what the theorems say with
  what makes it stay: no two events have descriptor and bit in common (`Apart`), every event belongs to a live client and every client has its own
  (`Watching`), live clients have open descriptors, each its own (`Descriptors`). The invariant speaks about a server state, as the model's functions do, and there is
  one lemma for each function (`freeClient`, `addReply`, `createClient`, the walk of `closeTimeoutClients`): a handler is then the composition of lemmas that
  its code is of calls. It holds while the server is up; what `hangs` or `died` left half done is not described.
- `LoopImplemented`: every step is a step of `EventLoop` or leaves it unchanged, so the theorems about the loop hold of the server. What is asked of a
  callback is that the events it keeps are the old ones without those of the descriptors it closed, in the same order (`Others`), at most one new event, and that
  there is room for it. Each function that frees deletes events one mask at a time; `Lost` says what is gone after it, and follows the walk of
  `closeTimeoutClients` from client to client. The order comes last, for a list that lost elements is determined by which are left (`SublistIsOthers`). There is
  room because events that differ in descriptor or kind are no more than pairs of these, by `Apart`.

`Keyspace`:

- `PointersAreTyped`, `CountsAreHolders`: from `KInv`, which is `Fine(heap, db, reply, None)`: the contents of lists and sets are live strings and no node is in two lists
  (`HeapOK`), no two entries share an object (`DbOK`), pending replies are live strings (`ReplyOK`), and every count is the number of holders plus the references that are
  pending (`Exact`). In a command the counts are off by what it has taken and not yet put anywhere; `Fine` has that as its last argument, and each piece of
  code has a lemma from one `Fine` to the next: `incrRefCount` takes a reference, binding a key or adding a node gives one away,
  `decrRefCount` releases one and, at zero, those of the contents. A list or a set frees contents that others hold: the lemma for it needs that the contents
  are strings, so that releasing goes one level deep. SINTERSTORE frees its destination after it gathered the members and is correct because the sources,
  which stay, hold each of them meanwhile; where the destination is a source the model stops, as the code reads freed memory.
- `StoreImplemented`: every command is a step of `KeyStore`, for every number of databases, objects and strings. `VInv` adds to `KInv` that
  the keys of a database and the members of a set are different strings, without which an object store is no map of values. The argument has one idea: counting and
  freeing never change what a live object says (`Fades`), and what is held is live by `CountsAreHolders`; so the content of the store after a command
  follows from its entries alone, and no sharing shows.
- `CountedChanges`: whatever changes a value counts in `dirty`, with the three exceptions that the property names. It rests on the same lemmas: those that
  do not count leave the entries and what they say.

`Sds`:

- `HeaderExact`, `TextImplemented`: `len + free` is the size of the allocation, and a write passes it exactly if `free` has become negative (`sdscpylen`);
  each call does to the text what `Text` says. The parts are lemmas about `SubSeq` and concatenation for all lengths.

`Strings`:

- `GlobDecided`: for every non-empty key and every pattern, `stringmatchlen` decides the language of the pattern. The code is a loop that walks both strings
  byte by byte and calls itself inside a star; the language is what can be cut into pieces for the items of the pattern, from the first to the last. Both are
  recursive functions of a place in the pattern, and `AllAgree` goes down these places: the loop answers 1 at exactly the places of the string from which the
  rest can be cut. Beside it stand lemmas for each item: the loop inside brackets sees what they list and ends behind them (`ClassIsListed`, `ClassEnds`), a run of
  stars is one star (`StarsIs`), and a string that is used up matches stars only (`NoStarsIs`). Two exceptions are in the property since the code has them: the empty
  key, which no star matches, and brackets that end in an escape (`Dangling`), in which the loop reads behind the pattern.
- `SplitJoined`: from the invariant of the loop of `sdssplitlen`: the tokens so far, each followed by a separator, are the string up to `start`; no separator begins
  between `start` and the place the loop is at; no token has one.

`SkipList`:

- `InvariantHolds`: there is a set of nodes that the list holds (`Stored`). On each level every link leads to the least node above that has the level
  (`Forward`), the links back are the links forward turned round (`Backward`), keys are different, no node is higher than `level`, and a null ends a level
  since a clear as the tail does before (`End`). Nodes that a clear left behind stay reachable from the tail; they lead nowhere (`Stale`). One lemma says that the place
  `findClosestNode` finds on each level is the right one to link a new node behind (`PathPlaces`), for any way down through the levels; one for each way
  of changing links says that the result is in order again (`InsertLinked`, `UnlinkLinked`, `ClearLinked`); and dropping nodes nobody reaches keeps it so
  (`RestrictLinked`).
- `SortedMapImplemented`: each call changes and answers what the nodes stand for as `KeyValue` says. With distinct keys the nodes stand for one map, on whatever levels they are.
- `FoundHolds`: a search ends at the last node below the key (`WalkEnds`, by induction along the order of the nodes), an iteration has all nodes from one
  end to the other (`IterateIs`), and the last node is where the link back from the tail leads while `Backward` holds with the tail as the end, so not after a clear.
- All three assume that no node gets the full height (`MAX_LEVEL \notin Drawn`). They need it: with such a node `remove` throws and `size` is wrong from then on.
  The walks, the chains and the iteration are functions that are defined at a node by their values at later ones; that they exist is `RankedRecursion`, with
  ranks that count down along the order (`Ranks`), as the nodes are finitely many.

`NaturalMinimum` stands for the induction principles, which the provers here cannot instantiate: what is needed of them is proved from the library's first-order
theorems about finite sets and well-founded orders. A recursive function needs a proof that it exists, too: `RankedRecursion` says so of a function whose value at an
argument is made from its values at arguments of smaller rank, and `UpRecursion` and `DownRecursion` of the two ranks that loops have.

Only model-checked:

- the liveness properties `BgsaveEnds`, `RandomKeyEnds`, `ReadyIsServed`, `ReadersAreServed` and `BlockedSyncEnds`: no prover here does fairness or ENABLED. Every invariant and every action property that a passing run checks, and every
  refinement, is a theorem.

## 5. Plan

Done: `Persistence`, `Dict`, `Keyspace`, `EventLoop`, `Clients`, `Replication`, `Sds`, `Strings`, `SkipList`, with the refinements and theorems above.

1. `Replication` over the saves of `Persistence` instead of dumps that are there.
2. Operators for the codecs and `CQueue`, against reference definitions over bounded inputs.

## 6. Not modelled

- `zmalloc`: a counter beside each call. `anet`: wrappers of sockets; what accept and connect answer is in `Clients`. `redis-cli`: blocking request and
  reply over one socket.
- `adlist` has no module of its own: its lists are sequences in the modules that call it, and the node chain, its iterator and `listDup` are left out.
- In `redis.c`: the configuration file, logging, INFO, the parsing of requests as far as it is there, and commands that only answer.
- The dispatcher, `sendReplyToClient` and `replicationFeedSlaves` do not exist at this commit.
- The interfaces of `bitcask` and `storeengine` have no bodies; the class-file parser is one pass that prints; the Python and assembly
  exercises are floating point and hardware.
- A crash of the machine (as opposed to a process), and memory that runs out.
