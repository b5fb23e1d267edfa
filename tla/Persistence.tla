---------------------------- MODULE Persistence ----------------------------
(***************************************************************************)
(* The RDB persistence of redis.c: foreground saves (SAVE, SHUTDOWN,       *)
(* FLUSHDB/FLUSHALL), background saves by a forked child, the reaping of   *)
(* that child by serverCron, and the reload of the dump at start-up.       *)
(*                                                                         *)
(* Data is abstract.  A database content is the number of the last write   *)
(* it includes and its form: emptied, holding all that write left behind,  *)
(* or cut, holding a part of it.  A file is two parts, a head (signature and first records) and  *)
(* a tail (last records and the REDIS_EOF byte), each a hole or the        *)
(* content it was written from: enough to tell a whole file, a truncated   *)
(* one and a mixture of two writers apart.                                 *)
(***************************************************************************)
EXTENDS Integers

CONSTANTS
    Pid,         \* process ids of background savers
    Nil,         \* a file part nothing was written to
    SaveParams,  \* server.saveparams: records [seconds, changes]
    Faults,      \* what may go wrong, a subset of FaultKind
    MaxVer,      \* bound: number of writes executed in a behaviour
    MaxTime,     \* bound: the last second of a behaviour
    MaxSeed,     \* bound: random() draws of one server incarnation
    MaxFile,     \* bound: files existing at the same time
    MaxFault     \* bound: faults of the environment in a behaviour

Server == 0
FaultKind == {"crash", "kill", "fork", "flush", "rename", "lastslot"}
Content == [ver : 0..MaxVer, form : {"empty", "whole", "cut"}]

ASSUME PidAssumption == Server \notin Pid
ASSUME NilAssumption == Nil \notin Content
ASSUME ParamAssumption == SaveParams \subseteq [seconds : Nat, changes : Nat]
ASSUME FaultAssumption == Faults \subseteq FaultKind
ASSUME BoundAssumption == /\ MaxVer \in Nat /\ MaxTime \in Nat
                          /\ MaxSeed \in Nat /\ MaxFile \in Nat
                          /\ MaxFault \in Nat

VARIABLES
    up,        \* the server process runs
    mem,       \* server.dict: the content of the databases
    ver,       \* writes executed so far, in all incarnations (history)
    dirty,     \* server.dirty
    lastsave,  \* server.lastsave
    bgsave,    \* server.bgsaveinprogress
    cmd,       \* the command inside a foreground saveDb, or "none"
    rng,       \* position of random() in the server process
    kids,      \* children the server forked and has not waited for
    saver,     \* per process: its progress inside saveDb
    now,       \* time(NULL)
    files,     \* contents by inode
    tmp,       \* directory: temp-<time>.<random>.rdb -> inode
    dump,      \* directory: server.dbfilename -> inode
    faults,    \* faults that may still happen
    shared,    \* history: two savers had one inode open
    lost,      \* history: a final fflush lost data
    orphaned   \* history: a child outlived the server that forked it

server  == <<up, mem, ver, dirty, lastsave, bgsave, cmd, rng, kids>>
disk    == <<files, tmp, dump>>
history == <<shared, lost, orphaned>>
vars    == <<server, saver, now, disk, faults, history>>

----------------------------------------------------------------------------
(* Types *)

Part     == {"head", "tail"}
File     == [Part -> Content \union {Nil}]
NoFile   == 0
Inode    == 1..MaxFile
TmpName  == (0..MaxTime) \X (0..MaxSeed)
Saver    == {Server} \union Pid
Running  == {"open", "write", "flush", "rename"}
Exited   == {"exit0", "exit1", "killed"}
SaverRec == [step : {"idle"} \union Running \union Exited, img : Content,
             seed : 0..MaxSeed, name : TmpName, ino : Inode \union {NoFile},
             held : SUBSET Part]

TypeOK ==
    /\ up \in BOOLEAN
    /\ mem \in Content
    /\ ver \in 0..MaxVer
    /\ dirty \in 0..MaxVer
    /\ lastsave \in 0..MaxTime
    /\ bgsave \in BOOLEAN
    /\ cmd \in {"none", "save", "shutdown", "flush"}
    /\ rng \in 0..MaxSeed
    /\ kids \subseteq Pid
    /\ saver \in [Saver -> SaverRec]
    /\ now \in 0..MaxTime
    /\ files \in [Inode -> File]
    /\ tmp \in [TmpName -> Inode \union {NoFile}]
    /\ dump \in Inode \union {NoFile}
    /\ faults \in 0..MaxFault
    /\ shared \in BOOLEAN /\ lost \in BOOLEAN /\ orphaned \in BOOLEAN

Fresh   == [ver |-> 0, form |-> "empty"]
Hollow  == [p \in Part |-> Nil]
Idle    == [step |-> "idle", img |-> Fresh, seed |-> 0, name |-> <<0, 0>>,
            ino |-> NoFile, held |-> {}]
Whole(f) == f["head"] # Nil /\ f["tail"] = f["head"]
Cut(c)   == [c EXCEPT !.form = IF @ = "empty" THEN "empty" ELSE "cut"]
Modified(c) == [c EXCEPT !.ver = ver + 1, !.form = IF @ = "empty" THEN "whole" ELSE @]

(* An inode lives as long as a name or an open descriptor refers to it. *)
Referenced(i) == \/ i = dump
                 \/ \E n \in TmpName : tmp[n] = i
                 \/ \E p \in Saver : saver[p].ino = i
Free == {i \in Inode : ~Referenced(i)}
ReleaseInodes ==
    files' = [i \in Inode |-> IF Referenced(i)' THEN files[i] ELSE Hollow]

(* The environment may fail this way once more. *)
Fault(kind) == kind \in Faults /\ faults > 0 /\ faults' = faults - 1

(* What writeOneDBToFile gets from the iterator for content c: dictNext    *)
(* leaves out the entries of the last slot when there are any.             *)
Iterated(c) == {c} \union (IF "lastslot" \in Faults THEN {Cut(c)} ELSE {})

Start(c, seed) == [Idle EXCEPT !.step = "open", !.img = c, !.seed = seed]

----------------------------------------------------------------------------
(* Commands *)

Ready == up /\ cmd = "none"

(* A command that changes the data and does server.dirty++. *)
Write ==
    /\ Ready /\ ver < MaxVer
    /\ ver' = ver + 1
    /\ mem' = Modified(mem)
    /\ dirty' = dirty + 1
    /\ UNCHANGED <<up, lastsave, bgsave, cmd, rng, kids, saver, now, disk, faults, history>>

(* SINTERSTORE of sets that exist changes the data and leaves server.dirty *)
(* alone.                                                                  *)
SilentWrite ==
    /\ Ready /\ ver < MaxVer /\ mem.form # "empty"
    /\ ver' = ver + 1
    /\ mem' = Modified(mem)
    /\ UNCHANGED <<up, dirty, lastsave, bgsave, cmd, rng, kids, saver, now, disk, faults, history>>

(* A command enters saveDb in the server process, which draws its random() *)
(* and serves nobody until saveDb returns.                                 *)
EnterSave(c, content) ==
    /\ rng < MaxSeed
    /\ rng' = rng + 1
    /\ cmd' = c
    /\ \E img \in Iterated(content) :
          saver' = [saver EXCEPT ![Server] = Start(img, rng)]

saveCommand ==
    /\ Ready
    /\ EnterSave("save", mem)
    /\ UNCHANGED <<up, mem, ver, dirty, lastsave, bgsave, kids, now, disk, faults, history>>

shutdownCommand ==
    /\ Ready
    /\ EnterSave("shutdown", mem)
    /\ UNCHANGED <<up, mem, ver, dirty, lastsave, bgsave, kids, now, disk, faults, history>>

(* Mutant: save first, then empty the data. *)
flushCommandLate ==
    /\ Ready /\ ver < MaxVer
    /\ ver' = ver + 1
    /\ mem' = [ver |-> ver + 1, form |-> "empty"]
    /\ EnterSave("flush", mem)
    /\ UNCHANGED <<up, dirty, lastsave, bgsave, kids, now, disk, faults, history>>

(* FLUSHDB and FLUSHALL empty the data, answer, then save. *)
flushCommand ==
    /\ Ready /\ ver < MaxVer
    /\ ver' = ver + 1
    /\ mem' = [ver |-> ver + 1, form |-> "empty"]
    /\ EnterSave("flush", mem')
    /\ UNCHANGED <<up, dirty, lastsave, bgsave, kids, now, disk, faults, history>>

(* fork(): the child inherits the data and the position of random(); a    *)
(* failed fork takes the branch of the parent too.                         *)
Fork ==
    /\ bgsave' = TRUE
    /\ \/ \E p \in Pid :
            /\ saver[p] = Idle
            /\ kids' = kids \union {p}
            /\ \E img \in Iterated(mem) :
                  saver' = [saver EXCEPT ![p] = Start(img, rng)]
            /\ UNCHANGED faults
       \/ /\ Fault("fork")
          /\ UNCHANGED <<kids, saver>>

saveDbBackgroundUnguarded == Fork  \* mutant: no look at bgsaveinprogress
saveDbBackground == ~bgsave /\ Fork

bgsaveCommand ==
    /\ Ready
    /\ saveDbBackground
    /\ UNCHANGED <<up, mem, ver, dirty, lastsave, cmd, rng, now, disk, history>>

----------------------------------------------------------------------------
(* saveDb, in the server or in a child *)

(* Process p leaves saveDb.  A child exits and stays for wait4 if its      *)
(* server still runs.  The server resets its counters on success, and ends *)
(* there if it was shutting down: a child at work becomes an orphan.       *)
Orphan(s) == [p \in Saver |-> IF p = Server \/ s[p].step \in Exited
                              THEN Idle ELSE s[p]]

Terminate(s) ==
    /\ up' = FALSE
    /\ mem' = Fresh
    /\ dirty' = 0
    /\ bgsave' = FALSE
    /\ cmd' = "none"
    /\ rng' = 0
    /\ kids' = {}
    /\ saver' = Orphan(s)
    /\ orphaned' = (orphaned \/ \E p \in kids : s[p].step \in Running)

Leave(p, ok) ==
    \/ /\ p \in kids
       /\ saver' = [saver EXCEPT ![p] = [Idle EXCEPT !.step = IF ok THEN "exit0" ELSE "exit1"]]
       /\ UNCHANGED <<server, orphaned>>
    \/ /\ p \in Pid \ kids
       /\ saver' = [saver EXCEPT ![p] = Idle]
       /\ UNCHANGED <<server, orphaned>>
    \/ /\ p = Server
       /\ lastsave' = IF ok THEN now ELSE lastsave
       /\ ver' = ver
       /\ IF ok /\ cmd = "shutdown"
          THEN Terminate(saver)
          ELSE /\ dirty' = IF ok THEN 0 ELSE dirty
               /\ cmd' = "none"
               /\ saver' = [saver EXCEPT ![Server] = Idle]
               /\ UNCHANGED <<up, mem, bgsave, rng, kids, orphaned>>

(* fopen(tmpfile, "w"): creates the file, or truncates the one that has    *)
(* this name already.                                                      *)
SaveOpen(p) ==
    LET name == <<now, saver[p].seed>> IN
    /\ saver[p].step = "open"
    /\ \E i \in IF tmp[name] # NoFile THEN {tmp[name]} ELSE Free :
          /\ tmp[name] = NoFile => \A j \in Free : i <= j
          /\ files' = [files EXCEPT ![i] = Hollow]
          /\ tmp' = [tmp EXCEPT ![name] = i]
          /\ saver' = [saver EXCEPT ![p] =
                         [@ EXCEPT !.step = "write", !.name = name, !.ino = i, !.held = Part]]
          /\ shared' = (shared \/ \E q \in Saver \ {p} : saver[q].ino = i)
    /\ UNCHANGED <<server, now, dump, faults, lost, orphaned>>

(* The files after parts of p's buffer reached its inode. *)
Emit(p, parts) ==
    [files EXCEPT ![saver[p].ino] =
        [x \in Part |-> IF x \in parts THEN saver[p].img ELSE @[x]]]

(* Mutant: rename without a flush. *)
SaveWriteUnflushed(p) ==
    /\ saver[p].step = "write"
    /\ saver' = [saver EXCEPT ![p] = [@ EXCEPT !.step = "rename"]]
    /\ UNCHANGED <<server, now, disk, faults, history>>

(* The fwrite calls: stdio hands a prefix to the file and holds the rest.  *)
SaveWrite(p) ==
    /\ saver[p].step = "write"
    /\ \E early \in {{}, {"head"}} :
          /\ files' = Emit(p, early)
          /\ saver' = [saver EXCEPT ![p] =
                          [@ EXCEPT !.step = "flush", !.held = Part \ early]]
    /\ UNCHANGED <<server, now, tmp, dump, faults, history>>

(* fflush, fsync and fclose, whose results nobody looks at. *)
SaveFlush(p) ==
    /\ saver[p].step = "flush"
    /\ \E out \in SUBSET saver[p].held :
          /\ \/ out = saver[p].held /\ UNCHANGED faults
             \/ "tail" \notin out /\ Fault("flush")
          /\ lost' = (lost \/ out # saver[p].held)
          /\ files' = Emit(p, out)
    /\ saver' = [saver EXCEPT ![p] = [@ EXCEPT !.step = "rename", !.held = {}]]
    /\ UNCHANGED <<server, now, tmp, dump, shared, orphaned>>

(* rename(tmpfile, filename); when it fails the temp file is unlinked. *)
SaveRename(p) ==
    LET name == saver[p].name IN
    /\ saver[p].step = "rename"
    /\ tmp' = [tmp EXCEPT ![name] = NoFile]
    /\ \/ /\ tmp[name] # NoFile
          /\ dump' = tmp[name]
          /\ Leave(p, TRUE)
          /\ UNCHANGED faults
       \/ /\ IF tmp[name] = NoFile THEN UNCHANGED faults ELSE Fault("rename")
          /\ dump' = dump
          /\ Leave(p, FALSE)
    /\ ReleaseInodes
    /\ UNCHANGED <<now, shared, lost>>

(* saveDb gives up: fopen fails, or a write does and werr unlinks the file *)
(* (writeOneDBToFile has no return statement at its end, so its result may *)
(* be anything and this needs no fault).                                   *)
SaveFail(p) ==
    /\ \/ /\ saver[p].step = "open"
          /\ tmp' = tmp
       \/ /\ saver[p].step = "write"
          /\ tmp' = [tmp EXCEPT ![saver[p].name] = NoFile]
    /\ dump' = dump
    /\ Leave(p, FALSE)
    /\ ReleaseInodes
    /\ UNCHANGED <<now, faults, shared, lost>>

SaveStep(p) == \/ SaveOpen(p) \/ SaveWrite(p) \/ SaveFlush(p)
               \/ SaveRename(p) \/ SaveFail(p)

----------------------------------------------------------------------------
(* serverCron *)

(* Mutant: what was written since the fork stays counted, minus one. *)
ReapedMinus(code) ==
    /\ bgsave' = FALSE
    /\ dirty' = dirty - 1
    /\ lastsave' = now

(* Bookkeeping for the exit code waitBgsaveFinish believes in. *)
Reaped(code) ==
    /\ bgsave' = FALSE
    /\ dirty' = IF code = 0 THEN 0 ELSE dirty
    /\ lastsave' = IF code = 0 THEN now ELSE lastsave

(* Mutant: the answer 0 of wait4, "still running", counts as an end. *)
waitBgsaveFinishUnchecked ==
    /\ \E code \in {0, 1} : Reaped(code)
    /\ UNCHANGED <<kids, saver>>

(* Mutant: only a child that was there ends a background save. *)
waitBgsaveFinishPatient ==
    \E p \in kids :
        /\ saver[p].step \in Exited
        /\ kids' = kids \ {p}
        /\ saver' = [saver EXCEPT ![p] = Idle]
        /\ Reaped(IF saver[p].step = "exit1" THEN 1 ELSE 0)

(* wait4(-1, ..., WNOHANG): an exited child, nothing yet, or -1 because    *)
(* there is no child; then statloc was never written.  WEXITSTATUS is 0    *)
(* for a child that a signal killed.                                       *)
waitBgsaveFinish ==
    \/ \E p \in kids :
          /\ saver[p].step \in Exited
          /\ kids' = kids \ {p}
          /\ saver' = [saver EXCEPT ![p] = Idle]
          /\ Reaped(IF saver[p].step = "exit1" THEN 1 ELSE 0)
    \/ /\ kids = {}
       /\ \E code \in {0, 1} : Reaped(code)
       /\ UNCHANGED <<kids, saver>>

bgsaveIfNeed ==
    /\ \E sp \in SaveParams : dirty >= sp.changes /\ now - lastsave > sp.seconds
    /\ saveDbBackground
    /\ UNCHANGED <<dirty, lastsave>>

(* The part of serverCron about saving. *)
serverCron ==
    /\ Ready
    /\ \/ bgsave /\ waitBgsaveFinish /\ UNCHANGED faults
       \/ ~bgsave /\ bgsaveIfNeed
    /\ UNCHANGED <<up, mem, ver, cmd, rng, now, disk, history>>

----------------------------------------------------------------------------
(* Environment, crash and restart *)

Tick == /\ now < MaxTime
        /\ now' = now + 1
        /\ UNCHANGED <<server, saver, disk, faults, history>>

Crash ==
    /\ up /\ Fault("crash")
    /\ Terminate(saver)
    /\ UNCHANGED <<ver, lastsave, now, tmp, dump, shared, lost>>
    /\ ReleaseInodes

(* A signal kills a background saver; its temp file stays. *)
KillChild(p) ==
    /\ saver[p].step \in Running /\ Fault("kill")
    /\ saver' = [saver EXCEPT ![p] =
                    IF p \in kids THEN [Idle EXCEPT !.step = "killed"] ELSE Idle]
    /\ UNCHANGED <<server, now, tmp, dump, history>>
    /\ ReleaseInodes

loadDbNothing == {Fresh}  \* mutant: looks for the dump under another name

(* loadDb: the contents a dump can turn into.  None: the server exits.  In *)
(* a database section a short read makes loadOneDbFromFile return          *)
(* REDIS_ERR (-1), which the uint8_t in loadDb turns into REDIS_EOF (255), *)
(* a normal end.  A bad signature is an error main() ignores.              *)
loadDb ==
    IF dump = NoFile THEN {Fresh}
    ELSE LET f == files[dump] IN
         CASE Whole(f)                             -> {f["head"]}
           [] f = Hollow                           -> {}
           [] f["head"] = Nil /\ f["tail"] # Nil   -> {Fresh}
           [] f["head"] # Nil /\ f["tail"] = Nil   -> {f["head"], Cut(f["head"])}
           [] OTHER                                -> {Cut(f["head"]), Cut(f["tail"])}

(* main: initServer, then loadDb. *)
Restart ==
    /\ ~up
    /\ up' = TRUE
    /\ mem' \in loadDb
    /\ dirty' = 0 /\ bgsave' = FALSE /\ lastsave' = now
    /\ UNCHANGED <<ver, cmd, rng, kids, saver, now, disk, faults, history>>

----------------------------------------------------------------------------

(* The first start finds no dump file. *)
Init ==
    /\ up = FALSE /\ mem = Fresh /\ ver = 0 /\ dirty = 0 /\ lastsave = 0
    /\ bgsave = FALSE /\ cmd = "none" /\ rng = 0 /\ kids = {}
    /\ saver = [p \in Saver |-> Idle]
    /\ now = 0
    /\ files = [i \in Inode |-> Hollow]
    /\ tmp = [n \in TmpName |-> NoFile]
    /\ dump = NoFile
    /\ faults = MaxFault
    /\ shared = FALSE /\ lost = FALSE /\ orphaned = FALSE

Command == Write \/ SilentWrite \/ saveCommand \/ shutdownCommand
           \/ flushCommand \/ bgsaveCommand

Next == \/ Command
        \/ \E p \in Saver : SaveStep(p)
        \/ serverCron
        \/ Tick
        \/ Crash
        \/ \E p \in Pid : KillChild(p)
        \/ Restart

Spec == Init /\ [][Next]_vars

(* aeProcessEvents comes back to serverCron between commands, for ever,    *)
(* and the scheduler runs every process.                                   *)
Fairness == /\ SF_vars(serverCron)
            /\ \A p \in Saver : WF_vars(SaveStep(p))

FairSpec == Spec /\ Fairness

----------------------------------------------------------------------------
(* Properties *)

DumpVer  == IF dump = NoFile \/ files[dump]["tail"] = Nil THEN 0
            ELSE files[dump]["tail"].ver

(* What server.dirty and the reaping rest on: one incarnation of the       *)
(* server has at most one child it has not waited for, and while there is  *)
(* one bgsaveinprogress is set, so neither BGSAVE nor the cron forks again *)
(* and the exit code waitBgsaveFinish reads is that child's.               *)
OneChild == /\ \A p, q \in kids : p = q
            /\ kids # {} => bgsave

(* The write-then-rename of saveDb: whatever order the server, its child   *)
(* and the orphans of earlier incarnations run in, and whoever dies where, *)
(* the dump is a whole file, unless two savers met in one temp file or the *)
(* unchecked fflush lost data.                                             *)
DumpWholeUnlessShared == dump # NoFile /\ ~shared /\ ~lost => Whole(files[dump])

(* The dump and every snapshot on its way to it are no newer than memory   *)
(* while the server runs: a restart never brings back more, or less, than  *)
(* the dump holds.  An orphan of an earlier incarnation may break this.    *)
NeverAhead ==
    up /\ ~orphaned /\ ~shared /\ ~lost =>
        /\ DumpVer <= mem.ver
        /\ \A p \in kids : saver[p].img.ver <= mem.ver

(* A foreground saveDb that returns REDIS_OK has put the present content   *)
(* of the databases under dbfilename, even if a child saves concurrently.  *)
ForegroundSaveIsExact ==
    [][saver[Server].step = "rename" /\ (dirty' = 0 /\ cmd' = "none") /\ dump' # dump
          /\ ~shared /\ ~lost
       => DumpVer' = mem.ver]_vars

(* The dump goes back to older data only while bgsaveinprogress is set:    *)
(* the late rename of a child that was forked before a foreground save.    *)
DumpRegressesOnlyDuringBgsave ==
    [][~bgsave /\ ~orphaned /\ ~shared /\ ~lost => DumpVer' >= DumpVer]_vars

(* serverCron eventually notices the end of every background save, also of *)
(* one that never started or was killed, so BGSAVE is not refused for ever.*)
BgsaveEnds == bgsave ~> ~bgsave

(* Until two savers meet in one temp file or the disk loses a flush, this  *)
(* is a store that only ever publishes snapshots of its memory and always  *)
(* comes back with the published one, through crashes, killed children,    *)
(* failed forks and renames, and children that outlive their server.       *)
Store == INSTANCE SnapshotStore WITH
            sound   <- ~shared /\ ~lost,
            disk    <- IF dump = NoFile THEN Fresh ELSE files[dump]["tail"],
            pending <- {saver[p].img : p \in {q \in Saver : saver[q].step \in Running}}
ImplementsStore == Store!Spec

(* The inductive strengthening of DumpWholeUnlessShared: the open temp     *)
(* files are distinct, named as their saver believes and not the dump, and *)
(* hold what their saver has let out of its buffer.                        *)
Writing == {"write", "flush", "rename"}
OpenInode ==
    /\ \A p \in Saver : saver[p].step \in Writing <=> saver[p].ino # NoFile
    /\ \A p \in Saver : saver[p].step = "write" => saver[p].held = Part
TempFiles ==
    /\ dump # NoFile => Whole(files[dump])
    /\ \A n \in TmpName : tmp[n] # NoFile =>
          /\ tmp[n] # dump
          /\ \A m \in TmpName : tmp[m] = tmp[n] => m = n
    /\ \A p \in Saver : saver[p].step \in Writing =>
          /\ tmp[saver[p].name] = saver[p].ino
          /\ \A q \in Saver : saver[q].ino = saver[p].ino => q = p
          /\ saver[p].step # "write" =>
                \A x \in Part \ saver[p].held : files[saver[p].ino][x] = saver[p].img
          /\ saver[p].step = "rename" => saver[p].held = {}
DiskInv == OpenInode /\ (~shared /\ ~lost => TempFiles)

(* ---- what a comment of redis.c says, and the code does not do ---- *)

(* redis.c:1032: saveDb writes a temp file first and renames it to         *)
(* filename atomically once it is written successfully.  Two savers may    *)
(* draw the same temp name, and the final flush may fail unnoticed.        *)
DumpIsWhole == dump # NoFile => Whole(files[dump])
=============================================================================
