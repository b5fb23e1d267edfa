---------------------------- MODULE Replication ----------------------------
(***************************************************************************)
(* SYNC between two servers that run redis.c: syncCommand in the master,   *)
(* syncWithMaster in the slave, and the byte stream between them, which    *)
(* either side may close and the network may break.                        *)
(*                                                                         *)
(* Both functions block the server that runs them.  The stream is counted  *)
(* in units: the line with the size is one, a dump has Length[v] of them,  *)
(* the first with the signature, and syncRead asks for Buf of them.        *)
(* Clients has what else happens to the client of the slave; here the next *)
(* connection comes when the master let go of the last one.  No name here  *)
(* is one of Persistence's, so that a module can extend both.              *)
(***************************************************************************)
EXTENDS Integers, Sequences

CONSTANTS
    Length,    \* units of a dump of the data after v writes
    Buf,       \* units in the 1024 bytes syncRead asks for
    Room,      \* bound: units on their way in a connection
    MaxWrites, \* bound: writes the master executes
    MaxFaults  \* bound: what breaks in a behaviour

ASSUME ReplicationAssumption ==
    /\ MaxWrites \in Nat /\ Buf \in Nat \ {0} /\ Room \in Nat \ {0} /\ MaxFaults \in Nat
    /\ Length \in [0..MaxWrites -> Nat \ {0}]

VARIABLES
    writes,     \* the master's data, as the number of writes in it
    master,     \* where the master stands in syncCommand
    out,        \* what syncCommand has yet to write
    listed,     \* the connection's client is in server.slaves
    accepted,   \* the master holds the connection
    wire,       \* units written and not yet read
    asked,      \* "SYNC \r\n" is on its way to the master
    slave,      \* where the slave stands in syncWithMaster
    connected,  \* the slave holds the connection
    buf,        \* what syncRead has read so far
    need,       \* dumpsize
    temp,       \* the temp file of dumpMasterRDB
    slaveDisk,  \* the slave's server.dbfilename
    slaveMem,   \* the slave's databases, as the dump they came from
    replstate,
    syncFaults  \* faults that may still happen

masterVars == <<writes, master, out, listed, accepted>>
slaveVars == <<slave, connected, buf, need, temp, slaveDisk, slaveMem, replstate>>
syncVars == <<masterVars, wire, asked, slaveVars, syncFaults>>

Line(n) == <<"line", n>>
Dump(v) == [i \in 1..Length[v] |-> <<"dump", v, i>>]
Own == <<<<"own">>>>       \* a dump the slave had before
Smaller(a, b) == IF a < b THEN a ELSE b

----------------------------------------------------------------------------
(* The master *)

(* saveDb fails, or open or fstat do: the client is marked REDIS_CLOSE,    *)
(* which nothing looks at.                                                 *)
syncCommand ==
    /\ master = "idle" /\ accepted /\ asked
    /\ asked' = FALSE
    /\ \/ /\ master' = "send" /\ out' = <<Line(Length[writes])>> \o Dump(writes)
          /\ UNCHANGED syncFaults
       \/ syncFaults > 0 /\ syncFaults' = syncFaults - 1 /\ UNCHANGED <<master, out>>
    /\ UNCHANGED <<writes, listed, accepted, wire, slaveVars>>

(* aeWait(fd, AE_WRITABLE, 1000) and a write that takes what there is room *)
(* for, or that finds the connection closed.                               *)
Writable == Len(wire) < Room \/ ~connected
syncWrite ==
    /\ master = "send" /\ out # <<>> /\ Writable
    /\ IF connected
       THEN \E n \in 1..Smaller(Len(out), Room - Len(wire)) :
            /\ wire' = wire \o SubSeq(out, 1, n)
            /\ out' = SubSeq(out, n + 1, Len(out))
            /\ UNCHANGED <<master, listed>>
       ELSE master' = "idle" /\ listed' = TRUE /\ out' = <<>> /\ UNCHANGED wire
    /\ UNCHANGED <<writes, accepted, asked, slaveVars, syncFaults>>

(* Nothing could be written for five seconds, or REDIS_MAX_SYNC_TIME is    *)
(* over: the result of writeFileToClient is not looked at.                 *)
GiveUpWhenClosed ==        \* without the time limit
    /\ master = "send" /\ out # <<>> /\ ~Writable /\ ~connected
    /\ master' = "idle" /\ listed' = TRUE /\ out' = <<>>
    /\ UNCHANGED <<writes, accepted, wire, asked, slaveVars, syncFaults>>
GiveUp ==
    /\ master = "send" /\ out # <<>> /\ ~Writable
    /\ master' = "idle" /\ listed' = TRUE /\ out' = <<>>
    /\ UNCHANGED <<writes, accepted, wire, asked, slaveVars, syncFaults>>

(* The last write of writeFileToClient, "\r\n", goes to the file it read,  *)
(* and fails.                                                              *)
Listed ==
    /\ master = "send" /\ out = <<>>
    /\ master' = "idle" /\ listed' = TRUE
    /\ UNCHANGED <<writes, out, accepted, wire, asked, slaveVars, syncFaults>>

(* Writes are fed to slaves by functions that are not defined at this      *)
(* commit.                                                                 *)
MasterWrite ==
    /\ master = "idle" /\ writes < MaxWrites
    /\ writes' = writes + 1
    /\ \/ listed /\ connected /\ Len(wire) < Room /\ wire' = Append(wire, <<"write", writes'>>)
       \/ ~(listed /\ connected) /\ UNCHANGED wire
    /\ UNCHANGED <<master, out, listed, accepted, asked, slaveVars, syncFaults>>

(* readQueryFromClient finds the end of the stream and frees the client.   *)
MasterCloses ==
    /\ master = "idle" /\ accepted /\ ~connected
    /\ accepted' = FALSE /\ listed' = FALSE /\ asked' = FALSE
    /\ UNCHANGED <<writes, master, out, wire, slaveVars, syncFaults>>

(* The size line is formatted by snprintf without the size of its buffer,  *)
(* which the length stands for: the master may die there.  It may die, or  *)
(* lose the connection, at any other time too.                             *)
MasterDies ==
    /\ syncFaults > 0 /\ syncFaults' = syncFaults - 1 /\ accepted
    /\ master' = "idle" /\ out' = <<>> /\ accepted' = FALSE /\ listed' = FALSE /\ asked' = FALSE
    /\ UNCHANGED <<writes, wire, slaveVars>>

----------------------------------------------------------------------------
(* The slave *)

(* serverCron calls syncWithMaster, which connects and writes "SYNC \r\n". *)
ConnectEmpty ==        \* which makes room for the master's data at once
    /\ slave = "idle" /\ replstate = "connect" /\ ~accepted
    /\ slave' = "head" /\ connected' = TRUE /\ accepted' = TRUE /\ asked' = TRUE
    /\ wire' = <<>> /\ buf' = <<>> /\ slaveMem' = <<>>
    /\ UNCHANGED <<writes, master, out, listed, need, temp, slaveDisk, replstate, syncFaults>>
Connect ==
    /\ slave = "idle" /\ replstate = "connect" /\ ~accepted
    /\ slave' = "head" /\ connected' = TRUE /\ accepted' = TRUE /\ asked' = TRUE
    /\ wire' = <<>> /\ buf' = <<>>
    /\ UNCHANGED <<writes, master, out, listed, need, temp, slaveDisk, slaveMem, replstate,
                   syncFaults>>

(* What every error of syncWithMaster after anetTcpConnect does.           *)
Close == slave' = "idle" /\ connected' = FALSE

(* syncRead wants Buf units, whatever they are: the line with the size and *)
(* the beginning of the dump.  atoi reads the line.                        *)
syncRead ==
    /\ slave = "head" /\ wire # <<>>
    /\ \E n \in 1..Smaller(Len(wire), Buf - Len(buf)) :
        /\ buf' = buf \o SubSeq(wire, 1, n)
        /\ wire' = SubSeq(wire, n + 1, Len(wire))
    /\ IF Len(buf') = Buf
       THEN slave' = "dump" /\ need' = buf'[1][2] /\ temp' = <<>>
       ELSE UNCHANGED <<slave, need, temp>>
    /\ UNCHANGED <<masterVars, asked, connected, slaveDisk, slaveMem, replstate, syncFaults>>

(* Five seconds without enough data, also when read() returns 0 at the end *)
(* of the stream.                                                          *)
ReadTimeout ==
    /\ slave = "head" /\ wire = <<>>
    /\ Close
    /\ UNCHANGED <<masterVars, wire, asked, buf, need, temp, slaveDisk, slaveMem, replstate,
                   syncFaults>>

(* At the end of the stream read() returns 0 for ever, and the loop goes   *)
(* on without a step that changes anything.                                *)
DumpReadToEnd ==        \* which takes 0 for the end of the dump
    /\ slave = "dump" /\ need > 0
    /\ \/ \E n \in 1..Smaller(Len(wire), need) :
            /\ temp' = temp \o SubSeq(wire, 1, n)
            /\ wire' = SubSeq(wire, n + 1, Len(wire))
            /\ need' = need - n
       \/ wire = <<>> /\ ~accepted /\ need' = 0 /\ UNCHANGED <<temp, wire>>
    /\ UNCHANGED <<masterVars, asked, slave, connected, buf, slaveDisk, slaveMem, replstate,
                   syncFaults>>
DumpRead ==
    /\ slave = "dump" /\ need > 0 /\ wire # <<>>
    /\ \E n \in 1..Smaller(Len(wire), need) :
        /\ temp' = temp \o SubSeq(wire, 1, n)
        /\ wire' = SubSeq(wire, n + 1, Len(wire))
        /\ need' = need - n
    /\ UNCHANGED <<masterVars, asked, slave, connected, buf, slaveDisk, slaveMem, replstate,
                   syncFaults>>

(* open, read or write fail; the temp file stays behind.                   *)
DumpFails ==
    /\ slave = "dump" /\ syncFaults > 0 /\ syncFaults' = syncFaults - 1
    /\ Close
    /\ UNCHANGED <<masterVars, wire, asked, buf, need, temp, slaveDisk, slaveMem, replstate>>

(* dumpMasterRDB ends without a return: its result is any.                 *)
Rename ==
    /\ slave = "dump" /\ need = 0
    /\ \/ /\ slaveDisk' = temp
          /\ \/ Close
             \/ slave' = "load" /\ UNCHANGED connected
          /\ UNCHANGED syncFaults
       \/ syncFaults > 0 /\ syncFaults' = syncFaults - 1 /\ Close /\ UNCHANGED slaveDisk
    /\ UNCHANGED <<masterVars, wire, asked, buf, need, temp, slaveMem, replstate>>

(* loadDb: what it makes of a file, or that it ends the process.           *)
Signed(file) == file \in {Own} \union {Dump(v) : v \in 0..MaxWrites}
Loaded(file) == IF Signed(file) THEN file ELSE <<>>

(* emptyDb comes first; without a signature loadDb returns REDIS_ERR.      *)
Load ==
    /\ slave = "load"
    /\ slaveMem' = Loaded(slaveDisk)
    /\ IF Signed(slaveDisk) THEN slave' = "idle" /\ replstate' = "connected" /\ UNCHANGED connected
                       ELSE Close /\ UNCHANGED replstate
    /\ UNCHANGED <<masterVars, wire, asked, buf, need, temp, slaveDisk, syncFaults>>

(* The slave is killed, stuck or not, and started again.                   *)
SlaveRestart ==
    /\ syncFaults > 0 /\ syncFaults' = syncFaults - 1
    /\ Close /\ slaveMem' = Loaded(slaveDisk) /\ replstate' = "connect"
    /\ UNCHANGED <<masterVars, wire, asked, buf, need, temp, slaveDisk>>

----------------------------------------------------------------------------
SyncInit ==
    /\ writes = 0 /\ master = "idle" /\ out = <<>> /\ listed = FALSE /\ accepted = FALSE
    /\ wire = <<>> /\ asked = FALSE
    /\ slave = "idle" /\ connected = FALSE /\ buf = <<>> /\ need = 0 /\ temp = <<>>
    /\ slaveDisk = Own /\ slaveMem = Own /\ replstate = "connect"
    /\ syncFaults = MaxFaults

SyncNext ==
    \/ syncCommand \/ syncWrite \/ GiveUp \/ Listed \/ MasterWrite \/ MasterCloses \/ MasterDies
    \/ Connect \/ syncRead \/ ReadTimeout \/ DumpRead \/ DumpFails \/ Rename \/ Load
    \/ SlaveRestart

SyncSpec == SyncInit /\ [][SyncNext]_syncVars

(* Both processes run and the clock moves: in each wait of syncWrite or of *)
(* syncRead one of these is enabled.                                       *)
FairSyncSpec ==
    /\ SyncSpec
    /\ WF_syncVars(syncWrite \/ GiveUp \/ Listed)
    /\ WF_syncVars(syncRead \/ ReadTimeout)

----------------------------------------------------------------------------
(* Properties *)

SyncTypeOK ==
    /\ writes \in 0..MaxWrites /\ master \in {"idle", "send"} /\ listed \in BOOLEAN
    /\ accepted \in BOOLEAN /\ asked \in BOOLEAN /\ connected \in BOOLEAN
    /\ Len(wire) <= Room /\ Len(buf) <= Buf
    /\ slave \in {"idle", "head", "dump", "load"} /\ need \in Nat
    /\ replstate \in {"connect", "connected"} /\ syncFaults \in 0..MaxFaults

(* The slave's dump is replaced by nothing but a file with as many units   *)
(* as the master announced, whatever breaks in the middle of the stream.   *)
PublishedAsAnnounced ==
    [][slaveDisk' # slaveDisk => buf[1] = Line(Len(slaveDisk'))]_syncVars

(* As long as the slave has not replaced its own dump it has its own data: *)
(* failing syncs and restarts lose nothing before that.                    *)
OwnDataUntilReplaced == slaveDisk = Own => slaveMem = Own

(* Neither server waits for the other for ever where the code has a limit: *)
(* not the master that sends a dump nobody reads, and not the slave that   *)
(* waits for the head of one.                                              *)
BlockedSyncEnds ==
    /\ master = "send" ~> master = "idle"
    /\ slave = "head" ~> slave # "head"
=============================================================================
