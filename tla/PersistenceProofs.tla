------------------------- MODULE PersistenceProofs -------------------------
(***************************************************************************)
(* Proofs about Persistence: its types, the single background child, the   *)
(* wholeness of the dump file, and the order of the snapshots in savers, in *)
(* the dump and in memory; and, at the end, about Replication.             *)
(***************************************************************************)
EXTENDS Persistence, Replication, SequenceTheorems, TLAPS

(* TypeOK is not inductive alone: dirty stays below its bound because it   *)
(* counts writes, and a stopped server must have let go of its children    *)
(* for OneChild to survive Restart.                                        *)
IInv == /\ TypeOK
        /\ dirty <= ver
        /\ OneChild
        /\ ~up => kids = {}

USE BoundAssumption

Step == {"idle"} \union Running \union Exited

(* Contents and empty files have their types. *)
LEMMA ContentTypes ==
    /\ Fresh \in Content
    /\ Hollow \in File
    /\ \A c \in Content : Cut(c) \in Content /\ Iterated(c) \subseteq Content
<1>1. Fresh \in Content
  BY DEF Fresh, Content
<1>2. Hollow \in File
  BY DEF Hollow, File
<1>3. ASSUME NEW c \in Content PROVE Cut(c) \in Content
  BY DEF Cut, Content
<1>4. ASSUME NEW c \in Content PROVE Iterated(c) \subseteq Content
  BY <1>3 DEF Iterated
<1> QED BY <1>1, <1>2, <1>3, <1>4

(* What saveDb makes of a saver's record is one again. *)
LEMMA IdleType == Idle \in SaverRec
<1>1. 0 \in 0..MaxSeed /\ <<0, 0>> \in TmpName
  BY DEF TmpName
<1> QED BY <1>1, ContentTypes DEF Idle, SaverRec

LEMMA StepType ==
    ASSUME NEW s \in SaverRec, NEW x \in Step
    PROVE  /\ [s EXCEPT !.step = x] \in SaverRec
           /\ \A h \in SUBSET Part : [s EXCEPT !.step = x, !.held = h] \in SaverRec
BY DEF SaverRec, Step

LEMMA StartType ==
    ASSUME NEW c \in Content, NEW r \in 0..MaxSeed
    PROVE  Start(c, r) \in SaverRec
BY IdleType DEF Start, SaverRec, Running

LEMMA OpenType ==
    ASSUME NEW s \in SaverRec, NEW x \in Step, NEW n \in TmpName, NEW i \in Inode,
           NEW h \in SUBSET Part
    PROVE  [s EXCEPT !.step = x, !.name = n, !.ino = i, !.held = h] \in SaverRec
BY DEF SaverRec, Step

LEMMA InitIInv == Init => IInv
<1> SUFFICES ASSUME Init PROVE IInv
  OBVIOUS
<1>1. /\ mem \in Content
      /\ saver \in [Saver -> SaverRec]
      /\ files \in [Inode -> File]
      /\ tmp \in [TmpName -> Inode \union {NoFile}]
  BY ContentTypes, IdleType DEF Init
<1>2. /\ ver \in 0..MaxVer /\ dirty \in 0..MaxVer /\ lastsave \in 0..MaxTime
      /\ rng \in 0..MaxSeed /\ now \in 0..MaxTime /\ faults \in 0..MaxFault
  BY DEF Init
<1>3. /\ up \in BOOLEAN /\ bgsave \in BOOLEAN /\ shared \in BOOLEAN
      /\ lost \in BOOLEAN /\ orphaned \in BOOLEAN
  BY DEF Init
<1>4. /\ cmd \in {"none", "save", "shutdown", "flush"} /\ kids \subseteq Pid
      /\ dump \in Inode \union {NoFile}
  BY DEF Init
<1>5. dirty <= ver
  BY DEF Init
<1>6. OneChild
  BY DEF Init, OneChild
<1> QED BY <1>1, <1>2, <1>3, <1>4, <1>5, <1>6 DEF Init, IInv, TypeOK

LEMMA ModifiedType ==
    ASSUME NEW c \in Content, ver \in 0..MaxVer, ver < MaxVer
    PROVE  /\ Modified(c) \in Content
           /\ [ver |-> ver + 1, form |-> "empty"] \in Content
<1>1. ver + 1 \in 0..MaxVer
  OBVIOUS
<1> QED BY <1>1 DEF Modified, Content

(* The commands that touch neither saver nor disk. *)
LEMMA WriteIInv == IInv /\ (Write \/ SilentWrite \/ Tick) => IInv'
<1> SUFFICES ASSUME IInv, Write \/ SilentWrite \/ Tick PROVE IInv'
  OBVIOUS
<1> USE DEF IInv, TypeOK, OneChild, disk, history, server
<1>1. CASE Write
  <2>1. mem' \in Content
    BY <1>1, ModifiedType DEF Write
  <2> QED BY <1>1, <2>1 DEF Write
<1>2. CASE SilentWrite
  <2>1. mem' \in Content
    BY <1>2, ModifiedType DEF SilentWrite
  <2> QED BY <1>2, <2>1 DEF SilentWrite
<1>3. CASE Tick
  BY <1>3 DEF Tick
<1> QED BY <1>1, <1>2, <1>3

(* A command that enters saveDb in the server. *)
LEMMA EnterIInv == IInv /\ (saveCommand \/ shutdownCommand \/ flushCommand) => IInv'
<1> SUFFICES ASSUME IInv, saveCommand \/ shutdownCommand \/ flushCommand PROVE IInv'
  OBVIOUS
<1> USE DEF IInv, TypeOK
<1>1. ASSUME NEW c, NEW content \in Content, EnterSave(c, content)
      PROVE  saver' \in [Saver -> SaverRec] /\ rng' \in 0..MaxSeed /\ cmd' = c
  <2>1. PICK img \in Iterated(content) : saver' = [saver EXCEPT ![Server] = Start(img, rng)]
    BY <1>1 DEF EnterSave
  <2>2. Start(img, rng) \in SaverRec
    BY <1>1, <2>1, StartType, ContentTypes
  <2>3. saver' \in [Saver -> SaverRec]
    BY <2>1, <2>2
  <2>4. rng' \in 0..MaxSeed /\ cmd' = c
    BY <1>1 DEF EnterSave
  <2> QED BY <2>3, <2>4
<1>2. CASE saveCommand
  BY <1>1, <1>2 DEF saveCommand, disk, history, OneChild
<1>3. CASE shutdownCommand
  BY <1>1, <1>3 DEF shutdownCommand, disk, history, OneChild
<1>4. CASE flushCommand
  <2>1. mem' \in Content
    BY <1>4, ModifiedType DEF flushCommand
  <2> QED BY <1>1, <1>4, <2>1 DEF flushCommand, disk, history, OneChild
<1> QED BY <1>2, <1>3, <1>4

(* A fork is guarded by ~bgsave, so there is no child yet. *)
LEMMA ForkIInv == IInv /\ Ready /\ saveDbBackground
                  => /\ saver' \in [Saver -> SaverRec]
                     /\ faults' \in 0..MaxFault
                     /\ bgsave' = TRUE
                     /\ kids' \subseteq Pid
                     /\ \A p, q \in kids' : p = q
<1> SUFFICES ASSUME IInv, saveDbBackground
             PROVE /\ saver' \in [Saver -> SaverRec] /\ faults' \in 0..MaxFault
                   /\ bgsave' = TRUE /\ kids' \subseteq Pid
                   /\ \A p, q \in kids' : p = q
  OBVIOUS
<1>1. kids = {} /\ bgsave' = TRUE /\ Fork
  BY DEF IInv, OneChild, saveDbBackground, Fork
<1>2. CASE \E p \in Pid :
              /\ kids' = kids \union {p}
              /\ \E img \in Iterated(mem) : saver' = [saver EXCEPT ![p] = Start(img, rng)]
              /\ UNCHANGED faults
  <2>1. PICK p \in Pid, img \in Iterated(mem) :
            /\ kids' = {p} /\ UNCHANGED faults
            /\ saver' = [saver EXCEPT ![p] = Start(img, rng)]
    BY <1>1, <1>2
  <2>2. Start(img, rng) \in SaverRec
    BY <2>1, StartType, ContentTypes DEF IInv, TypeOK
  <2> QED BY <1>1, <2>1, <2>2 DEF IInv, TypeOK
<1>3. CASE Fault("fork") /\ UNCHANGED <<kids, saver>>
  BY <1>1, <1>3 DEF IInv, TypeOK, Fault
<1> QED BY <1>1, <1>2, <1>3 DEF Fork

LEMMA BgsaveIInv == IInv /\ bgsaveCommand => IInv'
<1> SUFFICES ASSUME IInv, bgsaveCommand PROVE IInv'
  OBVIOUS
<1>1. /\ saver' \in [Saver -> SaverRec] /\ faults' \in 0..MaxFault /\ bgsave' = TRUE
      /\ kids' \subseteq Pid /\ \A p, q \in kids' : p = q
  BY ForkIInv DEF bgsaveCommand
<1>2. up /\ UNCHANGED <<up, mem, ver, dirty, lastsave, cmd, rng, now, disk, history>>
  BY DEF bgsaveCommand, Ready
<1> QED BY <1>1, <1>2 DEF IInv, TypeOK, OneChild, disk, history

(* serverCron: the child that is waited for was the only one. *)
LEMMA CronIInv == IInv /\ serverCron => IInv'
<1> SUFFICES ASSUME IInv, serverCron PROVE IInv'
  OBVIOUS
<1>1. up /\ Ready /\ UNCHANGED <<up, mem, ver, cmd, rng, now, disk, history>>
  BY DEF serverCron, Ready
<1>2. CASE bgsave /\ waitBgsaveFinish /\ UNCHANGED faults
  <2>1. \E code \in {0, 1} : Reaped(code)
    BY <1>2 DEF waitBgsaveFinish
  <2>2. bgsave' = FALSE /\ dirty' \in 0..MaxVer /\ dirty' <= ver /\ lastsave' \in 0..MaxTime
    BY <2>1 DEF Reaped, IInv, TypeOK
  <2>3. kids' = {} /\ saver' \in [Saver -> SaverRec]
    BY <1>2, IdleType DEF waitBgsaveFinish, IInv, TypeOK, OneChild
  <2> QED BY <1>1, <1>2, <2>2, <2>3 DEF IInv, TypeOK, OneChild, disk, history
<1>3. CASE ~bgsave /\ bgsaveIfNeed
  <2>1. /\ saver' \in [Saver -> SaverRec] /\ faults' \in 0..MaxFault /\ bgsave' = TRUE
        /\ kids' \subseteq Pid /\ \A p, q \in kids' : p = q
        /\ UNCHANGED <<dirty, lastsave>>
    BY <1>1, <1>3, ForkIInv DEF bgsaveIfNeed
  <2> QED BY <1>1, <2>1 DEF IInv, TypeOK, OneChild, disk, history
<1> QED BY <1>2, <1>3 DEF serverCron

(* The server ends: nothing of it is left but orphans. *)
LEMMA TerminateIInv ==
    ASSUME IInv, Terminate(saver)
    PROVE  /\ up' = FALSE /\ mem' \in Content /\ dirty' = 0 /\ bgsave' = FALSE
           /\ cmd' = "none" /\ rng' \in 0..MaxSeed /\ kids' = {}
           /\ saver' \in [Saver -> SaverRec] /\ orphaned' \in BOOLEAN
<1>1. saver' \in [Saver -> SaverRec]
  BY IdleType DEF Terminate, Orphan, IInv, TypeOK
<1> QED BY <1>1, ContentTypes DEF Terminate, IInv, TypeOK

(* Leaving saveDb changes server variables and the saver in their types.  *)
LEMMA LeaveIInv ==
    ASSUME IInv, NEW p \in Saver, NEW ok \in BOOLEAN, Leave(p, ok)
    PROVE  /\ up' \in BOOLEAN /\ mem' \in Content /\ ver' = ver
           /\ dirty' \in 0..MaxVer /\ dirty' <= ver' /\ lastsave' \in 0..MaxTime
           /\ bgsave' \in BOOLEAN /\ cmd' \in {"none", "save", "shutdown", "flush"}
           /\ rng' \in 0..MaxSeed /\ saver' \in [Saver -> SaverRec]
           /\ orphaned' \in BOOLEAN
           /\ kids' \subseteq Pid /\ OneChild' /\ (~up' => kids' = {})
<1>1. CASE p \in kids /\ UNCHANGED <<server, orphaned>>
           /\ saver' = [saver EXCEPT ![p] = [Idle EXCEPT !.step = IF ok THEN "exit0" ELSE "exit1"]]
  <2>1. [Idle EXCEPT !.step = IF ok THEN "exit0" ELSE "exit1"] \in SaverRec
    BY IdleType, StepType DEF Step, Exited
  <2>2. saver' \in [Saver -> SaverRec]
    BY <1>1, <2>1 DEF IInv, TypeOK
  <2> QED BY <1>1, <2>2 DEF IInv, TypeOK, server, OneChild
<1>2. CASE UNCHANGED <<server, orphaned>> /\ saver' = [saver EXCEPT ![p] = Idle]
  <2>1. saver' \in [Saver -> SaverRec]
    BY <1>2, IdleType DEF IInv, TypeOK
  <2> QED BY <1>2, <2>1 DEF IInv, TypeOK, server, OneChild
<1>3. CASE /\ lastsave' = IF ok THEN now ELSE lastsave
           /\ ver' = ver
           /\ Terminate(saver)
  <2>1. lastsave' \in 0..MaxTime /\ 0 \in 0..MaxVer /\ 0 <= ver
    BY <1>3 DEF IInv, TypeOK
  <2> QED BY <1>3, <2>1, TerminateIInv DEF OneChild
<1>4. CASE /\ lastsave' = IF ok THEN now ELSE lastsave
           /\ ver' = ver
           /\ dirty' = IF ok THEN 0 ELSE dirty
           /\ cmd' = "none"
           /\ saver' = [saver EXCEPT ![Server] = Idle]
           /\ UNCHANGED <<up, mem, bgsave, rng, kids, orphaned>>
  <2>1. saver' \in [Saver -> SaverRec]
    BY <1>4, IdleType DEF IInv, TypeOK
  <2>2. dirty' \in 0..MaxVer /\ dirty' <= ver' /\ lastsave' \in 0..MaxTime
    BY <1>4 DEF IInv, TypeOK
  <2> QED BY <1>4, <2>1, <2>2 DEF IInv, TypeOK, OneChild
<1> QED BY <1>1, <1>2, <1>3, <1>4 DEF Leave

(* Inodes keep their type when unreferenced ones are released. *)
LEMMA ReleaseType ==
    ASSUME files \in [Inode -> File], ReleaseInodes
    PROVE  files' \in [Inode -> File]
BY ContentTypes DEF ReleaseInodes

LEMMA SaveOpenIInv == ASSUME NEW p \in Saver, IInv, SaveOpen(p) PROVE IInv'
<1> DEFINE name == <<now, saver[p].seed>>
<1>1. name \in TmpName /\ saver[p] \in SaverRec
  BY DEF TmpName, IInv, TypeOK, SaverRec
<1>2. PICK i \in Inode :
         /\ files' = [files EXCEPT ![i] = Hollow]
         /\ tmp' = [tmp EXCEPT ![name] = i]
         /\ saver' = [saver EXCEPT ![p] =
                        [@ EXCEPT !.step = "write", !.name = name, !.ino = i, !.held = Part]]
         /\ shared' = (shared \/ \E q \in Saver \ {p} : saver[q].ino = i)
  BY <1>1 DEF SaveOpen, Free, IInv, TypeOK, NoFile
<1>3. [saver[p] EXCEPT !.step = "write", !.name = name, !.ino = i, !.held = Part] \in SaverRec
  BY <1>1, OpenType DEF Step, Running
<1>4. saver' \in [Saver -> SaverRec]
  BY <1>2, <1>3 DEF IInv, TypeOK
<1>5. files' \in [Inode -> File] /\ tmp' \in [TmpName -> Inode \union {NoFile}]
  BY <1>1, <1>2, ContentTypes DEF IInv, TypeOK
<1>6. shared' \in BOOLEAN
  BY <1>2
<1>7. UNCHANGED <<server, now, dump, faults, lost, orphaned>>
  BY DEF SaveOpen
<1> QED BY <1>4, <1>5, <1>6, <1>7 DEF IInv, TypeOK, server, OneChild

(* Writing into an inode. *)
LEMMA EmitType ==
    ASSUME files \in [Inode -> File], NEW p, saver[p].img \in Content, NEW parts
    PROVE  Emit(p, parts) \in [Inode -> File]
<1>1. CASE saver[p].ino \in Inode
  <2>1. [x \in Part |-> IF x \in parts THEN saver[p].img ELSE files[saver[p].ino][x]] \in File
    BY <1>1 DEF File
  <2> QED BY <1>1, <2>1 DEF Emit
<1>2. CASE saver[p].ino \notin Inode
  BY <1>2 DEF Emit
<1> QED BY <1>1, <1>2

LEMMA SaveWriteIInv == ASSUME NEW p \in Saver, IInv, SaveWrite(p) PROVE IInv'
<1>1. saver[p] \in SaverRec /\ saver[p].img \in Content
  BY DEF IInv, TypeOK, SaverRec
<1>2. PICK early \in {{}, {"head"}} :
         /\ files' = Emit(p, early)
         /\ saver' = [saver EXCEPT ![p] = [@ EXCEPT !.step = "flush", !.held = Part \ early]]
  BY DEF SaveWrite
<1>3. saver' \in [Saver -> SaverRec]
  BY <1>1, <1>2, StepType DEF IInv, TypeOK, Step, Running
<1>4. files' \in [Inode -> File]
  BY <1>1, <1>2, EmitType DEF IInv, TypeOK
<1>5. UNCHANGED <<server, now, tmp, dump, faults, history>>
  BY DEF SaveWrite
<1> QED BY <1>3, <1>4, <1>5 DEF IInv, TypeOK, server, history, OneChild

LEMMA SaveFlushIInv == ASSUME NEW p \in Saver, IInv, SaveFlush(p) PROVE IInv'
<1>1. saver[p] \in SaverRec /\ saver[p].img \in Content
  BY DEF IInv, TypeOK, SaverRec
<1>2. PICK flushed \in SUBSET saver[p].held :
         /\ \/ UNCHANGED faults
            \/ Fault("flush")
         /\ lost' = (lost \/ flushed # saver[p].held)
         /\ files' = Emit(p, flushed)
  BY DEF SaveFlush
<1>3. saver' \in [Saver -> SaverRec]
  BY <1>1, StepType DEF SaveFlush, IInv, TypeOK, Step, Running
<1>4. files' \in [Inode -> File]
  BY <1>1, <1>2, EmitType DEF IInv, TypeOK
<1>5. faults' \in 0..MaxFault
  <2>1. UNCHANGED faults \/ Fault("flush")
    BY DEF SaveFlush
  <2> QED BY <2>1 DEF Fault, IInv, TypeOK
<1>6. lost' \in BOOLEAN
  BY <1>2
<1>7. UNCHANGED <<server, now, tmp, dump, shared, orphaned>>
  BY DEF SaveFlush
<1> QED BY <1>3, <1>4, <1>5, <1>6, <1>7 DEF IInv, TypeOK, server, OneChild

LEMMA SaveRenameIInv == ASSUME NEW p \in Saver, IInv, SaveRename(p) PROVE IInv'
<1>1. saver[p].name \in TmpName
  BY DEF IInv, TypeOK, SaverRec
<1>2. tmp' \in [TmpName -> Inode \union {NoFile}] /\ dump' \in Inode \union {NoFile}
  BY <1>1 DEF SaveRename, IInv, TypeOK
<1>3. PICK ok \in BOOLEAN : Leave(p, ok)
  BY DEF SaveRename
<1>4. faults' \in 0..MaxFault
  <2>1. UNCHANGED faults \/ Fault("rename")
    BY DEF SaveRename
  <2> QED BY <2>1 DEF Fault, IInv, TypeOK
<1>5. files' \in [Inode -> File]
  BY ReleaseType DEF SaveRename, IInv, TypeOK
<1>6. UNCHANGED <<now, shared, lost>>
  BY DEF SaveRename
<1> QED BY <1>2, <1>3, <1>4, <1>5, <1>6, LeaveIInv DEF IInv, TypeOK

LEMMA SaveFailIInv == ASSUME NEW p \in Saver, IInv, SaveFail(p) PROVE IInv'
<1>1. saver[p].name \in TmpName
  BY DEF IInv, TypeOK, SaverRec
<1>2. tmp' \in [TmpName -> Inode \union {NoFile}] /\ dump' \in Inode \union {NoFile}
  BY <1>1 DEF SaveFail, IInv, TypeOK
<1>3. Leave(p, FALSE)
  BY DEF SaveFail
<1>4. files' \in [Inode -> File]
  BY ReleaseType DEF SaveFail, IInv, TypeOK
<1>5. UNCHANGED <<now, faults, shared, lost>>
  BY DEF SaveFail
<1> QED BY <1>2, <1>3, <1>4, <1>5, LeaveIInv DEF IInv, TypeOK

LEMMA KillIInv == ASSUME NEW p \in Pid, IInv, KillChild(p) PROVE IInv'
<1>1. saver' \in [Saver -> SaverRec]
  <2>1. [Idle EXCEPT !.step = "killed"] \in SaverRec
    BY IdleType, StepType DEF Step, Exited
  <2> QED BY <2>1, IdleType DEF KillChild, IInv, TypeOK
<1>2. faults' \in 0..MaxFault
  BY DEF KillChild, Fault, IInv, TypeOK
<1>3. files' \in [Inode -> File]
  BY ReleaseType DEF KillChild, IInv, TypeOK
<1>4. UNCHANGED <<server, now, tmp, dump, history>>
  BY DEF KillChild
<1> QED BY <1>1, <1>2, <1>3, <1>4 DEF IInv, TypeOK, server, history, OneChild

LEMMA CrashIInv == IInv /\ Crash => IInv'
<1> SUFFICES ASSUME IInv, Crash PROVE IInv'
  OBVIOUS
<1>1. /\ up' = FALSE /\ mem' \in Content /\ dirty' = 0 /\ bgsave' = FALSE
      /\ cmd' = "none" /\ rng' \in 0..MaxSeed /\ kids' = {}
      /\ saver' \in [Saver -> SaverRec] /\ orphaned' \in BOOLEAN
  BY TerminateIInv DEF Crash
<1>2. faults' \in 0..MaxFault
  BY DEF Crash, Fault, IInv, TypeOK
<1>3. files' \in [Inode -> File]
  BY ReleaseType DEF Crash, IInv, TypeOK
<1>4. UNCHANGED <<ver, lastsave, now, tmp, dump, shared, lost>>
  BY DEF Crash
<1>5. 0 \in 0..MaxVer /\ 0 <= ver
  BY DEF IInv, TypeOK
<1> QED BY <1>1, <1>2, <1>3, <1>4, <1>5 DEF IInv, TypeOK, OneChild

LEMMA RestartIInv == IInv /\ Restart => IInv'
<1> SUFFICES ASSUME IInv, Restart PROVE IInv'
  OBVIOUS
<1>1. ASSUME dump # NoFile PROVE files[dump] \in File
  BY <1>1 DEF IInv, TypeOK
<1>2. loadDb \subseteq Content
  <2>1. ASSUME NEW f \in File, f["head"] # Nil PROVE f["head"] \in Content
    BY <2>1 DEF File, Part
  <2>2. ASSUME NEW f \in File, f["tail"] # Nil PROVE f["tail"] \in Content
    BY <2>2 DEF File, Part
  <2>3. ASSUME NEW f \in File, f["head"] = Nil, f["tail"] = Nil PROVE f = Hollow
    BY <2>3 DEF File, Part, Hollow
  <2> QED BY <1>1, <2>1, <2>2, <2>3, ContentTypes DEF loadDb, Whole
<1>3. mem' \in Content /\ dirty' = 0 /\ bgsave' = FALSE /\ lastsave' = now /\ up' = TRUE
  BY <1>2 DEF Restart
<1>4. UNCHANGED <<ver, cmd, rng, kids, saver, now, disk, faults, history>> /\ kids = {}
  BY DEF Restart, IInv
<1>5. 0 \in 0..MaxVer /\ 0 <= ver
  BY DEF IInv, TypeOK
<1> QED BY <1>3, <1>4, <1>5 DEF IInv, TypeOK, OneChild, disk, history

LEMMA NextIInv == IInv /\ [Next]_vars => IInv'
<1> SUFFICES ASSUME IInv, [Next]_vars PROVE IInv'
  OBVIOUS
<1>1. CASE Command
  BY <1>1, WriteIInv, EnterIInv, BgsaveIInv DEF Command
<1>2. CASE \E p \in Saver : SaveStep(p)
  BY <1>2, SaveOpenIInv, SaveWriteIInv, SaveFlushIInv, SaveRenameIInv, SaveFailIInv
     DEF SaveStep
<1>3. CASE serverCron
  BY <1>3, CronIInv
<1>4. CASE Tick
  BY <1>4, WriteIInv
<1>5. CASE Crash
  BY <1>5, CrashIInv
<1>6. CASE \E p \in Pid : KillChild(p)
  BY <1>6, KillIInv
<1>7. CASE Restart
  BY <1>7, RestartIInv
<1>8. CASE UNCHANGED vars
  BY <1>8 DEF vars, server, disk, history, IInv, TypeOK, OneChild
<1> QED BY <1>1, <1>2, <1>3, <1>4, <1>5, <1>6, <1>7, <1>8 DEF Next

(* The invariant of the processes: who may be where in saveDb. *)
THEOREM Invariance == Spec => []IInv
BY InitIInv, NextIInv, PTL DEF Spec

(* Every state variable of the persistence keeps its type, for every       *)
(* number of child processes, writes, seconds and faults.                  *)
THEOREM TypeCorrect == Spec => []TypeOK
BY Invariance, PTL DEF IInv

(* redis.c never has two background savers of one server at a time, and    *)
(* bgsaveinprogress is set as long as there is one to wait for.            *)
THEOREM SingleChild == Spec => []OneChild
BY Invariance, PTL DEF IInv

----------------------------------------------------------------------------
(* The dump file *)

LEMMA InitDisk == Init => DiskInv
BY DEF Init, DiskInv, OpenInode, TempFiles, Idle, Writing, NoFile

(* A step that writes no file and opens none, and may end savers, drop     *)
(* their names and release their inodes.                                   *)
LEMMA QuietDisk ==
    ASSUME DiskInv, IInv, IInv', shared' = shared, lost' = lost, dump' = dump,
           \A q \in Saver : \/ saver'[q] = saver[q]
                            \/ saver'[q].ino = NoFile /\ saver'[q].step \notin Writing,
           \A n \in TmpName : tmp'[n] \in {tmp[n], NoFile},
           ~shared /\ ~lost => \A q \in Saver : saver'[q].step \in Writing =>
                                   tmp'[saver[q].name] = tmp[saver[q].name],
           files' = files \/ ReleaseInodes
    PROVE  DiskInv'
<1>1. OpenInode'
  BY DEF DiskInv, OpenInode, Writing
<1>2. ASSUME ~shared, ~lost PROVE TempFiles'
  <2>1. TempFiles /\ OpenInode
    BY <1>2 DEF DiskInv
  <2>2. \A i \in Inode : Referenced(i)' => files'[i] = files[i]
    BY DEF ReleaseInodes
  <2>3. dump' # NoFile => Whole(files[dump])'
    <3>1. dump # NoFile => dump \in Inode /\ Referenced(dump)'
      BY DEF IInv, TypeOK, Referenced
    <3> QED BY <2>1, <2>2, <3>1 DEF TempFiles, Whole
  <2>4. ASSUME NEW n \in TmpName, tmp'[n] # NoFile
        PROVE  tmp'[n] # dump' /\ \A m \in TmpName : tmp'[m] = tmp'[n] => m = n
    BY <2>1, <2>4 DEF TempFiles
  <2>5. ASSUME NEW p \in Saver, saver'[p].step \in Writing
        PROVE  /\ saver'[p] = saver[p]
               /\ tmp'[saver'[p].name] = saver'[p].ino
               /\ \A q \in Saver : saver'[q].ino = saver'[p].ino => q = p
               /\ saver'[p].step # "write" =>
                    \A x \in Part \ saver'[p].held : files'[saver'[p].ino][x] = saver'[p].img
               /\ saver'[p].step = "rename" => saver'[p].held = {}
    <3>1. saver'[p] = saver[p] /\ saver[p].ino # NoFile
      BY <2>1, <2>5 DEF OpenInode
    <3>2. tmp'[saver'[p].name] = saver'[p].ino
      BY <1>2, <2>1, <2>5, <3>1 DEF TempFiles
    <3>3. \A q \in Saver : saver'[q].ino = saver'[p].ino => q = p
      BY <2>1, <2>5, <3>1 DEF TempFiles
    <3>4. saver[p].ino \in Inode
      BY <3>1 DEF IInv, TypeOK, SaverRec
    <3>5. files'[saver[p].ino] = files[saver[p].ino]
      <4>1. PICK i \in Inode : i = saver[p].ino /\ i = saver'[p].ino
        BY <3>1, <3>4
      <4>2. Referenced(i)'
        BY <4>1 DEF Referenced
      <4> QED BY <2>2, <4>1, <4>2
    <3> QED BY <2>1, <2>5, <3>1, <3>2, <3>3, <3>5 DEF TempFiles
  <2> QED BY <2>3, <2>4, <2>5 DEF TempFiles
<1> QED BY <1>1, <1>2 DEF DiskInv

(* Leaving saveDb ends the saver, and all others but orphans if the server *)
(* goes with it.                                                           *)
LEMMA LeaveQuiet ==
    ASSUME IInv, NEW p \in Saver, NEW ok \in BOOLEAN, Leave(p, ok)
    PROVE  /\ \A q \in Saver : \/ saver'[q] = saver[q]
                               \/ saver'[q].ino = NoFile /\ saver'[q].step \notin Writing
           /\ saver'[p].ino = NoFile /\ saver'[p].step \notin Writing
<1>1. Idle.ino = NoFile /\ Idle.step = "idle"
  BY DEF Idle
<1>2. \A x \in {"exit0", "exit1"} :
         LET r == [Idle EXCEPT !.step = x] IN r.ino = NoFile /\ r.step \notin Writing
  BY DEF Idle, Writing
<1>3. CASE Terminate(saver) /\ p = Server
  BY <1>1, <1>3 DEF Terminate, Orphan, Writing, IInv, TypeOK
<1>4. CASE saver' = [saver EXCEPT ![p] = Idle]
  BY <1>1, <1>4 DEF Writing, IInv, TypeOK
<1>5. CASE saver' = [saver EXCEPT ![p] = [Idle EXCEPT !.step = IF ok THEN "exit0" ELSE "exit1"]]
  <2>1. saver'[p] = [Idle EXCEPT !.step = IF ok THEN "exit0" ELSE "exit1"]
    BY <1>5 DEF IInv, TypeOK
  <2>2. saver'[p].ino = NoFile /\ saver'[p].step \notin Writing
    BY <1>2, <2>1
  <2>3. \A q \in Saver \ {p} : saver'[q] = saver[q]
    BY <1>5 DEF IInv, TypeOK
  <2> QED BY <2>2, <2>3
<1> QED BY <1>3, <1>4, <1>5 DEF Leave

LEMMA StartQuiet == \A c, r : Start(c, r).ino = NoFile /\ Start(c, r).step \notin Writing
BY DEF Start, Idle, Writing

(* The commands, the cron, the clock and a restart leave the disk alone.   *)
LEMMA ServerDisk ==
    ASSUME DiskInv, IInv, IInv', Command \/ serverCron \/ Tick \/ Restart
    PROVE  DiskInv'
<1>1. UNCHANGED <<disk, history>>
  BY DEF Command, Write, SilentWrite, saveCommand, shutdownCommand, flushCommand,
         bgsaveCommand, serverCron, Tick, Restart
<1>2. \A q \in Saver : \/ saver'[q] = saver[q]
                       \/ saver'[q].ino = NoFile /\ saver'[q].step \notin Writing
  <2>1. CASE UNCHANGED saver
    BY <2>1
  <2>2. CASE saveCommand \/ shutdownCommand \/ flushCommand
    <3>1. PICK img : saver' = [saver EXCEPT ![Server] = Start(img, rng)]
      BY <2>2 DEF saveCommand, shutdownCommand, flushCommand, EnterSave
    <3> QED BY <3>1, StartQuiet DEF IInv, TypeOK
  <2>3. CASE Fork
    <3>1. \/ UNCHANGED saver
          \/ \E p \in Pid, img \in Iterated(mem) :
                saver' = [saver EXCEPT ![p] = Start(img, rng)]
      BY <2>3 DEF Fork
    <3> QED BY <3>1, StartQuiet DEF IInv, TypeOK
  <2>4. CASE waitBgsaveFinish
    <3>1. \/ UNCHANGED saver
          \/ \E p \in Pid : saver' = [saver EXCEPT ![p] = Idle]
      BY <2>4 DEF waitBgsaveFinish, IInv, TypeOK
    <3> QED BY <3>1 DEF IInv, TypeOK, Idle, Writing
  <2> QED BY <2>1, <2>2, <2>3, <2>4 DEF Command, Write, SilentWrite, bgsaveCommand,
             saveDbBackground, serverCron, bgsaveIfNeed, Tick, Restart
<1> QED BY <1>1, <1>2, QuietDisk DEF disk, history

LEMMA KillDisk == ASSUME DiskInv, IInv, IInv', NEW p \in Pid, KillChild(p) PROVE DiskInv'
<1>1. p \in Saver /\ UNCHANGED <<tmp, dump, history>> /\ ReleaseInodes
  BY DEF KillChild, Saver
<1>2. \A q \in Saver : \/ saver'[q] = saver[q]
                       \/ saver'[q].ino = NoFile /\ saver'[q].step \notin Writing
  BY <1>1 DEF KillChild, IInv, TypeOK, Idle, Writing
<1> QED BY <1>1, <1>2, QuietDisk DEF history

LEMMA CrashDisk == ASSUME DiskInv, IInv, IInv', Crash PROVE DiskInv'
<1>1. UNCHANGED <<tmp, dump, shared, lost>> /\ ReleaseInodes
  BY DEF Crash
<1>2. \A q \in Saver : \/ saver'[q] = saver[q]
                       \/ saver'[q].ino = NoFile /\ saver'[q].step \notin Writing
  BY DEF Crash, Terminate, Orphan, IInv, TypeOK, Idle, Writing
<1> QED BY <1>1, <1>2, QuietDisk

LEMMA SaveFailDisk == ASSUME DiskInv, IInv, IInv', NEW p \in Saver, SaveFail(p) PROVE DiskInv'
<1>1. Leave(p, FALSE) /\ UNCHANGED <<dump, shared, lost>> /\ ReleaseInodes
  BY DEF SaveFail
<1>2. /\ \A q \in Saver : \/ saver'[q] = saver[q]
                          \/ saver'[q].ino = NoFile /\ saver'[q].step \notin Writing
      /\ saver'[p].ino = NoFile /\ saver'[p].step \notin Writing
  BY <1>1, LeaveQuiet
<1>3. \A n \in TmpName : tmp'[n] \in {tmp[n], NoFile}
  BY DEF SaveFail, IInv, TypeOK
<1>4. ASSUME ~shared, ~lost, NEW q \in Saver, saver'[q].step \in Writing
      PROVE  tmp'[saver[q].name] = tmp[saver[q].name]
  <2>1. TempFiles /\ OpenInode
    BY <1>4 DEF DiskInv
  <2>2. q # p /\ saver[q].step \in Writing
    BY <1>2, <1>4
  <2>3. CASE saver[p].step = "open" /\ tmp' = tmp
    BY <2>3
  <2>4. CASE saver[p].step = "write" /\ tmp' = [tmp EXCEPT ![saver[p].name] = NoFile]
    <3>1. saver[p].ino # saver[q].ino
      BY <2>1, <2>2 DEF TempFiles
    <3>2. saver[p].name # saver[q].name
      BY <2>1, <2>2, <2>4, <3>1 DEF TempFiles, Writing
    <3> QED BY <2>4, <3>2 DEF IInv, TypeOK
  <2> QED BY <2>3, <2>4 DEF SaveFail
<1> QED BY <1>1, <1>2, <1>3, <1>4, QuietDisk

(* The file a saver opens is nobody's, unless shared says so: a new inode, *)
(* or the one left under its name.                                         *)
LEMMA SaveOpenDisk == ASSUME DiskInv, IInv, IInv', NEW p \in Saver, SaveOpen(p) PROVE DiskInv'
<1> DEFINE name == <<now, saver[p].seed>>
<1>1. name \in TmpName /\ saver[p] \in SaverRec
  BY DEF TmpName, IInv, TypeOK, SaverRec
<1>2. PICK i \in Inode :
         /\ IF tmp[name] # NoFile THEN i = tmp[name] ELSE i \in Free
         /\ files' = [files EXCEPT ![i] = Hollow]
         /\ tmp' = [tmp EXCEPT ![name] = i]
         /\ saver' = [saver EXCEPT ![p] =
                        [@ EXCEPT !.step = "write", !.name = name, !.ino = i, !.held = Part]]
         /\ shared' = (shared \/ \E q \in Saver \ {p} : saver[q].ino = i)
  BY <1>1, ZenonT(60) DEF SaveOpen, Free, IInv, TypeOK, NoFile
<1>3. saver[p].step = "open" /\ dump' = dump /\ lost' = lost
  BY DEF SaveOpen
<1>4. /\ saver'[p].step = "write" /\ saver'[p].name = name /\ saver'[p].ino = i
      /\ saver'[p].held = Part
      /\ \A q \in Saver \ {p} : saver'[q] = saver[q]
      /\ i # NoFile
  BY <1>1, <1>2 DEF IInv, TypeOK, SaverRec, Inode, NoFile
<1>5. OpenInode'
  BY <1>4 DEF DiskInv, OpenInode, Writing
<1>6. ASSUME ~shared', ~lost' PROVE TempFiles'
  <2>1. TempFiles /\ OpenInode /\ \A q \in Saver \ {p} : saver[q].ino # i
    BY <1>2, <1>3, <1>6 DEF DiskInv
  <2>2. /\ i # dump
        /\ \A m \in TmpName : tmp[m] = i => m = name
    BY <1>1, <1>2, <2>1 DEF TempFiles, Free, Referenced
  <2>3. dump' # NoFile => Whole(files[dump])'
    BY <1>2, <1>3, <2>1, <2>2 DEF TempFiles, Whole, IInv, TypeOK
  <2>4. ASSUME NEW n \in TmpName, tmp'[n] # NoFile
        PROVE  tmp'[n] # dump' /\ \A m \in TmpName : tmp'[m] = tmp'[n] => m = n
    BY <1>1, <1>2, <1>3, <2>1, <2>2, <2>4 DEF TempFiles, IInv, TypeOK
  <2>5. ASSUME NEW q \in Saver, saver'[q].step \in Writing
        PROVE  /\ tmp'[saver'[q].name] = saver'[q].ino
               /\ \A r \in Saver : saver'[r].ino = saver'[q].ino => r = q
               /\ saver'[q].step # "write" =>
                    \A x \in Part \ saver'[q].held : files'[saver'[q].ino][x] = saver'[q].img
               /\ saver'[q].step = "rename" => saver'[q].held = {}
    <3>1. CASE q = p
      BY <1>1, <1>2, <1>4, <2>1, <3>1 DEF IInv, TypeOK
    <3>2. CASE q # p
      <4>1. saver'[q] = saver[q] /\ saver[q].ino # i /\ saver[q].ino \in Inode
        BY <1>4, <2>1, <2>5, <3>2 DEF OpenInode, IInv, TypeOK, SaverRec
      <4>2. saver[q].name # name /\ saver[q].name \in TmpName
        <5>1. tmp[saver[q].name] = saver[q].ino /\ saver[q].ino # NoFile
          BY <2>1, <2>5, <4>1 DEF TempFiles, OpenInode
        <5>2. saver[q].name \in TmpName
          BY DEF IInv, TypeOK, SaverRec
        <5> QED BY <1>2, <4>1, <5>1, <5>2
      <4>3. tmp'[saver'[q].name] = saver'[q].ino
        BY <1>2, <2>1, <2>5, <4>1, <4>2 DEF TempFiles, IInv, TypeOK
      <4>4. \A r \in Saver : saver'[r].ino = saver'[q].ino => r = q
        BY <1>4, <2>1, <2>5, <3>2, <4>1 DEF TempFiles
      <4>5. files'[saver[q].ino] = files[saver[q].ino]
        BY <1>2, <4>1 DEF IInv, TypeOK
      <4> QED BY <2>1, <2>5, <4>1, <4>3, <4>4, <4>5 DEF TempFiles
    <3> QED BY <3>1, <3>2
  <2> QED BY <2>3, <2>4, <2>5 DEF TempFiles
<1> QED BY <1>5, <1>6 DEF DiskInv

(* What a saver lets out of its buffer goes to its own file. *)
LEMMA EmitDisk ==
    ASSUME DiskInv, IInv, IInv', NEW p \in Saver, NEW flushed \in SUBSET saver[p].held,
           NEW step \in {"flush", "rename"},
           saver[p].step \in {"write", "flush"},
           saver[p].step = "write" => saver[p].held = Part,
           files' = Emit(p, flushed),
           saver' = [saver EXCEPT ![p] =
                       [@ EXCEPT !.step = step, !.held = saver[p].held \ flushed]],
           ~shared' /\ ~lost' => ~shared /\ ~lost,
           ~shared' /\ ~lost' /\ step = "rename" => flushed = saver[p].held,
           tmp' = tmp, dump' = dump
    PROVE  DiskInv'
<1>1. saver[p] \in SaverRec /\ files \in [Inode -> File]
  BY DEF IInv, TypeOK
<1>2. /\ saver'[p].step = step /\ saver'[p].held = saver[p].held \ flushed
      /\ saver'[p].name = saver[p].name /\ saver'[p].ino = saver[p].ino
      /\ saver'[p].img = saver[p].img
      /\ \A q \in Saver \ {p} : saver'[q] = saver[q]
  BY <1>1 DEF IInv, TypeOK, SaverRec
<1>3. \A q \in Saver : saver'[q].ino = saver[q].ino /\ saver'[q].name = saver[q].name
  BY <1>2
<1>4. \A q \in Saver : saver'[q].step \in Writing <=> saver[q].step \in Writing
  BY <1>2 DEF Writing
<1>5. OpenInode'
  BY <1>3, <1>4 DEF DiskInv, OpenInode
<1>6. ASSUME ~shared', ~lost' PROVE TempFiles'
  <2>1. TempFiles /\ OpenInode
    BY <1>6 DEF DiskInv
  <2> DEFINE ino == saver[p].ino
  <2>2. ino \in Inode /\ ino # dump /\ tmp[saver[p].name] = ino
    <3>1. ino # NoFile /\ saver[p].step \in Writing /\ saver[p].name \in TmpName
      BY <1>1, <2>1 DEF OpenInode, Writing, SaverRec
    <3>2. tmp[saver[p].name] = ino
      BY <2>1, <3>1 DEF TempFiles
    <3> QED BY <1>1, <2>1, <3>1, <3>2 DEF TempFiles, SaverRec
  <2>3. files' = [files EXCEPT ![ino] =
                     [x \in Part |-> IF x \in flushed THEN saver[p].img ELSE files[ino][x]]]
    BY <1>1, <2>2 DEF Emit
  <2>4. \A x \in Part : files'[ino][x] = IF x \in flushed THEN saver[p].img ELSE files[ino][x]
    BY <1>1, <2>2, <2>3
  <2>5. \A j \in Inode \ {ino} : files'[j] = files[j]
    BY <1>1, <2>3
  <2>6. dump' # NoFile => Whole(files[dump])'
    BY <2>1, <2>2, <2>5 DEF TempFiles, Whole, IInv, TypeOK
  <2>7. \A n \in TmpName : tmp'[n] # NoFile =>
           /\ tmp'[n] # dump'
           /\ \A m \in TmpName : tmp'[m] = tmp'[n] => m = n
    BY <2>1 DEF TempFiles
  <2>8. ASSUME NEW q \in Saver, saver'[q].step \in Writing
        PROVE  /\ tmp'[saver'[q].name] = saver'[q].ino
               /\ \A r \in Saver : saver'[r].ino = saver'[q].ino => r = q
               /\ saver'[q].step # "write" =>
                    \A x \in Part \ saver'[q].held : files'[saver'[q].ino][x] = saver'[q].img
               /\ saver'[q].step = "rename" => saver'[q].held = {}
    <3>1. /\ tmp'[saver'[q].name] = saver'[q].ino
          /\ \A r \in Saver : saver'[r].ino = saver'[q].ino => r = q
      BY <1>3, <1>4, <2>1, <2>8 DEF TempFiles
    <3>2. CASE q = p
      <4>1. \A x \in Part \ saver[p].held : saver[p].step # "write" => files[ino][x] = saver[p].img
        BY <1>4, <2>1, <2>8, <3>2 DEF TempFiles
      <4>2. \A x \in Part \ saver'[p].held : files'[ino][x] = saver[p].img
        BY <1>2, <2>4, <4>1
      <4>3. step = "rename" => saver'[p].held = {}
        BY <1>2, <1>6
      <4> QED BY <1>2, <3>1, <3>2, <4>2, <4>3
    <3>3. CASE q # p
      <4>1. saver'[q] = saver[q] /\ saver[q].ino # ino /\ saver[q].ino \in Inode
        <5>1. saver'[q] = saver[q] /\ saver[q].step \in Writing
          BY <1>2, <2>8, <3>3
        <5>2. saver[q].ino # ino
          BY <2>1, <3>3, <5>1 DEF TempFiles
        <5> QED BY <2>1, <5>1, <5>2 DEF OpenInode, IInv, TypeOK, SaverRec
      <4>2. files'[saver[q].ino] = files[saver[q].ino]
        BY <2>5, <4>1
      <4> QED BY <2>1, <2>8, <3>1, <4>1, <4>2 DEF TempFiles
    <3> QED BY <3>2, <3>3
  <2> QED BY <2>6, <2>7, <2>8 DEF TempFiles
<1> QED BY <1>5, <1>6 DEF DiskInv

LEMMA SaveWriteDisk == ASSUME DiskInv, IInv, IInv', NEW p \in Saver, SaveWrite(p) PROVE DiskInv'
<1>1. PICK early \in {{}, {"head"}} :
         /\ files' = Emit(p, early)
         /\ saver' = [saver EXCEPT ![p] = [@ EXCEPT !.step = "flush", !.held = Part \ early]]
  BY DEF SaveWrite
<1>2. saver[p].step = "write" /\ saver[p].held = Part
  BY DEF SaveWrite, DiskInv, OpenInode
<1>3. UNCHANGED <<tmp, dump, shared, lost>>
  BY DEF SaveWrite, history
<1>4. early \in SUBSET saver[p].held
  BY <1>2 DEF Part
<1> QED BY <1>1, <1>2, <1>3, <1>4, EmitDisk

LEMMA SaveFlushDisk == ASSUME DiskInv, IInv, IInv', NEW p \in Saver, SaveFlush(p) PROVE DiskInv'
<1>1. PICK flushed \in SUBSET saver[p].held :
         /\ lost' = (lost \/ flushed # saver[p].held)
         /\ files' = Emit(p, flushed)
  BY DEF SaveFlush
<1>2. /\ saver[p].step = "flush"
      /\ saver' = [saver EXCEPT ![p] = [@ EXCEPT !.step = "rename", !.held = {}]]
      /\ UNCHANGED <<tmp, dump, shared>>
  BY DEF SaveFlush
<1>3. CASE flushed = saver[p].held
  <2>1. saver[p].held \ flushed = {}
    BY <1>3
  <2> QED BY <1>1, <1>2, <1>3, <2>1, EmitDisk
<1>4. CASE flushed # saver[p].held
  <2>1. OpenInode'
    BY <1>2 DEF DiskInv, OpenInode, Writing, IInv, TypeOK, SaverRec
  <2>2. lost'
    BY <1>1, <1>4
  <2> QED BY <2>1, <2>2 DEF DiskInv
<1> QED BY <1>3, <1>4

(* The rename puts a finished file under dbfilename. *)
LEMMA SaveRenameDisk == ASSUME DiskInv, IInv, IInv', NEW p \in Saver, SaveRename(p) PROVE DiskInv'
<1> DEFINE name == saver[p].name
           ino  == saver[p].ino
<1>1. /\ saver[p].step = "rename" /\ name \in TmpName
      /\ tmp' = [tmp EXCEPT ![name] = NoFile]
      /\ ReleaseInodes /\ UNCHANGED <<shared, lost>>
  BY DEF SaveRename, IInv, TypeOK, SaverRec
<1>2. /\ \A q \in Saver : \/ saver'[q] = saver[q]
                          \/ saver'[q].ino = NoFile /\ saver'[q].step \notin Writing
      /\ saver'[p].ino = NoFile /\ saver'[p].step \notin Writing
  BY LeaveQuiet DEF SaveRename
<1>3. \A n \in TmpName : tmp'[n] \in {tmp[n], NoFile}
  BY <1>1 DEF IInv, TypeOK
<1>4. ASSUME ~shared, ~lost, NEW q \in Saver, saver'[q].step \in Writing
      PROVE  /\ q # p /\ saver[q].step \in Writing /\ saver'[q] = saver[q]
             /\ saver[q].ino # ino
             /\ tmp'[saver[q].name] = tmp[saver[q].name]
  <2>1. TempFiles /\ OpenInode
    BY <1>4 DEF DiskInv
  <2>2. q # p /\ saver[q].step \in Writing /\ saver'[q] = saver[q]
    BY <1>2, <1>4
  <2>3. ino # saver[q].ino
    BY <2>1, <2>2 DEF TempFiles
  <2>4. name # saver[q].name
    BY <1>1, <2>1, <2>2, <2>3 DEF TempFiles, Writing
  <2> QED BY <1>1, <2>2, <2>3, <2>4 DEF IInv, TypeOK
<1>5. CASE dump' = dump
  BY <1>1, <1>2, <1>3, <1>4, <1>5, QuietDisk
<1>6. CASE tmp[name] # NoFile /\ dump' = tmp[name]
  <2>1. OpenInode'
    BY <1>2 DEF DiskInv, OpenInode, Writing
  <2>2. ASSUME ~shared, ~lost PROVE TempFiles'
    <3>1. TempFiles /\ OpenInode
      BY <2>2 DEF DiskInv
    <3>2. /\ dump' = ino /\ ino \in Inode /\ ino # NoFile
          /\ \A x \in Part : files[ino][x] = saver[p].img
      BY <1>1, <1>6, <3>1 DEF TempFiles, OpenInode, Writing, IInv, TypeOK, SaverRec
    <3>3. \A i \in Inode : Referenced(i)' => files'[i] = files[i]
      BY <1>1 DEF ReleaseInodes
    <3>4. files'[dump'] = files[ino]
      <4>1. PICK i \in Inode : i = dump' /\ i = ino
        BY <3>2
      <4>2. Referenced(i)'
        BY <4>1 DEF Referenced
      <4> QED BY <3>3, <4>1, <4>2
    <3>5. Whole(files[dump])'
      <4>1. saver[p].img # Nil
        BY NilAssumption DEF IInv, TypeOK, SaverRec
      <4> QED BY <3>2, <3>4, <4>1 DEF Whole, Part
    <3>6. \A n \in TmpName : tmp'[n] # NoFile =>
             /\ tmp'[n] # dump'
             /\ \A m \in TmpName : tmp'[m] = tmp'[n] => m = n
      BY <1>1, <1>6, <3>1 DEF TempFiles, IInv, TypeOK
    <3>7. ASSUME NEW q \in Saver, saver'[q].step \in Writing
          PROVE  /\ tmp'[saver'[q].name] = saver'[q].ino
                 /\ \A r \in Saver : saver'[r].ino = saver'[q].ino => r = q
                 /\ saver'[q].step # "write" =>
                      \A x \in Part \ saver'[q].held : files'[saver'[q].ino][x] = saver'[q].img
                 /\ saver'[q].step = "rename" => saver'[q].held = {}
      <4>1. /\ saver[q].step \in Writing /\ saver'[q] = saver[q]
            /\ tmp'[saver[q].name] = tmp[saver[q].name]
        BY <1>4, <2>2, <3>7
      <4>2. saver[q].ino \in Inode /\ saver[q].ino # NoFile
        BY <3>1, <4>1 DEF OpenInode, IInv, TypeOK, SaverRec
      <4>3. files'[saver[q].ino] = files[saver[q].ino]
        <5>1. PICK i \in Inode : i = saver[q].ino /\ i = saver'[q].ino
          BY <4>1, <4>2
        <5>2. Referenced(i)'
          BY <5>1 DEF Referenced
        <5> QED BY <3>3, <5>1, <5>2
      <4>4. \A r \in Saver : saver'[r].ino = saver'[q].ino => r = q
        BY <1>2, <3>1, <4>1, <4>2 DEF TempFiles
      <4> QED BY <3>1, <4>1, <4>3, <4>4 DEF TempFiles
    <3> QED BY <3>5, <3>6, <3>7 DEF TempFiles
  <2> QED BY <1>1, <2>1, <2>2 DEF DiskInv
<1> QED BY <1>5, <1>6 DEF SaveRename

LEMMA NextDisk == DiskInv /\ IInv /\ IInv' /\ [Next]_vars => DiskInv'
<1> SUFFICES ASSUME DiskInv, IInv, IInv', [Next]_vars PROVE DiskInv'
  OBVIOUS
<1>1. CASE Command \/ serverCron \/ Tick \/ Restart
  BY <1>1, ServerDisk
<1>2. CASE \E p \in Saver : SaveStep(p)
  BY <1>2, SaveOpenDisk, SaveWriteDisk, SaveFlushDisk, SaveRenameDisk, SaveFailDisk
     DEF SaveStep
<1>3. CASE Crash
  BY <1>3, CrashDisk
<1>4. CASE \E p \in Pid : KillChild(p)
  BY <1>4, KillDisk
<1>5. CASE UNCHANGED vars
  BY <1>5, QuietDisk DEF vars, disk, history
<1> QED BY <1>1, <1>2, <1>3, <1>4, <1>5 DEF Next

(* The inductive invariant of the temp files. *)
THEOREM DiskInvariance == Spec => []DiskInv
BY Invariance, InitDisk, NextDisk, PTL DEF Spec

(* Whatever order the server, its children and orphans run in, and whoever *)
(* crashes where, the dump file is whole unless two savers met in one temp *)
(* file or an unchecked flush lost data.                                   *)
THEOREM DumpWhole == Spec => []DumpWholeUnlessShared
<1>1. DiskInv => DumpWholeUnlessShared
  BY DEF DiskInv, TempFiles, DumpWholeUnlessShared
<1> QED BY <1>1, DiskInvariance, PTL

----------------------------------------------------------------------------
(* Snapshots: which version of the data may be where.                       *)

(* The server serves nobody while it saves: what it saves stays what it    *)
(* has.                                                                    *)
Foreground ==
    saver[Server].step \in Running =>
        /\ up /\ cmd # "none"
        /\ saver[Server].img.ver = mem.ver

(* Processes that do not save hold no snapshot, and a server that is down  *)
(* no data.                                                                *)
Resting ==
    /\ \A p \in Saver : saver[p].step \notin Running => saver[p].img.ver = 0
    /\ ~up => mem.ver = 0

(* A child at work that this server did not fork is an orphan.             *)
Owned == ~orphaned => \A p \in Pid \ kids : saver[p].step \notin Running

(* Without orphans, shared files and lost flushes, every snapshot was      *)
(* taken of memory as it was, and memory was restored from the dump.       *)
Older ==
    ~orphaned /\ ~shared /\ ~lost =>
        /\ mem.ver <= ver /\ DumpVer <= ver
        /\ up => DumpVer <= mem.ver
        /\ \A p \in Saver : saver[p].img.ver <= mem.ver

VInv == Foreground /\ Resting /\ Owned /\ Older

----------------------------------------------------------------------------
(* What a step does to the processes inside saveDb *)

(* A saver goes on with its snapshot, ends, or takes one of the present    *)
(* memory: in the server, which is busy from then on, or in a new child.   *)
GoesOn(q) == /\ saver'[q].img = saver[q].img
             /\ saver'[q].step \in Running <=> saver[q].step \in Running
Ends(q)   == saver'[q].step \notin Running /\ saver'[q].img = Fresh
Starts(q) == /\ Ready /\ up'
             /\ saver'[q].img \in Iterated(mem') /\ saver'[q].step \in Running
             /\ q = Server => cmd' # "none"
             /\ q # Server => q \in kids'

LEMMA ImageVersions == ASSUME NEW c \in Content, NEW img \in Iterated(c) PROVE img.ver = c.ver
BY DEF Iterated, Cut, Content

LEMMA StartRunning ==
    ASSUME NEW c, NEW r
    PROVE  Start(c, r).step \in Running /\ Start(c, r).img = c
BY DEF Start, Idle, Running

LEMMA IdleEnds == Idle.step \notin Running /\ Idle.img = Fresh
BY DEF Idle, Running

(* The records of savers that ended are those of Idle but for the step. *)
LEMMA ExitEnds ==
    ASSUME NEW x \in Exited
    PROVE  [Idle EXCEPT !.step = x].step \notin Running /\ [Idle EXCEPT !.step = x].img = Fresh
BY DEF Idle, Running, Exited

LEMMA TerminateSavers ==
    ASSUME IInv, Terminate(saver), NEW q \in Saver
    PROVE  GoesOn(q) \/ Ends(q)
<1>1. saver'[q] = IF q = Server \/ saver[q].step \in Exited THEN Idle ELSE saver[q]
  BY DEF Terminate, Orphan
<1> QED BY <1>1, IdleEnds DEF GoesOn, Ends

LEMMA LeaveCases ==
    ASSUME NEW p \in Saver, NEW ok \in BOOLEAN, Leave(p, ok)
    PROVE  \/ Terminate(saver)
           \/ saver' = [saver EXCEPT ![p] = Idle]
           \/ saver' = [saver EXCEPT ![p] = [Idle EXCEPT !.step = IF ok THEN "exit0" ELSE "exit1"]]
BY DEF Leave

LEMMA LeaveSavers ==
    ASSUME IInv, NEW p \in Saver, NEW ok \in BOOLEAN, Leave(p, ok), NEW q \in Saver
    PROVE  GoesOn(q) \/ Ends(q)
<1>1. CASE Terminate(saver)
  BY <1>1, TerminateSavers
<1>2. CASE saver' = [saver EXCEPT ![p] = Idle]
  BY <1>2, IdleEnds DEF GoesOn, Ends, IInv, TypeOK
<1>3. CASE saver' = [saver EXCEPT ![p] = [Idle EXCEPT !.step = IF ok THEN "exit0" ELSE "exit1"]]
  <2>1. PICK x \in Exited : saver' = [saver EXCEPT ![p] = [Idle EXCEPT !.step = x]]
    BY <1>3 DEF Exited
  <2>2. CASE q = p
    <3>1. saver'[q] = [Idle EXCEPT !.step = x]
      BY <2>1, <2>2 DEF IInv, TypeOK
    <3> QED BY <3>1, ExitEnds DEF Ends
  <2>3. CASE q # p
    BY <2>1, <2>3 DEF GoesOn, IInv, TypeOK
  <2> QED BY <2>2, <2>3
<1> QED BY <1>1, <1>2, <1>3, LeaveCases

(* Steps inside saveDb that do not end it. *)
LEMMA WorkRecord ==
    ASSUME NEW s \in SaverRec, NEW x, NEW n, NEW i, NEW h
    PROVE  /\ LET r == [s EXCEPT !.step = x, !.name = n, !.ino = i, !.held = h]
              IN  r.step = x /\ r.img = s.img
           /\ LET r == [s EXCEPT !.step = x, !.held = h] IN r.step = x /\ r.img = s.img
BY DEF SaverRec

LEMMA WorkSavers ==
    ASSUME IInv, NEW p \in Saver, SaveOpen(p) \/ SaveWrite(p) \/ SaveFlush(p), NEW q \in Saver
    PROVE  GoesOn(q)
<1>1. saver[p].step \in Running /\ saver[p] \in SaverRec
  BY DEF SaveOpen, SaveWrite, SaveFlush, Running, IInv, TypeOK
<1>2. saver'[p].step \in Running /\ saver'[p].img = saver[p].img
  <2>1. CASE SaveOpen(p)
    <3> DEFINE name == <<now, saver[p].seed>>
    <3>1. PICK i : saver' = [saver EXCEPT ![p] =
                       [@ EXCEPT !.step = "write", !.name = name, !.ino = i, !.held = Part]]
      BY <2>1 DEF SaveOpen
    <3>2. saver'[p] = [saver[p] EXCEPT !.step = "write", !.name = name, !.ino = i, !.held = Part]
      BY <3>1 DEF IInv, TypeOK
    <3> QED BY <1>1, <3>2, WorkRecord DEF Running
  <2>2. CASE SaveWrite(p)
    <3>1. \E h : saver'[p] = [saver[p] EXCEPT !.step = "flush", !.held = h]
      BY <2>2 DEF SaveWrite, IInv, TypeOK
    <3> QED BY <1>1, <3>1, WorkRecord DEF Running
  <2>3. CASE SaveFlush(p)
    <3>1. saver'[p] = [saver[p] EXCEPT !.step = "rename", !.held = {}]
      BY <2>3 DEF SaveFlush, IInv, TypeOK
    <3> QED BY <1>1, <3>1, WorkRecord DEF Running
  <2> QED BY <2>1, <2>2, <2>3
<1>3. q # p => saver'[q] = saver[q]
  BY DEF SaveOpen, SaveWrite, SaveFlush, IInv, TypeOK
<1> QED BY <1>1, <1>2, <1>3 DEF GoesOn

(* The commands that save and the fork. *)
LEMMA EnterSavers ==
    ASSUME IInv, mem' \in Content, saveCommand \/ shutdownCommand \/ flushCommand, NEW q \in Saver
    PROVE  GoesOn(q) \/ Starts(q)
<1>1. PICK img \in Iterated(mem') :
         /\ saver' = [saver EXCEPT ![Server] = Start(img, rng)]
         /\ cmd' # "none"
  <2>1. CASE saveCommand \/ shutdownCommand
    <3>1. mem' = mem /\ (EnterSave("save", mem) \/ EnterSave("shutdown", mem))
      BY <2>1 DEF saveCommand, shutdownCommand
    <3> QED BY <3>1 DEF EnterSave
  <2>2. CASE flushCommand
    <3>1. EnterSave("flush", mem')
      BY <2>2 DEF flushCommand
    <3> QED BY <3>1 DEF EnterSave
  <2> QED BY <2>1, <2>2
<1>2. Ready /\ up'
  BY DEF saveCommand, shutdownCommand, flushCommand, Ready
<1>3. CASE q = Server
  <2>1. saver'[q] = Start(img, rng)
    BY <1>1, <1>3 DEF IInv, TypeOK
  <2> QED BY <1>1, <1>2, <1>3, <2>1, StartRunning DEF Starts
<1>4. CASE q # Server
  BY <1>1, <1>4 DEF GoesOn, IInv, TypeOK
<1> QED BY <1>3, <1>4

LEMMA ForkSavers ==
    ASSUME IInv, Ready, up' = up, mem' = mem, Fork, NEW q \in Saver
    PROVE  GoesOn(q) \/ Starts(q)
<1>1. CASE UNCHANGED saver
  BY <1>1 DEF GoesOn
<1>2. CASE \E p \in Pid, img \in Iterated(mem) :
              kids' = kids \union {p} /\ saver' = [saver EXCEPT ![p] = Start(img, rng)]
  <2>1. PICK p \in Pid, img \in Iterated(mem) :
              kids' = kids \union {p} /\ saver' = [saver EXCEPT ![p] = Start(img, rng)]
    BY <1>2
  <2>2. CASE q = p
    <3>1. saver'[q] = Start(img, rng) /\ q \in kids' /\ q # Server
      BY <2>1, <2>2, PidAssumption DEF IInv, TypeOK
    <3> QED BY <2>1, <3>1, StartRunning DEF Starts, Ready
  <2>3. CASE q # p
    BY <2>1, <2>3 DEF GoesOn, IInv, TypeOK
  <2> QED BY <2>2, <2>3
<1> QED BY <1>1, <1>2 DEF Fork

LEMMA WaitSavers ==
    ASSUME IInv, waitBgsaveFinish, NEW q \in Saver
    PROVE  GoesOn(q) \/ Ends(q)
<1>1. UNCHANGED saver \/ \E p \in Pid : saver' = [saver EXCEPT ![p] = Idle]
  BY DEF waitBgsaveFinish, IInv, TypeOK
<1> QED BY <1>1, IdleEnds DEF GoesOn, Ends, IInv, TypeOK

LEMMA KillSavers ==
    ASSUME IInv, NEW p \in Pid, KillChild(p), NEW q \in Saver
    PROVE  GoesOn(q) \/ Ends(q)
<1>1. CASE q = p
  <2>1. saver'[q] = Idle \/ saver'[q] = [Idle EXCEPT !.step = "killed"]
    BY <1>1 DEF KillChild, IInv, TypeOK
  <2>2. "killed" \in Exited
    BY DEF Exited
  <2> QED BY <2>1, <2>2, IdleEnds, ExitEnds DEF Ends
<1>2. CASE q # p
  BY <1>2 DEF KillChild, GoesOn, IInv, TypeOK
<1> QED BY <1>1, <1>2

LEMMA MemType == IInv /\ [Next]_vars => mem' \in Content
BY NextIInv DEF IInv, TypeOK

LEMMA NextSavers ==
    ASSUME IInv, [Next]_vars, NEW q \in Saver
    PROVE  GoesOn(q) \/ Ends(q) \/ Starts(q)
<1>1. CASE UNCHANGED saver
  BY <1>1 DEF GoesOn
<1>2. CASE saveCommand \/ shutdownCommand \/ flushCommand
  BY <1>2, EnterSavers, MemType
<1>3. CASE bgsaveCommand
  BY <1>3, ForkSavers DEF bgsaveCommand, saveDbBackground
<1>4. CASE serverCron
  BY <1>4, ForkSavers, WaitSavers DEF serverCron, bgsaveIfNeed, saveDbBackground
<1>5. CASE \E p \in Saver : SaveStep(p)
  BY <1>5, WorkSavers, LeaveSavers DEF SaveStep, SaveRename, SaveFail
<1>6. CASE Crash
  BY <1>6, TerminateSavers DEF Crash
<1>7. CASE \E p \in Pid : KillChild(p)
  BY <1>7, KillSavers
<1> QED BY <1>1, <1>2, <1>3, <1>4, <1>5, <1>6, <1>7
        DEF Next, Command, Write, SilentWrite, Tick, Restart, vars

----------------------------------------------------------------------------
(* What a step does to the memory and to the dump *)

Keeps  == mem' = mem /\ ver' = ver /\ up' = up
Writes == Ready /\ up' = up /\ ver' = ver + 1 /\ mem'.ver = ver + 1
Stops  == Terminate(saver) /\ ver' = ver

LEMMA LeaveMemory ==
    ASSUME NEW p \in Saver, NEW ok \in BOOLEAN, Leave(p, ok)
    PROVE  Stops \/ Keeps
BY DEF Leave, Stops, Keeps, server

LEMMA NextMemory ==
    ASSUME IInv, [Next]_vars
    PROVE  Keeps \/ Writes \/ Stops \/ Restart
<1>1. CASE Write \/ SilentWrite
  <2>1. Modified(mem).ver = ver + 1
    BY DEF Modified, IInv, TypeOK, Content
  <2> QED BY <1>1, <2>1 DEF Write, SilentWrite, Writes, history
<1>2. CASE saveCommand \/ shutdownCommand
  BY <1>2 DEF saveCommand, shutdownCommand, Keeps, history
<1>3. CASE flushCommand
  BY <1>3 DEF flushCommand, Writes, history
<1>4. CASE bgsaveCommand
  BY <1>4 DEF bgsaveCommand, saveDbBackground, Keeps, history
<1>5. CASE serverCron
  BY <1>5 DEF serverCron, waitBgsaveFinish, bgsaveIfNeed, saveDbBackground, Keeps, history
<1>6. CASE \E p \in Saver : SaveStep(p)
  <2>1. PICK p \in Saver : SaveStep(p)
    BY <1>6
  <2>2. CASE SaveOpen(p) \/ SaveWrite(p) \/ SaveFlush(p)
    BY <2>2 DEF SaveOpen, SaveWrite, SaveFlush, Keeps, server, history
  <2>3. CASE SaveRename(p) \/ SaveFail(p)
    BY <2>3, LeaveMemory DEF SaveRename, SaveFail, Keeps
  <2> QED BY <2>1, <2>2, <2>3 DEF SaveStep
<1>7. CASE Crash
  BY <1>7 DEF Crash, Stops
<1>8. CASE Tick \/ (\E p \in Pid : KillChild(p)) \/ UNCHANGED vars
  BY <1>8 DEF Tick, KillChild, Keeps, server, history, vars
<1> QED BY <1>1, <1>2, <1>3, <1>4, <1>5, <1>6, <1>7, <1>8 DEF Next, Command

(* The content of the dump, and its version. *)
Stored   == IF dump = NoFile THEN Fresh ELSE files[dump]["tail"]
DumpKept == Stored' = Stored /\ DumpVer' = DumpVer

LEMMA SameDump ==
    ASSUME dump' = dump, dump # NoFile => files'[dump] = files[dump]
    PROVE  DumpKept
BY DEF DumpKept, Stored, DumpVer

LEMMA ReleasedDump ==
    ASSUME IInv, dump' = dump, ReleaseInodes
    PROVE  DumpKept
<1>1. ASSUME dump # NoFile PROVE files'[dump] = files[dump]
  <2>1. dump \in Inode /\ Referenced(dump)'
    BY <1>1 DEF IInv, TypeOK, Referenced
  <2> QED BY <2>1 DEF ReleaseInodes
<1> QED BY <1>1, SameDump

(* A saver writes into its own file, which is not the dump. *)
LEMMA WorkDump ==
    ASSUME IInv, DiskInv, ~shared, ~lost, NEW p \in Saver,
           SaveOpen(p) \/ SaveWrite(p) \/ SaveFlush(p)
    PROVE  DumpKept
<1>1. dump' = dump
  BY DEF SaveOpen, SaveWrite, SaveFlush
<1>2. TempFiles /\ OpenInode /\ saver[p] \in SaverRec
  BY DEF DiskInv, IInv, TypeOK
<1>3. PICK i : i # dump /\ \E f : files' = [files EXCEPT ![i] = f]
  <2>1. CASE SaveOpen(p)
    <3> DEFINE name == <<now, saver[p].seed>>
    <3>1. PICK i \in IF tmp[name] # NoFile THEN {tmp[name]} ELSE Free :
             files' = [files EXCEPT ![i] = Hollow]
      BY <2>1 DEF SaveOpen
    <3>2. name \in TmpName
      BY <1>2 DEF TmpName, IInv, TypeOK, SaverRec
    <3>3. i # dump
      BY <1>2, <3>1, <3>2 DEF TempFiles, Free, Referenced
    <3> QED BY <3>1, <3>3
  <2>2. CASE SaveWrite(p) \/ SaveFlush(p)
    <3>1. saver[p].step \in Writing /\ saver[p].name \in TmpName
      BY <1>2, <2>2 DEF SaveWrite, SaveFlush, Writing, SaverRec
    <3>2. saver[p].ino # NoFile /\ tmp[saver[p].name] = saver[p].ino
      BY <1>2, <3>1 DEF TempFiles, OpenInode
    <3>3. saver[p].ino # dump
      BY <1>2, <3>1, <3>2 DEF TempFiles
    <3>4. \E f : files' = [files EXCEPT ![saver[p].ino] = f]
      BY <2>2 DEF SaveWrite, SaveFlush, Emit
    <3> QED BY <3>3, <3>4
  <2> QED BY <2>1, <2>2
<1>4. dump # NoFile => files'[dump] = files[dump]
  BY <1>3 DEF IInv, TypeOK
<1> QED BY <1>1, <1>4, SameDump

(* The rename puts the snapshot of its saver under the name of the dump. *)
Publishes(p) == /\ SaveRename(p) /\ saver[p].step = "rename"
                /\ Stored' = saver[p].img /\ DumpVer' = saver[p].img.ver

LEMMA RenameDump ==
    ASSUME IInv, IInv', DiskInv, ~shared, ~lost, NEW p \in Saver, SaveRename(p)
    PROVE  (DumpKept /\ dump' = dump) \/ Publishes(p)
<1>1. TempFiles /\ OpenInode /\ saver[p] \in SaverRec
  BY DEF DiskInv, IInv, TypeOK
<1>2. saver[p].step = "rename" /\ ReleaseInodes
  BY DEF SaveRename
<1>3. CASE dump' = dump
  BY <1>2, <1>3, ReleasedDump
<1>4. CASE tmp[saver[p].name] # NoFile /\ dump' = tmp[saver[p].name]
  <2> DEFINE ino == saver[p].ino
  <2>1. ino # NoFile /\ dump' = ino /\ files[ino]["tail"] = saver[p].img
    BY <1>1, <1>2, <1>4 DEF TempFiles, OpenInode, Writing, Part
  <2>2. files'[ino] = files[ino]
    <3>1. PICK i \in Inode : i = ino /\ i = dump'
      BY <1>1, <2>1 DEF SaverRec
    <3>2. Referenced(i)'
      BY <3>1 DEF Referenced
    <3> QED BY <1>2, <3>1, <3>2 DEF ReleaseInodes
  <2>3. saver[p].img # Nil
    BY <1>1, NilAssumption DEF SaverRec
  <2>4. Stored' = saver[p].img /\ DumpVer' = saver[p].img.ver
    BY <2>1, <2>2, <2>3 DEF Stored, DumpVer
  <2> QED BY <1>2, <2>4 DEF Publishes
<1> QED BY <1>3, <1>4 DEF SaveRename

LEMMA NextDump ==
    ASSUME IInv, IInv', DiskInv, ~shared, ~lost, [Next]_vars
    PROVE  DumpKept \/ \E p \in Saver : Publishes(p)
<1>1. CASE UNCHANGED disk
  BY <1>1, SameDump DEF disk
<1>2. CASE \E p \in Saver : SaveStep(p)
  <2>1. PICK p \in Saver : SaveStep(p)
    BY <1>2
  <2>2. CASE SaveOpen(p) \/ SaveWrite(p) \/ SaveFlush(p)
    BY <2>2, WorkDump
  <2>3. CASE SaveRename(p)
    BY <2>3, RenameDump
  <2>4. CASE SaveFail(p)
    BY <2>4, ReleasedDump DEF SaveFail
  <2> QED BY <2>1, <2>2, <2>3, <2>4 DEF SaveStep
<1>3. CASE Crash \/ \E p \in Pid : KillChild(p)
  BY <1>3, ReleasedDump DEF Crash, KillChild
<1> QED BY <1>1, <1>2, <1>3
        DEF Next, Command, Write, SilentWrite, saveCommand, shutdownCommand, flushCommand,
            bgsaveCommand, serverCron, Tick, Restart, vars, disk

----------------------------------------------------------------------------
(* The invariant *)

LEMMA VersionTypes ==
    ASSUME IInv
    PROVE  /\ ver \in Nat /\ mem.ver \in Nat /\ DumpVer \in Nat
           /\ \A p \in Saver : saver[p].img.ver \in Nat
<1>1. ver \in Nat /\ mem.ver \in Nat
  BY DEF IInv, TypeOK, Content
<1>2. \A p \in Saver : saver[p].img.ver \in Nat
  BY DEF IInv, TypeOK, SaverRec, Content
<1>3. ASSUME dump # NoFile, files[dump]["tail"] # Nil PROVE files[dump]["tail"].ver \in Nat
  <2>1. files[dump]["tail"] \in Content
    BY <1>3 DEF IInv, TypeOK, File, Part
  <2> QED BY <2>1 DEF Content
<1>4. DumpVer \in Nat
  BY <1>3 DEF DumpVer
<1> QED BY <1>1, <1>2, <1>4

(* The marks stay once they are set. *)
LEMMA NextHistory ==
    ASSUME [Next]_vars
    PROVE  /\ orphaned => orphaned'
           /\ shared => shared'
           /\ lost => lost'
<1>1. CASE UNCHANGED history
  BY <1>1 DEF history
<1>2. CASE \E p \in Saver : SaveStep(p)
  <2>1. PICK p \in Saver : SaveStep(p)
    BY <1>2
  <2>2. CASE SaveOpen(p)
    <3>1. \E i : shared' = (shared \/ \E q \in Saver \ {p} : saver[q].ino = i)
      BY <2>2 DEF SaveOpen
    <3> QED BY <2>2, <3>1 DEF SaveOpen
  <2>3. CASE SaveWrite(p)
    BY <2>3 DEF SaveWrite, history
  <2>4. CASE SaveFlush(p)
    <3>1. \E flushed : lost' = (lost \/ flushed # saver[p].held)
      BY <2>4 DEF SaveFlush
    <3> QED BY <2>4, <3>1 DEF SaveFlush
  <2>5. CASE SaveRename(p) \/ SaveFail(p)
    <3>1. shared' = shared /\ lost' = lost /\ \E ok : Leave(p, ok)
      BY <2>5 DEF SaveRename, SaveFail
    <3>2. orphaned' = orphaned \/ Terminate(saver)
      BY <3>1 DEF Leave
    <3>3. orphaned => orphaned'
      BY <3>2, Zenon DEF Terminate
    <3> QED BY <3>1, <3>3
  <2> QED BY <2>1, <2>2, <2>3, <2>4, <2>5 DEF SaveStep
<1>3. CASE Crash
  BY <1>3 DEF Crash, Terminate
<1> QED BY <1>1, <1>2, <1>3
        DEF Next, Command, Write, SilentWrite, saveCommand, shutdownCommand, flushCommand,
            bgsaveCommand, serverCron, Tick, KillChild, Restart, vars

(* A child leaves kids when it was waited for, or when its server ends.    *)
LEMMA NextKids ==
    ASSUME IInv, [Next]_vars, NEW q \in kids, q \notin kids'
    PROVE  saver'[q].step \notin Running \/ orphaned'
<1>1. q \in Saver
  BY DEF IInv, TypeOK, Saver
<1>2. CASE waitBgsaveFinish
  <2>1. PICK p \in kids : kids' = kids \ {p} /\ saver' = [saver EXCEPT ![p] = Idle]
    BY <1>2 DEF waitBgsaveFinish
  <2> QED BY <1>1, <2>1, IdleEnds DEF IInv, TypeOK
<1>3. CASE Terminate(saver)
  <2>1. saver'[q] = IF q = Server \/ saver[q].step \in Exited THEN Idle ELSE saver[q]
    BY <1>1, <1>3 DEF Terminate, Orphan
  <2> QED BY <1>3, <2>1, IdleEnds DEF Terminate
<1>4. kids' = kids \/ waitBgsaveFinish \/ Terminate(saver) \/ Fork
  BY DEF Next, Command, Write, SilentWrite, saveCommand, shutdownCommand, flushCommand,
         bgsaveCommand, saveDbBackground, serverCron, bgsaveIfNeed, Tick, Crash, KillChild,
         Restart, SaveStep, SaveOpen, SaveWrite, SaveFlush, SaveRename, SaveFail, Leave,
         server, vars
<1>5. CASE Fork
  BY <1>5 DEF Fork
<1> QED BY <1>2, <1>3, <1>4, <1>5

(* A foreground save has its command until it ends. *)
LEMMA NextCommand ==
    ASSUME IInv, [Next]_vars
    PROVE  cmd' = cmd \/ cmd' # "none" \/ saver'[Server] = Idle
<1>1. Server \in Saver
  BY DEF Saver
<1>2. CASE Terminate(saver)
  BY <1>1, <1>2 DEF Terminate, Orphan
<1>3. CASE saver' = [saver EXCEPT ![Server] = Idle]
  BY <1>1, <1>3 DEF IInv, TypeOK
<1> QED BY <1>2, <1>3
        DEF Next, Command, Write, SilentWrite, saveCommand, shutdownCommand, flushCommand,
            EnterSave, bgsaveCommand, serverCron, Tick, Crash, KillChild, Restart, SaveStep,
            SaveOpen, SaveWrite, SaveFlush, SaveRename, SaveFail, Leave, server, vars

LEMMA NextForeground == ASSUME IInv, Foreground, [Next]_vars PROVE Foreground'
<1>1. Server \in Saver
  BY DEF Saver
<1>2. CASE Ends(Server)
  BY <1>2 DEF Ends, Foreground
<1>3. CASE Starts(Server)
  BY <1>3, MemType, ImageVersions DEF Starts, Foreground
<1>4. CASE GoesOn(Server) /\ saver'[Server].step \in Running
  <2>1. up /\ cmd # "none" /\ saver[Server].img.ver = mem.ver
    BY <1>4 DEF GoesOn, Foreground
  <2>2. saver'[Server] # Idle
    BY <1>4, IdleEnds
  <2>3. ~Stops
    BY <1>1, <2>2 DEF Stops, Terminate, Orphan
  <2>4. Keeps
    BY <2>1, <2>3, NextMemory DEF Writes, Ready, Restart
  <2>5. cmd' # "none"
    BY <2>1, <2>2, NextCommand
  <2> QED BY <1>4, <2>1, <2>4, <2>5 DEF GoesOn, Keeps, Foreground
<1> QED BY <1>1, <1>2, <1>3, <1>4, NextSavers DEF Foreground

LEMMA NextResting == ASSUME IInv, Resting, [Next]_vars PROVE Resting'
<1>1. Fresh.ver = 0
  BY DEF Fresh
<1>2. ASSUME NEW p \in Saver, saver'[p].step \notin Running PROVE saver'[p].img.ver = 0
  <2>1. GoesOn(p) \/ Ends(p)
    BY <1>2, NextSavers DEF Starts
  <2> QED BY <1>1, <1>2, <2>1 DEF GoesOn, Ends, Resting
<1>3. ~up' => mem'.ver = 0
  <2>1. CASE Keeps
    BY <2>1 DEF Keeps, Resting
  <2>2. CASE Writes \/ Restart
    BY <2>2 DEF Writes, Ready, Restart
  <2>3. CASE Stops
    BY <1>1, <2>3 DEF Stops, Terminate
  <2> QED BY <2>1, <2>2, <2>3, NextMemory
<1> QED BY <1>2, <1>3 DEF Resting

LEMMA NextOwned == ASSUME IInv, Owned, [Next]_vars PROVE Owned'
<1> SUFFICES ASSUME ~orphaned', NEW p \in Pid, p \notin kids'
             PROVE  saver'[p].step \notin Running
  BY DEF Owned
<1>1. p \in Saver /\ p # Server /\ ~orphaned
  BY PidAssumption, NextHistory DEF Saver
<1>2. CASE p \in kids
  BY <1>2, NextKids
<1>3. CASE p \notin kids
  <2>1. saver[p].step \notin Running
    BY <1>1, <1>3 DEF Owned
  <2>2. GoesOn(p) \/ Ends(p)
    BY <1>1, NextSavers DEF Starts
  <2> QED BY <2>1, <2>2 DEF GoesOn, Ends
<1> QED BY <1>2, <1>3

(* What a whole dump turns into is what it holds. *)
LEMMA LoadVersion ==
    ASSUME IInv, DiskInv, ~shared, ~lost, Restart
    PROVE  mem' = Stored /\ mem'.ver = DumpVer
<1>1. CASE dump = NoFile
  BY <1>1 DEF Restart, loadDb, Fresh, Stored, DumpVer
<1>2. CASE dump # NoFile
  <2>1. Whole(files[dump])
    BY <1>2 DEF DiskInv, TempFiles
  <2>2. loadDb = {files[dump]["head"]}
    BY <1>2, <2>1 DEF loadDb, Whole, Hollow, Part
  <2> QED BY <1>2, <2>1, <2>2 DEF Restart, Whole, Stored, DumpVer
<1> QED BY <1>1, <1>2

LEMMA NextOlder ==
    ASSUME IInv, IInv', DiskInv, Resting, Resting', Owned', Older, [Next]_vars
    PROVE  Older'
<1> SUFFICES ASSUME ~orphaned', ~shared', ~lost'
             PROVE  /\ mem'.ver <= ver' /\ DumpVer' <= ver'
                    /\ up' => DumpVer' <= mem'.ver
                    /\ \A p \in Saver : saver'[p].img.ver <= mem'.ver
  BY DEF Older
<1>1. ~orphaned /\ ~shared /\ ~lost
  BY NextHistory
<1>2. /\ mem.ver <= ver /\ DumpVer <= ver
      /\ up => DumpVer <= mem.ver
      /\ \A p \in Saver : saver[p].img.ver <= mem.ver
  BY <1>1 DEF Older
<1>3. /\ ver \in Nat /\ mem.ver \in Nat /\ DumpVer \in Nat
      /\ \A p \in Saver : saver[p].img.ver \in Nat
  BY VersionTypes
<1>4. mem'.ver \in Nat
  BY MemType DEF Content
<1>5. DumpVer' = DumpVer \/ \E p \in Saver : DumpVer' = saver[p].img.ver
  BY <1>1, NextDump DEF Publishes, DumpKept
<1>6. \A p \in Saver : \/ saver'[p].img.ver = saver[p].img.ver
                       \/ saver'[p].img.ver = 0
                       \/ saver'[p].img.ver = mem'.ver
  BY NextSavers, MemType, ImageVersions DEF GoesOn, Ends, Starts, Fresh
<1>7. CASE Keeps \/ Writes
  <2>1. mem.ver <= mem'.ver /\ mem'.ver <= ver' /\ ver <= ver' /\ up' = up
    BY <1>2, <1>3, <1>7 DEF Keeps, Writes
  <2>2. DumpVer' <= mem'.ver \/ DumpVer' = DumpVer
    BY <1>2, <1>3, <1>4, <1>5, <2>1
  <2>3. up' => DumpVer' <= mem'.ver
    BY <1>2, <1>3, <1>4, <2>1, <2>2
  <2>4. DumpVer' <= ver' /\ ver' \in Nat
    BY <1>2, <1>3, <1>4, <1>5, <1>7, <2>1 DEF Keeps, Writes
  <2>5. \A p \in Saver : saver'[p].img.ver <= mem'.ver
    BY <1>2, <1>3, <1>4, <1>6, <2>1
  <2> QED BY <2>1, <2>3, <2>4, <2>5
<1>8. CASE Stops
  <2>1. mem'.ver = 0 /\ ver' = ver /\ up' = FALSE /\ kids' = {} /\ saver'[Server] = Idle
    BY <1>8 DEF Stops, Terminate, Orphan, Fresh, Saver
  <2>2. \A p \in Saver : saver'[p].step \notin Running
    BY <2>1, IdleEnds DEF Owned, Saver
  <2>3. \A p \in Saver : saver'[p].img.ver = 0
    BY <2>2 DEF Resting
  <2>4. DumpVer' <= ver
    BY <1>2, <1>3, <1>5
  <2> QED BY <1>3, <2>1, <2>3, <2>4
<1>9. CASE Restart
  <2>1. mem'.ver = DumpVer /\ ver' = ver /\ saver' = saver /\ mem.ver = 0
    BY <1>1, <1>9, LoadVersion DEF Restart, Resting
  <2>2. DumpVer' = DumpVer
    BY <1>9, SameDump DEF Restart, disk, DumpKept
  <2>3. \A p \in Saver : saver'[p].img.ver <= mem'.ver
    BY <1>2, <1>3, <2>1
  <2> QED BY <1>2, <1>3, <2>1, <2>2, <2>3
<1> QED BY <1>7, <1>8, <1>9, NextMemory

LEMMA InitVInv == Init => VInv
<1> SUFFICES ASSUME Init PROVE VInv
  OBVIOUS
<1>1. \A p \in Saver : saver[p] = Idle
  BY DEF Init
<1>2. mem.ver = 0 /\ ver = 0 /\ DumpVer = 0 /\ \A p \in Saver : saver[p].img.ver = 0
  BY <1>1, IdleEnds DEF Init, Fresh, DumpVer
<1> QED BY <1>1, <1>2, IdleEnds DEF VInv, Foreground, Resting, Owned, Older, Saver

LEMMA NextVInv == IInv /\ IInv' /\ DiskInv /\ VInv /\ [Next]_vars => VInv'
BY NextForeground, NextResting, NextOwned, NextOlder DEF VInv

(* What savers hold and what the dump holds is never newer than memory.    *)
THEOREM SnapshotInvariance == Spec => []VInv
BY Invariance, DiskInvariance, InitVInv, NextVInv, PTL DEF Spec

(* Neither the dump nor a snapshot on its way to it is ever newer than the *)
(* memory of a running server, as long as no child outlived its server, no *)
(* temp file was shared and no flush lost.                                 *)
THEOREM DumpNeverAhead == Spec => []NeverAhead
<1>1. IInv /\ VInv => NeverAhead
  BY DEF IInv, TypeOK, VInv, Older, NeverAhead, Saver
<1> QED BY <1>1, Invariance, SnapshotInvariance, PTL

(* A foreground save that succeeds has published the data as they are now. *)
THEOREM ForegroundExact == Spec => ForegroundSaveIsExact
<1>1. ASSUME IInv, IInv', DiskInv, VInv, [Next]_vars
      PROVE  [saver[Server].step = "rename" /\ (dirty' = 0 /\ cmd' = "none") /\ dump' # dump
                 /\ ~shared /\ ~lost
              => DumpVer' = mem.ver]_vars
  <2> SUFFICES ASSUME saver[Server].step = "rename", cmd' = "none", dump' # dump,
                      ~shared, ~lost
               PROVE  DumpVer' = mem.ver
    OBVIOUS
  <2>1. PICK p \in Saver : SaveRename(p)
    BY <1>1 DEF Next, Command, Write, SilentWrite, saveCommand, shutdownCommand, flushCommand,
                bgsaveCommand, serverCron, Tick, Crash, KillChild, Restart, SaveStep, SaveOpen,
                SaveWrite, SaveFlush, SaveFail, vars, disk
  <2>2. DumpVer' = saver[p].img.ver
    BY <1>1, <2>1, RenameDump DEF Publishes
  <2>3. saver[Server].step \in Running /\ cmd # "none" /\ saver[Server].img.ver = mem.ver
    BY <1>1 DEF VInv, Foreground, Running
  <2>4. p = Server
    BY <2>1, <2>3 DEF SaveRename, Leave, server
  <2> QED BY <2>2, <2>3, <2>4
<1>2. IInv /\ IInv' /\ DiskInv /\ VInv /\ [Next]_vars
      => [saver[Server].step = "rename" /\ (dirty' = 0 /\ cmd' = "none") /\ dump' # dump
             /\ ~shared /\ ~lost
          => DumpVer' = mem.ver]_vars
  BY <1>1
<1> QED BY <1>2, Invariance, DiskInvariance, SnapshotInvariance, PTL
        DEF Spec, ForegroundSaveIsExact

(* The dump goes back to older data only by the child of a background save *)
(* of this server: without one, the data being published are the present.  *)
THEOREM RegressOnlyDuringBgsave == Spec => DumpRegressesOnlyDuringBgsave
<1>1. ASSUME IInv, IInv', DiskInv, VInv, [Next]_vars
      PROVE  [~bgsave /\ ~orphaned /\ ~shared /\ ~lost => DumpVer' >= DumpVer]_vars
  <2> SUFFICES ASSUME ~bgsave, ~orphaned, ~shared, ~lost
               PROVE  DumpVer' >= DumpVer
    OBVIOUS
  <2>1. DumpVer \in Nat
    BY <1>1, VersionTypes
  <2>2. CASE DumpVer' = DumpVer
    BY <2>1, <2>2
  <2>3. CASE \E p \in Saver : Publishes(p)
    <3>1. PICK p \in Saver : Publishes(p)
      BY <2>3
    <3>2. kids = {} /\ saver[p].step \in Running /\ DumpVer' = saver[p].img.ver
      BY <1>1, <3>1 DEF IInv, OneChild, Publishes, Running
    <3>3. p = Server
      BY <1>1, <3>2 DEF VInv, Owned, Saver
    <3>4. up /\ saver[p].img.ver = mem.ver
      BY <1>1, <3>2, <3>3 DEF VInv, Foreground
    <3>5. DumpVer <= mem.ver /\ mem.ver \in Nat
      BY <1>1, <3>4, VersionTypes DEF VInv, Older
    <3> QED BY <2>1, <3>2, <3>4, <3>5
  <2>4. DumpVer' = DumpVer \/ \E p \in Saver : Publishes(p)
    BY <1>1, NextDump DEF DumpKept
  <2> QED BY <2>2, <2>3, <2>4
<1>2. IInv /\ IInv' /\ DiskInv /\ VInv /\ [Next]_vars
      => [~bgsave /\ ~orphaned /\ ~shared /\ ~lost => DumpVer' >= DumpVer]_vars
  BY <1>1
<1> QED BY <1>2, Invariance, DiskInvariance, SnapshotInvariance, PTL
        DEF Spec, DumpRegressesOnlyDuringBgsave

----------------------------------------------------------------------------
(* The refinement of SnapshotStore *)

Pending == {saver[p].img : p \in {q \in Saver : saver[q].step \in Running}}
Sound   == ~shared /\ ~lost

(* A saver that goes on or ends adds nothing to what may be published. *)
LEMMA NothingTaken ==
    ASSUME \A q \in Saver : GoesOn(q) \/ Ends(q)
    PROVE  Pending' \in SUBSET Pending
BY DEF GoesOn, Ends, Pending

LEMMA SameSavers == ASSUME saver' = saver PROVE Pending' = Pending
BY DEF Pending

(* One that starts adds its snapshot, if it is the only one to move. *)
LEMMA OneTaken ==
    ASSUME IInv, NEW p \in Saver, NEW c, NEW r, saver[p].step \notin Running,
           saver' = [saver EXCEPT ![p] = Start(c, r)]
    PROVE  Pending' = Pending \union {c}
<1>1. saver'[p].step \in Running /\ saver'[p].img = c
  BY StartRunning DEF IInv, TypeOK
<1>2. \A q \in Saver \ {p} : saver'[q] = saver[q]
  BY DEF IInv, TypeOK
<1>3. ASSUME NEW x \in Pending' PROVE x \in Pending \union {c}
  BY <1>1, <1>2 DEF Pending
<1>4. ASSUME NEW x \in Pending \union {c} PROVE x \in Pending'
  <2>1. CASE x = c
    BY <1>1, <2>1 DEF Pending
  <2>2. CASE x \in Pending
    <3>1. PICK q \in Saver : saver[q].step \in Running /\ x = saver[q].img
      BY <2>2 DEF Pending
    <3> QED BY <1>2, <3>1 DEF Pending
  <2> QED BY <1>4, <2>1, <2>2
<1> QED BY <1>3, <1>4

(* The steps of the store, over the state the refinement maps to it. *)
StoreWrite   == /\ up /\ mem' \in Content
                /\ up' = up /\ Stored' = Stored /\ Pending' = Pending
StoreTake    == /\ up /\ Pending' = Pending \union {mem}
                /\ up' = up /\ mem' = mem /\ Stored' = Stored
StoreBoth    == /\ up /\ mem' \in Content /\ Pending' = Pending \union {mem'}
                /\ up' = up /\ Stored' = Stored
StoreStop    == (up' = up /\ mem' = mem) \/ (up' = FALSE /\ mem' = Fresh)
StorePublish == Stored' \in Pending /\ Pending' \in SUBSET Pending /\ StoreStop
StoreDrop    == Stored' = Stored /\ Pending' \in SUBSET Pending /\ StoreStop
StoreStart   == /\ ~up /\ up' = TRUE /\ mem' = Stored
                /\ Stored' = Stored /\ Pending' = Pending
StoreWork    == StoreWrite \/ StoreTake \/ StoreBoth \/ StorePublish \/ StoreDrop \/ StoreStart

LEMMA ForkStore ==
    ASSUME "lastslot" \notin Faults, IInv, Fork, up, up' = up, mem' = mem, Stored' = Stored
    PROVE  StoreWork
<1>1. CASE UNCHANGED saver
  BY <1>1, SameSavers DEF StoreWork, StoreDrop, StoreStop
<1>2. CASE \E p \in Pid, img \in Iterated(mem) :
              saver[p] = Idle /\ saver' = [saver EXCEPT ![p] = Start(img, rng)]
  <2>1. PICK p \in Pid : saver[p] = Idle /\ saver' = [saver EXCEPT ![p] = Start(mem, rng)]
    BY <1>2 DEF Iterated
  <2>2. p \in Saver /\ saver[p].step \notin Running
    BY <2>1, IdleEnds DEF Saver
  <2>3. Pending' = Pending \union {mem}
    BY <2>1, <2>2, OneTaken
  <2> QED BY <2>3 DEF StoreWork, StoreTake
<1> QED BY <1>1, <1>2 DEF Fork

LEMMA CommandStore ==
    ASSUME "lastslot" \notin Faults, IInv, IInv', VInv, Command
    PROVE  StoreWork
<1>1. Stored' = Stored
  <2>1. UNCHANGED disk
    BY DEF Command, Write, SilentWrite, saveCommand, shutdownCommand, flushCommand, bgsaveCommand
  <2> QED BY <2>1, SameDump DEF disk, DumpKept
<1>2. up /\ up' = up /\ cmd = "none" /\ mem' \in Content
  BY DEF Command, Write, SilentWrite, saveCommand, shutdownCommand, flushCommand,
         bgsaveCommand, Ready, IInv, TypeOK
<1>3. Server \in Saver /\ saver[Server].step \notin Running
  BY <1>2 DEF Saver, VInv, Foreground
<1>4. CASE Write \/ SilentWrite
  BY <1>1, <1>2, <1>4, SameSavers DEF Write, SilentWrite, StoreWork, StoreWrite
<1>5. CASE saveCommand \/ shutdownCommand
  <2>1. mem' = mem /\ saver' = [saver EXCEPT ![Server] = Start(mem, rng)]
    BY <1>5 DEF saveCommand, shutdownCommand, EnterSave, Iterated
  <2> QED BY <1>1, <1>2, <1>3, <2>1, OneTaken DEF StoreWork, StoreTake
<1>6. CASE flushCommand
  <2>1. saver' = [saver EXCEPT ![Server] = Start(mem', rng)]
    BY <1>6 DEF flushCommand, EnterSave, Iterated
  <2> QED BY <1>1, <1>2, <1>3, <2>1, OneTaken DEF StoreWork, StoreBoth
<1>7. CASE bgsaveCommand
  BY <1>1, <1>2, <1>7, ForkStore DEF bgsaveCommand, saveDbBackground
<1> QED BY <1>4, <1>5, <1>6, <1>7 DEF Command

LEMMA SaveStore ==
    ASSUME IInv, IInv', DiskInv, ~shared, ~lost, NEW p \in Saver, SaveStep(p)
    PROVE  StoreWork
<1>1. saver[p].step \in Running => saver[p].img \in Pending
  BY DEF Pending
<1>2. CASE SaveOpen(p) \/ SaveWrite(p) \/ SaveFlush(p)
  <2>1. Pending' \in SUBSET Pending
    BY <1>2, WorkSavers, NothingTaken
  <2>2. up' = up /\ mem' = mem
    BY <1>2 DEF SaveOpen, SaveWrite, SaveFlush, server
  <2>3. Stored' = Stored
    BY <1>2, WorkDump DEF DumpKept
  <2> QED BY <2>1, <2>2, <2>3 DEF StoreWork, StoreDrop, StoreStop
<1>3. CASE SaveRename(p) \/ SaveFail(p)
  <2>1. PICK ok \in BOOLEAN : Leave(p, ok)
    BY <1>3 DEF SaveRename, SaveFail
  <2>2. Pending' \in SUBSET Pending
    BY <2>1, LeaveSavers, NothingTaken
  <2>3. StoreStop
    BY <2>1, LeaveMemory DEF Stops, Terminate, Keeps, StoreStop
  <2>4. Stored' = Stored \/ Stored' \in Pending
    <3>1. CASE SaveRename(p)
      BY <1>1, <3>1, RenameDump DEF DumpKept, Publishes, Running
    <3>2. CASE SaveFail(p)
      BY <3>2, ReleasedDump DEF SaveFail, DumpKept
    <3> QED BY <1>3, <3>1, <3>2
  <2> QED BY <2>2, <2>3, <2>4 DEF StoreWork, StoreDrop, StorePublish
<1> QED BY <1>2, <1>3 DEF SaveStep

(* Every step of redis.c's persistence is one of the store, or leaves the  *)
(* promise.                                                                *)
LEMMA NextStore ==
    ASSUME "lastslot" \notin Faults, IInv, IInv', DiskInv, VInv, Sound, [Next]_vars
    PROVE  StoreWork
<1>1. ~shared /\ ~lost
  BY DEF Sound
<1>2. CASE Command
  BY <1>2, CommandStore
<1>3. CASE \E p \in Saver : SaveStep(p)
  BY <1>1, <1>3, SaveStore
<1>4. CASE serverCron
  <2>1. up /\ up' = up /\ mem' = mem /\ Stored' = Stored
    BY <1>4, SameDump DEF serverCron, Ready, disk, DumpKept
  <2>2. CASE waitBgsaveFinish
    BY <2>1, <2>2, WaitSavers, NothingTaken DEF StoreWork, StoreDrop, StoreStop
  <2>3. CASE Fork
    BY <2>1, <2>3, ForkStore
  <2> QED BY <1>4, <2>2, <2>3 DEF serverCron, bgsaveIfNeed, saveDbBackground
<1>5. CASE Crash
  <2>1. Stored' = Stored /\ StoreStop
    BY <1>5, ReleasedDump DEF Crash, Terminate, DumpKept, StoreStop
  <2>2. Pending' \in SUBSET Pending
    BY <1>5, TerminateSavers, NothingTaken DEF Crash
  <2> QED BY <2>1, <2>2 DEF StoreWork, StoreDrop
<1>6. CASE \E p \in Pid : KillChild(p)
  <2>1. Stored' = Stored /\ StoreStop
    BY <1>6, ReleasedDump DEF KillChild, server, DumpKept, StoreStop
  <2>2. Pending' \in SUBSET Pending
    BY <1>6, KillSavers, NothingTaken
  <2> QED BY <2>1, <2>2 DEF StoreWork, StoreDrop
<1>7. CASE Restart
  <2>1. Stored' = Stored /\ Pending' = Pending
    BY <1>7, SameDump, SameSavers DEF Restart, disk, DumpKept
  <2> QED BY <1>1, <1>7, <2>1, LoadVersion DEF Restart, StoreWork, StoreStart
<1>8. CASE Tick \/ UNCHANGED vars
  <2>1. Stored' = Stored /\ Pending' = Pending /\ StoreStop
    BY <1>8, SameDump, SameSavers DEF Tick, vars, server, disk, DumpKept, StoreStop
  <2> QED BY <2>1 DEF StoreWork, StoreDrop
<1> QED BY <1>2, <1>3, <1>4, <1>5, <1>6, <1>7, <1>8 DEF Next

(* redis.c's persistence is a store that publishes snapshots of its memory *)
(* and starts from the published one, for every number of children and     *)
(* faults, as long as the iterator hands saveDb all entries.               *)
THEOREM StoreImplemented == ASSUME "lastslot" \notin Faults PROVE Spec => ImplementsStore
<1>1. Init => Store!Init
  <2> SUFFICES ASSUME Init PROVE Store!Init
    OBVIOUS
  <2>1. \A p \in Saver : saver[p].step \notin Running
    BY IdleEnds DEF Init
  <2> QED BY <2>1 DEF Init, Store!Init
<1>2. ASSUME IInv, IInv', DiskInv, VInv, [Next]_vars PROVE [Store!Next]_(Store!vars)
  <2>1. CASE shared' \/ lost'
    BY <2>1 DEF Store!Next
  <2>2. CASE ~shared' /\ ~lost'
    <3>1. ~shared /\ ~lost
      BY <1>2, <2>2, NextHistory
    <3>2. StoreWork
      BY <1>2, <3>1, NextStore DEF Sound
    <3>3. Store!Work
      BY <3>2 DEF StoreWork, StoreWrite, StoreTake, StoreBoth, StorePublish, StoreDrop,
                  StoreStart, StoreStop, Stored, Pending, Store!Work, Store!Write, Store!Take,
                  Store!WriteTake, Store!Publish, Store!Drop, Store!Start, Store!Stop
    <3> QED BY <2>2, <3>1, <3>3 DEF Store!Next
  <2> QED BY <2>1, <2>2
<1>3. IInv /\ IInv' /\ DiskInv /\ VInv /\ [Next]_vars => [Store!Next]_(Store!vars)
  BY <1>2
<1> QED BY <1>1, <1>3, Invariance, DiskInvariance, SnapshotInvariance, PTL
        DEF Spec, ImplementsStore, Store!Spec

----------------------------------------------------------------------------
(* Replication, where a dump goes to another server: what the slave        *)
(* publishes is as long as what the master announced, and its own data is  *)
(* lost by nothing before that, for every length of the dumps, every size  *)
(* of the buffers and every number of faults.                              *)

Lines == {Line(n) : n \in Nat}
Unit == Lines \union {<<"write", n>> : n \in Nat}
              \union {<<"dump", v, i>> : v \in Nat, i \in Nat}

(* The head of the stream is the line with the size: it was read already,  *)
(* is on its way, or is what the master writes next; and before that       *)
(* nothing else is fed to the slave.                                       *)
Headed ==
    \/ buf # <<>> /\ buf[1] \in Lines
    \/ buf = <<>> /\ wire # <<>> /\ wire[1] \in Lines
    \/ /\ buf = <<>> /\ wire = <<>> /\ ~listed
       /\ master = "send" => out # <<>> /\ out[1] \in Lines

Streams ==
    /\ out \in Seq(Unit) /\ wire \in Seq(Unit) /\ buf \in Seq(Unit) /\ temp \in Seq(Unit)
Held == /\ ~accepted => master = "idle" /\ ~listed
        /\ slave = "head" => connected
Announced == slave = "dump" => buf[1] = Line(need + Len(temp))

RInv == /\ SyncTypeOK /\ Streams /\ Held
        /\ slave = "head" => Headed
        /\ Announced

----------------------------------------------------------------------------
(* What comes of a sequence that is read or written in parts *)

(* The first n elements and the rest. *)
LEMMA Split ==
    ASSUME NEW S, NEW s \in Seq(S), NEW n \in 1..Len(s)
    PROVE  /\ SubSeq(s, 1, n) \in Seq(S) /\ Len(SubSeq(s, 1, n)) = n
           /\ SubSeq(s, 1, n)[1] = s[1]
           /\ SubSeq(s, n + 1, Len(s)) \in Seq(S)
           /\ Len(SubSeq(s, n + 1, Len(s))) = Len(s) - n
<1>1. Len(s) \in Nat /\ n \in Nat /\ 1 <= n /\ n <= Len(s)
  BY LenProperties
<1>2. \A i \in 1..Len(s) : s[i] \in S
  BY ElementOfSeq
<1>3. /\ SubSeq(s, 1, n) \in Seq(S) /\ Len(SubSeq(s, 1, n)) = n
      /\ SubSeq(s, 1, n)[1] = s[1]
  BY <1>1, <1>2, SubSeqProperties
<1>4. /\ SubSeq(s, n + 1, Len(s)) \in Seq(S)
      /\ Len(SubSeq(s, n + 1, Len(s))) = Len(s) - n
  BY <1>1, <1>2, SubSeqProperties
<1> QED BY <1>3, <1>4

(* One sequence behind another. *)
LEMMA Behind ==
    ASSUME NEW S, NEW s \in Seq(S), NEW t \in Seq(S)
    PROVE  /\ s \o t \in Seq(S) /\ Len(s \o t) = Len(s) + Len(t)
           /\ s # <<>> => s \o t # <<>> /\ (s \o t)[1] = s[1]
           /\ s = <<>> => s \o t = t
<1>1. s \o t \in Seq(S) /\ Len(s \o t) = Len(s) + Len(t)
  BY ConcatProperties
<1>2. ASSUME s # <<>> PROVE s \o t # <<>> /\ (s \o t)[1] = s[1]
  <2>1. Len(s) \in Nat \ {0} /\ Len(t) \in Nat
    BY <1>2, EmptySeq, LenProperties
  <2> QED BY <1>1, <2>1, ConcatProperties, EmptySeq
<1>3. ASSUME s = <<>> PROVE s \o t = t
  BY <1>3, ConcatEmptySeq
<1> QED BY <1>1, <1>2, <1>3

LEMMA LenType ==
    ASSUME NEW S, NEW s \in Seq(S)
    PROVE  Len(s) \in Nat /\ (s = <<>> <=> Len(s) = 0)
BY EmptySeq, LenProperties

LEMMA LineIsUnit ==
    ASSUME NEW n \in Nat
    PROVE  Line(n) \in Lines /\ Line(n) \in Unit /\ Line(n)[2] = n
BY DEF Line, Lines, Unit

(* What syncCommand writes: the line with the length of the dump, and the  *)
(* dump.                                                                   *)
LEMMA Sent ==
    ASSUME NEW v \in 0..MaxWrites
    PROVE  LET s == <<Line(Length[v])>> \o Dump(v)
           IN  s \in Seq(Unit) /\ s # <<>> /\ s[1] \in Lines
<1>1. Length[v] \in Nat \ {0}
  BY ReplicationAssumption
<1>2. Dump(v) \in Seq(Unit)
  <2>1. \A i \in 1..Length[v] : <<"dump", v, i>> \in Unit
    BY <1>1, ReplicationAssumption DEF Unit
  <2> QED BY <1>1, <2>1, IsASeq DEF Dump
<1>3. <<Line(Length[v])>> \in Seq(Unit) /\ <<Line(Length[v])>> # <<>>
      /\ <<Line(Length[v])>>[1] \in Lines
  BY <1>1, LineIsUnit
<1> DEFINE a == <<Line(Length[v])>>
<1> HIDE DEF a
<1>4. a \in Seq(Unit) /\ a # <<>> /\ a[1] \in Lines
  BY <1>3 DEF a
<1>5. a \o Dump(v) \in Seq(Unit) /\ a \o Dump(v) # <<>> /\ (a \o Dump(v))[1] \in Lines
  BY <1>4, <1>2, Behind
<1> QED BY <1>5 DEF a

----------------------------------------------------------------------------
(* The master's steps keep the invariant *)

LEMMA InitRInv == SyncInit => RInv
<1> SUFFICES ASSUME SyncInit PROVE RInv
  OBVIOUS
<1>1. <<>> \in Seq(Unit) /\ Len(<<>>) = 0
  BY EmptySeq
<1>2. 0 \in 0..MaxWrites /\ MaxFaults \in 0..MaxFaults /\ 0 <= Room /\ 0 <= Buf
  BY ReplicationAssumption
<1>3. SyncTypeOK
  BY <1>1, <1>2 DEF SyncInit, SyncTypeOK
<1>4. Streams
  BY <1>1 DEF SyncInit, Streams
<1> QED BY <1>3, <1>4 DEF SyncInit, RInv, Held, Announced

LEMMA FewerFaults ==
    ASSUME RInv, syncFaults > 0, syncFaults' = syncFaults - 1
    PROVE  syncFaults' \in 0..MaxFaults
BY ReplicationAssumption DEF RInv, SyncTypeOK

LEMMA SyncKeeps == ASSUME RInv, syncCommand PROVE RInv'
<1> USE DEF RInv, syncCommand, masterVars, slaveVars
<1>1. CASE master' = "send" /\ out' = <<Line(Length[writes])>> \o Dump(writes)
           /\ UNCHANGED syncFaults
  <2>1. out' \in Seq(Unit) /\ out' # <<>> /\ out'[1] \in Lines
    BY <1>1, Sent DEF SyncTypeOK
  <2>2. SyncTypeOK' /\ Streams' /\ Held' /\ Announced'
    BY <1>1, <2>1 DEF SyncTypeOK, Streams, Held, Announced
  <2>3. (slave = "head" => Headed)'
    BY <1>1, <2>1 DEF Headed
  <2> QED BY <2>2, <2>3
<1>2. CASE syncFaults > 0 /\ syncFaults' = syncFaults - 1 /\ UNCHANGED <<master, out>>
  <2>1. syncFaults' \in 0..MaxFaults
    BY <1>2, FewerFaults
  <2>2. UNCHANGED <<writes, master, out, listed, accepted, wire, slave, connected, buf,
                    need, temp, replstate>> /\ asked' = FALSE
    BY <1>2
  <2> HIDE DEF syncCommand
  <2>3. SyncTypeOK'
    BY <2>1, <2>2 DEF SyncTypeOK
  <2> QED BY <2>2, <2>3 DEF Streams, Held, Announced, Headed
<1> QED BY <1>1, <1>2

LEMMA SyncWriteKeeps == ASSUME RInv, syncWrite PROVE RInv'
<1> USE DEF RInv
<1>1. CASE connected
  <2>1. PICK n \in 1..Smaller(Len(out), Room - Len(wire)) :
            /\ wire' = wire \o SubSeq(out, 1, n)
            /\ out' = SubSeq(out, n + 1, Len(out))
            /\ UNCHANGED <<master, listed>>
    BY <1>1 DEF syncWrite
  <2>2. Len(out) \in Nat /\ Len(wire) \in Nat /\ Room \in Nat
    BY LenType, ReplicationAssumption DEF Streams
  <2>3. n \in 1..Len(out) /\ n <= Room - Len(wire)
    BY <2>2 DEF Smaller
  <2> DEFINE part == SubSeq(out, 1, n)
  <2>4. /\ part \in Seq(Unit) /\ Len(part) = n /\ part[1] = out[1]
        /\ out' \in Seq(Unit)
    BY <2>1, <2>3, Split DEF Streams
  <2>5. wire' = wire \o part
    BY <2>1
  <2> HIDE DEF part
  <2>6. /\ wire' \in Seq(Unit) /\ Len(wire') = Len(wire) + n
        /\ wire # <<>> => wire' # <<>> /\ wire'[1] = wire[1]
        /\ wire = <<>> => wire' = part
    BY <2>4, <2>5, Behind DEF Streams
  <2>7. part # <<>>
    BY <2>3, <2>4, LenType
  <2>8. SyncTypeOK' /\ Streams' /\ Held' /\ Announced'
    BY <1>1, <2>1, <2>2, <2>3, <2>4, <2>6
       DEF syncWrite, SyncTypeOK, Streams, Held, Announced, slaveVars
  <2>9. (slave = "head" => Headed)'
    BY <2>1, <2>4, <2>6, <2>7 DEF syncWrite, Headed, slaveVars
  <2> QED BY <2>8, <2>9
<1>2. CASE ~connected
  <2>1. master' = "idle" /\ listed' = TRUE /\ out' = <<>> /\ UNCHANGED wire
    BY <1>2 DEF syncWrite
  <2>2. out' \in Seq(Unit)
    BY <2>1, EmptySeq
  <2> QED
    BY <1>2, <2>1, <2>2 DEF syncWrite, SyncTypeOK, Streams, Held, Announced, slaveVars
<1> QED BY <1>1, <1>2 DEF SyncTypeOK

LEMMA GiveUpKeeps == ASSUME RInv, GiveUp PROVE RInv'
<1> USE DEF RInv
<1>1. out' \in Seq(Unit)
  BY EmptySeq DEF GiveUp
<1>2. SyncTypeOK' /\ Streams' /\ Held' /\ Announced'
  BY <1>1 DEF GiveUp, SyncTypeOK, Streams, Held, Announced, slaveVars
<1>3. slave = "head" => wire # <<>>
  <2>1. Len(wire) \in Nat /\ (wire = <<>> <=> Len(wire) = 0) /\ Room \in Nat \ {0}
    BY LenType, ReplicationAssumption DEF Streams
  <2> QED BY <2>1 DEF GiveUp, Writable, Held
<1>4. (slave = "head" => Headed)'
  BY <1>3 DEF GiveUp, Headed, slaveVars
<1> QED BY <1>2, <1>4

LEMMA ListedKeeps == ASSUME RInv, Listed PROVE RInv'
BY DEF RInv, Listed, SyncTypeOK, Streams, Held, Announced, Headed, slaveVars

LEMMA WriteKeeps == ASSUME RInv, MasterWrite PROVE RInv'
<1> USE DEF RInv
<1>1. writes' \in 0..MaxWrites /\ writes' \in Nat
  BY ReplicationAssumption DEF MasterWrite, SyncTypeOK
<1>2. CASE listed /\ connected /\ Len(wire) < Room
           /\ wire' = Append(wire, <<"write", writes'>>)
  <2>1. <<"write", writes'>> \in Unit
    BY <1>1 DEF Unit
  <2>2. /\ wire' \in Seq(Unit) /\ wire' # <<>> /\ Len(wire') = Len(wire) + 1
        /\ \A i \in 1..Len(wire) : wire'[i] = wire[i]
    BY <1>2, <2>1, AppendProperties DEF Streams
  <2>3. Len(wire) \in Nat /\ (wire = <<>> <=> Len(wire) = 0) /\ Room \in Nat
    BY LenType, ReplicationAssumption DEF Streams
  <2>4. wire # <<>> => wire'[1] = wire[1]
    BY <2>2, <2>3
  <2>5. SyncTypeOK' /\ Streams' /\ Held' /\ Announced'
    BY <1>1, <1>2, <2>2, <2>3
       DEF MasterWrite, SyncTypeOK, Streams, Held, Announced, slaveVars
  <2>6. (slave = "head" => Headed)'
    BY <1>2, <2>2, <2>4 DEF MasterWrite, Headed, slaveVars
  <2> QED BY <2>5, <2>6
<1>3. CASE UNCHANGED wire
  BY <1>1, <1>3 DEF MasterWrite, SyncTypeOK, Streams, Held, Announced, Headed, slaveVars
<1> QED BY <1>2, <1>3 DEF MasterWrite

LEMMA MasterClosesKeeps == ASSUME RInv, MasterCloses PROVE RInv'
BY DEF RInv, MasterCloses, SyncTypeOK, Streams, Held, Announced, Headed, slaveVars

LEMMA MasterDiesKeeps == ASSUME RInv, MasterDies PROVE RInv'
<1>1. out' \in Seq(Unit)
  BY EmptySeq DEF MasterDies
<1>2. syncFaults' \in 0..MaxFaults
  BY FewerFaults DEF MasterDies
<1>3. SyncTypeOK'
  BY <1>2 DEF RInv, MasterDies, SyncTypeOK, slaveVars
<1> QED
  BY <1>1, <1>3 DEF RInv, MasterDies, Streams, Held, Announced, Headed, slaveVars

----------------------------------------------------------------------------
(* The slave's steps keep the invariant *)

LEMMA ConnectKeeps == ASSUME RInv, Connect PROVE RInv'
<1>1. wire' \in Seq(Unit) /\ buf' \in Seq(Unit) /\ Len(wire') = 0 /\ Len(buf') = 0
  BY EmptySeq DEF Connect
<1> QED
  BY <1>1, ReplicationAssumption
     DEF RInv, Connect, SyncTypeOK, Streams, Held, Announced, Headed

LEMMA SyncReadKeeps == ASSUME RInv, syncRead PROVE RInv'
<1> USE DEF RInv
<1>1. PICK n \in 1..Smaller(Len(wire), Buf - Len(buf)) :
        /\ buf' = buf \o SubSeq(wire, 1, n)
        /\ wire' = SubSeq(wire, n + 1, Len(wire))
  BY DEF syncRead
<1>2. Len(wire) \in Nat /\ Len(buf) \in Nat /\ Buf \in Nat \ {0} /\ Room \in Nat
  BY LenType, ReplicationAssumption DEF Streams
<1>3. n \in 1..Len(wire) /\ n <= Buf - Len(buf)
  BY <1>2 DEF Smaller
<1> DEFINE part == SubSeq(wire, 1, n)
<1>4. /\ part \in Seq(Unit) /\ Len(part) = n /\ part[1] = wire[1]
      /\ wire' \in Seq(Unit) /\ Len(wire') = Len(wire) - n
  BY <1>1, <1>3, Split DEF Streams
<1>5. buf' = buf \o part
  BY <1>1
<1> HIDE DEF part
<1>6. /\ buf' \in Seq(Unit) /\ Len(buf') = Len(buf) + n
      /\ buf # <<>> => buf' # <<>> /\ buf'[1] = buf[1]
      /\ buf = <<>> => buf' = part
  BY <1>4, <1>5, Behind DEF Streams
<1>7. part # <<>> /\ wire # <<>>
  BY <1>2, <1>3, <1>4, LenType DEF Streams
<1>8. /\ UNCHANGED <<writes, master, out, listed, accepted, asked, connected, replstate,
                     syncFaults>>
      /\ slave = "head"
  BY DEF syncRead, masterVars
<1>9. Len(wire') <= Room /\ Len(buf') <= Buf
  BY <1>2, <1>3, <1>4, <1>6 DEF SyncTypeOK
<1>10. buf' # <<>> /\ buf'[1] \in Lines
  BY <1>4, <1>6, <1>7 DEF syncRead, Headed
<1>11. CASE Len(buf') = Buf
  <2>1. PICK k \in Nat : buf'[1] = Line(k)
    BY <1>10 DEF Lines
  <2>2. need' = k /\ slave' = "dump" /\ temp' = <<>>
    BY <1>11, <2>1, LineIsUnit DEF syncRead
  <2>3. temp' \in Seq(Unit) /\ Len(temp') = 0
    BY <2>2, EmptySeq
  <2>4. Announced'
    BY <2>1, <2>2, <2>3 DEF Announced
  <2>5. SyncTypeOK'
    BY <1>8, <1>9, <2>2 DEF SyncTypeOK
  <2>6. Streams' /\ Held'
    BY <1>8, <1>4, <1>6, <2>2, <2>3 DEF Streams, Held
  <2> QED BY <2>2, <2>4, <2>5, <2>6
<1>12. CASE Len(buf') # Buf
  <2>1. UNCHANGED <<slave, need, temp>>
    BY <1>12 DEF syncRead
  <2>2. SyncTypeOK'
    BY <1>8, <1>9, <2>1 DEF SyncTypeOK
  <2>3. Streams' /\ Held' /\ Announced'
    BY <1>8, <1>4, <1>6, <2>1 DEF Streams, Held, Announced
  <2>4. Headed'
    BY <1>10 DEF Headed
  <2> QED BY <2>2, <2>3, <2>4
<1> QED BY <1>11, <1>12

LEMMA ReadTimeoutKeeps == ASSUME RInv, ReadTimeout PROVE RInv'
BY DEF RInv, ReadTimeout, Close, SyncTypeOK, Streams, Held, Announced, masterVars

LEMMA DumpReadKeeps == ASSUME RInv, DumpRead PROVE RInv'
<1> USE DEF RInv
<1>1. PICK n \in 1..Smaller(Len(wire), need) :
        /\ temp' = temp \o SubSeq(wire, 1, n)
        /\ wire' = SubSeq(wire, n + 1, Len(wire))
        /\ need' = need - n
  BY DEF DumpRead
<1>2. Len(wire) \in Nat /\ Len(temp) \in Nat /\ need \in Nat /\ Room \in Nat
  BY LenType, ReplicationAssumption DEF Streams, SyncTypeOK
<1>3. n \in 1..Len(wire) /\ n <= need
  BY <1>2 DEF Smaller
<1> DEFINE part == SubSeq(wire, 1, n)
<1>4. /\ part \in Seq(Unit) /\ Len(part) = n
      /\ wire' \in Seq(Unit) /\ Len(wire') = Len(wire) - n
  BY <1>1, <1>3, Split DEF Streams
<1>5. temp' = temp \o part
  BY <1>1
<1> HIDE DEF part
<1>6. temp' \in Seq(Unit) /\ Len(temp') = Len(temp) + n
  BY <1>4, <1>5, Behind, ZenonT(60) DEF Streams
<1>7. need' \in Nat /\ need' + Len(temp') = need + Len(temp)
  BY <1>1, <1>2, <1>3, <1>6
<1>8. Announced'
  BY <1>7 DEF DumpRead, Announced
<1>9. SyncTypeOK' /\ Streams' /\ Held'
  BY <1>2, <1>3, <1>4, <1>6, <1>7 DEF DumpRead, SyncTypeOK, Streams, Held, masterVars
<1> QED BY <1>8, <1>9 DEF DumpRead

LEMMA DumpFailsKeeps == ASSUME RInv, DumpFails PROVE RInv'
<1>1. syncFaults' \in 0..MaxFaults
  BY FewerFaults DEF DumpFails
<1>2. SyncTypeOK'
  BY <1>1 DEF RInv, DumpFails, Close, SyncTypeOK, masterVars
<1> QED BY <1>2 DEF RInv, DumpFails, Close, Streams, Held, Announced, masterVars

LEMMA RenameKeeps == ASSUME RInv, Rename PROVE RInv'
<1>1. syncFaults' \in 0..MaxFaults
  <2>1. CASE syncFaults > 0 /\ syncFaults' = syncFaults - 1
    BY <2>1, FewerFaults
  <2>2. CASE UNCHANGED syncFaults
    BY <2>2 DEF RInv, SyncTypeOK
  <2> QED BY <2>1, <2>2 DEF Rename
<1>2. SyncTypeOK'
  BY <1>1 DEF RInv, Rename, Close, SyncTypeOK, masterVars
<1> QED BY <1>2 DEF RInv, Rename, Close, Streams, Held, Announced, masterVars

LEMMA LoadKeeps == ASSUME RInv, Load PROVE RInv'
BY DEF RInv, Load, Close, SyncTypeOK, Streams, Held, Announced, masterVars

LEMMA RestartKeeps == ASSUME RInv, SlaveRestart PROVE RInv'
<1>1. syncFaults' \in 0..MaxFaults
  BY FewerFaults DEF SlaveRestart
<1>2. SyncTypeOK'
  BY <1>1 DEF RInv, SlaveRestart, Close, SyncTypeOK, masterVars
<1> QED BY <1>2 DEF RInv, SlaveRestart, Close, Streams, Held, Announced, masterVars

LEMMA NextRInv == RInv /\ [SyncNext]_syncVars => RInv'
<1> SUFFICES ASSUME RInv, [SyncNext]_syncVars PROVE RInv'
  OBVIOUS
<1>1. CASE \/ syncCommand \/ syncWrite \/ GiveUp \/ Listed \/ MasterWrite
           \/ MasterCloses \/ MasterDies
  BY <1>1, SyncKeeps, SyncWriteKeeps, GiveUpKeeps, ListedKeeps, WriteKeeps,
     MasterClosesKeeps, MasterDiesKeeps
<1>2. CASE \/ Connect \/ syncRead \/ ReadTimeout \/ DumpRead \/ DumpFails
           \/ Rename \/ Load \/ SlaveRestart
  BY <1>2, ConnectKeeps, SyncReadKeeps, ReadTimeoutKeeps, DumpReadKeeps, DumpFailsKeeps,
     RenameKeeps, LoadKeeps, RestartKeeps
<1>3. CASE UNCHANGED syncVars
  BY <1>3 DEF RInv, SyncTypeOK, Streams, Held, Announced, Headed, syncVars, masterVars,
              slaveVars
<1> QED BY <1>1, <1>2, <1>3 DEF SyncNext

(* The types, and the order of what the two servers say to each other,     *)
(* hold however the stream is cut into reads and writes.                   *)
THEOREM ReplicationInvariance == SyncSpec => []RInv
BY InitRInv, NextRInv, PTL DEF SyncSpec

(* Every variable of master and slave keeps its type. *)
THEOREM ReplicationTypes == SyncSpec => []SyncTypeOK
<1>1. RInv => SyncTypeOK
  BY DEF RInv
<1> QED BY <1>1, ReplicationInvariance, PTL

----------------------------------------------------------------------------
(* What the slave publishes and what it has in memory *)

(* A file that becomes the slave's dump has the length the master          *)
(* announced, for every cut of the stream and every length of the dumps.   *)
THEOREM AnnouncedLength == SyncSpec => PublishedAsAnnounced
<1>1. ASSUME RInv, [SyncNext]_syncVars, slaveDisk' # slaveDisk
      PROVE  buf[1] = Line(Len(slaveDisk'))
  <2>1. Rename /\ slaveDisk' = temp /\ need = 0
    BY <1>1 DEF SyncNext, syncVars, masterVars, slaveVars, syncCommand, syncWrite, GiveUp,
                Listed, MasterWrite, MasterCloses, MasterDies, Connect, syncRead, ReadTimeout, DumpRead,
                DumpFails, Rename, Load, SlaveRestart
  <2>2. buf[1] = Line(0 + Len(temp)) /\ Len(temp) \in Nat
    BY <1>1, <2>1, LenType DEF RInv, Announced, Rename, Streams
  <2> QED BY <2>1, <2>2
<1>2. RInv /\ [SyncNext]_syncVars =>
        [slaveDisk' # slaveDisk => buf[1] = Line(Len(slaveDisk'))]_syncVars
  BY <1>1
<1> QED BY <1>2, ReplicationInvariance, PTL DEF SyncSpec, PublishedAsAnnounced

(* Nothing that arrives is taken for the slave's own dump. *)
LEMMA OwnIsOwn == ASSUME NEW s \in Seq(Unit) PROVE s # Own
<1>1. Own[1] = <<"own">> /\ Len(Own) = 1
  BY DEF Own
<1>2. ASSUME s = Own PROVE FALSE
  <2>1. s[1] = <<"own">> /\ Len(s) = 1
    BY <1>1, <1>2
  <2>2. <<"own">> \in Unit
    BY <2>1, ElementOfSeq
  <2>3. \A u \in Unit : u[1] \in {"line", "write", "dump"}
    BY DEF Unit, Lines, Line
  <2>4. <<"own">>[1] = "own"
    OBVIOUS
  <2> QED BY <2>2, <2>3, <2>4
<1> QED BY <1>2

(* Failing syncs and restarts take nothing from a slave that has its own   *)
(* dump still.                                                             *)
THEOREM OwnDataKept == SyncSpec => []OwnDataUntilReplaced
<1>1. SyncInit => OwnDataUntilReplaced
  BY DEF SyncInit, OwnDataUntilReplaced
<1>2. Loaded(Own) = Own
  BY DEF Loaded, Signed
<1>3. RInv /\ OwnDataUntilReplaced /\ [SyncNext]_syncVars => OwnDataUntilReplaced'
  <2> SUFFICES ASSUME RInv, OwnDataUntilReplaced, [SyncNext]_syncVars, slaveDisk' = Own
               PROVE  slaveMem' = Own
    BY DEF OwnDataUntilReplaced
  <2>1. CASE Rename
    <3>1. temp # Own
      BY OwnIsOwn DEF RInv, Streams
    <3> QED BY <2>1, <3>1 DEF Rename, OwnDataUntilReplaced
  <2>2. CASE Load \/ SlaveRestart
    BY <2>2, <1>2 DEF Load, SlaveRestart
  <2>3. CASE UNCHANGED <<slaveDisk, slaveMem>>
    BY <2>3 DEF OwnDataUntilReplaced
  <2> QED
    BY <2>1, <2>2, <2>3
       DEF SyncNext, syncVars, masterVars, slaveVars, syncCommand, syncWrite, GiveUp, Listed,
           MasterWrite, MasterCloses, MasterDies, Connect, syncRead, ReadTimeout, DumpRead,
           DumpFails
<1> QED BY <1>1, <1>3, ReplicationInvariance, PTL DEF SyncSpec
=============================================================================
