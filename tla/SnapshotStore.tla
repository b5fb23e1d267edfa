--------------------------- MODULE SnapshotStore ---------------------------
(***************************************************************************)
(* What redis.c's persistence promises: a store in memory that may publish *)
(* snapshots of itself on disk, at any later time, and starts from the     *)
(* published one.  The promise is void once two savers wrote one file, or  *)
(* the disk lost a write nobody checked.                                   *)
(***************************************************************************)
CONSTANTS Content,  \* what memory may hold
          Fresh     \* the content of an empty store

VARIABLES up,       \* the server runs
          mem,      \* content of memory
          disk,     \* the published snapshot
          pending,  \* snapshots taken and not yet published or dropped
          sound     \* the promise holds

vars == <<up, mem, disk, pending, sound>>

Init == /\ up = FALSE /\ mem = Fresh
        /\ disk = Fresh /\ pending = {} /\ sound = TRUE

Write == /\ up /\ mem' \in Content
         /\ UNCHANGED <<up, disk, pending>>

Take == /\ up /\ pending' = pending \union {mem}
        /\ UNCHANGED <<up, mem, disk>>

(* FLUSHALL: a new content and its snapshot. *)
WriteTake == /\ up /\ mem' \in Content
             /\ pending' = pending \union {mem'}
             /\ UNCHANGED <<up, disk>>

(* Memory is lost when the server stops. *)
Stop == up' = FALSE /\ mem' = Fresh

Publish == /\ disk' \in pending
           /\ pending' \in SUBSET pending
           /\ UNCHANGED <<up, mem>> \/ Stop

Drop == /\ pending' \in SUBSET pending
        /\ disk' = disk
        /\ UNCHANGED <<up, mem>> \/ Stop

Start == /\ ~up /\ up' = TRUE
         /\ mem' = disk
         /\ UNCHANGED <<disk, pending>>

Work == Write \/ Take \/ WriteTake \/ Publish \/ Drop \/ Start

Next == \/ sound /\ sound' = TRUE /\ Work
        \/ sound' = FALSE

Spec == Init /\ [][Next]_vars
============================================================================
