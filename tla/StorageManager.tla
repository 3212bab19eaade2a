--------------------------- MODULE StorageManager ---------------------------
(***************************************************************************)
(* LMCache's storage manager, as far as the multiprocess server relies on  *)
(* it.  Its code is not part of this repository: what is here is what the  *)
(* two transfer strategies and the comments beside their calls take for    *)
(* granted.  Every operation is atomic (the manager has its own lock).     *)
(***************************************************************************)
EXTENDS Naturals

CONSTANTS
    ObjectKey,     \* storage objects
    NoTensor       \* objects whose memory object has no tensor view

VARIABLES
    obj,           \* "absent", "writing" (write-locked) or "readable"
    readers,       \* read locks on an object
    written        \* ghost: objects whose content is complete

\* The objects reserve_write(keys, "new") can grant: those that do not exist.
\* It grants fewer when memory is short.
Reservable(keys) == {o \in keys : obj[o] = "absent"}

\* The objects unsafe_read or read_prefetched_results find: those a lookup's
\* prefetch has read-locked.
Prefetched(keys) == {o \in keys : obj[o] = "readable" /\ readers[o] > 0}

\* finish_write: the write locks on `keys` go and the objects can be read.
FinishWrite(keys) ==
    obj' = [o \in ObjectKey |-> IF o \in keys THEN "readable" ELSE obj[o]]

\* A lookup hit all of `found`: its prefetch takes a read lock on each.
LockPrefetched(found) ==
    readers' = [o \in ObjectKey |->
        IF o \in found THEN readers[o] + 1 ELSE readers[o]]

\* finish_read_prefetched: one read lock on each of `keys` goes.
FinishReadPrefetched(keys) ==
    readers' = [o \in ObjectKey |->
        IF o \in keys /\ readers[o] > 0 THEN readers[o] - 1 ELSE readers[o]]

\* An object that nobody has locked leaves the storage.
Unlocked(o) == obj[o] = "readable" /\ readers[o] = 0

Drop(gone) ==
    /\ obj' = [o \in ObjectKey |-> IF o \in gone THEN "absent" ELSE obj[o]]
    /\ written' = written \ gone
=============================================================================
