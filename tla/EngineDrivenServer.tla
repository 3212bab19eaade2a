------------------------- MODULE EngineDrivenServer -------------------------
(***************************************************************************)
(* The server side of engine-driven KV transfers over shared memory:       *)
(* EngineDrivenTransferModule with ShmTransferStrategy, the worker         *)
(* operations that call it, and the storage manager it reserves from.      *)
(*                                                                         *)
(* Four kinds of thread run here.  A worker operation (a Task) asks for    *)
(* slots, copies, and commits; every request it sends runs as a handler on *)
(* the AFFINITY thread of its instance; REGISTER and UNREGISTER run on the *)
(* MQ main loop; the reaper scans on a thread of its own.  A handler       *)
(* resolves its instance under `_lock`, and works on the pending maps and  *)
(* the storage after it has let that lock go.                              *)
(***************************************************************************)
EXTENDS StorageManager, FiniteSets

CONSTANTS
    Instance,      \* worker instance ids
    Task,          \* operations a worker has in flight (its threads)
    InstanceOf,    \* the worker each task belongs to
    RetrieveTask,  \* the tasks that retrieve; the others store
    Key,           \* IPCCacheServerKey up to equality: request_id is not compared
    NumGroups,     \* object groups the workers registered
    ObjKeys,       \* ObjKeys[k][g]: the objects of key k in group g
    NoTask,        \* the writer of an object that is reserved for nobody
    MaxReaders,    \* bound: read locks the lookups take on one object
    MaxReleases    \* bound: unregistrations and reaper scans that find something

Group == 1..NumGroups

ASSUME ConstantsAssumption ==
    /\ InstanceOf \in [Task -> Instance]
    /\ IsFiniteSet(Task)
    /\ RetrieveTask \subseteq Task
    /\ NumGroups \in Nat \ {0}
    /\ Key # {}
    /\ ObjKeys \in [Key -> [Group -> SUBSET ObjectKey]]
    /\ NoTensor \subseteq ObjectKey
    /\ NoTask \notin Task
    /\ MaxReaders \in Nat
    /\ MaxReleases \in Nat

VARIABLES
    contexts,       \* _engine_driven_contexts: the instances with an entry
    strategies,     \* _strategies: the instances with a strategy
    silent,         \* instances whose last_seen is older than their reap window
    attached,       \* workers that hold a registration, as they know it
    pendingWrites,  \* _pending_shm_writes[i][k], {} for no entry
    pendingReads,   \* _pending_shm_reads[i][k], {} for no entry
    writer,         \* ghost: the task an object is reserved for until it is finished
    unfilled,       \* ghost: objects prepare_store gave back without a slot
    left,           \* ghost: read locks on an object that nobody will give back
    wpc, key, slots,            \* a task: where it is, its key, the slots it was given
    hpc, grp, acc,              \* its handler: where it is, the group, the keys it holds
    unused,                     \* of these, the keys of the group that got no slot
    relTodo, relWrites, relReads, \* _release_entry on the main loop and on the reaper
    releases        \* number of releases begun, up to MaxReleases

registryVars == <<contexts, strategies, silent, attached>>
pendingVars  == <<pendingWrites, pendingReads>>
storageVars  == <<obj, readers, writer, written, unfilled, left>>
workerVars   == <<wpc, key, slots>>
handlerVars  == <<hpc, grp, acc, unused>>
releaseVars  == <<relTodo, relWrites, relReads>>
vars == <<registryVars, pendingVars, storageVars, workerVars, handlerVars,
          releaseVars, releases>>

Releaser == {"mainLoop", "reaper"}

\* A request that has been sent and waits for the AFFINITY thread.
Queued == {"prepareStore", "commitStore", "prepareRetrieve", "commitRetrieve"}

\* Where the handler of each request goes on once its instance is resolved.
FirstStep ==
    [prepareStore |-> "reserve", commitStore |-> "pop",
     prepareRetrieve |-> "read", commitRetrieve |-> "popRead"]

HandlerPC == {"none"} \cup Queued \cup
    {"reserve", "finishUnused", "abandon", "record", "pop", "publish", "read",
     "recordRead", "popRead", "unlock"}

\* Where a handler has the read locks of its lookup in its hands.
Reading == {"prepareRetrieve", "read", "recordRead"}

WorkerPC == {"idle", "gather", "scatter", "endRetrieve"} \cup Queued

TasksOf(i) == {t \in Task : InstanceOf[t] = i}

\* The objects of a key: a lookup hits them all, and read-locks each of them.
Found(k) == UNION {ObjKeys[k][g] : g \in Group}

\* The read locks on `objects` get lost: nobody knows of them any more.
Leave(objects) ==
    left' = [o \in ObjectKey |-> IF o \in objects THEN left[o] + 1 ELSE left[o]]

NoPending == [k \in Key |-> {}]

-----------------------------------------------------------------------------
Init ==
    /\ contexts = {} /\ strategies = {} /\ silent = {} /\ attached = {}
    /\ pendingWrites = [i \in Instance |-> NoPending]
    /\ pendingReads = [i \in Instance |-> NoPending]
    /\ obj = [o \in ObjectKey |-> "absent"]
    /\ readers = [o \in ObjectKey |-> 0]
    /\ writer = [o \in ObjectKey |-> NoTask]
    /\ written = {} /\ unfilled = {}
    /\ left = [o \in ObjectKey |-> 0]
    /\ wpc = [t \in Task |-> "idle"]
    /\ key = [t \in Task |-> CHOOSE k \in Key : TRUE]
    /\ slots = [t \in Task |-> {}]
    /\ hpc = [t \in Task |-> "none"]
    /\ grp = [t \in Task |-> 1]
    /\ acc = [t \in Task |-> {}]
    /\ unused = [t \in Task |-> {}]
    /\ relTodo = [r \in Releaser |-> {}]
    /\ relWrites = [r \in Releaser |-> NoPending]
    /\ relReads = [r \in Releaser |-> NoPending]
    /\ releases = 0

-----------------------------------------------------------------------------
\* Under memory pressure storage drops an object nobody has locked.
Evict(o) ==
    /\ Unlocked(o)
    /\ Drop({o})
    /\ unfilled' = unfilled \ {o}
    /\ UNCHANGED <<registryVars, pendingVars, readers, writer, left, workerVars, handlerVars,
                   releaseVars, releases>>

-----------------------------------------------------------------------------
(* The worker.                                                             *)

\* The worker waits for a reply in `waiting`; it gets one and goes to `next`.
\* A worker that has timed out (or died) is elsewhere and drops the reply.
Reply(t, waiting, next) ==
    wpc' = IF wpc[t] = waiting THEN [wpc EXCEPT ![t] = next] ELSE wpc

\* The slots that come with the reply.
GiveSlots(t, waiting) ==
    slots' = IF wpc[t] = waiting THEN [slots EXCEPT ![t] = acc[t]] ELSE slots

MainLoopFree ==
    /\ relTodo["mainLoop"] = {}
    /\ relWrites["mainLoop"] = NoPending /\ relReads["mainLoop"] = NoPending

ReaperFree ==
    /\ relTodo["reaper"] = {}
    /\ relWrites["reaper"] = NoPending /\ relReads["reaper"] = NoPending

\* A store begins: PREPARE_STORE is sent.
SubmitStore(t, k) ==
    /\ t \notin RetrieveTask /\ InstanceOf[t] \in attached
    /\ wpc[t] = "idle" /\ hpc[t] = "none"
    /\ wpc' = [wpc EXCEPT ![t] = "prepareStore"]
    /\ hpc' = [hpc EXCEPT ![t] = "prepareStore"]
    /\ key' = [key EXCEPT ![t] = k]
    /\ UNCHANGED <<registryVars, pendingVars, storageVars, slots, grp, acc, unused,
                   releaseVars, releases>>

\* A retrieve begins.  The scheduler's lookup hit every object of the key and
\* its prefetch read-locked them; the worker sends PREPARE_RETRIEVE.
SubmitRetrieve(t, k) ==
    /\ t \in RetrieveTask /\ InstanceOf[t] \in attached
    /\ wpc[t] = "idle" /\ hpc[t] = "none"
    /\ \A o \in Found(k) : obj[o] = "readable" /\ readers[o] < MaxReaders
    /\ LockPrefetched(Found(k))
    /\ wpc' = [wpc EXCEPT ![t] = "prepareRetrieve"]
    /\ hpc' = [hpc EXCEPT ![t] = "prepareRetrieve"]
    /\ key' = [key EXCEPT ![t] = k]
    /\ UNCHANGED <<registryVars, pendingVars, obj, writer, written, unfilled, left,
                   slots, grp, acc, unused, releaseVars, releases>>

\* The device copies into the slots complete; COMMIT_STORE is sent.
Gather(t) ==
    /\ wpc[t] = "gather"
    /\ written' = written \cup {o \in slots[t] : writer[o] = t}
    /\ wpc' = [wpc EXCEPT ![t] = "commitStore"]
    /\ hpc' = [hpc EXCEPT ![t] = "commitStore"]
    /\ slots' = [slots EXCEPT ![t] = {}]
    /\ UNCHANGED <<registryVars, pendingVars, obj, readers, writer, unfilled, left,
                   key, grp, acc, unused, releaseVars, releases>>

\* Mutant: the exception is swallowed and the store is committed.
GatherFailsButCommits(t) ==
    /\ wpc[t] = "gather"
    /\ wpc' = [wpc EXCEPT ![t] = "commitStore"]
    /\ hpc' = [hpc EXCEPT ![t] = "commitStore"]
    /\ slots' = [slots EXCEPT ![t] = {}]
    /\ UNCHANGED <<registryVars, pendingVars, storageVars, key, grp, acc, unused,
                   releaseVars, releases>>

\* The gather raises: the store ends and nothing is committed.
GatherFails(t) ==
    /\ wpc[t] = "gather"
    /\ wpc' = [wpc EXCEPT ![t] = "idle"]
    /\ slots' = [slots EXCEPT ![t] = {}]
    /\ UNCHANGED <<registryVars, pendingVars, storageVars, key, handlerVars,
                   releaseVars, releases>>

\* The copies out of the slots complete, or raise one of the errors the worker
\* catches (RuntimeError, ValueError, TypeError, IndexError): it goes on to commit.
Scatter(t) ==
    /\ wpc[t] = "scatter"
    /\ wpc' = [wpc EXCEPT ![t] = "endRetrieve"]
    /\ slots' = [slots EXCEPT ![t] = {}]
    /\ UNCHANGED <<registryVars, pendingVars, storageVars, key, handlerVars,
                   releaseVars, releases>>

\* Any other exception ends the retrieve without a commit: in building the slot
\* tensors, in the final synchronize, or an error for a reply.
RetrieveRaises(t) ==
    /\ wpc[t] = "scatter" \/ (wpc[t] = "prepareRetrieve" /\ hpc[t] = "none")
    /\ wpc' = [wpc EXCEPT ![t] = "idle"]
    /\ slots' = [slots EXCEPT ![t] = {}]
    /\ UNCHANGED <<registryVars, pendingVars, storageVars, key, handlerVars,
                   releaseVars, releases>>

\* COMMIT_RETRIEVE is sent, after a hit, a miss or a timeout alike.  Requests
\* of one task reach the server in order.
SendCommitRetrieve(t) ==
    /\ wpc[t] = "endRetrieve" /\ hpc[t] = "none"
    /\ wpc' = [wpc EXCEPT ![t] = "commitRetrieve"]
    /\ hpc' = [hpc EXCEPT ![t] = "commitRetrieve"]
    /\ UNCHANGED <<registryVars, pendingVars, storageVars, key, slots, grp, acc,
                   unused, releaseVars, releases>>

\* Mutant: the final reply of a retrieve is awaited without a timeout.
TimeoutNotOnCommit(t) ==
    /\ wpc[t] \in Queued \ {"commitRetrieve"}
    /\ wpc' = [wpc EXCEPT ![t] =
                  IF wpc[t] = "prepareRetrieve" THEN "endRetrieve" ELSE "idle"]
    /\ UNCHANGED <<registryVars, pendingVars, storageVars, key, slots, handlerVars,
                   releaseVars, releases>>

\* The worker gives up waiting.  A store ends (LMCacheTimeoutError from
\* prepare, False from commit); a retrieve is a miss and goes on to commit.
Timeout(t) ==
    /\ wpc[t] \in Queued
    /\ wpc' = [wpc EXCEPT ![t] =
                  IF wpc[t] = "prepareRetrieve" THEN "endRetrieve" ELSE "idle"]
    /\ UNCHANGED <<registryVars, pendingVars, storageVars, key, slots, handlerVars,
                   releaseVars, releases>>

\* The worker process dies.  What it had sent is still handled.
Crash(i) ==
    /\ i \in attached /\ releases < MaxReleases
    /\ attached' = attached \ {i}
    /\ wpc' = [t \in Task |-> IF InstanceOf[t] = i THEN "idle" ELSE wpc[t]]
    /\ slots' = [t \in Task |-> IF InstanceOf[t] = i THEN {} ELSE slots[t]]
    /\ UNCHANGED <<contexts, strategies, silent, pendingVars, storageVars, key,
                   handlerVars, releaseVars, releases>>

-----------------------------------------------------------------------------
(* Handlers on the AFFINITY threads.                                       *)

AffinityFree(i) == \A t \in TasksOf(i) : hpc[t] \in Queued \cup {"none"}

\* _resolve_for_transfer.  A handler that raises sends no usable reply; a
\* PREPARE_RETRIEVE that does leaves the locks of its lookup.
Resolve(t) ==
    LET i == InstanceOf[t] IN
    /\ hpc[t] \in Queued /\ AffinityFree(i)
    /\ IF i \in contexts /\ i \in strategies
       THEN /\ silent' = silent \ {i}
            /\ hpc' = [hpc EXCEPT ![t] = FirstStep[hpc[t]]]
            /\ UNCHANGED left
       ELSE /\ hpc' = [hpc EXCEPT ![t] = "none"]
            /\ Leave(IF hpc[t] = "prepareRetrieve" THEN Found(key[t]) ELSE {})
            /\ UNCHANGED silent
    /\ UNCHANGED <<contexts, strategies, attached, pendingVars, obj, readers, writer,
                   written, unfilled, workerVars, grp, acc, unused, releaseVars,
                   releases>>

\* Mutant: one group too many.
NextGroupOffByOne(t, next, end) ==
    /\ grp' = [grp EXCEPT ![t] = @ + 1]
    /\ hpc' = [hpc EXCEPT ![t] = IF grp[t] <= NumGroups THEN next ELSE end]

\* The loop over the groups goes on with the next one, or ends.
NextGroup(t, next, end) ==
    IF grp[t] < NumGroups
    THEN /\ grp' = [grp EXCEPT ![t] = @ + 1]
         /\ hpc' = [hpc EXCEPT ![t] = next]
    ELSE /\ grp' = [grp EXCEPT ![t] = 1]
         /\ hpc' = [hpc EXCEPT ![t] = end]

\* reserve_write grants the handler of t `granted`; `rest` gets no slot.
Reserve(t, granted, rest) ==
    /\ hpc[t] = "reserve"
    /\ obj' = [o \in ObjectKey |-> IF o \in granted THEN "writing" ELSE obj[o]]
    /\ writer' = [o \in ObjectKey |-> IF o \in granted THEN t ELSE writer[o]]
    /\ acc' = [acc EXCEPT ![t] = @ \cup granted]
    /\ unused' = [unused EXCEPT ![t] = rest]
    /\ UNCHANGED <<registryVars, pendingVars, readers, written, unfilled, left,
                   workerVars, releaseVars, releases>>

\* Nobody holds a reservation of `objects` any more.
Disown(objects) ==
    writer' = [o \in ObjectKey |-> IF o \in objects THEN NoTask ELSE writer[o]]

\* Mutant: the reservation may also take objects that others are writing.
ReserveGroupTakesOver(t) ==
    \E granted \in SUBSET {o \in ObjKeys[key[t]][grp[t]] : obj[o] # "readable"} :
        /\ Reserve(t, granted, granted \cap NoTensor)
        /\ IF granted \cap NoTensor = {}
           THEN NextGroup(t, "reserve", "record")
           ELSE hpc' = [hpc EXCEPT ![t] = "finishUnused"] /\ UNCHANGED grp

\* One group of ShmTransferStrategy.prepare_store.  reserve_write(.., "new")
\* grants absent objects only, and fewer when memory is short; those without a
\* tensor get no slot.
ReserveGroup(t) ==
    \E granted \in SUBSET Reservable(ObjKeys[key[t]][grp[t]]) :
        /\ Reserve(t, granted, granted \cap NoTensor)
        /\ IF granted \cap NoTensor = {}
           THEN NextGroup(t, "reserve", "record")
           ELSE hpc' = [hpc EXCEPT ![t] = "finishUnused"] /\ UNCHANGED grp

\* The reservation, or the description of a slot, raises.
ReserveGroupRaises(t) ==
    \E granted \in SUBSET Reservable(ObjKeys[key[t]][grp[t]]) :
        \E rest \in SUBSET granted :
            /\ granted \cap NoTensor \subseteq rest
            /\ Reserve(t, granted, rest)
            /\ hpc' = [hpc EXCEPT ![t] = "abandon"]
            /\ UNCHANGED grp

\* The `finally` of the group: what got no slot is finished as it is, and from
\* now on a lookup can hit it.  The handler lets go of `dropped`.
GiveBackUnused(t, dropped) ==
    /\ FinishWrite(unused[t]) /\ Disown(dropped)
    /\ unfilled' = unfilled \cup unused[t]
    /\ unused' = [unused EXCEPT ![t] = {}]
    /\ acc' = [acc EXCEPT ![t] = @ \ dropped]
    /\ UNCHANGED <<registryVars, pendingVars, readers, written, left, workerVars,
                   releaseVars, releases>>

FinishUnused(t) ==
    /\ hpc[t] = "finishUnused"
    /\ GiveBackUnused(t, unused[t])
    /\ NextGroup(t, "reserve", "record")

\* On the way out of an exception the objects that have a slot, of this group
\* and of those before it, stay write-locked, and are in no map.
AbandonPrepare(t) ==
    /\ hpc[t] = "abandon"
    /\ GiveBackUnused(t, acc[t])
    /\ hpc' = [hpc EXCEPT ![t] = "none"]
    /\ grp' = [grp EXCEPT ![t] = 1]

\* The end of prepare_store: nothing reserved is the reply "all cached", which
\* ends the store; otherwise the reservation is put under (instance, key),
\* over any that is there, and the slots go to the worker.
RecordPendingWrite(t) ==
    LET i == InstanceOf[t] IN
    /\ hpc[t] = "record"
    /\ IF acc[t] = {}
       THEN /\ Reply(t, "prepareStore", "idle")
            /\ UNCHANGED <<pendingWrites, slots>>
       ELSE /\ pendingWrites' = [pendingWrites EXCEPT ![i] = [@ EXCEPT ![key[t]] = acc[t]]]
            /\ Reply(t, "prepareStore", "gather")
            /\ GiveSlots(t, "prepareStore")
    /\ hpc' = [hpc EXCEPT ![t] = "none"]
    /\ acc' = [acc EXCEPT ![t] = {}]
    /\ UNCHANGED <<registryVars, pendingReads, storageVars, key, grp, unused,
                   releaseVars, releases>>

\* Mutant: the entry is read but not removed.
PopPendingWriteKeeps(t) ==
    LET i == InstanceOf[t] IN
    /\ hpc[t] = "pop"
    /\ acc' = [acc EXCEPT ![t] = pendingWrites[i][key[t]]]
    /\ IF pendingWrites[i][key[t]] = {}
       THEN /\ hpc' = [hpc EXCEPT ![t] = "none"]
            /\ Reply(t, "commitStore", "idle")
       ELSE /\ hpc' = [hpc EXCEPT ![t] = "publish"]
            /\ UNCHANGED wpc
    /\ UNCHANGED <<registryVars, pendingVars, storageVars, key, slots, grp,
                   unused, releaseVars, releases>>

\* ShmTransferStrategy.commit_store takes the reservation of (instance, key),
\* whoever made it; without one it replies False.
PopPendingWrite(t) ==
    LET i == InstanceOf[t] IN
    /\ hpc[t] = "pop"
    /\ acc' = [acc EXCEPT ![t] = pendingWrites[i][key[t]]]
    /\ pendingWrites' = [pendingWrites EXCEPT ![i] = [@ EXCEPT ![key[t]] = {}]]
    /\ IF pendingWrites[i][key[t]] = {}
       THEN /\ hpc' = [hpc EXCEPT ![t] = "none"]
            /\ Reply(t, "commitStore", "idle")
       ELSE /\ hpc' = [hpc EXCEPT ![t] = "publish"]
            /\ UNCHANGED wpc
    /\ UNCHANGED <<registryVars, pendingReads, storageVars, key, slots, grp,
                   unused, releaseVars, releases>>

PublishStore(t) ==
    /\ hpc[t] = "publish"
    /\ FinishWrite(acc[t]) /\ Disown(acc[t])
    /\ hpc' = [hpc EXCEPT ![t] = "none"]
    /\ acc' = [acc EXCEPT ![t] = {}]
    /\ Reply(t, "commitStore", "idle")
    /\ UNCHANGED <<registryVars, pendingVars, readers, written, unfilled, left,
                   key, slots, grp, unused, releaseVars, releases>>

\* Mutant: the read locks go as soon as a group is read, as in pickle mode.
ReadGroupUnlocks(t) ==
    LET wanted == ObjKeys[key[t]][grp[t]] IN
    /\ hpc[t] = "read"
    /\ FinishReadPrefetched(wanted)
    /\ acc' = [acc EXCEPT ![t] = @ \cup wanted]
    /\ NextGroup(t, "read", "recordRead")
    /\ UNCHANGED <<registryVars, pendingVars, obj, writer, written, unfilled, left,
                   workerVars, unused, releaseVars, releases>>

\* One group of prepare_retrieve.  A short read, or an object without a tensor,
\* makes the whole retrieve a miss: the groups read so far are released, and the
\* locks of the groups after them are left.
ReadGroup(t) ==
    LET wanted == ObjKeys[key[t]][grp[t]]
        prefetched == Prefetched(wanted)
        held == acc[t] \cup prefetched
    IN
    /\ hpc[t] = "read"
    /\ IF prefetched = wanted /\ wanted # {} /\ wanted \cap NoTensor = {}
       THEN /\ acc' = [acc EXCEPT ![t] = held]
            /\ NextGroup(t, "read", "recordRead")
            /\ UNCHANGED <<readers, left, wpc>>
       ELSE /\ FinishReadPrefetched(held)
            /\ Leave(Found(key[t]) \ held)
            /\ hpc' = [hpc EXCEPT ![t] = "none"]
            /\ acc' = [acc EXCEPT ![t] = {}]
            /\ grp' = [grp EXCEPT ![t] = 1]
            /\ Reply(t, "prepareRetrieve", "endRetrieve")
    /\ UNCHANGED <<registryVars, pendingVars, obj, writer, written, unfilled, key,
                   slots, unused, releaseVars, releases>>

\* Reading, or the description of a slot, raises: every lock of the lookup is left.
ReadGroupRaises(t) ==
    /\ hpc[t] = "read"
    /\ Leave(Found(key[t]))
    /\ hpc' = [hpc EXCEPT ![t] = "none"]
    /\ acc' = [acc EXCEPT ![t] = {}]
    /\ grp' = [grp EXCEPT ![t] = 1]
    /\ UNCHANGED <<registryVars, pendingVars, obj, readers, writer, written, unfilled,
                   workerVars, unused, releaseVars, releases>>

\* The locks are put under (instance, key); those of an entry that is there are left.
RecordPendingRead(t) ==
    LET i == InstanceOf[t] IN
    /\ hpc[t] = "recordRead"
    /\ pendingReads' = [pendingReads EXCEPT ![i] = [@ EXCEPT ![key[t]] = acc[t]]]
    /\ Leave(pendingReads[i][key[t]])
    /\ Reply(t, "prepareRetrieve", "scatter")
    /\ GiveSlots(t, "prepareRetrieve")
    /\ hpc' = [hpc EXCEPT ![t] = "none"]
    /\ acc' = [acc EXCEPT ![t] = {}]
    /\ UNCHANGED <<registryVars, pendingWrites, obj, readers, writer, written, unfilled,
                   key, grp, unused, releaseVars, releases>>

\* Mutant: the entry is read but not removed.
PopPendingReadKeeps(t) ==
    LET i == InstanceOf[t] IN
    /\ hpc[t] = "popRead"
    /\ acc' = [acc EXCEPT ![t] = pendingReads[i][key[t]]]
    /\ hpc' = [hpc EXCEPT ![t] = "unlock"]
    /\ UNCHANGED <<registryVars, pendingVars, storageVars, workerVars, grp, unused,
                   releaseVars, releases>>

PopPendingRead(t) ==
    LET i == InstanceOf[t] IN
    /\ hpc[t] = "popRead"
    /\ acc' = [acc EXCEPT ![t] = pendingReads[i][key[t]]]
    /\ pendingReads' = [pendingReads EXCEPT ![i] = [@ EXCEPT ![key[t]] = {}]]
    /\ hpc' = [hpc EXCEPT ![t] = "unlock"]
    /\ UNCHANGED <<registryVars, pendingWrites, storageVars, workerVars, grp, unused,
                   releaseVars, releases>>

UnlockRetrieve(t) ==
    /\ hpc[t] = "unlock"
    /\ FinishReadPrefetched(acc[t])
    /\ hpc' = [hpc EXCEPT ![t] = "none"]
    /\ acc' = [acc EXCEPT ![t] = {}]
    /\ Reply(t, "commitRetrieve", "idle")
    /\ UNCHANGED <<registryVars, pendingVars, obj, writer, written, unfilled, left, key,
                   slots, grp, unused, releaseVars, releases>>

Handler(t) ==
    \/ Resolve(t)
    \/ ReserveGroup(t) \/ ReserveGroupRaises(t)
    \/ FinishUnused(t) \/ AbandonPrepare(t) \/ RecordPendingWrite(t)
    \/ PopPendingWrite(t) \/ PublishStore(t)
    \/ ReadGroup(t) \/ ReadGroupRaises(t) \/ RecordPendingRead(t)
    \/ PopPendingRead(t) \/ UnlockRetrieve(t)

-----------------------------------------------------------------------------
(* Registration on the main loop, liveness, and the reaper.                *)

\* A first REGISTER inserts entry and strategy under one lock; a repeated one
\* only refreshes last_seen.
Register(i) ==
    /\ MainLoopFree
    /\ contexts' = contexts \cup {i}
    /\ strategies' = strategies \cup {i}
    /\ silent' = silent \ {i}
    /\ attached' = attached \cup {i}
    /\ UNCHANGED <<pendingVars, storageVars, workerVars, handlerVars, releaseVars,
                   releases>>

\* touch_instance, on a PING of a live worker.
Touch(i) ==
    /\ i \in attached /\ i \in contexts
    /\ silent' = silent \ {i}
    /\ UNCHANGED <<contexts, strategies, attached, pendingVars, storageVars,
                   workerVars, handlerVars, releaseVars, releases>>

\* Time passes and nothing was heard of the instance for its whole window.
GoSilent(i) ==
    /\ i \in contexts /\ releases < MaxReleases
    /\ silent' = silent \cup {i}
    /\ UNCHANGED <<contexts, strategies, attached, pendingVars, storageVars,
                   workerVars, handlerVars, releaseVars, releases>>

\* UNREGISTER of a worker that has no operation left: the pair is popped
\* under the lock and, if it was there, released after it.
Unregister(i) ==
    /\ MainLoopFree /\ i \in attached /\ releases < MaxReleases
    /\ \A t \in TasksOf(i) : wpc[t] = "idle"
    /\ contexts' = contexts \ {i}
    /\ strategies' = IF i \in contexts THEN strategies \ {i} ELSE strategies
    /\ attached' = attached \ {i}
    /\ relTodo' = [relTodo EXCEPT !["mainLoop"] = {i} \cap contexts]
    /\ releases' = releases + 1
    /\ UNCHANGED <<silent, pendingVars, storageVars, workerVars, handlerVars,
                   relWrites, relReads>>

\* reap_stale_instances: every silent pair is popped in one critical section.
ReapStale ==
    LET stale == contexts \cap silent IN
    /\ ReaperFree /\ stale # {} /\ releases < MaxReleases
    /\ contexts' = contexts \ stale
    /\ strategies' = strategies \ stale
    /\ relTodo' = [relTodo EXCEPT !["reaper"] = stale]
    /\ releases' = releases + 1
    /\ UNCHANGED <<silent, attached, pendingVars, storageVars, workerVars,
                   handlerVars, relWrites, relReads>>

\* Mutant: the read entries are only looked up, and not popped.
SweepPendingKeepsReads(r, i) ==
    /\ i \in relTodo[r] /\ relWrites[r] = NoPending /\ relReads[r] = NoPending
    /\ relTodo' = [relTodo EXCEPT ![r] = @ \ {i}]
    /\ relWrites' = [relWrites EXCEPT ![r] = pendingWrites[i]]
    /\ relReads' = [relReads EXCEPT ![r] = pendingReads[i]]
    /\ pendingWrites' = [pendingWrites EXCEPT ![i] = NoPending]
    /\ UNCHANGED <<pendingReads, registryVars, storageVars, workerVars, handlerVars,
                   releases>>

\* _release_entry, first part: under _pending_shm_lock everything pending for
\* the instance is taken out of the maps.
SweepPending(r, i) ==
    /\ i \in relTodo[r] /\ relWrites[r] = NoPending /\ relReads[r] = NoPending
    /\ relTodo' = [relTodo EXCEPT ![r] = @ \ {i}]
    /\ relWrites' = [relWrites EXCEPT ![r] = pendingWrites[i]]
    /\ relReads' = [relReads EXCEPT ![r] = pendingReads[i]]
    /\ pendingWrites' = [pendingWrites EXCEPT ![i] = NoPending]
    /\ pendingReads' = [pendingReads EXCEPT ![i] = NoPending]
    /\ UNCHANGED <<registryVars, storageVars, workerVars, handlerVars, releases>>

\* _release_entry, second part: the swept write reservations are finished.
FinishSweptWrite(r, k) ==
    /\ relWrites[r][k] # {}
    /\ FinishWrite(relWrites[r][k]) /\ Disown(relWrites[r][k])
    /\ relWrites' = [relWrites EXCEPT ![r] = [@ EXCEPT ![k] = {}]]
    /\ UNCHANGED <<registryVars, pendingVars, readers, written, unfilled, left,
                   workerVars, handlerVars, relTodo, relReads, releases>>

\* _release_entry, third part: then the swept read locks are released.
FinishSweptRead(r, k) ==
    /\ relWrites[r] = NoPending /\ relReads[r][k] # {}
    /\ FinishReadPrefetched(relReads[r][k])
    /\ relReads' = [relReads EXCEPT ![r] = [@ EXCEPT ![k] = {}]]
    /\ UNCHANGED <<registryVars, pendingVars, obj, writer, written, unfilled, left,
                   workerVars, handlerVars, relTodo, relWrites, releases>>

Release(r) ==
    \/ \E i \in Instance : SweepPending(r, i)
    \/ \E k \in Key : FinishSweptWrite(r, k) \/ FinishSweptRead(r, k)

-----------------------------------------------------------------------------
Worker(t) ==
    \/ \E k \in Key : SubmitStore(t, k) \/ SubmitRetrieve(t, k)
    \/ Gather(t) \/ GatherFails(t) \/ Scatter(t) \/ RetrieveRaises(t)
    \/ SendCommitRetrieve(t) \/ Timeout(t)

Lifecycle(i) == Register(i) \/ Touch(i) \/ GoSilent(i) \/ Unregister(i) \/ Crash(i)

Next ==
    \/ \E t \in Task : Worker(t) \/ Handler(t)
    \/ \E i \in Instance : Lifecycle(i)
    \/ \E o \in ObjectKey : Evict(o)
    \/ ReapStale
    \/ \E r \in Releaser : Release(r)

Spec == Init /\ [][Next]_vars

\* Every thread of the server keeps running.  An AFFINITY thread takes its
\* requests from a queue, so none is passed over for ever (strong fairness of
\* Resolve, which other handlers of the instance disable again and again); a
\* handler or a release, once begun, runs without waits.  A worker that is
\* alive finishes its copies and gives up on replies that never come.
FairSpec ==
    /\ Spec
    /\ \A t \in Task :
          /\ SF_vars(Resolve(t)) /\ WF_vars(Handler(t))
          /\ WF_vars(Gather(t) \/ GatherFails(t) \/ Scatter(t) \/ RetrieveRaises(t)
                     \/ SendCommitRetrieve(t) \/ Timeout(t))
    /\ \A r \in Releaser : WF_vars(Release(r))
-----------------------------------------------------------------------------
(* What the module promises.                                               *)

\* The variables stay within their types: in particular no handler runs past
\* the last group.
TypeOK ==
    /\ contexts \subseteq Instance /\ strategies \subseteq Instance
    /\ silent \subseteq Instance /\ attached \subseteq Instance
    /\ pendingWrites \in [Instance -> [Key -> SUBSET ObjectKey]]
    /\ pendingReads \in [Instance -> [Key -> SUBSET ObjectKey]]
    /\ obj \in [ObjectKey -> {"absent", "writing", "readable"}]
    /\ readers \in [ObjectKey -> Nat]
    /\ writer \in [ObjectKey -> Task \cup {NoTask}]
    /\ written \subseteq ObjectKey /\ unfilled \subseteq ObjectKey
    /\ left \in [ObjectKey -> Nat]
    /\ wpc \in [Task -> WorkerPC]
    /\ key \in [Task -> Key]
    /\ slots \in [Task -> SUBSET ObjectKey]
    /\ hpc \in [Task -> HandlerPC]
    /\ grp \in [Task -> Group]
    /\ acc \in [Task -> SUBSET ObjectKey] /\ unused \in [Task -> SUBSET ObjectKey]
    /\ relTodo \in [Releaser -> SUBSET Instance]
    /\ relWrites \in [Releaser -> [Key -> SUBSET ObjectKey]]
    /\ relReads \in [Releaser -> [Key -> SUBSET ObjectKey]]
    /\ releases \in Nat

WriteLocked == {o \in ObjectKey : obj[o] = "writing"}

\* The reservation a handler has in its hands, in neither map.
HandlerClaim(t) ==
    IF hpc[t] \in {"reserve", "finishUnused", "abandon", "record", "publish"}
    THEN acc[t] ELSE {}

\* What is claimed for writing is write-locked in the storage.
ClaimsLocked ==
    /\ \A i \in Instance, k \in Key : pendingWrites[i][k] \subseteq WriteLocked
    /\ \A t \in Task : HandlerClaim(t) \subseteq WriteLocked
    /\ \A r \in Releaser, k \in Key : relWrites[r][k] \subseteq WriteLocked

\* No object is in two entries, two handlers or two sweeps ...
ClaimsDisjointWithin ==
    /\ \A i, j \in Instance, k, l \in Key :
          pendingWrites[i][k] \cap pendingWrites[j][l] # {} => i = j /\ k = l
    /\ \A t, u \in Task : HandlerClaim(t) \cap HandlerClaim(u) # {} => t = u
    /\ \A q, r \in Releaser, k, l \in Key :
          relWrites[q][k] \cap relWrites[r][l] # {} => q = r /\ k = l

\* ... nor in an entry and a handler, an entry and a sweep, a handler and a sweep.
ClaimsDisjointAcross ==
    /\ \A i \in Instance, k \in Key, t \in Task :
          pendingWrites[i][k] \cap HandlerClaim(t) = {}
    /\ \A i \in Instance, k, l \in Key, r \in Releaser :
          pendingWrites[i][k] \cap relWrites[r][l] = {}
    /\ \A t \in Task, r \in Releaser, k \in Key :
          HandlerClaim(t) \cap relWrites[r][k] = {}

\* A write reservation is in one place at a time -- a pending entry, a running
\* handler or a running release -- and its objects stay write-locked until that
\* place finishes them.  So no finish_write ever reaches an object that was
\* evicted, published or reserved again, whatever commits, sweeps and
\* replacements of pending entries interleave.
ReservationsExclusive == ClaimsLocked /\ ClaimsDisjointWithin /\ ClaimsDisjointAcross

\* A handler that has not started, or has ended, holds nothing.
IdleHandlersHoldNothing ==
    \A t \in Task : hpc[t] \in Queued \cup {"none"} => acc[t] = {}

\* A worker that copies has been answered: none of its requests is under way.
CopyingWorkerHasNoHandler ==
    \A t \in Task : wpc[t] \in {"gather", "scatter"} => hpc[t] = "none"

\* What a handler is about to give back is among what it holds.
UnusedIsHeld ==
    \A t \in Task : hpc[t] \in {"finishUnused", "abandon"} => unused[t] \subseteq acc[t]

\* The inductive invariant behind ReservationsExclusive.
IInv ==
    /\ TypeOK
    /\ ReservationsExclusive
    /\ IdleHandlersHoldNothing /\ CopyingWorkerHasNoHandler /\ UnusedIsHeld

\* A COMMIT_STORE that publishes objects its own task reserved publishes none
\* of them before the copy into it is complete.
CommitPublishesOwnCopies ==
    [][\A t \in Task :
         PublishStore(t) => {o \in acc[t] : writer[o] = t} \subseteq written]_vars

\* What a lookup can hit has been written in full, or was never given a slot: no
\* commit, sweep or time-out publishes a slot that a worker has been handed and
\* has not filled.  What got no slot the `finally` of prepare_store publishes as
\* it is, for want of a tensor or on its way out of an exception.
SlotsReadableAreWritten ==
    \A o \in ObjectKey : obj[o] = "readable" => o \in written \/ o \in unfilled

\* While a worker copies into its slots they are still write-locked and still
\* its own: nobody reads them, and the allocator gives them to nobody else.
GatherHoldsSlots ==
    \A t \in Task : wpc[t] = "gather" =>
        \A o \in slots[t] : obj[o] = "writing" /\ writer[o] = t

\* While a worker copies out of its slots they are read-locked; and they are
\* complete, but for what prepare_store published without a slot.
ScatterHoldsSlots ==
    \A t \in Task : wpc[t] = "scatter" =>
        \A o \in slots[t] : /\ obj[o] = "readable" /\ readers[o] > 0
                            /\ o \in written \/ o \in unfilled

\* What prepare_store published without a slot is no part of the promise.
Cache == INSTANCE ObjectCache WITH
    Object <- ObjectKey, Reader <- RetrieveTask,
    cached <- {o \in ObjectKey : obj[o] = "readable"} \ unfilled,
    full <- written,
    reading <- [t \in RetrieveTask |-> IF wpc[t] = "scatter" THEN slots[t] \ unfilled ELSE {}]

\* The server and its workers implement the cache: whatever times out, fails or
\* is evicted, none publishes, fills, evicts or reads an object out of turn.
CacheSpec == Cache!Spec

\* Where a read lock on an object can be: with a handler that reads, or that has
\* popped its entry, in a pending entry, or in what a release has swept.
Locking(o) ==
    {t \in Task : \/ hpc[t] \in Reading /\ o \in Found(key[t])
                  \/ hpc[t] = "unlock" /\ o \in acc[t]}

LockEntries(o) == {e \in Instance \X Key : o \in pendingReads[e[1]][e[2]]}

LockSwept(o) == {e \in Releaser \X Key : o \in relReads[e[1]][e[2]]}

\* Every read lock a lookup took is in one place, from which it can be given back,
\* or is one of those the code leaves: at a miss before the last group, when
\* PREPARE_RETRIEVE raises, or when a pending entry is replaced.  None is given
\* back twice, at the cost of another reader, and none gets lost on any other
\* way: neither by a time-out, an answer too late for its worker, a copy that
\* raises, nor by the sweep of an instance that goes.
ReadLocksAccounted ==
    \A o \in ObjectKey :
        readers[o] = Cardinality(Locking(o)) + Cardinality(LockEntries(o))
                     + Cardinality(LockSwept(o)) + left[o]

\* Every operation ends, and every request it sent is handled: also when its
\* instance was reaped or unregistered under it, or its worker died.
OperationsEnd ==
    \A t \in Task :
        wpc[t] # "idle" \/ hpc[t] # "none" ~> wpc[t] = "idle" /\ hpc[t] = "none"
=============================================================================
