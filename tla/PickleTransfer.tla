--------------------------- MODULE PickleTransfer ---------------------------
(***************************************************************************)
(* Engine-driven transfers whose chunks travel in the messages             *)
(* (PickleTransferStrategy and EngineDrivenContextPickle): the transport   *)
(* of a server without a shared-memory pool.                               *)
(*                                                                         *)
(* Everything the storage has to lock is locked, copied and unlocked       *)
(* within one handler, group by group: COMMIT_STORE reserves, copies in    *)
(* and publishes, PREPARE_RETRIEVE copies out and unlocks.  Handlers of    *)
(* one instance run one at a time on its AFFINITY thread; handlers of      *)
(* different instances, lookups and eviction interleave with every step.   *)
(***************************************************************************)
EXTENDS StorageManager, FiniteSets

CONSTANTS
    Instance,      \* worker instance ids
    Task,          \* operations a worker has in flight (its threads)
    InstanceOf,    \* the worker each task belongs to
    StoreTask, RetrieveTask, \* the tasks that store and that retrieve; one may do both
    Key,           \* IPCCacheServerKey up to equality
    NumGroups,     \* object groups the workers registered
    ObjKeys,       \* ObjKeys[k][g]: the objects of key k in group g, which
                   \* carry the group (ObjectKey.object_group_id)
    MaxReaders     \* bound: read locks the lookups take on one object

Group == 1..NumGroups

ASSUME ConstantsAssumption ==
    /\ InstanceOf \in [Task -> Instance]
    /\ StoreTask \subseteq Task /\ RetrieveTask \subseteq Task
    /\ IsFiniteSet(Task)
    /\ NumGroups \in Nat \ {0}
    /\ Key # {}
    /\ ObjKeys \in [Key -> [Group -> SUBSET ObjectKey]]
    /\ \A k \in Key : \A g, h \in Group :
          g # h => ObjKeys[k][g] \cap ObjKeys[k][h] = {}
    /\ NoTensor \subseteq ObjectKey
    /\ MaxReaders \in Nat

VARIABLES
    contexts,       \* the instances with an entry and a strategy
    wpc, key,       \* a task: where it is, its key
    hpc, grp,       \* its handler: where it is, the group it is at
    reserved, done, \* _write_chunks: reserved_dict and written_keys
    raised,         \* the copy raised: the handler ends once it has cleaned up
    spoiled,        \* ghost: objects a clean-up met read-locked
    unlockedTwice   \* ghost: objects a failed copy gave back twice

ghostVars   == <<spoiled, unlockedTwice>>
storageVars == <<obj, readers, written>>
workerVars  == <<wpc, key>>
handlerVars == <<hpc, grp, reserved, done, raised>>
vars == <<contexts, storageVars, workerVars, handlerVars, ghostVars>>

Queued == {"prepareStore", "commitStore", "prepareRetrieve", "commitRetrieve"}

FirstStep ==
    [prepareStore |-> "handshake", commitStore |-> "reserve",
     prepareRetrieve |-> "read", commitRetrieve |-> "handshake"]

HandlerPC == {"none"} \cup Queued \cup
    {"handshake", "reserve", "copyIn", "publish", "unlockLeftover",
     "deleteLeftover", "read", "copyOut", "unlock", "unlockAgain"}

WorkerPC == {"idle", "gather", "scatter", "endRetrieve"} \cup Queued

Wanted(t) == ObjKeys[key[t]][grp[t]]

Leftover(t) == reserved[t] \ done[t]

Init ==
    /\ contexts = {} /\ written = {}
    /\ spoiled = {} /\ unlockedTwice = {}
    /\ obj = [o \in ObjectKey |-> "absent"]
    /\ readers = [o \in ObjectKey |-> 0]
    /\ wpc = [t \in Task |-> "idle"]
    /\ key = [t \in Task |-> CHOOSE k \in Key : TRUE]
    /\ hpc = [t \in Task |-> "none"]
    /\ grp = [t \in Task |-> 1]
    /\ reserved = [t \in Task |-> {}]
    /\ done = [t \in Task |-> {}]
    /\ raised = [t \in Task |-> FALSE]

-----------------------------------------------------------------------------
(* Storage, registration, and the worker.                                  *)

\* Under memory pressure storage drops an object nobody has locked.
Evict(o) ==
    /\ Unlocked(o)
    /\ Drop({o})
    /\ UNCHANGED <<ghostVars, contexts, readers, workerVars, handlerVars>>

Register(i) ==
    /\ contexts' = contexts \cup {i}
    /\ UNCHANGED <<ghostVars, storageVars, workerVars, handlerVars>>

\* The entry is unregistered or reaped.  In pickle mode nothing is pending
\* between two requests, so _release_entry finds nothing to sweep.
Deregister(i) ==
    /\ i \in contexts
    /\ contexts' = contexts \ {i}
    /\ UNCHANGED <<ghostVars, storageVars, workerVars, handlerVars>>

Send(t, request) ==
    /\ hpc[t] = "none"
    /\ wpc' = [wpc EXCEPT ![t] = request]
    /\ hpc' = [hpc EXCEPT ![t] = request]

SubmitStore(t, k) ==
    /\ t \in StoreTask /\ wpc[t] = "idle"
    /\ Send(t, "prepareStore")
    /\ key' = [key EXCEPT ![t] = k]
    /\ UNCHANGED <<ghostVars, contexts, storageVars, grp, reserved, done, raised>>

\* The scheduler's lookup hit every object of the key and read-locked them.
SubmitRetrieve(t, k) ==
    LET found == UNION {ObjKeys[k][g] : g \in Group} IN
    /\ t \in RetrieveTask /\ wpc[t] = "idle"
    /\ \A o \in found : obj[o] = "readable" /\ readers[o] < MaxReaders
    /\ LockPrefetched(found)
    /\ Send(t, "prepareRetrieve")
    /\ key' = [key EXCEPT ![t] = k]
    /\ UNCHANGED <<ghostVars, contexts, obj, written, grp, reserved, done, raised>>

\* The gather completes and the chunks are sent: with or without an answer to
\* the handshake, since a timeout of PREPARE_STORE is passed over.
Gather(t) ==
    /\ wpc[t] = "gather"
    /\ Send(t, "commitStore")
    /\ UNCHANGED <<ghostVars, contexts, storageVars, key, grp, reserved, done, raised>>

\* The gather raises: the store ends.
GatherFails(t) ==
    /\ wpc[t] = "gather"
    /\ wpc' = [wpc EXCEPT ![t] = "idle"]
    /\ UNCHANGED <<ghostVars, contexts, storageVars, key, handlerVars>>

\* The chunks of the reply are copied to the device, or that raises.
Scatter(t) ==
    /\ wpc[t] = "scatter"
    /\ wpc' = [wpc EXCEPT ![t] = "endRetrieve"]
    /\ UNCHANGED <<ghostVars, contexts, storageVars, key, handlerVars>>

SendCommitRetrieve(t) ==
    /\ wpc[t] = "endRetrieve"
    /\ Send(t, "commitRetrieve")
    /\ UNCHANGED <<ghostVars, contexts, storageVars, key, grp, reserved, done, raised>>

\* Where a worker goes on when the reply to its request, or its timeout, comes.
Answered == [prepareStore |-> "gather", commitStore |-> "idle",
             prepareRetrieve |-> "endRetrieve", commitRetrieve |-> "idle"]

\* Mutant: the final reply of a retrieve is awaited without a timeout.
TimeoutNotOnCommit(t) ==
    /\ wpc[t] \in Queued \ {"commitRetrieve"}
    /\ wpc' = [wpc EXCEPT ![t] = Answered[wpc[t]]]
    /\ UNCHANGED <<ghostVars, contexts, storageVars, key, handlerVars>>

\* The worker gives up waiting.
Timeout(t) ==
    /\ wpc[t] \in Queued
    /\ wpc' = [wpc EXCEPT ![t] = Answered[wpc[t]]]
    /\ UNCHANGED <<ghostVars, contexts, storageVars, key, handlerVars>>

-----------------------------------------------------------------------------
(* Handlers.                                                               *)

\* A worker that has timed out is elsewhere and drops the reply.
Reply(t, request, next) ==
    wpc' = IF wpc[t] = request THEN [wpc EXCEPT ![t] = next] ELSE wpc

EndHandler(t) ==
    /\ hpc' = [hpc EXCEPT ![t] = "none"]
    /\ grp' = [grp EXCEPT ![t] = 1]

\* Mutant: one group too many.
NextGroupOffByOne(t, again, request, next) ==
    IF grp[t] <= NumGroups
    THEN /\ grp' = [grp EXCEPT ![t] = @ + 1]
         /\ hpc' = [hpc EXCEPT ![t] = again]
         /\ UNCHANGED wpc
    ELSE EndHandler(t) /\ Reply(t, request, next)

\* The loop over the groups: on to `again` for the next one, or the reply.
NextGroup(t, again, request, next) ==
    IF grp[t] < NumGroups
    THEN /\ grp' = [grp EXCEPT ![t] = @ + 1]
         /\ hpc' = [hpc EXCEPT ![t] = again]
         /\ UNCHANGED wpc
    ELSE EndHandler(t) /\ Reply(t, request, next)

\* _resolve_for_transfer, as the handler starts.  One that raises sends no
\* usable reply.
Resolve(t) ==
    LET i == InstanceOf[t] IN
    /\ hpc[t] \in Queued
    /\ \A u \in Task : InstanceOf[u] = i => hpc[u] \in Queued \cup {"none"}
    /\ hpc' = [hpc EXCEPT ![t] = IF i \in contexts THEN FirstStep[@] ELSE "none"]
    /\ UNCHANGED <<ghostVars, contexts, storageVars, workerVars, grp, reserved, done, raised>>

\* prepare_store and commit_retrieve do nothing in pickle mode.
Handshake(t) ==
    /\ hpc[t] = "handshake"
    /\ hpc' = [hpc EXCEPT ![t] = "none"]
    /\ wpc' = IF wpc[t] \in {"prepareStore", "commitRetrieve"}
              THEN [wpc EXCEPT ![t] = Answered[@]] ELSE wpc
    /\ UNCHANGED <<ghostVars, contexts, storageVars, key, grp, reserved, done, raised>>

\* The payload does not unpickle, or has not one list per registered group.
RejectPayload(t) ==
    /\ hpc[t] = "reserve" /\ grp[t] = 1
    /\ EndHandler(t)
    /\ Reply(t, "commitStore", "idle")
    /\ UNCHANGED <<ghostVars, contexts, storageVars, key, reserved, done, raised>>

\* Mutant: the reservation may also take objects that others are writing.
ReserveGroupTakesOver(t) ==
    \E granted \in SUBSET {o \in Wanted(t) : obj[o] # "readable"} :
        /\ hpc[t] = "reserve"
        /\ obj' = [o \in ObjectKey |-> IF o \in granted THEN "writing" ELSE obj[o]]
        /\ reserved' = [reserved EXCEPT ![t] = granted]
        /\ hpc' = [hpc EXCEPT ![t] = "copyIn"]
        /\ UNCHANGED <<ghostVars, contexts, readers, written, workerVars, grp, done, raised>>

\* _write_chunks, first step: reserve_write(.., "new") grants absent objects
\* only, and fewer when memory is short.
ReserveGroup(t) ==
    \E granted \in SUBSET Reservable(Wanted(t)) :
        /\ hpc[t] = "reserve"
        /\ obj' = [o \in ObjectKey |-> IF o \in granted THEN "writing" ELSE obj[o]]
        /\ reserved' = [reserved EXCEPT ![t] = granted]
        /\ hpc' = [hpc EXCEPT ![t] = "copyIn"]
        /\ UNCHANGED <<ghostVars, contexts, readers, written, workerVars, grp, done, raised>>

\* The chunks are copied into the reserved objects.  An object without a
\* tensor, without a chunk in the payload or with a chunk of another shape is
\* passed over; a copy that raises ends the loop.
CopyIn(t) ==
    \E copied \in SUBSET (reserved[t] \ NoTensor), raises \in BOOLEAN :
        /\ hpc[t] = "copyIn"
        /\ raises => copied # reserved[t]
        /\ written' = written \cup copied
        /\ done' = [done EXCEPT ![t] = copied]
        /\ raised' = [raised EXCEPT ![t] = raises]
        /\ hpc' = [hpc EXCEPT ![t] = "publish"]
        /\ UNCHANGED <<ghostVars, contexts, obj, readers, workerVars, grp, reserved>>

\* The end of _write_chunks: the exception goes on, or the next group follows.
EndGroup(t) ==
    /\ IF raised[t] THEN EndHandler(t) /\ UNCHANGED wpc
       ELSE NextGroup(t, "reserve", "commitStore", "idle")
    /\ reserved' = [reserved EXCEPT ![t] = {}]
    /\ done' = [done EXCEPT ![t] = {}]
    /\ raised' = [raised EXCEPT ![t] = FALSE]

\* Mutant: the exception passes the clean-up by.
PublishWrittenOnly(t) ==
    /\ hpc[t] = "publish"
    /\ FinishWrite(done[t])
    /\ IF Leftover(t) = {} \/ raised[t] THEN EndGroup(t)
       ELSE /\ hpc' = [hpc EXCEPT ![t] = "unlockLeftover"]
            /\ UNCHANGED <<wpc, grp, reserved, done, raised>>
    /\ UNCHANGED <<ghostVars, contexts, readers, written, key>>

\* finish_write(written_keys).
PublishWritten(t) ==
    /\ hpc[t] = "publish"
    /\ FinishWrite(done[t])
    /\ IF Leftover(t) = {} THEN EndGroup(t)
       ELSE /\ hpc' = [hpc EXCEPT ![t] = "unlockLeftover"]
            /\ UNCHANGED <<wpc, grp, reserved, done, raised>>
    /\ UNCHANGED <<ghostVars, contexts, readers, written, key>>

\* finish_write(leftover): the write locks go, and until the next step the
\* objects look like any other that can be read.
UnlockLeftover(t) ==
    /\ hpc[t] = "unlockLeftover"
    /\ FinishWrite(Leftover(t))
    /\ hpc' = [hpc EXCEPT ![t] = "deleteLeftover"]
    /\ UNCHANGED <<ghostVars, contexts, readers, written, wpc, key, grp, reserved, done, raised>>

\* Mutant: the locks are given back and the objects stay.
DeleteLeftoverKeeps(t) ==
    /\ hpc[t] = "deleteLeftover"
    /\ EndGroup(t)
    /\ UNCHANGED <<ghostVars, contexts, storageVars, key>>

\* delete_l1_keys(leftover).  One that was read-locked in the meantime is
\* deleted under its reader, or the storage refuses to delete it.
DeleteLeftover(t) ==
    \E gone \in SUBSET Leftover(t) :
        /\ hpc[t] = "deleteLeftover"
        /\ \A o \in gone : obj[o] = "readable"
        /\ {o \in Leftover(t) : Unlocked(o)} \subseteq gone
        /\ Drop(gone)
        /\ EndGroup(t)
        /\ spoiled' = spoiled \cup {o \in Leftover(t) : readers[o] > 0}
        /\ UNCHANGED <<unlockedTwice, contexts, readers, key>>

\* Mutant: the locks are given back before the copy.
CopyOutUnlocked(t) ==
    /\ hpc[t] = "copyOut"
    /\ FinishReadPrefetched(Wanted(t))
    /\ hpc' = [hpc EXCEPT ![t] = "unlock"]
    /\ UNCHANGED <<ghostVars, contexts, obj, written, workerVars, grp, reserved, done, raised>>

\* One group of prepare_retrieve.  read_prefetched_results yields the group's
\* objects; when some are missing it gives back the locks it found.  An object
\* without a tensor is a miss as well, after the group is unlocked.
ReadGroup(t) ==
    /\ hpc[t] = "read"
    /\ IF Prefetched(Wanted(t)) = Wanted(t) /\ Wanted(t) # {} /\ Wanted(t) \cap NoTensor = {}
       THEN /\ hpc' = [hpc EXCEPT ![t] = "copyOut"]
            /\ UNCHANGED <<readers, wpc, grp>>
       ELSE /\ FinishReadPrefetched(Prefetched(Wanted(t)))
            /\ EndHandler(t)
            /\ Reply(t, "prepareRetrieve", "endRetrieve")
    /\ UNCHANGED <<ghostVars, contexts, obj, written, key, reserved, done, raised>>

CopyOut(t) ==
    /\ hpc[t] = "copyOut"
    /\ hpc' = [hpc EXCEPT ![t] = "unlock"]
    /\ UNCHANGED <<ghostVars, contexts, storageVars, workerVars, grp, reserved, done, raised>>

\* The copy raises inside read_prefetched_results, which gives the group's
\* locks back itself; the finally clause is still to come.
CopyOutFails(t) ==
    /\ hpc[t] = "copyOut"
    /\ FinishReadPrefetched(Wanted(t))
    /\ hpc' = [hpc EXCEPT ![t] = "unlockAgain"]
    /\ UNCHANGED <<ghostVars, contexts, obj, written, workerVars, grp, reserved, done, raised>>

\* The finally clause gives the group's locks back.
UnlockGroup(t) ==
    /\ hpc[t] \in {"unlock", "unlockAgain"}
    /\ FinishReadPrefetched(Wanted(t))
    /\ IF hpc[t] = "unlockAgain"
       THEN /\ EndHandler(t) /\ UNCHANGED wpc
            /\ unlockedTwice' = unlockedTwice \cup Wanted(t)
       ELSE /\ NextGroup(t, "read", "prepareRetrieve", "scatter")
            /\ UNCHANGED unlockedTwice
    /\ UNCHANGED <<spoiled, contexts, obj, written, key, reserved, done, raised>>

Handler(t) ==
    \/ Resolve(t) \/ Handshake(t) \/ RejectPayload(t)
    \/ ReserveGroup(t) \/ CopyIn(t)
    \/ PublishWritten(t) \/ UnlockLeftover(t) \/ DeleteLeftover(t)
    \/ ReadGroup(t) \/ CopyOut(t) \/ CopyOutFails(t) \/ UnlockGroup(t)

Worker(t) ==
    \/ \E k \in Key : SubmitStore(t, k) \/ SubmitRetrieve(t, k)
    \/ Gather(t) \/ GatherFails(t) \/ Scatter(t) \/ SendCommitRetrieve(t)
    \/ Timeout(t)

Next ==
    \/ \E t \in Task : Worker(t) \/ Handler(t)
    \/ \E i \in Instance : Register(i) \/ Deregister(i)
    \/ \E o \in ObjectKey : Evict(o)

Spec == Init /\ [][Next]_vars

\* The AFFINITY queues pass no request over, a handler runs without waits, and
\* a worker copies, sends and gives up waiting.
FairSpec ==
    /\ Spec
    /\ \A t \in Task :
          /\ SF_vars(Resolve(t)) /\ WF_vars(Handler(t))
          /\ WF_vars(Gather(t) \/ GatherFails(t) \/ Scatter(t)
                     \/ SendCommitRetrieve(t) \/ Timeout(t))

-----------------------------------------------------------------------------
(* What the module promises.                                               *)

\* The variables stay within their types.
TypeOK ==
    /\ contexts \subseteq Instance
    /\ obj \in [ObjectKey -> {"absent", "writing", "readable"}]
    /\ readers \in [ObjectKey -> Nat]
    /\ written \subseteq ObjectKey
    /\ wpc \in [Task -> WorkerPC]
    /\ key \in [Task -> Key]
    /\ hpc \in [Task -> HandlerPC]
    /\ grp \in [Task -> Group]
    /\ reserved \in [Task -> SUBSET ObjectKey]
    /\ done \in [Task -> SUBSET ObjectKey]
    /\ raised \in [Task -> BOOLEAN]
    /\ spoiled \subseteq ObjectKey /\ unlockedTwice \subseteq ObjectKey

\* What a handler still holds write-locked.
Claim(t) == IF hpc[t] \in {"copyIn", "publish"} THEN reserved[t]
            ELSE IF hpc[t] = "unlockLeftover" THEN Leftover(t) ELSE {}

\* A reservation has one owner: the objects a commit has reserved and not yet
\* finished are write-locked, and no other commit holds one of them.  So a
\* finish_write never reaches an object another commit is writing.
ReservationsExclusive ==
    /\ \A t \in Task : \A o \in Claim(t) : obj[o] = "writing"
    /\ \A t, u \in Task : Claim(t) \cap Claim(u) # {} => t = u

\* Write locks do not outlive the handler that took them, whatever the copy
\* does and whether or not its instance is still registered.
WriteLocksHaveOwner ==
    \A o \in ObjectKey : obj[o] = "writing" => \E t \in Task : o \in Claim(t)

\* Once it has copied, a commit counts as done only what it reserved.
DoneIsReserved ==
    \A t \in Task : hpc[t] \in {"publish", "unlockLeftover", "deleteLeftover"}
                       => done[t] \subseteq reserved[t]

\* The inductive invariant behind the two.
IInv == TypeOK /\ DoneIsReserved /\ ReservationsExclusive /\ WriteLocksHaveOwner

\* A commit counts as done only what it copied in full.
DoneIsWritten == \A t \in Task : hpc[t] = "publish" => done[t] \subseteq written

\* What can be read has been written in full, but for what a commit is about
\* to delete, and for what was read-locked when its clean-up came to delete it.
UnwrittenIsLeftover ==
    \A o \in ObjectKey \ spoiled :
        obj[o] = "readable" /\ o \notin written
            => \E t \in Task : hpc[t] = "deleteLeftover" /\ o \in Leftover(t)

\* "drop the unwritten objects so they can never surface as cache hits"
\* (_write_chunks): what a lookup has hit has been written in full.
HitsAreWritten == \A o \in ObjectKey : readers[o] > 0 => o \in written

\* The objects a retrieve's lookup locked for it and it has not unlocked yet.
Remaining(t) ==
    IF hpc[t] \in {"prepareRetrieve", "read", "copyOut", "unlock"}
    THEN UNION {ObjKeys[key[t]][g] : g \in grp[t]..NumGroups} ELSE {}

\* The lookups that still need object o.
Holders(o) == {t \in Task : o \in Remaining(t)}

\* "a key must not be released twice": every object that retrieves under way
\* have still to read carries a read lock for each of them.
EveryLookupHolds == \A o \in ObjectKey : readers[o] >= Cardinality(Holders(o))

\* But for the objects a failed copy gives back twice, every lookup's locks
\* hold, and what it hit stays readable until it has been copied.
LookupHolds ==
    \A o \in ObjectKey \ unlockedTwice :
        /\ readers[o] >= Cardinality(Holders(o))
        /\ Holders(o) # {} /\ o \notin spoiled => obj[o] = "readable"

\* Every operation ends, and every request it sent is handled.
OperationsEnd ==
    \A t \in Task :
        wpc[t] # "idle" \/ hpc[t] # "none" ~> wpc[t] = "idle" /\ hpc[t] = "none"
=============================================================================
