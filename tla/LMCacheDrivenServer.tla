------------------------- MODULE LMCacheDrivenServer -------------------------
(***************************************************************************)
(* LMCache-driven transfers: the server itself copies between its objects  *)
(* and the workers' paged blocks, on the device stream of a registration's *)
(* cache context (LMCacheDrivenTransferModule, LMCacheDrivenTransferContext).*)
(*                                                                         *)
(* STORE and RETRIEVE run on the AFFINITY thread of their instance.  They  *)
(* only enqueue: copies, then the event the worker waits on, then a        *)
(* callback that gives the locks back.  The stream runs what is in it in   *)
(* order; the dispatcher thread runs the callbacks that it has met.        *)
(* REGISTER and UNREGISTER run on the MQ main loop, and the reaper scans   *)
(* on a thread of its own: both take an entry away from requests that are  *)
(* queued or running; a running one goes on with the entry it resolved.    *)
(***************************************************************************)
EXTENDS StorageManager, Sequences, FiniteSets

CONSTANTS
    Instance,      \* worker instance ids
    Task,          \* operations a worker has in flight
    InstanceOf,    \* the worker each task belongs to
    RetrieveTask,  \* the tasks that retrieve; the others store
    Key,           \* IPCCacheServerKey up to equality
    NumGroups,     \* object groups of the model
    ObjKeys,       \* ObjKeys[k][g]: the objects of key k in group g
    MaxReaders,    \* bound: read locks the lookups take on one object
    MaxRegistrations, \* bound: entries that are made
    MaxOperations  \* bound: operations that are sent

Group == 1..NumGroups
StoreTask == Task \ RetrieveTask
Entry == 1..MaxRegistrations  \* a ContextEntry, by the order they are made in
NoEntry == 0
Objects(k) == UNION {ObjKeys[k][g] : g \in Group}

\* An object key names its group.
ASSUME ConstantsAssumption ==
    /\ IsFiniteSet(Instance) /\ IsFiniteSet(Task)
    /\ InstanceOf \in [Task -> Instance]
    /\ RetrieveTask \subseteq Task
    /\ NumGroups \in Nat \ {0}
    /\ Key # {}
    /\ ObjKeys \in [Key -> [Group -> SUBSET ObjectKey]]
    /\ \A k \in Key : \A g, h \in Group : g # h => ObjKeys[k][g] \cap ObjKeys[k][h] = {}
    /\ MaxReaders \in Nat /\ MaxRegistrations \in Nat /\ MaxOperations \in Nat

VARIABLES
    contexts,      \* _cache_contexts: the entry of every instance, or NoEntry
    laidOut,       \* instances whose layout REGISTER has registered, without an entry yet
    layouts,       \* registrations the layout registry counts
    releasing,     \* entries that were popped and are being released
    registrations, \* number of entries made, up to MaxRegistrations
    operations,    \* number of operations sent, up to MaxOperations
    wpc, key,      \* a task: where its worker is with it, its key
    hpc, grp,      \* its handler: where it is, the group it is at
    entry,         \* the entry it has resolved
    acc,           \* all_dict of a store, prefetched_keys of a retrieve
    ok,            \* store_succeeded, and whether the retrieve is complete
    engineDone,    \* tasks whose engine event has come
    stream,        \* the stream of every entry
    callbacks,     \* what the dispatcher has to run
    abandoned,     \* ghost: objects a failed store left write-locked
    left           \* ghost: read locks that failed retrieves left, per object

registryVars == <<contexts, laidOut, layouts, releasing, registrations>>
storageVars  == <<obj, readers, written>>
taskVars     == <<operations, wpc, key>>
handlerVars  == <<hpc, grp, entry, acc, ok>>
deviceVars   == <<engineDone, stream, callbacks>>
ghostVars    == <<abandoned, left>>
vars == <<registryVars, storageVars, taskVars, handlerVars, deviceVars, ghostVars>>

Releaser == {"mainLoop", "reaper"}
HandlerPC == {"none", "queued", "store", "load", "finish"}
ItemKind == {"wait", "save", "load", "event", "finishWrite", "finishRead"}

Item(kind, t, objs) == [kind |-> kind, task |-> t, objs |-> objs]
Enqueue(e, items) == stream' = [stream EXCEPT ![e] = @ \o items]
NoItems == <<>>

Init ==
    /\ contexts = [i \in Instance |-> NoEntry] /\ laidOut = {} /\ layouts = 0
    /\ releasing = [r \in Releaser |-> {}]
    /\ registrations = 0
    /\ obj = [o \in ObjectKey |-> "absent"]
    /\ readers = [o \in ObjectKey |-> 0]
    /\ written = {}
    /\ operations = 0
    /\ wpc = [t \in Task |-> "idle"]
    /\ key = [t \in Task |-> CHOOSE k \in Key : TRUE]
    /\ hpc = [t \in Task |-> "none"]
    /\ grp = [t \in Task |-> 1]
    /\ entry = [t \in Task |-> NoEntry]
    /\ acc = [t \in Task |-> {}]
    /\ ok = [t \in Task |-> FALSE]
    /\ engineDone = {}
    /\ stream = [e \in Entry |-> <<>>]
    /\ callbacks = <<>>
    /\ abandoned = {} /\ left = [o \in ObjectKey |-> 0]

-----------------------------------------------------------------------------
(* Storage and the worker.                                                 *)

Evict(o) ==
    /\ Unlocked(o)
    /\ Drop({o})
    /\ UNCHANGED <<registryVars, readers, taskVars, handlerVars, deviceVars, ghostVars>>

Send(t, k) ==
    /\ wpc[t] = "idle" /\ operations < MaxOperations
    /\ operations' = operations + 1
    /\ wpc' = [wpc EXCEPT ![t] = "sent"]
    /\ hpc' = [hpc EXCEPT ![t] = "queued"]
    /\ key' = [key EXCEPT ![t] = k]
    /\ engineDone' = engineDone \ {t}
    /\ UNCHANGED <<registryVars, grp, entry, acc, ok, stream, callbacks, ghostVars>>

\* submit_store: the engine event is recorded behind what computes the blocks.
SubmitStore(t, k) ==
    /\ t \in StoreTask
    /\ Send(t, k)
    /\ UNCHANGED storageVars

\* submit_retrieve: the lookup hit every object of the key and read-locked it.
SubmitRetrieve(t, k) ==
    /\ t \in RetrieveTask
    /\ \A o \in Objects(k) : obj[o] = "readable" /\ readers[o] < MaxReaders
    /\ LockPrefetched(Objects(k))
    /\ Send(t, k)
    /\ UNCHANGED <<obj, written>>

\* The engine's own stream gets to the event of the store.  That of a retrieve
\* is left out: nothing waits for it.
EngineEvent(t) ==
    /\ t \in StoreTask /\ wpc[t] # "idle" /\ t \notin engineDone
    /\ engineDone' = engineDone \cup {t}
    /\ UNCHANGED <<registryVars, storageVars, taskVars, handlerVars, stream, callbacks, ghostVars>>

\* The future of an operation is done once its event is (to_cuda_future); an
\* event that was not recorded counts as done.
EventPending(t) ==
    \E e \in Entry : \E n \in DOMAIN stream[e] :
        stream[e][n].kind = "event" /\ stream[e][n].task = t

Ended(t) == wpc[t] = "answered" /\ ~EventPending(t)

FutureDone(t) ==
    /\ Ended(t)
    /\ wpc' = [wpc EXCEPT ![t] = "idle"]
    /\ ok' = [ok EXCEPT ![t] = FALSE]
    /\ UNCHANGED <<registryVars, storageVars, operations, key, hpc, grp, entry, acc, deviceVars, ghostVars>>

-----------------------------------------------------------------------------
(* STORE and RETRIEVE.                                                     *)

AffinityFree(i) == \A t \in Task : InstanceOf[t] = i => hpc[t] \in {"none", "queued"}

Wanted(t) == ObjKeys[key[t]][grp[t]]
Behind(t) == UNION {ObjKeys[key[t]][g] : g \in (grp[t] + 1) .. NumGroups}

\* Read locks on `objs` that nobody will give back.
Leave(objs) == left' = [o \in ObjectKey |-> IF o \in objs THEN left[o] + 1 ELSE left[o]]

LeaveAll(t) ==
    IF t \in RetrieveTask THEN Leave(Objects(key[t])) ELSE UNCHANGED left

Answer(t) ==
    /\ wpc' = [wpc EXCEPT ![t] = "answered"]
    /\ hpc' = [hpc EXCEPT ![t] = "none"]
    /\ grp' = [grp EXCEPT ![t] = 1]
    /\ entry' = [entry EXCEPT ![t] = NoEntry]

\* Mutant: the exception is not answered.
NotRegisteredSilent(t) ==
    /\ hpc[t] = "queued" /\ AffinityFree(InstanceOf[t])
    /\ contexts[InstanceOf[t]] = NoEntry
    /\ hpc' = [hpc EXCEPT ![t] = "none"]
    /\ LeaveAll(t)
    /\ UNCHANGED <<registryVars, storageVars, taskVars, grp, entry, acc, ok, deviceVars, abandoned>>

\* No entry: ValueError, which the worker gets for an answer.
NotRegistered(t) ==
    /\ hpc[t] = "queued" /\ AffinityFree(InstanceOf[t])
    /\ contexts[InstanceOf[t]] = NoEntry
    /\ Answer(t)
    /\ LeaveAll(t)
    /\ UNCHANGED <<registryVars, storageVars, operations, key, acc, ok, deviceVars, abandoned>>

\* get_and_touch_context_entry.
Resolved(t) ==
    /\ hpc[t] = "queued" /\ AffinityFree(InstanceOf[t])
    /\ contexts[InstanceOf[t]] # NoEntry
    /\ UNCHANGED registryVars

\* The lists of block ids are not one for each group or not whole chunks, or
\* the event cannot be opened: the exception is the answer, without an event.
Malformed(t) ==
    /\ Resolved(t)
    /\ Answer(t)
    /\ LeaveAll(t)
    /\ UNCHANGED <<storageVars, operations, key, acc, ok, deviceVars, abandoned>>

\* The block ids do not cover the chunks: nothing but the event is enqueued.
Underflow(t) ==
    /\ Resolved(t)
    /\ Enqueue(contexts[InstanceOf[t]], <<Item("event", t, {})>>)
    /\ Answer(t)
    /\ LeaveAll(t)
    /\ UNCHANGED <<storageVars, operations, key, acc, ok, engineDone, callbacks, abandoned>>

\* A store has its stream wait for the engine's event.
BeginStore(t) ==
    /\ t \in StoreTask
    /\ Resolved(t)
    /\ Enqueue(contexts[InstanceOf[t]], <<Item("wait", t, {})>>)
    /\ hpc' = [hpc EXCEPT ![t] = "store"]
    /\ entry' = [entry EXCEPT ![t] = contexts[InstanceOf[t]]]
    /\ ok' = [ok EXCEPT ![t] = FALSE]
    /\ UNCHANGED <<storageVars, taskVars, grp, acc, engineDone, callbacks, ghostVars>>

\* A retrieve does not.
BeginRetrieve(t) ==
    /\ t \in RetrieveTask
    /\ Resolved(t)
    /\ hpc' = [hpc EXCEPT ![t] = "load"]
    /\ entry' = [entry EXCEPT ![t] = contexts[InstanceOf[t]]]
    /\ ok' = [ok EXCEPT ![t] = TRUE]
    /\ UNCHANGED <<storageVars, taskVars, grp, acc, deviceVars, ghostVars>>

\* Mutant: a group behind the last one.
GoOnTooFar(t, good) ==
    /\ grp' = [grp EXCEPT ![t] = @ + 1]
    /\ hpc' = [hpc EXCEPT ![t] = IF grp[t] <= NumGroups THEN @ ELSE "finish"]
    /\ ok' = [ok EXCEPT ![t] = good]

\* The next group, or the end with `good`.
GoOn(t, good) ==
    IF grp[t] < NumGroups
      THEN /\ grp' = [grp EXCEPT ![t] = @ + 1]
           /\ UNCHANGED <<hpc, ok>>
      ELSE /\ hpc' = [hpc EXCEPT ![t] = "finish"]
           /\ ok' = [ok EXCEPT ![t] = good]
           /\ UNCHANGED grp

\* Copies of these objects in the stream, if there are any.
Copies(kind, t, objs) == IF objs = {} THEN NoItems ELSE <<Item(kind, t, objs)>>

\* Mutant: objects that are there are reserved again.
GrantedAgain(t, given) ==
    /\ given \in SUBSET Wanted(t)
    /\ obj' = [o \in ObjectKey |-> IF o \in given THEN "writing" ELSE obj[o]]

\* reserve_write(.., "new") grants absent objects only, or fewer.
Granted(t, given) ==
    /\ given \in SUBSET Reservable(Wanted(t))
    /\ obj' = [o \in ObjectKey |-> IF o \in given THEN "writing" ELSE obj[o]]

\* Mutant: the keys of the last group alone are remembered.
StoreLastGroup(t) ==
    /\ hpc[t] = "store"
    /\ \E given \in SUBSET ObjectKey :
        /\ Granted(t, given)
        /\ acc' = [acc EXCEPT ![t] = given]
        /\ Enqueue(entry[t], Copies("save", t, given))
    /\ GoOn(t, TRUE)
    /\ UNCHANGED <<registryVars, readers, written, taskVars, entry, engineDone, callbacks, ghostVars>>

\* The objects of the group are reserved, and the copies of the granted ones
\* enqueued.
StoreGroup(t) ==
    /\ hpc[t] = "store"
    /\ \E given \in SUBSET ObjectKey :
        /\ Granted(t, given)
        /\ acc' = [acc EXCEPT ![t] = @ \cup given]
        /\ Enqueue(entry[t], Copies("save", t, given))
    /\ GoOn(t, TRUE)
    /\ UNCHANGED <<registryVars, readers, written, taskVars, entry, engineDone, callbacks, ghostVars>>

\* The reservation or a copy raises, behind any of the group's copies.
StoreRaises(t) ==
    /\ hpc[t] = "store"
    /\ \E given \in SUBSET ObjectKey : \E copied \in SUBSET given :
        /\ Granted(t, given)
        /\ acc' = [acc EXCEPT ![t] = @ \cup given]
        /\ Enqueue(entry[t], Copies("save", t, copied))
    /\ hpc' = [hpc EXCEPT ![t] = "finish"]
    /\ UNCHANGED <<registryVars, readers, written, taskVars, grp, entry, ok, engineDone, callbacks, ghostVars>>

\* Mutant: what was reserved is committed although a copy raised.
FinishStoreAnyway(t) ==
    /\ t \in StoreTask /\ hpc[t] = "finish"
    /\ Enqueue(entry[t], <<Item("event", t, {}), Item("finishWrite", t, acc[t])>>)
    /\ UNCHANGED abandoned
    /\ acc' = [acc EXCEPT ![t] = {}]
    /\ Answer(t)
    /\ UNCHANGED <<registryVars, storageVars, operations, key, ok, engineDone, callbacks, left>>

\* Mutant: the event is recorded on success only.
FinishStoreUnrecorded(t) ==
    /\ t \in StoreTask /\ hpc[t] = "finish"
    /\ IF ok[t] /\ acc[t] # {}
         THEN /\ Enqueue(entry[t], <<Item("event", t, {}), Item("finishWrite", t, acc[t])>>)
              /\ UNCHANGED abandoned
         ELSE /\ abandoned' = abandoned \cup acc[t]
              /\ UNCHANGED stream
    /\ acc' = [acc EXCEPT ![t] = {}]
    /\ Answer(t)
    /\ UNCHANGED <<registryVars, storageVars, operations, key, ok, engineDone, callbacks, left>>

\* The event is recorded.  A store that went through has its objects finished
\* behind it; one that raised commits nothing, and leaves them write-locked.
FinishStore(t) ==
    /\ t \in StoreTask /\ hpc[t] = "finish"
    /\ IF ok[t] /\ acc[t] # {}
         THEN /\ Enqueue(entry[t], <<Item("event", t, {}), Item("finishWrite", t, acc[t])>>)
              /\ UNCHANGED abandoned
         ELSE /\ Enqueue(entry[t], <<Item("event", t, {})>>)
              /\ abandoned' = abandoned \cup acc[t]
    /\ acc' = [acc EXCEPT ![t] = {}]
    /\ Answer(t)
    /\ UNCHANGED <<registryVars, storageVars, operations, key, ok, engineDone, callbacks, left>>

\* read_prefetched_results finds every object of the group.
Found(t) ==
    /\ hpc[t] = "load" /\ Wanted(t) # {}
    /\ Prefetched(Wanted(t)) = Wanted(t)

\* The retrieve ends with False.  The locks of this group have gone, those of
\* the groups behind it stay.
Miss(t) ==
    /\ FinishReadPrefetched(Wanted(t))
    /\ Leave(Behind(t))
    /\ hpc' = [hpc EXCEPT ![t] = "finish"]
    /\ ok' = [ok EXCEPT ![t] = FALSE]

\* Some object of the group is missing: the storage gives back the locks of
\* those it has, and had no lock of this lookup on the others any more.
ReadMisses(t) ==
    /\ hpc[t] = "load"
    /\ Miss(t)
    /\ UNCHANGED <<registryVars, obj, written, taskVars, grp, entry, acc, deviceVars, abandoned>>

\* Mutant: the locks are given back as soon as the copies are enqueued.
LoadGroupUnlocks(t) ==
    /\ Found(t)
    /\ Enqueue(entry[t], Copies("load", t, Wanted(t)))
    /\ FinishReadPrefetched(Wanted(t))
    /\ GoOn(t, TRUE)
    /\ UNCHANGED <<registryVars, obj, written, taskVars, entry, acc, engineDone, callbacks, ghostVars>>

\* The copies of the group are enqueued; its locks are kept for the callback.
LoadGroup(t) ==
    /\ Found(t)
    /\ Enqueue(entry[t], Copies("load", t, Wanted(t)))
    /\ acc' = [acc EXCEPT ![t] = @ \cup Wanted(t)]
    /\ GoOn(t, TRUE)
    /\ UNCHANGED <<registryVars, storageVars, taskVars, entry, engineDone, callbacks, ghostVars>>

\* Mutant: prefetched_keys gets the group before its copies are enqueued.
LoadRaisesExtended(t) ==
    /\ Found(t)
    /\ \E copied \in SUBSET Wanted(t) : Enqueue(entry[t], Copies("load", t, copied))
    /\ acc' = [acc EXCEPT ![t] = @ \cup Wanted(t)]
    /\ Miss(t)
    /\ UNCHANGED <<registryVars, obj, written, taskVars, grp, entry, engineDone, callbacks, abandoned>>

\* A copy raises, behind any of the group's copies: read_prefetched_results
\* gives the group's locks back.
LoadRaises(t) ==
    /\ Found(t)
    /\ \E copied \in SUBSET Wanted(t) : Enqueue(entry[t], Copies("load", t, copied))
    /\ Miss(t)
    /\ UNCHANGED <<registryVars, obj, written, taskVars, grp, entry, acc, engineDone, callbacks, abandoned>>

\* The event is recorded, and the locks of the groups that were copied are
\* given back behind it.
FinishRetrieve(t) ==
    /\ t \in RetrieveTask /\ hpc[t] = "finish"
    /\ Enqueue(entry[t], <<Item("event", t, {})>> \o
         Copies("finishRead", t, acc[t]))
    /\ acc' = [acc EXCEPT ![t] = {}]
    /\ Answer(t)
    /\ UNCHANGED <<registryVars, storageVars, operations, key, ok, engineDone, callbacks, ghostVars>>

Resolve(t) == NotRegistered(t) \/ Malformed(t) \/ Underflow(t) \/ BeginStore(t) \/ BeginRetrieve(t)

Handle(t) ==
    \/ StoreGroup(t) \/ StoreRaises(t) \/ FinishStore(t)
    \/ ReadMisses(t) \/ LoadGroup(t) \/ LoadRaises(t) \/ FinishRetrieve(t)

-----------------------------------------------------------------------------
(* The streams and the dispatcher.                                         *)

\* The first item of the stream, of this kind, is done.
Runs(e, kinds) ==
    /\ stream[e] # <<>> /\ Head(stream[e]).kind \in kinds
    /\ stream' = [stream EXCEPT ![e] = Tail(@)]

PassWait(e) ==
    /\ Runs(e, {"wait"}) /\ Head(stream[e]).task \in engineDone
    /\ UNCHANGED <<registryVars, storageVars, taskVars, handlerVars, engineDone, callbacks, ghostVars>>

RunSave(e) ==
    /\ Runs(e, {"save"})
    /\ written' = written \cup Head(stream[e]).objs
    /\ UNCHANGED <<registryVars, obj, readers, taskVars, handlerVars, engineDone, callbacks, ghostVars>>

\* A copy into blocks, or the event.
RunOn(e) ==
    /\ Runs(e, {"load", "event"})
    /\ UNCHANGED <<registryVars, storageVars, taskVars, handlerVars, engineDone, callbacks, ghostVars>>

\* submit_callback_to_stream: the host function hands over to the dispatcher.
RunCallback(e) ==
    /\ Runs(e, {"finishWrite", "finishRead"})
    /\ callbacks' = Append(callbacks, Head(stream[e]))
    /\ UNCHANGED <<registryVars, storageVars, taskVars, handlerVars, engineDone, ghostVars>>

RunStream(e) == PassWait(e) \/ RunSave(e) \/ RunOn(e) \/ RunCallback(e)

Dispatch ==
    /\ callbacks # <<>>
    /\ IF Head(callbacks).kind = "finishWrite"
         THEN FinishWrite(Head(callbacks).objs) /\ UNCHANGED readers
         ELSE FinishReadPrefetched(Head(callbacks).objs) /\ UNCHANGED obj
    /\ callbacks' = Tail(callbacks)
    /\ UNCHANGED <<registryVars, written, taskVars, handlerVars, engineDone, stream, ghostVars>>

-----------------------------------------------------------------------------
(* Registration, liveness and the reaper.                                  *)

aside == <<storageVars, taskVars, handlerVars, deviceVars, ghostVars>>

MainLoopFree == laidOut = {} /\ releasing["mainLoop"] = {}

\* REGISTER of an instance without an entry (with one, it changes nothing but
\* last_seen): the layout is registered outside the lock, and then the entry
\* is inserted.
RegisterLayout(i) ==
    /\ MainLoopFree /\ contexts[i] = NoEntry
    /\ registrations < MaxRegistrations
    /\ registrations' = registrations + 1
    /\ laidOut' = {i}
    /\ layouts' = layouts + 1
    /\ UNCHANGED <<contexts, releasing, aside>>

InsertEntry(i) ==
    /\ i \in laidOut
    /\ laidOut' = {}
    /\ contexts' = [contexts EXCEPT ![i] = registrations]
    /\ UNCHANGED <<layouts, releasing, registrations, aside>>

Pop(instances) ==
    contexts' = [i \in Instance |-> IF i \in instances THEN NoEntry ELSE contexts[i]]

\* Mutant: an instance without an entry is released as well.
UnregisterAlways(i) ==
    /\ MainLoopFree
    /\ Pop({i})
    /\ releasing' = [releasing EXCEPT !["mainLoop"] = {contexts[i]}]
    /\ UNCHANGED <<laidOut, layouts, registrations, aside>>

\* UNREGISTER pops the entry, if it is there.  Operations may be in flight.
Unregister(i) ==
    /\ MainLoopFree
    /\ Pop({i})
    /\ releasing' = [releasing EXCEPT !["mainLoop"] = {contexts[i]} \ {NoEntry}]
    /\ UNCHANGED <<laidOut, layouts, registrations, aside>>

\* reap_stale_instances pops every instance that has gone silent, under the
\* lock: any of them, since nothing here tells how much time has passed.
ReapStale(stale) ==
    /\ stale # {} /\ releasing["reaper"] = {}
    /\ \A i \in stale : contexts[i] # NoEntry
    /\ Pop(stale)
    /\ releasing' = [releasing EXCEPT !["reaper"] = {contexts[i] : i \in stale}]
    /\ UNCHANGED <<laidOut, layouts, registrations, aside>>

\* _release_entries, outside the lock.  What is in the stream still runs.
ReleaseEntry(r, e) ==
    /\ e \in releasing[r]
    /\ releasing' = [releasing EXCEPT ![r] = @ \ {e}]
    /\ layouts' = layouts - 1
    /\ UNCHANGED <<contexts, laidOut, registrations, aside>>

-----------------------------------------------------------------------------
Worker(t) ==
    \/ \E k \in Key : SubmitStore(t, k) \/ SubmitRetrieve(t, k)
    \/ EngineEvent(t) \/ FutureDone(t)

Lifecycle(i) ==
    RegisterLayout(i) \/ InsertEntry(i) \/ Unregister(i)

Next ==
    \/ \E t \in Task : Worker(t) \/ Resolve(t) \/ Handle(t)
    \/ \E i \in Instance : Lifecycle(i)
    \/ \E e \in Entry : RunStream(e) \/ \E r \in Releaser : ReleaseEntry(r, e)
    \/ \E o \in ObjectKey : Evict(o)
    \/ Dispatch
    \/ \E stale \in SUBSET Instance : ReapStale(stale)

\* Handlers go on, requests of an instance are taken in turn, streams run when
\* what they wait for has come, and threads are scheduled.  Nobody is obliged
\* to send anything.
Fairness ==
    /\ \A t \in Task : SF_vars(Resolve(t) \/ Handle(t))
    /\ \A t \in StoreTask : WF_vars(EngineEvent(t))
    /\ \A e \in Entry : WF_vars(RunStream(e))

Spec == Init /\ [][Next]_vars /\ Fairness

-----------------------------------------------------------------------------
(* Properties.                                                             *)

ItemType == [kind : ItemKind, task : Task, objs : SUBSET ObjectKey]

\* The variables stay within their types: no handler runs past the last group,
\* and no layout is taken back more often than it was registered.
TypeOK ==
    /\ contexts \in [Instance -> Entry \cup {NoEntry}] /\ laidOut \subseteq Instance /\ layouts \in Nat
    /\ releasing \in [Releaser -> SUBSET Entry]
    /\ registrations \in 0..MaxRegistrations /\ operations \in 0..MaxOperations
    /\ obj \in [ObjectKey -> {"absent", "writing", "readable"}]
    /\ readers \in [ObjectKey -> Nat] /\ written \subseteq ObjectKey
    /\ wpc \in [Task -> {"idle", "sent", "answered"}] /\ key \in [Task -> Key]
    /\ hpc \in [Task -> HandlerPC] /\ grp \in [Task -> Group]
    /\ entry \in [Task -> Entry \cup {NoEntry}]
    /\ acc \in [Task -> SUBSET ObjectKey]
    /\ ok \in [Task -> BOOLEAN]
    /\ engineDone \subseteq Task
    /\ stream \in [Entry -> Seq(ItemType)] /\ callbacks \in Seq(ItemType)
    /\ abandoned \subseteq ObjectKey /\ left \in [ObjectKey -> Nat]

\* An object that can be read holds what the device copied into it: the
\* callback that publishes it runs behind the copies, and a store of which a
\* copy raised publishes nothing.
PublishedIsCopied == \A o \in ObjectKey : obj[o] = "readable" => o \in written

\* While a retrieve that will answer True has copies to make, the objects they
\* read are there, and locked against eviction.
LoadsHoldLocks ==
    \A e \in Entry : \A n \in DOMAIN stream[e] :
        LET item == stream[e][n] IN
        item.kind = "load" /\ ok[item.task] =>
            \A o \in item.objs : obj[o] = "readable" /\ readers[o] > 0

\* Where callbacks of this kind for object o are still to run.
Enqueued(kind, o) ==
    UNION {{<<e, n>> : n \in {m \in DOMAIN stream[e] :
        stream[e][m].kind = kind /\ o \in stream[e][m].objs}} : e \in Entry}
HandedOver(kind, o) ==
    {n \in DOMAIN callbacks : callbacks[n].kind = kind /\ o \in callbacks[n].objs}

\* The read locks a retrieve has to give back: those of its lookup, until it
\* is past them.
Holds(t) ==
    CASE hpc[t] = "queued" -> Objects(key[t])
      [] hpc[t] = "load" -> acc[t] \cup Wanted(t) \cup Behind(t)
      [] hpc[t] = "finish" -> acc[t]
      [] OTHER -> {}

\* Every read lock is accounted for: a retrieve holds it, a callback is about
\* to give it back, or a failed retrieve left it.  Nobody gives back the lock
\* of another lookup.
ReadLocksAccounted == \A o \in ObjectKey :
    readers[o] = left[o] + Cardinality({t \in RetrieveTask : o \in Holds(t)})
                 + Cardinality(Enqueued("finishRead", o)) + Cardinality(HandedOver("finishRead", o))

\* Every write lock has one owner: a store that is reserving, a callback that
\* is about to finish it, or a store that raised.
WriteLocksOwned == \A o \in ObjectKey :
    (IF obj[o] = "writing" THEN 1 ELSE 0) =
        (IF o \in abandoned THEN 1 ELSE 0) + Cardinality({t \in StoreTask : o \in acc[t]})
        + Cardinality(Enqueued("finishWrite", o)) + Cardinality(HandedOver("finishWrite", o))

\* When the worker takes an operation to be done (and reuses its blocks),
\* no copy of it is to come, however it ended.
EventCoversCopies == \A t \in Task : wpc[t] = "idle" =>
    \A e \in Entry : \A n \in DOMAIN stream[e] :
        LET item == stream[e][n] IN
        item.task = t => item.kind \in {"finishWrite", "finishRead"}

\* Every registration of a layout belongs to an entry, or to one that is being
\* made or released: lookups of the model find the layout while there is one.
LayoutsAccounted ==
    layouts = Cardinality({i \in Instance : contexts[i] # NoEntry}) + Cardinality(laidOut)
              + Cardinality(releasing["mainLoop"]) + Cardinality(releasing["reaper"])

\* Whatever happens to the entry, an operation that was sent comes to an end.
OperationsEnd == \A t \in Task : wpc[t] = "sent" ~> Ended(t)

\* The objects a retrieve still has to copy from, while it may answer True.
CopiesFrom(t) == {o \in ObjectKey : ok[t] /\ \E e \in Entry : \E n \in DOMAIN stream[e] :
    stream[e][n].kind = "load" /\ stream[e][n].task = t /\ o \in stream[e][n].objs}

Cache == INSTANCE ObjectCache WITH
    Object <- ObjectKey, Reader <- RetrieveTask, full <- written,
    cached <- {o \in ObjectKey : obj[o] = "readable"},
    reading <- [t \in RetrieveTask |-> CopiesFrom(t)]

\* The server implements the cache: the callbacks, streams and handlers of all
\* instances together never publish, fill, evict or read an object out of turn.
CacheSpec == Cache!Spec
-----------------------------------------------------------------------------
(* The inductive invariant behind PublishedIsCopied and EventCoversCopies. *)

Typed ==
    /\ contexts \in [Instance -> Entry \cup {NoEntry}]
    /\ registrations \in 0..MaxRegistrations
    /\ laidOut # {} => registrations \in Entry
    /\ obj \in [ObjectKey -> {"absent", "writing", "readable"}] /\ written \subseteq ObjectKey
    /\ wpc \in [Task -> {"idle", "sent", "answered"}] /\ key \in [Task -> Key]
    /\ hpc \in [Task -> HandlerPC] /\ grp \in [Task -> Group]
    /\ entry \in [Task -> Entry \cup {NoEntry}]
    /\ acc \in [Task -> SUBSET ObjectKey] /\ ok \in [Task -> BOOLEAN]
    /\ stream \in [Entry -> Seq(ItemType)] /\ callbacks \in Seq(ItemType)

Running(t) == hpc[t] \in {"store", "load", "finish"}

\* A request has one handler at most, which holds nothing before it begins,
\* and a store has not succeeded before its last group.
Handlers == \A t \in Task :
    /\ hpc[t] # "none" <=> wpc[t] = "sent"
    /\ ~Running(t) => acc[t] = {}
    /\ Running(t) => entry[t] \in Entry
    /\ hpc[t] = "store" => t \in StoreTask /\ ~ok[t]
    /\ hpc[t] = "load" => t \in RetrieveTask

\* The write locks an item will give back.
Writes(item) == IF item.kind = "finishWrite" THEN item.objs ELSE {}

\* What a store, a stream or the dispatcher has to finish is write-locked,
Locked ==
    /\ \A t \in StoreTask : \A o \in acc[t] : obj[o] = "writing"
    /\ \A e \in Entry : \A n \in DOMAIN stream[e] : \A o \in Writes(stream[e][n]) : obj[o] = "writing"
    /\ \A n \in DOMAIN callbacks : \A o \in Writes(callbacks[n]) : obj[o] = "writing"

\* and nobody else has to.
Apart ==
    /\ \A t, u \in StoreTask : t # u => acc[t] \cap acc[u] = {}
    /\ \A t \in StoreTask : \A e \in Entry : \A n \in DOMAIN stream[e] :
         acc[t] \cap Writes(stream[e][n]) = {}
    /\ \A t \in StoreTask : \A n \in DOMAIN callbacks : acc[t] \cap Writes(callbacks[n]) = {}
    /\ \A e, f \in Entry : \A n \in DOMAIN stream[e] : \A m \in DOMAIN stream[f] :
         e # f \/ n # m => Writes(stream[e][n]) \cap Writes(stream[f][m]) = {}
    /\ \A e \in Entry : \A n \in DOMAIN stream[e] : \A m \in DOMAIN callbacks :
         Writes(stream[e][n]) \cap Writes(callbacks[m]) = {}
    /\ \A n, m \in DOMAIN callbacks : n # m => Writes(callbacks[n]) \cap Writes(callbacks[m]) = {}

\* Item m of stream e copies object o.
Copying(o, e, m) == stream[e][m].kind = "save" /\ o \in stream[e][m].objs

\* Object o has been copied, or is by a copy in front of position n of e.
CopiedBefore(o, e, n) ==
    o \in written \/ \E m \in DOMAIN stream[e] : m < n /\ Copying(o, e, m)

\* A store whose objects will be published, if none of its copies raises.
Saving(t) == hpc[t] = "store" \/ (hpc[t] = "finish" /\ ok[t])

\* Whatever is published has been copied, and so will be what is about to be.
CopiesFirst ==
    /\ PublishedIsCopied
    /\ \A t \in StoreTask : Saving(t) =>
         \A o \in acc[t] : o \in written \/ \E m \in DOMAIN stream[entry[t]] : Copying(o, entry[t], m)
    /\ \A e \in Entry : \A n \in DOMAIN stream[e] :
         \A o \in Writes(stream[e][n]) : CopiedBefore(o, e, n)
    /\ \A n \in DOMAIN callbacks : Writes(callbacks[n]) \subseteq written

\* What an operation has in a stream is in front of its event, or its handler
\* has still to record it; and there is none when the operation is over.
EventsBehind ==
    /\ \A e \in Entry : \A n \in DOMAIN stream[e] :
         LET item == stream[e][n] IN
         item.kind \in {"wait", "save", "load"} =>
             \/ Running(item.task) /\ entry[item.task] = e
             \/ \E m \in DOMAIN stream[e] :
                  n < m /\ stream[e][m].kind = "event" /\ stream[e][m].task = item.task
    /\ \A t \in Task : wpc[t] = "idle" => ~EventPending(t)

IInv == Typed /\ Handlers /\ Locked /\ Apart /\ CopiesFirst /\ EventsBehind
=============================================================================
