---------------------- MODULE EngineDrivenSteadyProofs ----------------------
(***************************************************************************)
(* Proofs about EngineDrivenServer while no instance is released and no    *)
(* two operations of one kind, instance and key overlap: for every set of  *)
(* instances, tasks, keys and objects, the slots that can be read were     *)
(* written, slots stay locked while a worker copies, and the whole         *)
(* implements the cache that ObjectCache specifies.                        *)
(***************************************************************************)
EXTENDS EngineDrivenServerProofs

\* An operation that runs, at its worker or on the server.
Busy(t) == wpc[t] # "idle" \/ hpc[t] # "none"

\* The pending maps are keyed by instance and key, whoever asks: operations of
\* one kind on one entry are apart.  Without that one commit can publish, or
\* give back, what another is copying.
KeysApart ==
    \A t, u \in Task :
        /\ InstanceOf[t] = InstanceOf[u] /\ key[t] = key[u]
        /\ t \in RetrieveTask <=> u \in RetrieveTask
        /\ Busy(t) /\ Busy(u)
        => t = u

\* One operation of each kind per instance is one way to keep them apart: the
\* instance that TLC checks.
LEMMA OneOfEachKind ==
  ASSUME \A t, u \in Task : /\ InstanceOf[t] = InstanceOf[u]
                            /\ t \in RetrieveTask <=> u \in RetrieveTask
                            => t = u
  PROVE  KeysApart
  BY DEF KeysApart

\* Where a store and a retrieve can be.
Storing == {"prepareStore", "reserve", "finishUnused", "abandon", "record",
            "commitStore", "pop", "publish"}
Ending == {"commitRetrieve", "popRead", "unlock"}

StoringWorker == {"prepareStore", "gather", "commitStore"}
RetrievingWorker == {"prepareRetrieve", "scatter", "endRetrieve", "commitRetrieve"}

\* Nothing is being released.
Unreleased ==
    /\ relTodo = [r \in Releaser |-> {}]
    /\ relWrites = [r \in Releaser |-> NoPending]
    /\ relReads = [r \in Releaser |-> NoPending]

\* The instances of running operations are registered.
Registered ==
    /\ attached \subseteq contexts /\ attached \subseteq strategies
    /\ \A t \in Task : Busy(t) => InstanceOf[t] \in attached

\* Stores and retrieves run on tasks of their own.
Kinds(t) ==
    /\ hpc[t] \in Storing \/ wpc[t] \in StoringWorker => t \notin RetrieveTask
    /\ hpc[t] \in Reading \cup Ending \/ wpc[t] \in RetrievingWorker => t \in RetrieveTask

AllKinds == \A t \in Task : Kinds(t)

SteadyState == Unreleased /\ Registered /\ AllKinds

\* Without a release to begin, none is under way and no worker is lost.
LEMMA NothingReleased ==
  ASSUME MaxReleases = 0, TypeOK, Unreleased
  PROVE  /\ \A i \in Instance : ~Crash(i) /\ ~GoSilent(i) /\ ~Unregister(i)
         /\ ~ReapStale
         /\ \A r \in Releaser : ~Release(r)
  <1>1. ~(releases < MaxReleases)
    BY DEF TypeOK
  <1>2. \A i \in Instance : ~Crash(i) /\ ~GoSilent(i) /\ ~Unregister(i)
    BY <1>1 DEF Crash, GoSilent, Unregister
  <1>3. ~ReapStale
    BY <1>1 DEF ReapStale
  <1>4. \A r \in Releaser : ~Release(r)
    BY DEF Release, SweepPending, FinishSweptWrite, FinishSweptRead, Unreleased, NoPending
  <1> QED BY <1>2, <1>3, <1>4

\* The steps that are left beside those of workers and handlers.
Background ==
    \/ \E i \in Instance : Register(i) \/ Touch(i)
    \/ \E o \in ObjectKey : Evict(o)
    \/ UNCHANGED vars

\* Every step is one of these.
LEMMA SteadyNext ==
  ASSUME MaxReleases = 0, TypeOK, Unreleased, [Next]_vars
  PROVE  (\E t \in Task : Worker(t) \/ Handler(t)) \/ Background
  BY NothingReleased DEF Next, Lifecycle, Background

\* What the steps beside those of workers and handlers leave alone.
LEMMA BackgroundMoves ==
  ASSUME Background
  PROVE  /\ UNCHANGED <<pendingVars, readers, workerVars, handlerVars, releaseVars>>
         /\ contexts \subseteq contexts' /\ strategies \subseteq strategies'
         /\ attached \subseteq attached'
         /\ attached' \ attached \subseteq contexts' \cap strategies'
  <1> USE DEF registryVars, pendingVars, storageVars, workerVars, handlerVars, releaseVars
  <1>1. ASSUME NEW i \in Instance, Register(i)
        PROVE  /\ UNCHANGED <<pendingVars, readers, workerVars, handlerVars, releaseVars>>
               /\ contexts \subseteq contexts' /\ strategies \subseteq strategies'
               /\ attached \subseteq attached'
               /\ attached' \ attached \subseteq contexts' \cap strategies'
    BY <1>1 DEF Register
  <1>2. ASSUME NEW i \in Instance, Touch(i)
        PROVE  UNCHANGED <<pendingVars, readers, workerVars, handlerVars, releaseVars,
                           contexts, strategies, attached>>
    BY <1>2 DEF Touch
  <1>3. ASSUME NEW o \in ObjectKey, Evict(o)
        PROVE  UNCHANGED <<pendingVars, readers, workerVars, handlerVars, releaseVars,
                           contexts, strategies, attached>>
    BY <1>3 DEF Evict
  <1>4. CASE UNCHANGED vars
    BY <1>4 DEF vars
  <1> QED BY <1>1, <1>2, <1>3, <1>4 DEF Background
-----------------------------------------------------------------------------
(* Where workers and handlers are.                                         *)

\* A step of a task moves no other task, and what belongs to a task is its own.
OthersStay(t) ==
    \A u \in Task \ {t} :
        /\ hpc'[u] = hpc[u] /\ wpc'[u] = wpc[u] /\ key'[u] = key[u]
        /\ slots'[u] = slots[u] /\ acc'[u] = acc[u]

\* A worker moves itself and its requests.
LEMMA WorkerMoves ==
  ASSUME TypeOK, NEW t \in Task, Worker(t)
  PROVE  /\ OthersStay(t)
         /\ UNCHANGED <<registryVars, pendingVars, obj, writer, unfilled, acc, releaseVars>>
  <1> USE DEF OthersStay, storageVars, workerVars, handlerVars, TypeOK
  <1>1. ASSUME NEW k \in Key, SubmitStore(t, k) \/ SubmitRetrieve(t, k)
        PROVE  /\ OthersStay(t)
               /\ UNCHANGED <<registryVars, pendingVars, obj, writer, unfilled, acc, releaseVars>>
    BY <1>1 DEF SubmitStore, SubmitRetrieve
  <1>2. CASE Gather(t)
    BY <1>2 DEF Gather
  <1>3. CASE GatherFails(t) \/ Scatter(t) \/ RetrieveRaises(t)
    BY <1>3 DEF GatherFails, Scatter, RetrieveRaises
  <1>4. CASE SendCommitRetrieve(t) \/ Timeout(t)
    BY <1>4 DEF SendCommitRetrieve, Timeout
  <1> QED BY <1>1, <1>2, <1>3, <1>4 DEF Worker

\* The steps of a store's handler, and those of a retrieve's.
StoreHandler(t) ==
    \/ ReserveGroup(t) \/ ReserveGroupRaises(t) \/ FinishUnused(t) \/ AbandonPrepare(t)
    \/ RecordPendingWrite(t) \/ PopPendingWrite(t) \/ PublishStore(t)

RetrieveHandler(t) ==
    \/ ReadGroup(t) \/ ReadGroupRaises(t) \/ RecordPendingRead(t)
    \/ PopPendingRead(t) \/ UnlockRetrieve(t)

\* Where a store's handler leads, and what it leaves alone.
LEMMA StoreMoves ==
  ASSUME TypeOK, UnusedIsHeld, NEW t \in Task, StoreHandler(t)
  PROVE  /\ OthersStay(t)
         /\ UNCHANGED <<registryVars, pendingReads, readers, left, key, releaseVars, written>>
         /\ hpc[t] \in Storing /\ hpc'[t] \in Storing \cup {"none"}
         /\ wpc'[t] \in {wpc[t], "idle", "gather"}
  <1> USE DEF OthersStay, storageVars, workerVars, handlerVars, registryVars, pendingVars,
          Storing, TypeOK
  <1>1. CASE ReserveGroup(t) \/ ReserveGroupRaises(t)
    <2>1. PICK granted, rest \in SUBSET ObjectKey : Reserves(t, granted, rest)
      BY <1>1, ReserveStep
    <2> QED BY <2>1 DEF Reserves, Reserve, NextGroup
  <1>2. CASE FinishUnused(t) \/ AbandonPrepare(t)
    BY <1>2 DEF FinishUnused, AbandonPrepare, GiveBackUnused, NextGroup
  <1>3. CASE RecordPendingWrite(t)
    BY <1>3 DEF RecordPendingWrite, Reply, GiveSlots
  <1>4. CASE PopPendingWrite(t)
    BY <1>4 DEF PopPendingWrite, Reply
  <1>5. CASE PublishStore(t)
    BY <1>5 DEF PublishStore, Reply
  <1> QED BY <1>1, <1>2, <1>3, <1>4, <1>5 DEF StoreHandler

\* Where a retrieve's handler leads, and what it leaves alone.
LEMMA RetrieveMoves ==
  ASSUME TypeOK, NEW t \in Task, RetrieveHandler(t)
  PROVE  /\ OthersStay(t)
         /\ UNCHANGED <<registryVars, pendingWrites, obj, writer, unfilled, key, releaseVars,
                        written>>
         /\ hpc[t] \in Reading \cup Ending /\ hpc'[t] \in Reading \cup Ending \cup {"none"}
         /\ wpc'[t] \in {wpc[t], "scatter", "endRetrieve", "idle"}
  <1> USE DEF OthersStay, storageVars, workerVars, handlerVars, registryVars, pendingVars,
          Reading, Ending, TypeOK
  <1>1. CASE ReadGroup(t)
    <2>1. /\ hpc[t] = "read" /\ \E keys : acc' = [acc EXCEPT ![t] = keys]
          /\ \E pc \in {"read", "recordRead", "none"} : hpc' = [hpc EXCEPT ![t] = pc]
          /\ wpc' = wpc \/ Reply(t, "prepareRetrieve", "endRetrieve")
          /\ UNCHANGED <<registryVars, pendingWrites, obj, writer, unfilled, written, key,
                         slots, releaseVars>>
      BY <1>1 DEF ReadGroup, NextGroup
    <2> QED BY <2>1 DEF Reply
  <1>2. CASE ReadGroupRaises(t) \/ PopPendingRead(t)
    BY <1>2 DEF ReadGroupRaises, PopPendingRead
  <1>3. CASE RecordPendingRead(t)
    BY <1>3 DEF RecordPendingRead, Reply, GiveSlots
  <1>4. CASE UnlockRetrieve(t)
    BY <1>4 DEF UnlockRetrieve, Reply
  <1> QED BY <1>1, <1>2, <1>3, <1>4 DEF RetrieveHandler

\* A handler finds its instance: it is registered while its operation runs.
LEMMA ResolveFinds ==
  ASSUME TypeOK, Registered, NEW t \in Task, Resolve(t)
  PROVE  /\ hpc[t] \in Queued /\ hpc'[t] = FirstStep[hpc[t]]
         /\ UNCHANGED <<wpc, grp, acc, key, slots, pendingVars, storageVars>>
  <1>1. hpc[t] \in Queued /\ hpc[t] # "none"
    BY DEF Resolve, Queued
  <1>2. InstanceOf[t] \in contexts /\ InstanceOf[t] \in strategies
    BY <1>1 DEF Registered, Busy
  <1> QED BY <1>1, <1>2 DEF Resolve, workerVars, storageVars, TypeOK

\* A handler moves itself and its worker.
LEMMA HandlerMoves ==
  ASSUME TypeOK, UnusedIsHeld, Registered, NEW t \in Task, Handler(t)
  PROVE  /\ OthersStay(t) /\ hpc[t] # "none"
         /\ UNCHANGED <<contexts, strategies, attached, key, releaseVars, written>>
  <1>1. CASE Resolve(t)
    BY <1>1, ResolveFinds DEF Resolve, OthersStay, storageVars, Queued, TypeOK
  <1>2. CASE StoreHandler(t)
    BY <1>2, StoreMoves DEF registryVars, Storing
  <1>3. CASE RetrieveHandler(t)
    BY <1>3, RetrieveMoves DEF registryVars, Reading, Ending
  <1> QED BY <1>1, <1>2, <1>3 DEF Handler, StoreHandler, RetrieveHandler

\* Where a worker's step leads its own task.
LEMMA WorkerKinds ==
  ASSUME TypeOK, NEW t \in Task, Kinds(t), Worker(t)
  PROVE  Kinds(t)'
  <1> USE DEF Storing, Reading, Ending, StoringWorker, RetrievingWorker, Queued, TypeOK, Kinds
  <1>1. ASSUME NEW k \in Key, SubmitStore(t, k) \/ SubmitRetrieve(t, k) PROVE Kinds(t)'
    BY <1>1 DEF SubmitStore, SubmitRetrieve
  <1>2. CASE Gather(t) \/ SendCommitRetrieve(t)
    BY <1>2 DEF Gather, SendCommitRetrieve
  <1>3. CASE GatherFails(t) \/ Scatter(t) \/ RetrieveRaises(t) \/ Timeout(t)
    BY <1>3 DEF GatherFails, Scatter, RetrieveRaises, Timeout, handlerVars
  <1> QED BY <1>1, <1>2, <1>3 DEF Worker

\* Where a handler's step leads its own task.
LEMMA HandlerKinds ==
  ASSUME TypeOK, UnusedIsHeld, Registered, NEW t \in Task, Kinds(t), Handler(t)
  PROVE  Kinds(t)'
  <1> USE DEF Storing, Reading, Ending, StoringWorker, RetrievingWorker, Kinds
  <1>1. CASE Resolve(t)
    <2>1. /\ hpc[t] \in Queued /\ hpc'[t] = FirstStep[hpc[t]] /\ wpc' = wpc
      BY <1>1, ResolveFinds
    <2> QED BY <2>1 DEF FirstStep, Queued
  <1>2. CASE StoreHandler(t)
    BY <1>2, StoreMoves
  <1>3. CASE RetrieveHandler(t)
    BY <1>3, RetrieveMoves
  <1> QED BY <1>1, <1>2, <1>3 DEF Handler, StoreHandler, RetrieveHandler

\* The registry and the places of workers and handlers stay in step.
LEMMA NextSteady ==
  ASSUME MaxReleases = 0, TypeOK, UnusedIsHeld, SteadyState, [Next]_vars
  PROVE  SteadyState'
  <1> USE DEF SteadyState
  <1>0. ASSUME NEW u \in Task, hpc'[u] = hpc[u], wpc'[u] = wpc[u]
        PROVE  Kinds(u)'
    BY <1>0 DEF AllKinds, Kinds
  <1>1. ASSUME NEW t \in Task, Worker(t) PROVE SteadyState'
    <2>1. OthersStay(t) /\ UNCHANGED <<registryVars, releaseVars>>
      BY <1>1, WorkerMoves
    <2>2. AllKinds'
      BY <1>0, <1>1, <2>1, WorkerKinds DEF OthersStay, AllKinds
    <2>3. Unreleased'
      BY <2>1 DEF Unreleased, releaseVars
    <2>4. InstanceOf[t] \in attached
      BY <1>1 DEF Worker, SubmitStore, SubmitRetrieve, Gather, GatherFails, Scatter,
         RetrieveRaises, SendCommitRetrieve, Timeout, Queued, Registered, Busy
    <2>5. Registered'
      BY <2>1, <2>4 DEF Registered, Busy, OthersStay, registryVars
    <2> QED BY <2>2, <2>3, <2>5
  <1>2. ASSUME NEW t \in Task, Handler(t) PROVE SteadyState'
    <2>1. /\ OthersStay(t) /\ hpc[t] # "none"
          /\ UNCHANGED <<contexts, strategies, attached, releaseVars>>
      BY <1>2, HandlerMoves
    <2>2. AllKinds'
      BY <1>0, <1>2, <2>1, HandlerKinds DEF OthersStay, AllKinds
    <2>3. Unreleased'
      BY <2>1 DEF Unreleased, releaseVars
    <2>4. Registered'
      BY <2>1 DEF Registered, Busy, OthersStay
    <2> QED BY <2>2, <2>3, <2>4
  <1>3. CASE Background
    <2>1. /\ UNCHANGED <<workerVars, handlerVars, releaseVars>>
          /\ contexts \subseteq contexts' /\ strategies \subseteq strategies'
          /\ attached \subseteq attached'
          /\ attached' \ attached \subseteq contexts' \cap strategies'
      BY <1>3, BackgroundMoves
    <2>2. AllKinds'
      BY <1>0, <2>1 DEF workerVars, handlerVars, AllKinds
    <2>3. Unreleased'
      BY <2>1 DEF Unreleased, releaseVars
    <2>4. Registered'
      BY <2>1 DEF Registered, Busy, workerVars, handlerVars
    <2> QED BY <2>2, <2>3, <2>4
  <1> QED BY <1>1, <1>2, <1>3, SteadyNext
-----------------------------------------------------------------------------
(* The slots that can be read were written.                                *)

\* While an operation writes, the entry under its key is its own.
Writing(t) == wpc[t] = "gather" \/ hpc[t] \in {"commitStore", "pop", "publish"}

\* A worker copies into its own reservation, all of it, and what it commits
\* has been copied.
Copied(t) ==
    /\ wpc[t] = "gather" =>
          /\ Entry(pendingWrites, t) = slots[t]
          /\ \A o \in slots[t] : writer[o] = t
    /\ hpc[t] \in {"commitStore", "pop"} => Entry(pendingWrites, t) \subseteq written
    /\ hpc[t] = "publish" => acc[t] \subseteq written

Writes == (\A t \in Task : Copied(t)) /\ SlotsReadableAreWritten

\* A step that leaves an operation alone, its entry while it writes, and what
\* it claims, keeps its promise.
LEMMA CopiedStays ==
  ASSUME NEW u \in Task, Copied(u),
         hpc'[u] = hpc[u], wpc'[u] = wpc[u], slots'[u] = slots[u], acc'[u] = acc[u],
         Writing(u) => Entry(pendingWrites, u)' = Entry(pendingWrites, u),
         \A o \in HandlerClaim(u) \cup Entry(pendingWrites, u) :
             writer'[o] = writer[o] /\ (o \in written => o \in written')
  PROVE  Copied(u)'
  BY DEF Copied, Writing, HandlerClaim

\* A step of a store leaves the entries of the other stores that write alone.
LEMMA OtherEntries ==
  ASSUME TypeOK, SteadyState, KeysApart, NEW t \in Task, NEW u \in Task, t # u,
         t \notin RetrieveTask, Busy(t), Writing(u), UNCHANGED key,
         \A i \in Instance, k \in Key :
            ~(i = InstanceOf[t] /\ k = key[t]) => pendingWrites'[i][k] = pendingWrites[i][k]
  PROVE  Entry(pendingWrites, u)' = Entry(pendingWrites, u)
  <1>1. u \notin RetrieveTask /\ Busy(u)
    BY DEF Writing, Busy, SteadyState, AllKinds, Kinds, Storing, StoringWorker
  <1>2. ~(InstanceOf[t] = InstanceOf[u] /\ key[t] = key[u])
    BY <1>1 DEF KeysApart
  <1>3. InstanceOf[u] \in Instance /\ key[u] \in Key
    BY ConstantsAssumption DEF TypeOK
  <1> QED BY <1>2, <1>3 DEF Entry

\* A worker copies all of its slots before it commits them.
LEMMA WorkerWrites ==
  ASSUME TypeOK, Phases, Writes, NEW t \in Task, Worker(t)
  PROVE  Writes'
  <1>1. OthersStay(t) /\ UNCHANGED <<pendingWrites, obj, writer, unfilled>>
    BY WorkerMoves DEF pendingVars
  <1>2. written \subseteq written'
    BY DEF Worker, SubmitStore, SubmitRetrieve, Gather, GatherFails, Scatter,
       RetrieveRaises, SendCommitRetrieve, Timeout, storageVars
  <1>3. ASSUME NEW u \in Task, u # t PROVE Copied(u)'
    <2>1. /\ hpc'[u] = hpc[u] /\ wpc'[u] = wpc[u] /\ slots'[u] = slots[u]
          /\ acc'[u] = acc[u] /\ Entry(pendingWrites, u)' = Entry(pendingWrites, u)
      BY <1>1, <1>3 DEF OthersStay, Entry
    <2> QED BY <1>1, <1>2, <2>1, CopiedStays DEF Writes
  <1>4. Copied(t)'
    <2>1. Copied(t)
      BY DEF Writes
    <2>2. ASSUME NEW k \in Key, SubmitStore(t, k) \/ SubmitRetrieve(t, k) PROVE Copied(t)'
      BY <2>2 DEF SubmitStore, SubmitRetrieve, Copied, TypeOK
    <2>3. CASE Gather(t)
      <3>1. /\ wpc[t] = "gather" /\ wpc'[t] = "commitStore" /\ hpc'[t] = "commitStore"
            /\ written' = written \cup {o \in slots[t] : writer[o] = t} /\ key' = key
        BY <2>3 DEF Gather, TypeOK
      <3>2. Entry(pendingWrites, t)' = slots[t] /\ \A o \in slots[t] : writer[o] = t
        BY <1>1, <2>1, <3>1 DEF Copied, Entry
      <3> QED BY <3>1, <3>2 DEF Copied
    <2>4. CASE SendCommitRetrieve(t)
      BY <2>4 DEF SendCommitRetrieve, Copied, TypeOK
    <2>5. CASE GatherFails(t) \/ Scatter(t) \/ RetrieveRaises(t) \/ Timeout(t)
      <3>1. hpc' = hpc /\ acc' = acc /\ key' = key /\ wpc'[t] # "gather"
        BY <2>5 DEF GatherFails, Scatter, RetrieveRaises, Timeout, handlerVars, TypeOK
      <3>2. Entry(pendingWrites, t)' = Entry(pendingWrites, t)
        BY <1>1, <3>1 DEF Entry
      <3> QED BY <1>2, <2>1, <3>1, <3>2 DEF Copied
    <2> QED BY <2>2, <2>3, <2>4, <2>5 DEF Worker
  <1>5. SlotsReadableAreWritten'
    BY <1>1, <1>2 DEF Writes, SlotsReadableAreWritten
  <1> QED BY <1>3, <1>4, <1>5 DEF Writes

\* A reservation takes absent objects only, so that nothing more can be read.
LEMMA ReserveWrites ==
  ASSUME TypeOK, Phases, ReservationsExclusive, Writes, NEW t \in Task,
         ReserveGroup(t) \/ ReserveGroupRaises(t)
  PROVE  Writes'
  <1>1. PICK granted, rest \in SUBSET ObjectKey : Reserves(t, granted, rest)
    BY ReserveStep
  <1>2. /\ obj' = [o \in ObjectKey |-> IF o \in granted THEN "writing" ELSE obj[o]]
        /\ writer' = [o \in ObjectKey |-> IF o \in granted THEN t ELSE writer[o]]
        /\ \A o \in granted : obj[o] = "absent"
        /\ UNCHANGED <<pendingWrites, written, unfilled, wpc, key>>
    BY <1>1 DEF Reserves, Reserve, pendingVars, workerVars
  <1>3. ASSUME NEW u \in Task, NEW o \in HandlerClaim(u) \cup Entry(pendingWrites, u)
        PROVE  writer'[o] = writer[o]
    <2>1. o \in ObjectKey /\ obj[o] = "writing"
      BY <1>3, ClaimedIsWriting
    <2> QED BY <1>2, <2>1
  <1>4. OthersStay(t) /\ hpc[t] = "reserve"
    BY StoreMoves DEF StoreHandler, Phases, ReserveGroup, ReserveGroupRaises, Reserve
  <1>5. ASSUME NEW u \in Task, u # t PROVE Copied(u)'
    <2>1. /\ hpc'[u] = hpc[u] /\ wpc'[u] = wpc[u] /\ slots'[u] = slots[u]
          /\ acc'[u] = acc[u] /\ Entry(pendingWrites, u)' = Entry(pendingWrites, u)
      BY <1>2, <1>4, <1>5 DEF OthersStay, Entry
    <2> QED BY <1>2, <1>3, <2>1, CopiedStays DEF Writes
  <1>6. Copied(t)'
    <2>1. hpc'[t] \in {"reserve", "record", "finishUnused", "abandon"}
      BY <1>1 DEF Reserves, NextGroup, TypeOK
    <2>2. wpc'[t] # "gather"
      BY <1>2, <1>4 DEF Phases, CopyingWorkerHasNoHandler
    <2> QED BY <2>1, <2>2 DEF Copied
  <1>7. SlotsReadableAreWritten'
    BY <1>2 DEF Writes, SlotsReadableAreWritten
  <1> QED BY <1>5, <1>6, <1>7 DEF Writes

\* What the `finally` publishes got no slot; what it lets go of is its own.
LEMMA GiveBackWrites ==
  ASSUME TypeOK, Phases, ReservationsExclusive, Writes, NEW t \in Task,
         FinishUnused(t) \/ AbandonPrepare(t)
  PROVE  Writes'
  <1>1. PICK dropped :
           /\ unused[t] \subseteq dropped /\ dropped \subseteq acc[t]
           /\ GiveBackUnused(t, dropped)
           /\ \/ NextGroup(t, "reserve", "record")
              \/ /\ dropped = acc[t]
                 /\ hpc' = [hpc EXCEPT ![t] = "none"]
                 /\ grp' = [grp EXCEPT ![t] = 1]
    BY GiveBackStep DEF Phases
  <1>2. /\ FinishWrite(unused[t]) /\ Disown(dropped) /\ unfilled' = unfilled \cup unused[t]
        /\ UNCHANGED <<pendingWrites, written, wpc, key>>
    BY <1>1 DEF GiveBackUnused, pendingVars, workerVars
  <1>3. OthersStay(t) /\ hpc[t] \in {"finishUnused", "abandon"}
    BY StoreMoves DEF StoreHandler, Phases, FinishUnused, AbandonPrepare
  <1>4. HandlerClaim(t) = acc[t]
    BY <1>3 DEF HandlerClaim
  <1>5. ASSUME NEW u \in Task, u # t PROVE Copied(u)'
    <2>1. /\ hpc'[u] = hpc[u] /\ wpc'[u] = wpc[u] /\ slots'[u] = slots[u]
          /\ acc'[u] = acc[u] /\ Entry(pendingWrites, u)' = Entry(pendingWrites, u)
      BY <1>2, <1>3, <1>5 DEF OthersStay, Entry
    <2>2. ASSUME NEW o \in HandlerClaim(u) \cup Entry(pendingWrites, u)
          PROVE  writer'[o] = writer[o]
      <3>1. o \in ObjectKey
        BY <2>2, ClaimedIsWriting
      <3>2. o \notin acc[t]
        <4>1. InstanceOf[u] \in Instance /\ key[u] \in Key
          BY ConstantsAssumption DEF TypeOK
        <4> QED BY <1>4, <1>5, <2>2, <4>1 DEF ReservationsExclusive, ClaimsDisjointWithin,
                ClaimsDisjointAcross, Entry
      <3> QED BY <1>1, <1>2, <3>1, <3>2 DEF Disown
    <2> QED BY <1>2, <2>1, <2>2, CopiedStays DEF Writes
  <1>6. Copied(t)'
    <2>1. hpc'[t] \in {"reserve", "record", "none"}
      BY <1>1 DEF NextGroup, TypeOK
    <2>2. wpc'[t] # "gather"
      BY <1>2, <1>3 DEF Phases, CopyingWorkerHasNoHandler
    <2> QED BY <2>1, <2>2 DEF Copied
  <1>7. SlotsReadableAreWritten'
    BY <1>2 DEF FinishWrite, Writes, SlotsReadableAreWritten
  <1> QED BY <1>5, <1>6, <1>7 DEF Writes

\* The slots of the reply are the entry that is recorded, and the task's own.
LEMMA RecordWrites ==
  ASSUME TypeOK, Phases, SteadyState, KeysApart, OwnCopies, Writes, NEW t \in Task,
         RecordPendingWrite(t)
  PROVE  Writes'
  <1>1. /\ hpc[t] = "record" /\ hpc' = [hpc EXCEPT ![t] = "none"]
        /\ UNCHANGED <<obj, writer, written, unfilled, key>>
    BY DEF RecordPendingWrite, storageVars
  <1>2. InstanceOf[t] \in Instance /\ key[t] \in Key
    BY ConstantsAssumption DEF TypeOK
  <1>3. Busy(t) /\ t \notin RetrieveTask
    BY <1>1 DEF Busy, SteadyState, AllKinds, Kinds, Storing
  <1>4. \A i \in Instance, k \in Key :
           ~(i = InstanceOf[t] /\ k = key[t]) => pendingWrites'[i][k] = pendingWrites[i][k]
    <2> DEFINE i0 == InstanceOf[t]
               k0 == key[t]
    <2>1. i0 \in Instance /\ k0 \in Key
      BY <1>2
    <2>2. \A i \in Instance, k \in Key :
             pendingWrites'[i][k] = IF i = i0 /\ k = k0 /\ acc[t] # {}
                                    THEN acc[t] ELSE pendingWrites[i][k]
      BY <2>1 DEF RecordPendingWrite, TypeOK
    <2> QED BY <2>2
  <1>5. ASSUME NEW u \in Task, u # t PROVE Copied(u)'
    <2>1. OthersStay(t)
      BY StoreMoves DEF StoreHandler, Phases
    <2>2. /\ hpc'[u] = hpc[u] /\ wpc'[u] = wpc[u] /\ slots'[u] = slots[u] /\ acc'[u] = acc[u]
      BY <1>5, <2>1 DEF OthersStay
    <2>3. Writing(u) => Entry(pendingWrites, u)' = Entry(pendingWrites, u)
      BY <1>1, <1>3, <1>4, <1>5, OtherEntries
    <2> QED BY <1>1, <2>2, <2>3, CopiedStays DEF Writes
  <1>6. Copied(t)'
    <2>1. hpc'[t] = "none" /\ wpc[t] # "gather"
      BY <1>1 DEF TypeOK, Phases, CopyingWorkerHasNoHandler
    <2>2. wpc'[t] = "gather" => Entry(pendingWrites, t)' = acc[t] /\ slots'[t] = acc[t]
      <3> SUFFICES ASSUME wpc'[t] = "gather"
                   PROVE  Entry(pendingWrites, t)' = acc[t] /\ slots'[t] = acc[t]
        OBVIOUS
      <3>1. acc[t] # {} /\ wpc[t] = "prepareStore"
        BY <2>1 DEF RecordPendingWrite, Reply, TypeOK
      <3>2. slots'[t] = acc[t]
        BY <3>1 DEF RecordPendingWrite, GiveSlots, TypeOK
      <3>3. pendingWrites' = [pendingWrites EXCEPT ![InstanceOf[t]] = [@ EXCEPT ![key[t]] = acc[t]]]
        BY <3>1 DEF RecordPendingWrite
      <3>4. Entry(pendingWrites, t)' = acc[t]
        BY <1>1, <1>2, <3>3 DEF Entry, TypeOK
      <3> QED BY <3>2, <3>4
    <2>3. \A o \in acc[t] : writer'[o] = t
      BY <1>1 DEF OwnCopies, OwnCopied
    <2> QED BY <2>1, <2>2, <2>3 DEF Copied
  <1>7. SlotsReadableAreWritten'
    BY <1>1 DEF Writes, SlotsReadableAreWritten
  <1> QED BY <1>5, <1>6, <1>7 DEF Writes

\* A commit takes the entry of its own store, which has been copied.
LEMMA PopWrites ==
  ASSUME TypeOK, Phases, SteadyState, KeysApart, Writes, NEW t \in Task, PopPendingWrite(t)
  PROVE  Writes'
  <1>1. /\ hpc[t] = "pop" /\ UNCHANGED <<obj, writer, written, unfilled, key, slots>>
    BY DEF PopPendingWrite, storageVars
  <1>2. Busy(t) /\ t \notin RetrieveTask
    BY <1>1 DEF Busy, SteadyState, AllKinds, Kinds, Storing
  <1>3. \A i \in Instance, k \in Key :
           ~(i = InstanceOf[t] /\ k = key[t]) => pendingWrites'[i][k] = pendingWrites[i][k]
    <2> DEFINE i0 == InstanceOf[t]
               k0 == key[t]
    <2>1. i0 \in Instance /\ k0 \in Key
      BY ConstantsAssumption DEF TypeOK
    <2>2. \A i \in Instance, k \in Key :
             pendingWrites'[i][k] = IF i = i0 /\ k = k0 THEN {} ELSE pendingWrites[i][k]
      BY <2>1 DEF PopPendingWrite, TypeOK
    <2> QED BY <2>2
  <1>4. ASSUME NEW u \in Task, u # t PROVE Copied(u)'
    <2>1. OthersStay(t)
      BY StoreMoves DEF StoreHandler, Phases
    <2>2. /\ hpc'[u] = hpc[u] /\ wpc'[u] = wpc[u] /\ slots'[u] = slots[u] /\ acc'[u] = acc[u]
      BY <1>4, <2>1 DEF OthersStay
    <2>3. Writing(u) => Entry(pendingWrites, u)' = Entry(pendingWrites, u)
      BY <1>1, <1>2, <1>3, <1>4, OtherEntries
    <2> QED BY <1>1, <2>2, <2>3, CopiedStays DEF Writes
  <1>5. Copied(t)'
    <2>1. /\ hpc'[t] \in {"none", "publish"} /\ acc'[t] = Entry(pendingWrites, t)
          /\ wpc'[t] # "gather"
      BY <1>1 DEF PopPendingWrite, Reply, Entry, TypeOK, Phases, CopyingWorkerHasNoHandler
    <2>2. Entry(pendingWrites, t) \subseteq written
      BY <1>1 DEF Writes, Copied
    <2> QED BY <1>1, <2>1, <2>2 DEF Copied
  <1>6. SlotsReadableAreWritten'
    BY <1>1 DEF Writes, SlotsReadableAreWritten
  <1> QED BY <1>4, <1>5, <1>6 DEF Writes

\* A commit publishes what has been copied.
LEMMA PublishWrites ==
  ASSUME TypeOK, Phases, ReservationsExclusive, Writes, NEW t \in Task, PublishStore(t)
  PROVE  Writes'
  <1>1. /\ hpc[t] = "publish" /\ hpc'[t] = "none" /\ FinishWrite(acc[t]) /\ Disown(acc[t])
        /\ Reply(t, "commitStore", "idle")
        /\ UNCHANGED <<pendingWrites, written, unfilled, key>>
    BY DEF PublishStore, pendingVars, TypeOK
  <1>2. OthersStay(t)
    BY StoreMoves DEF StoreHandler, Phases
  <1>3. HandlerClaim(t) = acc[t]
    BY <1>1 DEF HandlerClaim
  <1>4. ASSUME NEW u \in Task, u # t PROVE Copied(u)'
    <2>1. /\ hpc'[u] = hpc[u] /\ wpc'[u] = wpc[u] /\ slots'[u] = slots[u]
          /\ acc'[u] = acc[u] /\ Entry(pendingWrites, u)' = Entry(pendingWrites, u)
      BY <1>1, <1>2, <1>4 DEF OthersStay, Entry
    <2>2. ASSUME NEW o \in HandlerClaim(u) \cup Entry(pendingWrites, u)
          PROVE  writer'[o] = writer[o]
      <3>1. o \in ObjectKey
        BY <2>2, ClaimedIsWriting
      <3>2. o \notin acc[t]
        <4>1. InstanceOf[u] \in Instance /\ key[u] \in Key
          BY ConstantsAssumption DEF TypeOK
        <4> QED BY <1>3, <1>4, <2>2, <4>1 DEF ReservationsExclusive, ClaimsDisjointWithin,
                ClaimsDisjointAcross, Entry
      <3> QED BY <1>1, <3>1, <3>2 DEF Disown
    <2> QED BY <1>1, <2>1, <2>2, CopiedStays DEF Writes
  <1>5. Copied(t)'
    <2>1. wpc'[t] # "gather"
      BY <1>1 DEF Reply, TypeOK, Phases, CopyingWorkerHasNoHandler
    <2> QED BY <1>1, <2>1 DEF Copied
  <1>6. SlotsReadableAreWritten'
    <2>1. acc[t] \subseteq written
      BY <1>1 DEF Writes, Copied
    <2> QED BY <1>1, <2>1 DEF FinishWrite, Writes, SlotsReadableAreWritten
  <1> QED BY <1>4, <1>5, <1>6 DEF Writes

\* Resolving an instance and reading write nothing.
LEMMA ReadingWrites ==
  ASSUME TypeOK, Phases, SteadyState, Writes, NEW t \in Task, Resolve(t) \/ RetrieveHandler(t)
  PROVE  Writes'
  <1>1. /\ OthersStay(t)
        /\ UNCHANGED <<obj, writer, written, unfilled, pendingWrites, key>>
    BY RetrieveMoves, ResolveFinds, HandlerMoves
       DEF Handler, Phases, SteadyState, storageVars, pendingVars
  <1>2. ASSUME NEW u \in Task, u # t PROVE Copied(u)'
    <2>1. /\ hpc'[u] = hpc[u] /\ wpc'[u] = wpc[u] /\ slots'[u] = slots[u]
          /\ acc'[u] = acc[u] /\ Entry(pendingWrites, u)' = Entry(pendingWrites, u)
      BY <1>1, <1>2 DEF OthersStay, Entry
    <2> QED BY <1>1, <2>1, CopiedStays DEF Writes
  <1>3. Copied(t)'
    <2>0. Copied(t)
      BY DEF Writes
    <2>1. CASE Resolve(t)
      <3>1. /\ hpc[t] \in Queued /\ hpc'[t] = FirstStep[hpc[t]] /\ wpc' = wpc
        BY <2>1, ResolveFinds DEF SteadyState
      <3>2. wpc[t] # "gather"
        BY <3>1 DEF Phases, CopyingWorkerHasNoHandler, Queued
      <3>3. /\ hpc'[t] \in {"reserve", "pop", "read", "popRead"}
            /\ hpc'[t] = "pop" => hpc[t] = "commitStore"
        BY <3>1 DEF FirstStep, Queued
      <3> QED BY <1>1, <2>0, <3>1, <3>2, <3>3 DEF Copied, Entry
    <2>2. CASE RetrieveHandler(t)
      <3>1. /\ hpc[t] # "none" /\ hpc'[t] \in Reading \cup Ending \cup {"none"}
            /\ wpc'[t] \in {wpc[t], "scatter", "endRetrieve", "idle"}
        BY <2>2, RetrieveMoves DEF Reading, Ending
      <3>2. wpc'[t] # "gather"
        BY <3>1 DEF Phases, CopyingWorkerHasNoHandler
      <3> QED BY <3>1, <3>2 DEF Copied, Reading, Ending
    <2> QED BY <2>1, <2>2
  <1>4. SlotsReadableAreWritten'
    BY <1>1 DEF Writes, SlotsReadableAreWritten
  <1> QED BY <1>2, <1>3, <1>4 DEF Writes

\* Eviction takes nothing that is being written.
LEMMA BackgroundWrites ==
  ASSUME TypeOK, ReservationsExclusive, Writes, Background
  PROVE  Writes'
  <1>1. /\ UNCHANGED <<pendingWrites, key, slots, acc, hpc, wpc>>
    BY BackgroundMoves DEF pendingVars, workerVars, handlerVars
  <1>2. ASSUME \A u \in Task : \A o \in HandlerClaim(u) \cup Entry(pendingWrites, u) :
                  writer'[o] = writer[o] /\ (o \in written => o \in written')
        PROVE  \A u \in Task : Copied(u)'
    <2> SUFFICES ASSUME NEW u \in Task PROVE Copied(u)'
      OBVIOUS
    <2>1. Entry(pendingWrites, u)' = Entry(pendingWrites, u)
      BY <1>1 DEF Entry
    <2> QED BY <1>1, <1>2, <2>1, CopiedStays DEF Writes
  <1>3. ASSUME NEW o \in ObjectKey, Evict(o) PROVE Writes'
    <2>1. /\ obj[o] = "readable" /\ written' = written \ {o}
          /\ obj' = [p \in ObjectKey |-> IF p \in {o} THEN "absent" ELSE obj[p]]
          /\ unfilled' = unfilled \ {o} /\ writer' = writer
      BY <1>3 DEF Evict, Unlocked, Drop
    <2>2. ASSUME NEW u \in Task, NEW p \in HandlerClaim(u) \cup Entry(pendingWrites, u)
          PROVE  p # o /\ writer'[p] = writer[p] /\ (p \in written => p \in written')
      <3>1. p \in ObjectKey /\ obj[p] = "writing"
        BY <2>2, ClaimedIsWriting
      <3> QED BY <2>1, <3>1 DEF TypeOK
    <2>3. SlotsReadableAreWritten'
      BY <2>1 DEF Writes, SlotsReadableAreWritten
    <2> QED BY <1>2, <2>2, <2>3 DEF Writes
  <1>4. ASSUME \/ \E i \in Instance : Register(i) \/ Touch(i)
               \/ UNCHANGED vars
        PROVE  Writes'
    <2>1. UNCHANGED <<obj, writer, written, unfilled>>
      BY <1>4 DEF Register, Touch, vars, storageVars
    <2> QED BY <1>2, <2>1 DEF Writes, SlotsReadableAreWritten
  <1> QED BY <1>3, <1>4 DEF Background

\* Every step keeps it.
LEMMA NextWrites ==
  ASSUME MaxReleases = 0, IInv, OwnCopies, SteadyState, KeysApart, Writes, [Next]_vars
  PROVE  Writes'
  <1>1. TypeOK /\ Phases /\ ReservationsExclusive
    BY DEF IInv, Phases
  <1>2. ASSUME NEW t \in Task, Handler(t) PROVE Writes'
    BY <1>1, <1>2, ReserveWrites, GiveBackWrites, RecordWrites, PopWrites, PublishWrites,
       ReadingWrites DEF Handler, RetrieveHandler
  <1> QED BY <1>1, <1>2, WorkerWrites, BackgroundWrites, SteadyNext DEF SteadyState
-----------------------------------------------------------------------------
(* What a worker copies out of.                                            *)

\* While a worker copies out of its slots they are in the entry under its key,
\* and nothing that is read-locked leaves the storage.
Reads ==
    /\ \A t \in Task : wpc[t] = "scatter" => slots[t] = Entry(pendingReads, t)
    /\ \A o \in ObjectKey : readers[o] > 0 => obj[o] = "readable"

\* A step that leaves the workers that copy alone, and their entries, and takes
\* read locks on what can be read only.
LEMMA ReadsStay ==
  ASSUME TypeOK, Reads, NEW t \in Task, OthersStay(t),
         wpc'[t] = "scatter" => slots'[t] = Entry(pendingReads, t)',
         \A u \in Task \ {t} :
            wpc[u] = "scatter" => Entry(pendingReads, u)' = Entry(pendingReads, u),
         \A o \in ObjectKey : readers'[o] > 0 => obj'[o] = "readable"
  PROVE  Reads'
  <1>1. ASSUME NEW u \in Task, u # t, wpc'[u] = "scatter"
        PROVE  slots'[u] = Entry(pendingReads, u)'
    BY <1>1 DEF OthersStay, Reads
  <1> QED BY <1>1 DEF Reads

\* A lookup locks what can be read, and a worker that begins to copy has been
\* answered.
LEMMA WorkerReads ==
  ASSUME TypeOK, Reads, NEW t \in Task, Worker(t)
  PROVE  Reads'
  <1>1. OthersStay(t) /\ UNCHANGED <<pendingReads, obj>>
    BY WorkerMoves DEF pendingVars
  <1>2. wpc'[t] # "scatter"
    BY DEF Worker, SubmitStore, SubmitRetrieve, Gather, GatherFails, Scatter, RetrieveRaises,
       SendCommitRetrieve, Timeout, TypeOK
  <1>3. \A u \in Task \ {t} : Entry(pendingReads, u)' = Entry(pendingReads, u)
    BY <1>1 DEF OthersStay, Entry
  <1>4. ASSUME NEW o \in ObjectKey, readers'[o] > 0 PROVE obj'[o] = "readable"
    <2>1. ASSUME NEW k \in Key, SubmitRetrieve(t, k) PROVE obj[o] = "readable"
      BY <1>4, <2>1 DEF SubmitRetrieve, LockPrefetched, Reads
    <2>2. CASE UNCHANGED readers
      BY <1>1, <1>4, <2>2 DEF Reads
    <2>3. UNCHANGED readers \/ \E k \in Key : SubmitRetrieve(t, k)
      BY DEF Worker, SubmitStore, Gather, GatherFails, Scatter, RetrieveRaises,
         SendCommitRetrieve, Timeout, storageVars
    <2> QED BY <1>1, <2>1, <2>2, <2>3
  <1> QED BY <1>1, <1>2, <1>3, <1>4, ReadsStay

\* A store takes what is absent, on which there is no read lock.
LEMMA StoreReads ==
  ASSUME TypeOK, Phases, Reads, NEW t \in Task, StoreHandler(t)
  PROVE  Reads'
  <1>1. /\ OthersStay(t) /\ UNCHANGED <<pendingReads, readers, key>>
        /\ hpc[t] # "none" /\ wpc'[t] \in {wpc[t], "idle", "gather"}
    BY StoreMoves DEF Phases, Storing
  <1>2. wpc'[t] # "scatter"
    BY <1>1 DEF Phases, CopyingWorkerHasNoHandler
  <1>3. \A u \in Task : Entry(pendingReads, u)' = Entry(pendingReads, u)
    BY <1>1 DEF Entry
  <1>4. \A o \in ObjectKey : obj[o] = "readable" => obj'[o] = "readable"
    <2>1. CASE ReserveGroup(t) \/ ReserveGroupRaises(t)
      <3>1. PICK granted, rest \in SUBSET ObjectKey : Reserves(t, granted, rest)
        BY <2>1, ReserveStep
      <3> QED BY <3>1 DEF Reserves, Reserve
    <2>2. CASE ~(ReserveGroup(t) \/ ReserveGroupRaises(t))
      BY <2>2 DEF StoreHandler, FinishUnused, AbandonPrepare, GiveBackUnused, RecordPendingWrite,
         PopPendingWrite, PublishStore, FinishWrite, storageVars
    <2> QED BY <2>1, <2>2
  <1>5. \A o \in ObjectKey : readers'[o] > 0 => obj'[o] = "readable"
    BY <1>1, <1>4 DEF Reads
  <1> QED BY <1>1, <1>2, <1>3, <1>5, ReadsStay

\* A retrieve that records or pops its entry leaves those of the other retrieves
\* that run alone.
LEMMA RetrieveReads ==
  ASSUME TypeOK, Phases, SteadyState, KeysApart, Reads, NEW t \in Task, RetrieveHandler(t)
  PROVE  Reads'
  <1>1. /\ OthersStay(t) /\ UNCHANGED <<obj, key>>
        /\ hpc[t] \in Reading \cup Ending /\ hpc[t] # "none"
    BY RetrieveMoves DEF Reading, Ending
  <1>2. wpc[t] # "scatter"
    BY <1>1 DEF Phases, CopyingWorkerHasNoHandler
  <1>3. ASSUME NEW o \in ObjectKey, readers'[o] > 0 PROVE obj'[o] = "readable"
    <2>1. readers[o] \in Nat
      BY DEF TypeOK
    <2>2. UNCHANGED readers \/ \E keys : FinishReadPrefetched(keys)
      BY DEF RetrieveHandler, ReadGroup, ReadGroupRaises, RecordPendingRead, PopPendingRead,
         UnlockRetrieve, storageVars
    <2>3. readers[o] > 0
      BY <1>3, <2>1, <2>2 DEF FinishReadPrefetched
    <2> QED BY <1>1, <2>3 DEF Reads
  <1>4. wpc'[t] = "scatter" => slots'[t] = Entry(pendingReads, t)'
    <2>1. CASE RecordPendingRead(t)
      <3>1. InstanceOf[t] \in Instance /\ key[t] \in Key
        BY ConstantsAssumption DEF TypeOK
      <3>2. Entry(pendingReads, t)' = acc[t]
        BY <1>1, <2>1, <3>1 DEF RecordPendingRead, Entry, TypeOK
      <3>3. wpc'[t] = "scatter" => slots'[t] = acc[t]
        BY <1>2, <2>1 DEF RecordPendingRead, Reply, GiveSlots, TypeOK
      <3> QED BY <3>2, <3>3
    <2>2. CASE ReadGroup(t)
      <3>1. wpc' = wpc \/ Reply(t, "prepareRetrieve", "endRetrieve")
        BY <2>2 DEF ReadGroup
      <3> QED BY <1>2, <3>1 DEF Reply, TypeOK
    <2>3. CASE ReadGroupRaises(t) \/ PopPendingRead(t) \/ UnlockRetrieve(t)
      BY <1>2, <2>3 DEF ReadGroupRaises, PopPendingRead, UnlockRetrieve, Reply, workerVars, TypeOK
    <2> QED BY <2>1, <2>2, <2>3 DEF RetrieveHandler
  <1>5. ASSUME NEW u \in Task, u # t, wpc[u] = "scatter"
        PROVE  Entry(pendingReads, u)' = Entry(pendingReads, u)
    <2>1. u \in RetrieveTask /\ t \in RetrieveTask /\ Busy(u) /\ Busy(t)
      BY <1>1, <1>5 DEF SteadyState, AllKinds, Kinds, RetrievingWorker, Busy
    <2>2. ~(InstanceOf[u] = InstanceOf[t] /\ key[u] = key[t])
      BY <1>5, <2>1 DEF KeysApart
    <2>3. \A i \in Instance, k \in Key :
             ~(i = InstanceOf[t] /\ k = key[t]) => pendingReads'[i][k] = pendingReads[i][k]
      <3> DEFINE i0 == InstanceOf[t]
                 k0 == key[t]
      <3>1. i0 \in Instance /\ k0 \in Key
        BY ConstantsAssumption DEF TypeOK
      <3>2. \/ UNCHANGED pendingReads
            \/ \E entry : pendingReads' = [pendingReads EXCEPT ![i0] = [@ EXCEPT ![k0] = entry]]
        BY DEF RetrieveHandler, ReadGroup, ReadGroupRaises, RecordPendingRead, PopPendingRead,
           UnlockRetrieve, pendingVars
      <3> HIDE DEF i0, k0
      <3>3. \A i \in Instance, k \in Key :
               ~(i = i0 /\ k = k0) => pendingReads'[i][k] = pendingReads[i][k]
        BY <3>1, <3>2 DEF TypeOK
      <3> QED BY <3>3 DEF i0, k0
    <2>4. InstanceOf[u] \in Instance /\ key[u] \in Key
      BY ConstantsAssumption DEF TypeOK
    <2> QED BY <1>1, <2>2, <2>3, <2>4 DEF Entry
  <1> QED BY <1>1, <1>3, <1>4, <1>5, ReadsStay

\* Every step keeps it.
LEMMA NextReads ==
  ASSUME MaxReleases = 0, IInv, SteadyState, KeysApart, Reads, [Next]_vars
  PROVE  Reads'
  <1>1. TypeOK /\ Phases /\ Unreleased /\ Registered
    BY DEF IInv, Phases, SteadyState
  <1>2. ASSUME NEW t \in Task, Resolve(t) PROVE Reads'
    <2>1. /\ OthersStay(t) /\ UNCHANGED <<pendingReads, readers, obj, wpc, slots, key>>
      BY <1>1, <1>2, HandlerMoves, ResolveFinds DEF Handler, Phases, pendingVars, storageVars
    <2> QED BY <2>1 DEF Reads, Entry
  <1>3. CASE Background
    <2>1. UNCHANGED <<pendingReads, readers, key, slots, wpc>>
      BY <1>3, BackgroundMoves DEF pendingVars, workerVars
    <2>2. \A o \in ObjectKey : readers[o] > 0 => obj'[o] = obj[o]
      BY <1>3 DEF Background, Register, Touch, Evict, Unlocked, Drop, vars, storageVars, TypeOK, IInv
    <2> QED BY <2>1, <2>2 DEF Reads, Entry
  <1> QED BY <1>1, <1>2, <1>3, WorkerReads, StoreReads, RetrieveReads, SteadyNext
          DEF Handler, StoreHandler, RetrieveHandler
-----------------------------------------------------------------------------
(* The theorems.  Each is about behaviours in which the operations of one  *)
(* kind, instance and key are apart, and in which no instance is released: *)
(* a release publishes what its worker is still writing.                   *)

\* The inductive invariant of the writing side ...
SteadyWrites == IInv /\ OwnCopies /\ SteadyState /\ Writes

\* ... and of both, with the account of the read locks.
Steady == SteadyWrites /\ Reads /\ LockInv

\* The server starts with nothing locked and nothing written.
LEMMA InitSteady == Init => Steady
  <1> SUFFICES ASSUME Init PROVE Steady
    OBVIOUS
  <1>1. IInv
    BY InitIInv
  <1>2. OwnCopies
    BY DEF Init, OwnCopies, OwnCopied
  <1>3. \A t \in Task : hpc[t] = "none" /\ wpc[t] = "idle"
    BY DEF Init
  <1>4. SteadyState
    <2>1. Unreleased
      BY DEF Init, Unreleased
    <2>2. Registered
      BY <1>3 DEF Init, Registered, Busy
    <2>3. AllKinds
      BY <1>3 DEF AllKinds, Kinds, Storing, Reading, Ending, StoringWorker, RetrievingWorker
    <2> QED BY <2>1, <2>2, <2>3 DEF SteadyState
  <1>5. Writes
    <2>1. SlotsReadableAreWritten
      BY DEF Init, SlotsReadableAreWritten
    <2> QED BY <1>3, <2>1 DEF Writes, Copied
  <1>6. Reads
    BY <1>3 DEF Init, Reads
  <1> QED BY <1>1, <1>2, <1>4, <1>5, <1>6, InitLocks DEF Steady, SteadyWrites

\* Every step keeps the writing side.
LEMMA NextSteadyWrites ==
  ASSUME MaxReleases = 0
  PROVE  SteadyWrites /\ KeysApart /\ [Next]_vars => SteadyWrites'
  BY NextIInv, NextOwn, NextSteady, NextWrites DEF SteadyWrites, IInv, Phases

\* Every step keeps both.
LEMMA NextSteadyBoth ==
  ASSUME MaxReleases = 0
  PROVE  Steady /\ KeysApart /\ [Next]_vars => Steady'
  BY NextSteadyWrites, NextReads, NextLocks DEF Steady, SteadyWrites

\* No slot that a worker was handed can be read before the worker has filled it,
\* whichever operations time out or fail: what a lookup can hit has been written,
\* but for what prepare_store itself published without a slot, for want of a tensor
\* or on its way out of an exception.
THEOREM ReadableSlotsAreWritten ==
  ASSUME MaxReleases = 0
  PROVE  Spec /\ []KeysApart => []SlotsReadableAreWritten
  <1>1. Init => SteadyWrites
    BY InitSteady DEF Steady
  <1>2. SteadyWrites /\ KeysApart /\ [Next]_vars => SteadyWrites'
    BY NextSteadyWrites
  <1>3. SteadyWrites => SlotsReadableAreWritten
    BY DEF SteadyWrites, Writes
  <1> QED BY <1>1, <1>2, <1>3, PTL DEF Spec

\* While a worker copies into its slots they are write-locked, and its own.
THEOREM GathersHoldTheirSlots ==
  ASSUME MaxReleases = 0
  PROVE  Spec /\ []KeysApart => []GatherHoldsSlots
  <1>1. Init => SteadyWrites
    BY InitSteady DEF Steady
  <1>2. SteadyWrites /\ KeysApart /\ [Next]_vars => SteadyWrites'
    BY NextSteadyWrites
  <1>3. SteadyWrites => GatherHoldsSlots
    <2> SUFFICES ASSUME SteadyWrites, NEW t \in Task, wpc[t] = "gather", NEW o \in slots[t]
                 PROVE  obj[o] = "writing" /\ writer[o] = t
      BY DEF GatherHoldsSlots
    <2>1. o \in Entry(pendingWrites, t) /\ writer[o] = t
      BY DEF SteadyWrites, Writes, Copied
    <2>2. TypeOK /\ ReservationsExclusive
      BY DEF SteadyWrites, IInv
    <2> QED BY <2>1, <2>2, ClaimedIsWriting
  <1> QED BY <1>1, <1>2, <1>3, PTL DEF Spec

\* While a worker copies out of its slots they are read-locked, so that nothing
\* evicts them, and what it copies was written, or never had a slot.
THEOREM ScattersHoldTheirSlots ==
  ASSUME MaxReleases = 0
  PROVE  Spec /\ []KeysApart => []ScatterHoldsSlots
  <1>1. Steady /\ KeysApart /\ [Next]_vars => Steady'
    BY NextSteadyBoth
  <1>2. Steady => ScatterHoldsSlots
    <2> SUFFICES ASSUME Steady, NEW t \in Task, wpc[t] = "scatter", NEW o \in slots[t]
                 PROVE  /\ obj[o] = "readable" /\ readers[o] > 0
                        /\ o \in written \/ o \in unfilled
      BY DEF ScatterHoldsSlots
    <2>1. TypeOK /\ InstanceOf[t] \in Instance /\ key[t] \in Key
      BY ConstantsAssumption DEF Steady, SteadyWrites, IInv, TypeOK
    <2>2. o \in ObjectKey /\ o \in pendingReads[InstanceOf[t]][key[t]]
      BY <2>1 DEF Steady, Reads, Entry, TypeOK
    <2>3. readers[o] > 0
      BY <2>1, <2>2, HeldIsLocked DEF Steady, LockInv
    <2>4. obj[o] = "readable"
      BY <2>2, <2>3 DEF Steady, Reads
    <2> QED BY <2>2, <2>3, <2>4 DEF Steady, SteadyWrites, Writes, SlotsReadableAreWritten
  <1> QED BY InitSteady, <1>1, <1>2, PTL DEF Spec

-----------------------------------------------------------------------------
(* The refinement of ObjectCache.                                          *)

Cached == {o \in ObjectKey : obj[o] = "readable"} \ unfilled
CopiesFrom == [t \in RetrieveTask |-> IF wpc[t] = "scatter" THEN slots[t] \ unfilled ELSE {}]

\* The properties above, before and after a step, are what the cache needs.
Guarded == TypeOK /\ SlotsReadableAreWritten /\ GatherHoldsSlots /\ ScatterHoldsSlots

\* The variables of the cache, by the names they have here.
LEMMA CacheVars ==
  /\ Cache!vars = <<Cached, written, CopiesFrom>>
  /\ Cache!vars' = <<Cached', written', CopiesFrom'>>
  BY DEF Cache!vars, Cached, CopiesFrom

\* Objects that are in the slots of a worker that copies out of them are cached.
LEMMA ReadersAreCached ==
  /\ Guarded => \A t \in RetrieveTask : CopiesFrom[t] \subseteq Cached
  /\ Guarded' => \A t \in RetrieveTask : CopiesFrom'[t] \subseteq Cached'
  BY ConstantsAssumption DEF Guarded, ScatterHoldsSlots, TypeOK, CopiesFrom, Cached

\* A step that moves nothing but the workers of one task.
LEMMA ReadsAlone ==
  ASSUME NEW t \in Task, OthersStay(t), UNCHANGED unfilled
  PROVE  \A u \in RetrieveTask \ {t} : CopiesFrom'[u] = CopiesFrom[u]
  BY ConstantsAssumption DEF OthersStay, CopiesFrom

\* A reader begins, ends, or goes on as it was.
LEMMA ReadingRefines ==
  ASSUME Guarded, Guarded', NEW t \in Task, OthersStay(t), UNCHANGED <<obj, written, unfilled>>,
         \/ wpc[t] # "scatter"
         \/ wpc'[t] # "scatter"
         \/ wpc'[t] = wpc[t] /\ slots'[t] = slots[t]
  PROVE  Cache!Next \/ UNCHANGED Cache!vars
  <1>1. Cached' = Cached /\ written' = written
    BY DEF Cached
  <1>2. CASE t \notin RetrieveTask \/ CopiesFrom'[t] = CopiesFrom[t]
    <2>1. \A u \in RetrieveTask : CopiesFrom'[u] = CopiesFrom[u]
      BY <1>2, ReadsAlone
    <2>2. CopiesFrom' = CopiesFrom
      BY <2>1 DEF CopiesFrom
    <2> QED BY <1>1, <2>2, CacheVars
  <1>3. CASE t \in RetrieveTask /\ CopiesFrom[t] = {}
    <2>1. CopiesFrom' = [CopiesFrom EXCEPT ![t] = @ \cup CopiesFrom'[t]]
      BY <1>3, ReadsAlone DEF CopiesFrom
    <2>2. CopiesFrom'[t] \in SUBSET Cached
      BY <1>1, <1>3, ReadersAreCached
    <2>3. Cache!BeginRead(t)
      BY <1>1, <2>1, <2>2 DEF Cache!BeginRead, Cached, CopiesFrom
    <2> QED BY <1>3, <2>3 DEF Cache!Next
  <1>4. CASE t \in RetrieveTask /\ CopiesFrom'[t] = {}
    <2>1. CopiesFrom' = [CopiesFrom EXCEPT ![t] = {}]
      BY <1>4, ReadsAlone DEF CopiesFrom
    <2>2. {} \in SUBSET CopiesFrom[t]
      OBVIOUS
    <2>3. Cache!EndRead(t)
      BY <1>1, <2>1, <2>2 DEF Cache!EndRead, Cached, CopiesFrom
    <2> QED BY <1>4, <2>3 DEF Cache!Next
  <1> QED BY <1>2, <1>3, <1>4 DEF CopiesFrom

\* A step that leaves everybody's copies out of slots as they are.
LEMMA StorageRefines ==
  ASSUME Guarded, Guarded', CopiesFrom' = CopiesFrom,
         \/ UNCHANGED <<Cached, written>>
         \/ /\ UNCHANGED Cached
            /\ \E S \in SUBSET (ObjectKey \ Cached) : written' = written \cup S
         \/ Cached \subseteq Cached' /\ UNCHANGED written
  PROVE  Cache!Next \/ UNCHANGED Cache!vars
  <1>1. CASE UNCHANGED <<Cached, written>>
    BY <1>1, CacheVars
  <1>2. CASE /\ UNCHANGED Cached
             /\ \E S \in SUBSET (ObjectKey \ Cached) : written' = written \cup S
    <2>1. Cache!Fill
      BY <1>2 DEF Cache!Fill, Cached, CopiesFrom
    <2> QED BY <2>1 DEF Cache!Next
  <1>3. CASE Cached \subseteq Cached' /\ UNCHANGED written
    <2>1. Cached' = Cached \cup Cached'
      BY <1>3
    <2>2. Cached' \in SUBSET written
      BY <1>3 DEF Guarded, SlotsReadableAreWritten, Cached
    <2>3. Cache!Publish
      BY <1>3, <2>1, <2>2 DEF Cache!Publish, Cached, CopiesFrom
    <2> QED BY <2>3 DEF Cache!Next
  <1> QED BY <1>1, <1>2, <1>3

\* An eviction takes what nobody reads.
LEMMA EvictRefines ==
  ASSUME Guarded, NEW o \in ObjectKey, Evict(o)
  PROVE  Cache!Next
  <1>1. /\ readers[o] = 0 /\ written' = written \ {o} /\ unfilled' = unfilled \ {o}
        /\ obj' = [p \in ObjectKey |-> IF p \in {o} THEN "absent" ELSE obj[p]]
        /\ UNCHANGED <<wpc, slots>>
    BY DEF Evict, Unlocked, Drop, workerVars
  <1>2. Cached' = Cached \ {o}
    BY <1>1 DEF Cached
  <1>3. \A t \in RetrieveTask : wpc[t] = "scatter" => o \notin slots[t]
    BY <1>1, ConstantsAssumption DEF Guarded, ScatterHoldsSlots
  <1>4. \A t \in RetrieveTask : o \notin CopiesFrom[t]
    BY <1>3 DEF CopiesFrom
  <1>5. CopiesFrom' = CopiesFrom
    <2>1. \A t \in RetrieveTask : CopiesFrom'[t] = CopiesFrom[t]
      BY <1>1, <1>3 DEF CopiesFrom
    <2> QED BY <2>1 DEF CopiesFrom
  <1>6. Cache!Evict(o)
    BY <1>1, <1>2, <1>4, <1>5 DEF Cache!Evict, Cached, CopiesFrom
  <1> QED BY <1>6 DEF Cache!Next

\* A task that does not copy out of slots, neither before nor after a step.
LEMMA NobodyScatters ==
  ASSUME NEW t \in Task, OthersStay(t), wpc[t] # "scatter", wpc'[t] # "scatter",
         UNCHANGED unfilled
  PROVE  CopiesFrom' = CopiesFrom
  BY ConstantsAssumption DEF OthersStay, CopiesFrom

\* A worker fills the slots it was given, or reads those it was given.
LEMMA WorkerRefines ==
  ASSUME Guarded, Guarded', NEW t \in Task, Worker(t)
  PROVE  Cache!Next \/ UNCHANGED Cache!vars
  <1>1. OthersStay(t) /\ UNCHANGED <<obj, unfilled>>
    BY WorkerMoves DEF Guarded
  <1>2. CASE Gather(t)
    <2>1. /\ wpc[t] = "gather" /\ wpc' = [wpc EXCEPT ![t] = "commitStore"]
          /\ written' = written \cup {o \in slots[t] : writer[o] = t}
      BY <1>2 DEF Gather
    <2>2. wpc'[t] = "commitStore"
      BY <2>1 DEF Guarded, TypeOK
    <2>3. CopiesFrom' = CopiesFrom
      BY <1>1, <2>1, <2>2, NobodyScatters
    <2>4. {o \in slots[t] : writer[o] = t} \in SUBSET (ObjectKey \ Cached)
      BY <2>1 DEF Guarded, TypeOK, GatherHoldsSlots, Cached
    <2>5. UNCHANGED Cached
      BY <1>1 DEF Cached
    <2>6. \E S \in SUBSET (ObjectKey \ Cached) : written' = written \cup S
      BY <2>1, <2>4
    <2> QED BY <2>3, <2>5, <2>6, StorageRefines
  <1>3. CASE ~Gather(t)
    <2>1. UNCHANGED written
      BY <1>3 DEF Worker, SubmitStore, SubmitRetrieve, GatherFails, Scatter, RetrieveRaises,
         SendCommitRetrieve, Timeout, storageVars
    <2>2. wpc[t] # "scatter" \/ wpc'[t] # "scatter"
      BY <1>3 DEF Worker, SubmitStore, SubmitRetrieve, GatherFails, Scatter, RetrieveRaises,
         SendCommitRetrieve, Timeout, Guarded, TypeOK, Queued
    <2> QED BY <1>1, <2>1, <2>2, ReadingRefines
  <1> QED BY <1>2, <1>3

\* A store's handler reserves what is absent, and publishes what was filled, or
\* what got no slot.
LEMMA StoreRefines ==
  ASSUME IInv, Guarded, Guarded', NEW t \in Task, StoreHandler(t)
  PROVE  Cache!Next \/ UNCHANGED Cache!vars
  <1>0. TypeOK /\ UnusedIsHeld
    BY DEF IInv
  <1>1. /\ OthersStay(t) /\ UNCHANGED written
        /\ hpc[t] # "none" /\ wpc'[t] \in {wpc[t], "idle", "gather"}
    BY <1>0, StoreMoves DEF Storing
  <1>2. wpc[t] # "scatter" /\ wpc'[t] # "scatter"
    BY <1>1 DEF IInv, CopyingWorkerHasNoHandler
  <1>3. CASE ReserveGroup(t) \/ ReserveGroupRaises(t)
    <2>1. PICK granted, rest \in SUBSET ObjectKey : Reserves(t, granted, rest)
      BY <1>0, <1>3, ReserveStep
    <2>2. UNCHANGED <<Cached, unfilled>>
      BY <2>1 DEF Reserves, Reserve, Cached
    <2> QED BY <1>1, <1>2, <2>2, NobodyScatters, StorageRefines
  <1>4. CASE FinishUnused(t) \/ AbandonPrepare(t)
    <2>1. PICK dropped : GiveBackUnused(t, dropped)
      BY <1>4 DEF FinishUnused, AbandonPrepare
    <2>2. FinishWrite(unused[t]) /\ unfilled' = unfilled \cup unused[t] /\ UNCHANGED <<wpc, slots>>
      BY <2>1 DEF GiveBackUnused, workerVars
    <2>3. \A o \in unused[t] : o \in ObjectKey /\ obj[o] = "writing"
      <3>1. hpc[t] \in {"finishUnused", "abandon"}
        BY <1>4 DEF FinishUnused, AbandonPrepare
      <3> QED BY <3>1 DEF IInv, UnusedIsHeld, ReservationsExclusive, ClaimsLocked, HandlerClaim,
              WriteLocked
    <2>4. UNCHANGED Cached
      BY <2>2, <2>3 DEF FinishWrite, Cached
    <2>5. CopiesFrom' = CopiesFrom
      <3>1. \A u \in RetrieveTask : wpc[u] = "scatter" => slots[u] \cap unused[t] = {}
        BY <2>3, ConstantsAssumption DEF Guarded, ScatterHoldsSlots
      <3>2. \A u \in RetrieveTask : CopiesFrom'[u] = CopiesFrom[u]
        BY <2>2, <3>1 DEF CopiesFrom
      <3> QED BY <3>2 DEF CopiesFrom
    <2> QED BY <1>1, <2>4, <2>5, StorageRefines
  <1>5. CASE PublishStore(t)
    <2>1. FinishWrite(acc[t]) /\ UNCHANGED unfilled
      BY <1>5 DEF PublishStore
    <2>2. Cached \subseteq Cached'
      BY <2>1 DEF FinishWrite, Cached
    <2> QED BY <1>1, <1>2, <2>1, <2>2, NobodyScatters, StorageRefines
  <1>6. CASE RecordPendingWrite(t) \/ PopPendingWrite(t)
    <2>1. UNCHANGED <<obj, unfilled>>
      BY <1>6 DEF RecordPendingWrite, PopPendingWrite, storageVars
    <2> QED BY <1>1, <1>2, <2>1, ReadingRefines
  <1> QED BY <1>3, <1>4, <1>5, <1>6 DEF StoreHandler

\* A retrieve's handler gives the slots of cached objects to a worker that waits
\* for them.
LEMMA HandlerRefines ==
  ASSUME IInv, Registered, Guarded, Guarded', NEW t \in Task, Handler(t)
  PROVE  Cache!Next \/ UNCHANGED Cache!vars
  <1>0. TypeOK /\ UnusedIsHeld
    BY DEF IInv
  <1>1. OthersStay(t) /\ hpc[t] # "none" /\ UNCHANGED written
    BY <1>0, HandlerMoves
  <1>2. wpc[t] # "scatter"
    BY <1>1 DEF IInv, CopyingWorkerHasNoHandler
  <1>3. CASE ~StoreHandler(t)
    <2>1. UNCHANGED <<obj, unfilled>>
      BY <1>0, <1>3, RetrieveMoves DEF Handler, StoreHandler, RetrieveHandler, Resolve
    <2> QED BY <1>1, <1>2, <2>1, ReadingRefines
  <1> QED BY <1>3, StoreRefines

\* Every step is a step of the cache or changes nothing of it.
LEMMA StepRefines ==
  ASSUME MaxReleases = 0
  PROVE  SteadyWrites /\ Guarded /\ Guarded' /\ [Next]_vars => [Cache!Next]_Cache!vars
  <1> SUFFICES ASSUME SteadyWrites, Guarded, Guarded', [Next]_vars
               PROVE  Cache!Next \/ UNCHANGED Cache!vars
    OBVIOUS
  <1>1. IInv /\ TypeOK /\ Unreleased /\ Registered
    BY DEF SteadyWrites, SteadyState, IInv
  <1>2. ASSUME NEW t \in Task, Worker(t) \/ Handler(t)
        PROVE  Cache!Next \/ UNCHANGED Cache!vars
    BY <1>1, <1>2, WorkerRefines, HandlerRefines
  <1>3. CASE Background
    <2>1. ASSUME \/ \E i \in Instance : Register(i) \/ Touch(i)
                 \/ UNCHANGED vars
          PROVE  UNCHANGED <<Cached, written, CopiesFrom>>
      BY <2>1 DEF Register, Touch, vars, storageVars, workerVars, Cached, CopiesFrom
    <2> QED BY <1>3, <2>1, StorageRefines, EvictRefines DEF Background
  <1> QED BY <1>1, <1>2, <1>3, SteadyNext

\* The shared-memory server and its workers implement ObjectCache, under the
\* hypotheses of the theorems above: a worker copies out of objects that one
\* store filled in full, that nobody fills meanwhile and that stay until the
\* worker is through, whatever times out, fails or is evicted (CacheSpec).
THEOREM ImplementsCache ==
  ASSUME MaxReleases = 0
  PROVE  Spec /\ []KeysApart => CacheSpec
  <1>1. Init => Cache!Init
    <2> SUFFICES ASSUME Init PROVE Cache!Init
      OBVIOUS
    <2>1. Cached = {} /\ written = {} /\ CopiesFrom = [t \in RetrieveTask |-> {}]
      BY ConstantsAssumption DEF Init, Cached, CopiesFrom
    <2> QED BY <2>1 DEF Cache!Init, Cached, CopiesFrom
  <1>2. Init => SteadyWrites
    BY InitSteady DEF Steady
  <1>3. SteadyWrites /\ KeysApart /\ [Next]_vars => SteadyWrites'
    BY NextSteadyWrites
  <1>4. SteadyWrites => TypeOK
    BY DEF SteadyWrites, IInv
  <1>5. SteadyWrites /\ Guarded /\ Guarded' /\ [Next]_vars => [Cache!Next]_Cache!vars
    BY StepRefines
  <1>6. TypeOK /\ SlotsReadableAreWritten /\ GatherHoldsSlots /\ ScatterHoldsSlots => Guarded
    BY DEF Guarded
  <1>7. Spec /\ []KeysApart => []SteadyWrites
    BY <1>2, <1>3, PTL DEF Spec
  <1>8. Spec /\ []KeysApart => []Guarded
    BY <1>4, <1>6, <1>7, ReadableSlotsAreWritten, GathersHoldTheirSlots, ScattersHoldTheirSlots, PTL
  <1> QED BY <1>1, <1>5, <1>7, <1>8, PTL DEF Spec, CacheSpec, Cache!Spec
=============================================================================
