---------------------- MODULE EngineDrivenServerProofs ----------------------
(***************************************************************************)
(* Proofs about EngineDrivenServer for every set of instances, tasks, keys *)
(* and objects: type correctness, that a write reservation is never in two *)
(* hands, that a commit publishes none of its task's half-way, and where   *)
(* every read lock is.                                                     *)
(***************************************************************************)
EXTENDS EngineDrivenServer, FiniteSetTheorems, TLAPS

\* The group that follows one that is not the last is a group.
LEMMA NextGroupInRange ==
  /\ 1 \in Group
  /\ \A g \in Group : g < NumGroups => g + 1 \in Group
  BY ConstantsAssumption DEF Group

\* The loop over the groups keeps the program counter and the group in range.
LEMMA GroupLoopTypeOK ==
  ASSUME NEW t \in Task, TypeOK, NEW next \in HandlerPC, NEW end \in HandlerPC,
         NextGroup(t, next, end)
  PROVE  hpc' \in [Task -> HandlerPC] /\ grp' \in [Task -> Group]
  <1>1. hpc \in [Task -> HandlerPC] /\ grp \in [Task -> Group]
    BY DEF TypeOK
  <1>2. grp[t] < NumGroups => grp[t] + 1 \in Group
    BY <1>1, NextGroupInRange
  <1> QED BY <1>1, <1>2, NextGroupInRange DEF NextGroup

\* Both ways through a reservation take absent objects, and leave those without
\* a slot to be given back.
Reserves(t, granted, rest) ==
    /\ \A o \in granted : obj[o] = "absent"
    /\ rest \subseteq granted
    /\ Reserve(t, granted, rest)
    /\ \/ NextGroup(t, "reserve", "record")
       \/ /\ UNCHANGED grp
          /\ \/ hpc' = [hpc EXCEPT ![t] = "finishUnused"]
             \/ hpc' = [hpc EXCEPT ![t] = "abandon"]

LEMMA ReserveStep ==
  ASSUME TypeOK, NEW t \in Task, ReserveGroup(t) \/ ReserveGroupRaises(t)
  PROVE  \E granted, rest \in SUBSET ObjectKey : Reserves(t, granted, rest)
  <1>1. ObjKeys[key[t]][grp[t]] \subseteq ObjectKey
    <2>1. key[t] \in Key /\ grp[t] \in Group
      BY DEF TypeOK
    <2>2. ObjKeys[key[t]] \in [Group -> SUBSET ObjectKey]
      BY <2>1, ConstantsAssumption
    <2> QED BY <2>1, <2>2
  <1>2. CASE ReserveGroup(t)
    <2>1. PICK granted \in SUBSET Reservable(ObjKeys[key[t]][grp[t]]) :
             /\ Reserve(t, granted, granted \cap NoTensor)
             /\ \/ NextGroup(t, "reserve", "record")
                \/ hpc' = [hpc EXCEPT ![t] = "finishUnused"] /\ UNCHANGED grp
      BY <1>2 DEF ReserveGroup
    <2>2. /\ granted \in SUBSET ObjectKey /\ granted \cap NoTensor \in SUBSET ObjectKey
          /\ \A o \in granted : obj[o] = "absent"
      BY <1>1 DEF Reservable
    <2>3. Reserves(t, granted, granted \cap NoTensor)
      BY <2>1, <2>2 DEF Reserves
    <2> QED BY <2>2, <2>3
  <1>3. CASE ReserveGroupRaises(t)
    <2>0. PICK granted \in SUBSET Reservable(ObjKeys[key[t]][grp[t]]) :
             \E rest \in SUBSET granted :
                Reserve(t, granted, rest) /\ hpc' = [hpc EXCEPT ![t] = "abandon"] /\ UNCHANGED grp
      BY <1>3 DEF ReserveGroupRaises
    <2>1. PICK rest \in SUBSET granted :
             Reserve(t, granted, rest) /\ hpc' = [hpc EXCEPT ![t] = "abandon"] /\ UNCHANGED grp
      BY <2>0
    <2>2. /\ granted \in SUBSET ObjectKey /\ rest \in SUBSET ObjectKey
          /\ \A o \in granted : obj[o] = "absent"
      BY <1>1 DEF Reservable
    <2>3. Reserves(t, granted, rest)
      BY <2>1, <2>2 DEF Reserves
    <2> QED BY <2>2, <2>3
  <1> QED BY <1>2, <1>3

\* Both ways out of the `finally` give back what is unused, and let go of that or
\* of everything.
LEMMA GiveBackStep ==
  ASSUME UnusedIsHeld, NEW t \in Task, FinishUnused(t) \/ AbandonPrepare(t)
  PROVE  /\ hpc[t] \in {"finishUnused", "abandon"}
         /\ \E dropped : /\ unused[t] \subseteq dropped /\ dropped \subseteq acc[t]
                         /\ GiveBackUnused(t, dropped)
                         /\ \/ NextGroup(t, "reserve", "record")
                            \/ /\ dropped = acc[t]
                               /\ hpc' = [hpc EXCEPT ![t] = "none"]
                               /\ grp' = [grp EXCEPT ![t] = 1]
  BY DEF FinishUnused, AbandonPrepare, UnusedIsHeld

\* The server starts, empty, within its types.
LEMMA InitTypeOK == Init => TypeOK
  BY ConstantsAssumption DEF Init, TypeOK, NoPending, Group, WorkerPC, HandlerPC

\* A worker step keeps the types.
LEMMA WorkerTypeOK ==
  ASSUME NEW t \in Task, TypeOK, Worker(t) PROVE TypeOK'
  <1> USE ConstantsAssumption DEF TypeOK, registryVars, pendingVars, storageVars,
          workerVars, handlerVars, releaseVars, Queued, WorkerPC, HandlerPC
  <1>1. ASSUME NEW k \in Key, SubmitStore(t, k) PROVE TypeOK'
    BY <1>1 DEF SubmitStore
  <1>2. ASSUME NEW k \in Key, SubmitRetrieve(t, k) PROVE TypeOK'
    BY <1>2 DEF SubmitRetrieve, LockPrefetched
  <1>3. CASE Gather(t)
    BY <1>3 DEF Gather
  <1>4. CASE GatherFails(t)
    BY <1>4 DEF GatherFails
  <1>5. CASE Scatter(t) \/ RetrieveRaises(t)
    BY <1>5 DEF Scatter, RetrieveRaises
  <1>6. CASE SendCommitRetrieve(t)
    BY <1>6 DEF SendCommitRetrieve
  <1>7. CASE Timeout(t)
    BY <1>7 DEF Timeout
  <1> QED BY <1>1, <1>2, <1>3, <1>4, <1>5, <1>6, <1>7 DEF Worker

\* The replies of the handlers put a worker where a worker can be.
LEMMA ReplyTypeOK ==
  ASSUME NEW t \in Task, TypeOK, NEW waiting, NEW next \in WorkerPC
  PROVE  /\ Reply(t, waiting, next) => wpc' \in [Task -> WorkerPC]
         /\ GiveSlots(t, waiting) => slots' \in [Task -> SUBSET ObjectKey]
  BY DEF TypeOK, Reply, GiveSlots

\* Replacing one pending entry keeps the type of a pending map.
LEMMA PendingTypeOK ==
  ASSUME NEW map \in [Instance -> [Key -> SUBSET ObjectKey]], NEW i \in Instance,
         NEW k \in Key, NEW keys \in SUBSET ObjectKey
  PROVE  [map EXCEPT ![i] = [@ EXCEPT ![k] = keys]]
            \in [Instance -> [Key -> SUBSET ObjectKey]]
  <1>1. [map[i] EXCEPT ![k] = keys] \in [Key -> SUBSET ObjectKey]
    OBVIOUS
  <1> QED BY <1>1

\* A handler step keeps the types.
LEMMA HandlerTypeOK ==
  ASSUME NEW t \in Task, TypeOK, Handler(t) PROVE TypeOK'
  <1> USE DEF TypeOK, registryVars, pendingVars, storageVars, workerVars,
          handlerVars, releaseVars
  <1>0. /\ InstanceOf[t] \in Instance /\ key[t] \in Key
        /\ acc[t] \in SUBSET ObjectKey
        /\ ObjKeys[key[t]][grp[t]] \in SUBSET ObjectKey
    <2>1. InstanceOf[t] \in Instance /\ key[t] \in Key /\ grp[t] \in Group
      BY ConstantsAssumption
    <2>2. ObjKeys[key[t]] \in [Group -> SUBSET ObjectKey]
      BY <2>1, ConstantsAssumption
    <2> QED BY <2>1, <2>2
  <1>a. /\ {"none", "reserve", "finishUnused", "abandon", "record", "pop", "publish",
             "read", "recordRead", "popRead", "unlock"} \subseteq HandlerPC
        /\ {"idle", "gather", "scatter", "endRetrieve"} \subseteq WorkerPC
    BY DEF HandlerPC, WorkerPC
  <1>b. ASSUME NEW keys, FinishReadPrefetched(keys)
        PROVE  readers' \in [ObjectKey -> Nat]
    BY <1>b DEF FinishReadPrefetched
  <1>c. ASSUME NEW keys, Leave(keys) PROVE left' \in [ObjectKey -> Nat]
    BY <1>c DEF Leave
  <1>1. CASE Resolve(t)
    <2>1. FirstStep[hpc[t]] \in HandlerPC
      BY <1>1, <1>a DEF Resolve, FirstStep, Queued
    <2>2. hpc' \in [Task -> HandlerPC] /\ silent' \subseteq Instance
      BY <1>1, <1>a, <2>1 DEF Resolve
    <2>3. left' \in [ObjectKey -> Nat]
      BY <1>1, <1>c DEF Resolve
    <2> QED BY <1>1, <2>2, <2>3 DEF Resolve
  <1>2. CASE ReserveGroup(t) \/ ReserveGroupRaises(t)
    <2>0. PICK granted, rest \in SUBSET ObjectKey : Reserves(t, granted, rest)
      BY <1>2, ReserveStep
    <2>1. /\ Reserve(t, granted, rest)
          /\ \/ NextGroup(t, "reserve", "record")
             \/ /\ UNCHANGED grp
                /\ \/ hpc' = [hpc EXCEPT ![t] = "finishUnused"]
                   \/ hpc' = [hpc EXCEPT ![t] = "abandon"]
      BY <2>0 DEF Reserves
    <2>2. /\ obj' \in [ObjectKey -> {"absent", "writing", "readable"}]
          /\ writer' \in [ObjectKey -> Task \cup {NoTask}]
          /\ unused' \in [Task -> SUBSET ObjectKey]
      BY <2>1 DEF Reserve
    <2>3. acc' \in [Task -> SUBSET ObjectKey]
      BY <2>1 DEF Reserve
    <2>4. hpc' \in [Task -> HandlerPC] /\ grp' \in [Task -> Group]
      BY <2>1, <1>a, GroupLoopTypeOK
    <2> QED BY <2>1, <2>2, <2>3, <2>4 DEF Reserve
  <1>b2. CASE FinishUnused(t) \/ AbandonPrepare(t)
    <2>1. PICK dropped :
             /\ GiveBackUnused(t, dropped)
             /\ \/ NextGroup(t, "reserve", "record")
                \/ hpc' = [hpc EXCEPT ![t] = "none"] /\ grp' = [grp EXCEPT ![t] = 1]
      BY <1>b2 DEF FinishUnused, AbandonPrepare
    <2>2. /\ obj' \in [ObjectKey -> {"absent", "writing", "readable"}]
          /\ writer' \in [ObjectKey -> Task \cup {NoTask}]
          /\ unused' \in [Task -> SUBSET ObjectKey] /\ unfilled' \subseteq ObjectKey
      BY <2>1 DEF GiveBackUnused, FinishWrite, Disown
    <2>3. acc' \in [Task -> SUBSET ObjectKey]
      BY <2>1 DEF GiveBackUnused
    <2>4. hpc' \in [Task -> HandlerPC] /\ grp' \in [Task -> Group]
      BY <2>1, <1>a, GroupLoopTypeOK, NextGroupInRange
    <2> QED BY <2>1, <2>2, <2>3, <2>4 DEF GiveBackUnused
  <1>3. CASE RecordPendingWrite(t)
    <2>1. pendingWrites' \in [Instance -> [Key -> SUBSET ObjectKey]]
      <3>1. [pendingWrites EXCEPT ![InstanceOf[t]] = [@ EXCEPT ![key[t]] = acc[t]]]
               \in [Instance -> [Key -> SUBSET ObjectKey]]
        BY <1>0, PendingTypeOK
      <3> QED BY <1>3, <3>1 DEF RecordPendingWrite
    <2>2. wpc' \in [Task -> WorkerPC] /\ slots' \in [Task -> SUBSET ObjectKey]
      BY <1>3, <1>a, ReplyTypeOK DEF RecordPendingWrite
    <2> QED BY <1>3, <1>a, <2>1, <2>2 DEF RecordPendingWrite
  <1>4. CASE PopPendingWrite(t)
    <2>1. pendingWrites' \in [Instance -> [Key -> SUBSET ObjectKey]]
      BY <1>0, <1>4, PendingTypeOK DEF PopPendingWrite
    <2>2. acc' \in [Task -> SUBSET ObjectKey]
      BY <1>0, <1>4 DEF PopPendingWrite
    <2>3. wpc' \in [Task -> WorkerPC] /\ hpc' \in [Task -> HandlerPC]
      <3>1. UNCHANGED wpc \/ Reply(t, "commitStore", "idle")
        BY <1>4 DEF PopPendingWrite
      <3>2. wpc' \in [Task -> WorkerPC]
        BY <1>a, <3>1, ReplyTypeOK
      <3>3. hpc' \in [Task -> HandlerPC]
        BY <1>4, <1>a DEF PopPendingWrite
      <3> QED BY <3>2, <3>3
    <2> QED BY <1>4, <2>1, <2>2, <2>3 DEF PopPendingWrite
  <1>5. CASE PublishStore(t)
    <2>1. wpc' \in [Task -> WorkerPC]
      BY <1>5, <1>a, ReplyTypeOK DEF PublishStore
    <2> QED BY <1>5, <1>a, <2>1 DEF PublishStore, FinishWrite, Disown
  <1>6. CASE ReadGroup(t)
    <2> DEFINE prefetched == {o \in ObjKeys[key[t]][grp[t]] :
                                 obj[o] = "readable" /\ readers[o] > 0}
    <2>1. prefetched \subseteq ObjectKey
      BY <1>0
    <2>2. \/ /\ acc' = [acc EXCEPT ![t] = acc[t] \cup prefetched]
             /\ NextGroup(t, "read", "recordRead")
             /\ UNCHANGED <<readers, left, wpc>>
          \/ /\ FinishReadPrefetched(acc[t] \cup prefetched)
             /\ Leave(Found(key[t]) \ (acc[t] \cup prefetched))
             /\ hpc' = [hpc EXCEPT ![t] = "none"]
             /\ acc' = [acc EXCEPT ![t] = {}]
             /\ grp' = [grp EXCEPT ![t] = 1]
             /\ Reply(t, "prepareRetrieve", "endRetrieve")
      BY <1>6 DEF ReadGroup, Prefetched
    <2>3. /\ readers' \in [ObjectKey -> Nat] /\ left' \in [ObjectKey -> Nat]
          /\ wpc' \in [Task -> WorkerPC]
      BY <2>2, <1>a, <1>b, <1>c, ReplyTypeOK
    <2>4. acc' \in [Task -> SUBSET ObjectKey]
      <3>1. acc[t] \cup prefetched \in SUBSET ObjectKey /\ {} \in SUBSET ObjectKey
        BY <2>1, <1>0
      <3>2. acc' = [acc EXCEPT ![t] = acc[t] \cup prefetched]
              \/ acc' = [acc EXCEPT ![t] = {}]
        BY <2>2
      <3> HIDE DEF prefetched
      <3> QED BY <3>1, <3>2
    <2>5. hpc' \in [Task -> HandlerPC] /\ grp' \in [Task -> Group]
      <3>1. CASE NextGroup(t, "read", "recordRead")
        BY <3>1, <1>a, GroupLoopTypeOK
      <3>2. CASE hpc' = [hpc EXCEPT ![t] = "none"] /\ grp' = [grp EXCEPT ![t] = 1]
        BY <3>2, <1>a, NextGroupInRange
      <3> HIDE DEF prefetched
      <3> QED BY <2>2, <3>1, <3>2
    <2> QED BY <1>6, <2>3, <2>4, <2>5 DEF ReadGroup
  <1>c6. CASE ReadGroupRaises(t)
    <2>1. left' \in [ObjectKey -> Nat]
      BY <1>c6, <1>c DEF ReadGroupRaises
    <2> QED BY <1>c6, <1>a, <2>1, NextGroupInRange DEF ReadGroupRaises
  <1>7. CASE RecordPendingRead(t)
    <2>1. pendingReads' \in [Instance -> [Key -> SUBSET ObjectKey]]
      BY <1>0, <1>7, PendingTypeOK DEF RecordPendingRead
    <2>2. wpc' \in [Task -> WorkerPC] /\ slots' \in [Task -> SUBSET ObjectKey]
      BY <1>7, <1>a, ReplyTypeOK DEF RecordPendingRead
    <2>3. left' \in [ObjectKey -> Nat]
      BY <1>7, <1>c DEF RecordPendingRead
    <2> QED BY <1>7, <1>a, <2>1, <2>2, <2>3 DEF RecordPendingRead
  <1>8. CASE PopPendingRead(t)
    <2>1. pendingReads' \in [Instance -> [Key -> SUBSET ObjectKey]]
      BY <1>0, <1>8, PendingTypeOK DEF PopPendingRead
    <2> QED BY <1>0, <1>8, <1>a, <2>1 DEF PopPendingRead
  <1>9. CASE UnlockRetrieve(t)
    <2>1. readers' \in [ObjectKey -> Nat] /\ wpc' \in [Task -> WorkerPC]
      BY <1>9, <1>a, <1>b, ReplyTypeOK DEF UnlockRetrieve
    <2> QED BY <1>9, <1>a, <2>1 DEF UnlockRetrieve
  <1> QED BY <1>1, <1>2, <1>b2, <1>3, <1>4, <1>5, <1>6, <1>c6, <1>7, <1>8, <1>9
          DEF Handler

\* Registration, liveness and the end of a worker keep the types.
LEMMA LifecycleTypeOK ==
  ASSUME NEW i \in Instance, TypeOK, Lifecycle(i) PROVE TypeOK'
  <1> USE DEF TypeOK, registryVars, pendingVars, storageVars, workerVars,
          handlerVars, releaseVars, WorkerPC, Releaser
  <1>1. CASE Register(i)
    BY <1>1 DEF Register
  <1>2. CASE Touch(i)
    BY <1>2 DEF Touch
  <1>3. CASE GoSilent(i)
    BY <1>3 DEF GoSilent
  <1>4. CASE Unregister(i)
    BY <1>4 DEF Unregister
  <1>5. CASE Crash(i)
    BY <1>5 DEF Crash
  <1> QED BY <1>1, <1>2, <1>3, <1>4, <1>5 DEF Lifecycle

\* The reaper, both releases and eviction keep the types.
LEMMA ReleaseTypeOK ==
  ASSUME TypeOK,
         \/ ReapStale
         \/ \E r \in Releaser : Release(r)
         \/ \E o \in ObjectKey : Evict(o)
  PROVE  TypeOK'
  <1> USE DEF TypeOK, registryVars, pendingVars, storageVars, workerVars,
          handlerVars, releaseVars, Releaser, NoPending, FinishWrite, Disown,
          FinishReadPrefetched
  <1>1. CASE ReapStale
    BY <1>1 DEF ReapStale
  <1>2. ASSUME NEW r \in Releaser, NEW i \in Instance, SweepPending(r, i) PROVE TypeOK'
    BY <1>2 DEF SweepPending
  <1>3. ASSUME NEW r \in Releaser, NEW k \in Key, FinishSweptWrite(r, k) PROVE TypeOK'
    BY <1>3 DEF FinishSweptWrite
  <1>4. ASSUME NEW r \in Releaser, NEW k \in Key, FinishSweptRead(r, k) PROVE TypeOK'
    BY <1>4 DEF FinishSweptRead
  <1>5. ASSUME NEW o \in ObjectKey, Evict(o) PROVE TypeOK'
    BY <1>5, ConstantsAssumption DEF Evict, Drop
  <1> QED BY <1>1, <1>2, <1>3, <1>4, <1>5 DEF Release

\* Every step keeps the types.
LEMMA NextTypeOK == TypeOK /\ [Next]_vars => TypeOK'
  <1> SUFFICES ASSUME TypeOK, [Next]_vars PROVE TypeOK'
    OBVIOUS
  <1>1. CASE UNCHANGED vars
    BY <1>1 DEF vars, TypeOK, registryVars, pendingVars, storageVars, workerVars,
        handlerVars, releaseVars
  <1>2. CASE Next
    BY <1>2, WorkerTypeOK, HandlerTypeOK, LifecycleTypeOK, ReleaseTypeOK DEF Next
  <1> QED BY <1>1, <1>2

\* The state of the registry, the pending maps, the storage, the workers and the
\* handlers stays within the ranges of TypeOK.
THEOREM TypeCorrect == Spec => []TypeOK
  BY InitTypeOK, NextTypeOK, PTL DEF Spec
-----------------------------------------------------------------------------
(* A reservation is in one place at a time.                                *)

\* Nothing is reserved, nothing runs: the start satisfies the invariant.
LEMMA InitIInv == Init => IInv
  BY InitTypeOK DEF Init, IInv, ReservationsExclusive, ClaimsLocked,
      ClaimsDisjointWithin, ClaimsDisjointAcross, HandlerClaim, NoPending,
      IdleHandlersHoldNothing, CopyingWorkerHasNoHandler, UnusedIsHeld

\* A step that takes claims away, or leaves them, and unlocks nothing that is
\* still claimed keeps the reservations exclusive.
LEMMA ShrinkingClaims ==
  ASSUME ReservationsExclusive,
         \A i \in Instance, k \in Key :
            /\ pendingWrites'[i][k] \subseteq pendingWrites[i][k]
            /\ pendingWrites'[i][k] \subseteq WriteLocked',
         \A t \in Task : /\ HandlerClaim(t)' \subseteq HandlerClaim(t)
                         /\ HandlerClaim(t)' \subseteq WriteLocked',
         \A r \in Releaser, k \in Key :
            /\ relWrites'[r][k] \subseteq relWrites[r][k]
            /\ relWrites'[r][k] \subseteq WriteLocked'
  PROVE  ReservationsExclusive'
  <1> USE DEF ReservationsExclusive
  <1>1. ClaimsLocked'
    BY DEF ClaimsLocked
  <1>2. ClaimsDisjointWithin'
    <2>1. \A i, j \in Instance, k, l \in Key :
             pendingWrites'[i][k] \cap pendingWrites'[j][l]
                \subseteq pendingWrites[i][k] \cap pendingWrites[j][l]
      OBVIOUS
    <2>2. \A t, u \in Task : HandlerClaim(t)' \cap HandlerClaim(u)'
                              \subseteq HandlerClaim(t) \cap HandlerClaim(u)
      OBVIOUS
    <2>3. \A q, r \in Releaser, k, l \in Key :
             relWrites'[q][k] \cap relWrites'[r][l]
                \subseteq relWrites[q][k] \cap relWrites[r][l]
      OBVIOUS
    <2>4. \A i, j \in Instance, k, l \in Key :
             pendingWrites'[i][k] \cap pendingWrites'[j][l] # {} => i = j /\ k = l
      BY <2>1 DEF ClaimsDisjointWithin
    <2>5. \A t, u \in Task : HandlerClaim(t)' \cap HandlerClaim(u)' # {} => t = u
      BY <2>2 DEF ClaimsDisjointWithin
    <2>6. \A q, r \in Releaser, k, l \in Key :
             relWrites'[q][k] \cap relWrites'[r][l] # {} => q = r /\ k = l
      BY <2>3 DEF ClaimsDisjointWithin
    <2> QED BY <2>4, <2>5, <2>6 DEF ClaimsDisjointWithin
  <1>3. ClaimsDisjointAcross'
    <2>1. \A i \in Instance, k \in Key, t \in Task :
             pendingWrites'[i][k] \cap HandlerClaim(t)' = {}
      BY DEF ClaimsDisjointAcross
    <2>2. \A i \in Instance, k, l \in Key, r \in Releaser :
             pendingWrites'[i][k] \cap relWrites'[r][l] = {}
      BY DEF ClaimsDisjointAcross
    <2>3. \A t \in Task, r \in Releaser, k \in Key :
             HandlerClaim(t)' \cap relWrites'[r][k] = {}
      BY DEF ClaimsDisjointAcross
    <2> QED BY <2>1, <2>2, <2>3 DEF ClaimsDisjointAcross
  <1> QED BY <1>1, <1>2, <1>3

\* A step that touches no reservation, and moves handlers only between points
\* at which they hold none, keeps the reservations exclusive.
LEMMA ClaimsUntouched ==
  ASSUME ReservationsExclusive, UNCHANGED <<pendingWrites, relWrites>>,
         \A o \in ObjectKey : obj[o] = "writing" => obj'[o] = "writing",
         \A t \in Task : HandlerClaim(t)' = HandlerClaim(t)
  PROVE  ReservationsExclusive'
  <1>1. WriteLocked \subseteq WriteLocked'
    BY DEF WriteLocked
  <1>2. /\ \A i \in Instance, k \in Key : pendingWrites[i][k] \subseteq WriteLocked
        /\ \A t \in Task : HandlerClaim(t) \subseteq WriteLocked
        /\ \A r \in Releaser, k \in Key : relWrites[r][k] \subseteq WriteLocked
    BY DEF ReservationsExclusive, ClaimsLocked
  <1> QED BY <1>1, <1>2, ShrinkingClaims
-----------------------------------------------------------------------------
(* Handlers that are idle hold nothing, those that give back hold what they *)
(* give back; a copying worker has no handler.                             *)

Phases == IdleHandlersHoldNothing /\ CopyingWorkerHasNoHandler /\ UnusedIsHeld

\* A worker sends a request only when none of its own is under way, and copies
\* only once it was answered.
LEMMA WorkerPhases ==
  ASSUME NEW t \in Task, TypeOK, Phases, Worker(t) PROVE Phases'
  <1> USE DEF Phases, IdleHandlersHoldNothing, CopyingWorkerHasNoHandler, UnusedIsHeld, TypeOK,
          Queued, handlerVars
  <1>1. ASSUME NEW k \in Key, SubmitStore(t, k) PROVE Phases'
    BY <1>1 DEF SubmitStore
  <1>2. ASSUME NEW k \in Key, SubmitRetrieve(t, k) PROVE Phases'
    BY <1>2 DEF SubmitRetrieve
  <1>3. CASE Gather(t)
    BY <1>3 DEF Gather
  <1>4. CASE GatherFails(t)
    BY <1>4 DEF GatherFails
  <1>5. CASE Scatter(t) \/ RetrieveRaises(t)
    BY <1>5 DEF Scatter, RetrieveRaises
  <1>6. CASE SendCommitRetrieve(t)
    BY <1>6 DEF SendCommitRetrieve
  <1>7. CASE Timeout(t)
    BY <1>7 DEF Timeout
  <1> QED BY <1>1, <1>2, <1>3, <1>4, <1>5, <1>6, <1>7 DEF Worker

\* A handler lets go of everything it holds when it ends, and its reply, which
\* starts a copy, is its last step.
LEMMA HandlerPhases ==
  ASSUME NEW t \in Task, TypeOK, Phases, Handler(t) PROVE Phases'
  <1> USE DEF Phases, IdleHandlersHoldNothing, CopyingWorkerHasNoHandler, UnusedIsHeld, TypeOK,
          workerVars
  <1>1. CASE Resolve(t)
    <2>1. FirstStep[hpc[t]] \in {"reserve", "pop", "read", "popRead"}
      BY <1>1 DEF Resolve, FirstStep, Queued
    <2> QED BY <1>1, <2>1 DEF Resolve, Queued
  <1>2. CASE ReserveGroup(t) \/ ReserveGroupRaises(t)
    <2>1. PICK granted, rest \in SUBSET ObjectKey : Reserves(t, granted, rest)
      BY <1>2, ReserveStep
    <2>2. /\ hpc[t] = "reserve" /\ UNCHANGED wpc
          /\ hpc'[t] \in {"reserve", "record", "finishUnused", "abandon"}
          /\ unused'[t] \subseteq acc'[t]
          /\ \A u \in Task \ {t} : hpc'[u] = hpc[u] /\ acc'[u] = acc[u] /\ unused'[u] = unused[u]
      BY <2>1 DEF Reserves, Reserve, NextGroup
    <2> QED BY <2>2 DEF Queued
  <1>b2. CASE FinishUnused(t) \/ AbandonPrepare(t)
    <2>1. /\ hpc[t] \in {"finishUnused", "abandon"} /\ UNCHANGED wpc
          /\ \/ hpc'[t] \in {"reserve", "record"}
             \/ hpc'[t] = "none" /\ acc'[t] = {}
          /\ \A u \in Task \ {t} : hpc'[u] = hpc[u] /\ acc'[u] = acc[u] /\ unused'[u] = unused[u]
      BY <1>b2 DEF FinishUnused, AbandonPrepare, GiveBackUnused, NextGroup
    <2> QED BY <2>1 DEF Queued
  <1>3. CASE RecordPendingWrite(t)
    BY <1>3 DEF RecordPendingWrite, Reply, Queued
  <1>4. CASE PopPendingWrite(t)
    BY <1>4 DEF PopPendingWrite, Reply, Queued
  <1>5. CASE PublishStore(t)
    BY <1>5 DEF PublishStore, Reply, Queued
  <1>6. CASE ReadGroup(t)
    <2>1. /\ hpc[t] = "read" /\ UNCHANGED unused
          /\ \/ /\ \/ hpc' = [hpc EXCEPT ![t] = "read"]
                   \/ hpc' = [hpc EXCEPT ![t] = "recordRead"]
                /\ UNCHANGED wpc
             \/ /\ hpc' = [hpc EXCEPT ![t] = "none"]
                /\ Reply(t, "prepareRetrieve", "endRetrieve")
                /\ acc'[t] = {}
          /\ \E keys : acc' = [acc EXCEPT ![t] = keys]
      BY <1>6 DEF ReadGroup, NextGroup
    <2>2. IdleHandlersHoldNothing' /\ UnusedIsHeld'
      BY <2>1 DEF Queued
    <2>3. CopyingWorkerHasNoHandler'
      BY <2>1 DEF Reply
    <2> QED BY <2>2, <2>3
  <1>c6. CASE ReadGroupRaises(t)
    BY <1>c6 DEF ReadGroupRaises, Queued
  <1>7. CASE RecordPendingRead(t)
    BY <1>7 DEF RecordPendingRead, Reply, Queued
  <1>8. CASE PopPendingRead(t)
    BY <1>8 DEF PopPendingRead, Queued
  <1>9. CASE UnlockRetrieve(t)
    BY <1>9 DEF UnlockRetrieve, Reply, Queued
  <1> QED BY <1>1, <1>2, <1>b2, <1>3, <1>4, <1>5, <1>6, <1>c6, <1>7, <1>8, <1>9
          DEF Handler

\* The registry, the reaper, the releases and eviction start no request; a
\* worker that dies copies no more.
LEMMA OtherPhases ==
  ASSUME TypeOK, Phases,
         \/ \E i \in Instance : Lifecycle(i)
         \/ \E o \in ObjectKey : Evict(o)
         \/ ReapStale
         \/ \E r \in Releaser : Release(r)
         \/ UNCHANGED vars
  PROVE  Phases'
  <1> USE DEF Phases, IdleHandlersHoldNothing, CopyingWorkerHasNoHandler, UnusedIsHeld, TypeOK,
          workerVars, handlerVars
  <1>1. ASSUME NEW i \in Instance, Crash(i) PROVE Phases'
    BY <1>1 DEF Crash
  <1>2. UNCHANGED <<workerVars, handlerVars>> => Phases'
    OBVIOUS
  <1>3. ASSUME NEW i \in Instance, Lifecycle(i), ~Crash(i)
        PROVE  UNCHANGED <<workerVars, handlerVars>>
    BY <1>3 DEF Lifecycle, Register, Touch, GoSilent, Unregister
  <1>4. ASSUME NEW o \in ObjectKey, Evict(o) PROVE UNCHANGED <<workerVars, handlerVars>>
    BY <1>4 DEF Evict
  <1>5. ASSUME ReapStale PROVE UNCHANGED <<workerVars, handlerVars>>
    BY <1>5 DEF ReapStale
  <1>6. ASSUME NEW r \in Releaser, Release(r) PROVE UNCHANGED <<workerVars, handlerVars>>
    BY <1>6 DEF Release, SweepPending, FinishSweptWrite, FinishSweptRead
  <1>7. UNCHANGED vars => UNCHANGED <<workerVars, handlerVars>>
    BY DEF vars
  <1> QED BY <1>1, <1>2, <1>3, <1>4, <1>5, <1>6, <1>7

\* Every step keeps idle handlers empty-handed and copying workers answered.
LEMMA NextPhases == TypeOK /\ Phases /\ [Next]_vars => Phases'
  BY WorkerPhases, HandlerPhases, OtherPhases DEF Next
-----------------------------------------------------------------------------
(* The steps that make, move and finish a reservation.                     *)

\* A handler that reserves objects nobody has locked.
LEMMA ReserveKeepsExclusive ==
  ASSUME TypeOK, ReservationsExclusive, NEW t \in Task,
         ReserveGroup(t) \/ ReserveGroupRaises(t)
  PROVE  ReservationsExclusive'
  <1>1. PICK kept \in SUBSET ObjectKey :
           /\ \A o \in kept : obj[o] = "absent"
           /\ hpc[t] = "reserve"
           /\ obj' = [o \in ObjectKey |-> IF o \in kept THEN "writing" ELSE obj[o]]
           /\ acc' = [acc EXCEPT ![t] = @ \cup kept]
           /\ hpc'[t] \in {"reserve", "record", "finishUnused", "abandon"}
           /\ \A u \in Task \ {t} : hpc'[u] = hpc[u]
           /\ pendingWrites' = pendingWrites /\ relWrites' = relWrites
    <2>1. PICK granted, rest \in SUBSET ObjectKey : Reserves(t, granted, rest)
      BY ReserveStep
    <2>2. /\ hpc'[t] \in {"reserve", "record", "finishUnused", "abandon"}
          /\ \A u \in Task \ {t} : hpc'[u] = hpc[u]
      BY <2>1 DEF Reserves, NextGroup, TypeOK
    <2> QED BY <2>1, <2>2 DEF Reserves, Reserve, pendingVars, releaseVars
  <1>2. kept \cap WriteLocked = {}
    BY <1>1 DEF WriteLocked
  <1>3. WriteLocked \cup kept \subseteq WriteLocked'
    BY <1>1, <1>2 DEF WriteLocked
  <1>4. HandlerClaim(t)' = HandlerClaim(t) \cup kept
    BY <1>1 DEF HandlerClaim, TypeOK
  <1>5. \A u \in Task \ {t} : HandlerClaim(u)' = HandlerClaim(u)
    BY <1>1 DEF HandlerClaim, TypeOK
  <1> USE DEF ReservationsExclusive
  <1>6. ClaimsLocked'
    BY <1>1, <1>3, <1>4, <1>5 DEF ClaimsLocked
  <1>7. ClaimsDisjointWithin'
    <2>1. \A u \in Task \ {t} : HandlerClaim(t)' \cap HandlerClaim(u)' = {}
      BY <1>2, <1>4, <1>5 DEF ClaimsLocked, ClaimsDisjointWithin
    <2>2. \A u, v \in Task : HandlerClaim(u)' \cap HandlerClaim(v)' # {} => u = v
      BY <2>1, <1>5 DEF ClaimsDisjointWithin
    <2> QED BY <1>1, <2>2 DEF ClaimsDisjointWithin
  <1>8. ClaimsDisjointAcross'
    <2>1. \A i \in Instance, k \in Key, u \in Task :
             pendingWrites'[i][k] \cap HandlerClaim(u)' = {}
      BY <1>1, <1>2, <1>4, <1>5 DEF ClaimsLocked, ClaimsDisjointAcross
    <2>2. \A u \in Task, r \in Releaser, k \in Key :
             HandlerClaim(u)' \cap relWrites'[r][k] = {}
      BY <1>1, <1>2, <1>4, <1>5 DEF ClaimsLocked, ClaimsDisjointAcross
    <2> QED BY <1>1, <2>1, <2>2 DEF ClaimsDisjointAcross
  <1> QED BY <1>6, <1>7, <1>8

\* A handler that gives back what it has no slot for, or lets go of everything.
LEMMA GiveBackKeepsExclusive ==
  ASSUME TypeOK, Phases, ReservationsExclusive, NEW t \in Task,
         FinishUnused(t) \/ AbandonPrepare(t)
  PROVE  ReservationsExclusive'
  <1>1. /\ unused[t] \subseteq HandlerClaim(t)
        /\ HandlerClaim(t)' \subseteq HandlerClaim(t) \ unused[t]
    <2>1. unused[t] \subseteq acc[t] /\ HandlerClaim(t) = acc[t]
      BY GiveBackStep DEF Phases, UnusedIsHeld, HandlerClaim
    <2>2. acc'[t] \subseteq acc[t] \ unused[t]
      BY GiveBackStep DEF GiveBackUnused, Phases, TypeOK
    <2> QED BY <2>1, <2>2 DEF HandlerClaim
  <1>2. \A u \in Task \ {t} : HandlerClaim(u)' = HandlerClaim(u)
    BY DEF FinishUnused, AbandonPrepare, GiveBackUnused, NextGroup, HandlerClaim, TypeOK
  <1>3. pendingWrites' = pendingWrites /\ relWrites' = relWrites
    BY DEF FinishUnused, AbandonPrepare, GiveBackUnused, pendingVars, releaseVars
  <1>4. WriteLocked \ unused[t] \subseteq WriteLocked'
    BY DEF FinishUnused, AbandonPrepare, GiveBackUnused, FinishWrite, WriteLocked
  <1> USE DEF ReservationsExclusive, ClaimsLocked
  <1>5. \A i \in Instance, k \in Key : pendingWrites[i][k] \subseteq WriteLocked'
    BY <1>1, <1>4 DEF ClaimsDisjointAcross
  <1>6. \A r \in Releaser, k \in Key : relWrites[r][k] \subseteq WriteLocked'
    BY <1>1, <1>4 DEF ClaimsDisjointAcross
  <1>7. \A u \in Task : /\ HandlerClaim(u)' \subseteq HandlerClaim(u)
                        /\ HandlerClaim(u)' \subseteq WriteLocked'
    BY <1>1, <1>2, <1>4 DEF ClaimsDisjointWithin
  <1> QED BY <1>3, <1>5, <1>6, <1>7, ShrinkingClaims

\* A handler that leaves its reservation in the pending map, over any that was there.
LEMMA RecordKeepsExclusive ==
  ASSUME TypeOK, ReservationsExclusive, NEW t \in Task, RecordPendingWrite(t)
  PROVE  ReservationsExclusive'
  <1> DEFINE i0 == InstanceOf[t]
             k0 == key[t]
  <1>0. i0 \in Instance /\ k0 \in Key
    BY ConstantsAssumption DEF TypeOK
  <1>1. /\ hpc[t] = "record" /\ hpc' = [hpc EXCEPT ![t] = "none"]
        /\ acc' = [acc EXCEPT ![t] = {}]
        /\ obj' = obj /\ relWrites' = relWrites
    BY DEF RecordPendingWrite, storageVars, releaseVars
  <1>2. HandlerClaim(t) = acc[t] /\ HandlerClaim(t)' = {}
    BY <1>1 DEF HandlerClaim, TypeOK
  <1>3. \A u \in Task \ {t} : HandlerClaim(u)' = HandlerClaim(u)
    BY <1>1 DEF HandlerClaim, TypeOK
  <1>4. WriteLocked' = WriteLocked
    BY <1>1 DEF WriteLocked
  <1>5. \A i \in Instance, k \in Key :
           pendingWrites'[i][k] = IF i = i0 /\ k = k0 /\ acc[t] # {}
                                  THEN HandlerClaim(t) ELSE pendingWrites[i][k]
    BY <1>0, <1>2 DEF RecordPendingWrite, TypeOK
  <1> HIDE DEF i0, k0
  <1> USE DEF ReservationsExclusive
  <1>6. ClaimsLocked'
    BY <1>1, <1>2, <1>3, <1>4, <1>5 DEF ClaimsLocked
  <1>7. ClaimsDisjointWithin'
    <2>1. \A i, j \in Instance, k, l \in Key :
             pendingWrites'[i][k] \cap pendingWrites'[j][l] # {} => i = j /\ k = l
      BY <1>5 DEF ClaimsDisjointWithin, ClaimsDisjointAcross
    <2>2. \A u, v \in Task : HandlerClaim(u)' \cap HandlerClaim(v)' # {} => u = v
      BY <1>2, <1>3 DEF ClaimsDisjointWithin
    <2> QED BY <1>1, <2>1, <2>2 DEF ClaimsDisjointWithin
  <1>8. ClaimsDisjointAcross'
    <2>1. \A i \in Instance, k \in Key, u \in Task :
             pendingWrites'[i][k] \cap HandlerClaim(u)' = {}
      BY <1>2, <1>3, <1>5 DEF ClaimsDisjointWithin, ClaimsDisjointAcross
    <2>2. \A i \in Instance, k, l \in Key, r \in Releaser :
             pendingWrites'[i][k] \cap relWrites'[r][l] = {}
      BY <1>1, <1>5 DEF ClaimsDisjointAcross
    <2>3. \A u \in Task, r \in Releaser, k \in Key :
             HandlerClaim(u)' \cap relWrites'[r][k] = {}
      BY <1>1, <1>2, <1>3 DEF ClaimsDisjointAcross
    <2> QED BY <2>1, <2>2, <2>3 DEF ClaimsDisjointAcross
  <1> QED BY <1>6, <1>7, <1>8

\* A handler that takes a reservation out of the pending map.
LEMMA PopKeepsExclusive ==
  ASSUME TypeOK, ReservationsExclusive, NEW t \in Task, PopPendingWrite(t)
  PROVE  ReservationsExclusive'
  <1> DEFINE i0 == InstanceOf[t]
             k0 == key[t]
  <1>0. i0 \in Instance /\ k0 \in Key
    BY ConstantsAssumption DEF TypeOK
  <1>1. /\ hpc[t] = "pop"
        /\ hpc' = [hpc EXCEPT ![t] = "none"] \/ hpc' = [hpc EXCEPT ![t] = "publish"]
        /\ acc' = [acc EXCEPT ![t] = pendingWrites[i0][k0]]
        /\ obj' = obj /\ relWrites' = relWrites
    BY DEF PopPendingWrite, storageVars, releaseVars
  <1>2. HandlerClaim(t)' \subseteq pendingWrites[i0][k0]
    BY <1>1 DEF HandlerClaim, TypeOK
  <1>3. \A u \in Task \ {t} : HandlerClaim(u)' = HandlerClaim(u)
    BY <1>1 DEF HandlerClaim, TypeOK
  <1>4. WriteLocked' = WriteLocked
    BY <1>1 DEF WriteLocked
  <1>5. \A i \in Instance, k \in Key :
           pendingWrites'[i][k] = IF i = i0 /\ k = k0 THEN {} ELSE pendingWrites[i][k]
    BY <1>0 DEF PopPendingWrite, TypeOK
  <1> HIDE DEF i0, k0
  <1> USE DEF ReservationsExclusive
  <1>6. ClaimsLocked'
    BY <1>0, <1>1, <1>2, <1>3, <1>4, <1>5 DEF ClaimsLocked
  <1>7. ClaimsDisjointWithin'
    <2>1. \A i, j \in Instance, k, l \in Key :
             pendingWrites'[i][k] \cap pendingWrites'[j][l] # {} => i = j /\ k = l
      BY <1>5 DEF ClaimsDisjointWithin
    <2>2. \A u \in Task \ {t} : HandlerClaim(t)' \cap HandlerClaim(u)' = {}
      BY <1>0, <1>2, <1>3 DEF ClaimsDisjointAcross
    <2>3. \A u, v \in Task : HandlerClaim(u)' \cap HandlerClaim(v)' # {} => u = v
      BY <2>2, <1>3 DEF ClaimsDisjointWithin
    <2> QED BY <1>1, <2>1, <2>3 DEF ClaimsDisjointWithin
  <1>8. ClaimsDisjointAcross'
    <2>1. \A i \in Instance, k \in Key, u \in Task :
             pendingWrites'[i][k] \cap HandlerClaim(u)' = {}
      BY <1>0, <1>2, <1>3, <1>5 DEF ClaimsDisjointWithin, ClaimsDisjointAcross
    <2>2. \A i \in Instance, k, l \in Key, r \in Releaser :
             pendingWrites'[i][k] \cap relWrites'[r][l] = {}
      BY <1>1, <1>5 DEF ClaimsDisjointAcross
    <2>3. \A u \in Task, r \in Releaser, k \in Key :
             HandlerClaim(u)' \cap relWrites'[r][k] = {}
      BY <1>0, <1>1, <1>2, <1>3 DEF ClaimsDisjointAcross
    <2> QED BY <2>1, <2>2, <2>3 DEF ClaimsDisjointAcross
  <1> QED BY <1>6, <1>7, <1>8

\* A release that takes everything pending for an instance into its hands.
LEMMA SweepKeepsExclusive ==
  ASSUME TypeOK, ReservationsExclusive, NEW r0 \in Releaser, NEW i0 \in Instance,
         SweepPending(r0, i0)
  PROVE  ReservationsExclusive'
  <1>1. /\ relWrites[r0] = NoPending
        /\ obj' = obj /\ hpc' = hpc /\ acc' = acc
    BY DEF SweepPending, storageVars, handlerVars
  <1>2. \A t \in Task : HandlerClaim(t)' = HandlerClaim(t)
    BY <1>1 DEF HandlerClaim
  <1>3. WriteLocked' = WriteLocked
    BY <1>1 DEF WriteLocked
  <1>4. \A i \in Instance, k \in Key :
           pendingWrites'[i][k] = IF i = i0 THEN {} ELSE pendingWrites[i][k]
    BY DEF SweepPending, NoPending, TypeOK
  <1>5. \A r \in Releaser, k \in Key :
           relWrites'[r][k] = IF r = r0 THEN pendingWrites[i0][k] ELSE relWrites[r][k]
    BY DEF SweepPending, TypeOK
  <1> USE DEF ReservationsExclusive
  <1>6. ClaimsLocked'
    BY <1>2, <1>3, <1>4, <1>5 DEF ClaimsLocked
  <1>7. ClaimsDisjointWithin'
    <2>1. \A i, j \in Instance, k, l \in Key :
             pendingWrites'[i][k] \cap pendingWrites'[j][l] # {} => i = j /\ k = l
      BY <1>4 DEF ClaimsDisjointWithin
    <2>2. \A q, r \in Releaser, k, l \in Key :
             relWrites'[q][k] \cap relWrites'[r][l] # {} => q = r /\ k = l
      BY <1>5 DEF ClaimsDisjointWithin, ClaimsDisjointAcross
    <2> QED BY <1>2, <2>1, <2>2 DEF ClaimsDisjointWithin
  <1>8. ClaimsDisjointAcross'
    <2>1. \A i \in Instance, k \in Key, t \in Task :
             pendingWrites'[i][k] \cap HandlerClaim(t)' = {}
      BY <1>2, <1>4 DEF ClaimsDisjointAcross
    <2>2. \A i \in Instance, k, l \in Key, r \in Releaser :
             pendingWrites'[i][k] \cap relWrites'[r][l] = {}
      BY <1>4, <1>5 DEF ClaimsDisjointWithin, ClaimsDisjointAcross
    <2>3. \A t \in Task, r \in Releaser, k \in Key :
             HandlerClaim(t)' \cap relWrites'[r][k] = {}
      BY <1>2, <1>5 DEF ClaimsDisjointAcross
    <2> QED BY <2>1, <2>2, <2>3 DEF ClaimsDisjointAcross
  <1> QED BY <1>6, <1>7, <1>8

\* A commit that finishes the reservation it holds.
LEMMA PublishKeepsExclusive ==
  ASSUME TypeOK, ReservationsExclusive, NEW t \in Task, PublishStore(t)
  PROVE  ReservationsExclusive'
  <1>1. /\ hpc[t] = "publish" /\ hpc' = [hpc EXCEPT ![t] = "none"]
        /\ acc' = [acc EXCEPT ![t] = {}]
        /\ pendingWrites' = pendingWrites /\ relWrites' = relWrites
        /\ obj' = [o \in ObjectKey |-> IF o \in acc[t] THEN "readable" ELSE obj[o]]
    BY DEF PublishStore, FinishWrite, pendingVars, releaseVars
  <1>2. HandlerClaim(t) = acc[t] /\ HandlerClaim(t)' = {}
    BY <1>1 DEF HandlerClaim, TypeOK
  <1>3. \A u \in Task \ {t} : HandlerClaim(u)' = HandlerClaim(u)
    BY <1>1 DEF HandlerClaim, TypeOK
  <1>4. WriteLocked \ HandlerClaim(t) \subseteq WriteLocked'
    BY <1>1, <1>2 DEF WriteLocked
  <1> USE DEF ReservationsExclusive, ClaimsLocked
  <1>5. \A i \in Instance, k \in Key : pendingWrites[i][k] \subseteq WriteLocked'
    BY <1>4 DEF ClaimsDisjointAcross
  <1>6. \A r \in Releaser, k \in Key : relWrites[r][k] \subseteq WriteLocked'
    BY <1>4 DEF ClaimsDisjointAcross
  <1>7. \A u \in Task : /\ HandlerClaim(u)' \subseteq HandlerClaim(u)
                        /\ HandlerClaim(u)' \subseteq WriteLocked'
    BY <1>2, <1>3, <1>4 DEF ClaimsDisjointWithin
  <1> QED BY <1>1, <1>5, <1>6, <1>7, ShrinkingClaims

\* A release that finishes one of the reservations it swept.
LEMMA FinishSweptKeepsExclusive ==
  ASSUME TypeOK, ReservationsExclusive, NEW r0 \in Releaser, NEW k0 \in Key,
         FinishSweptWrite(r0, k0)
  PROVE  ReservationsExclusive'
  <1> DEFINE swept == relWrites[r0][k0]
  <1>1. /\ hpc' = hpc /\ acc' = acc /\ pendingWrites' = pendingWrites
        /\ obj' = [o \in ObjectKey |-> IF o \in swept THEN "readable" ELSE obj[o]]
    BY DEF FinishSweptWrite, FinishWrite, pendingVars, handlerVars
  <1>2. \A r \in Releaser, k \in Key :
           relWrites'[r][k] = IF r = r0 /\ k = k0 THEN {} ELSE relWrites[r][k]
    BY DEF FinishSweptWrite, TypeOK
  <1>3. \A t \in Task : HandlerClaim(t)' = HandlerClaim(t)
    BY <1>1 DEF HandlerClaim
  <1>4. WriteLocked \ swept \subseteq WriteLocked'
    BY <1>1 DEF WriteLocked
  <1> HIDE DEF swept
  <1> USE DEF ReservationsExclusive, ClaimsLocked
  <1>5. \A i \in Instance, k \in Key : pendingWrites[i][k] \subseteq WriteLocked'
    BY <1>4 DEF ClaimsDisjointAcross, swept
  <1>6. \A t \in Task : HandlerClaim(t) \subseteq WriteLocked'
    BY <1>4 DEF ClaimsDisjointAcross, swept
  <1>7. \A r \in Releaser, k \in Key :
           /\ relWrites'[r][k] \subseteq relWrites[r][k]
           /\ relWrites'[r][k] \subseteq WriteLocked'
    BY <1>2, <1>4 DEF ClaimsDisjointWithin, swept
  <1> QED BY <1>1, <1>3, <1>5, <1>6, <1>7, ShrinkingClaims
-----------------------------------------------------------------------------
(* The steps that leave every reservation where it is.                     *)

\* A worker only enqueues requests: it moves no reservation.
LEMMA WorkerKeepsExclusive ==
  ASSUME TypeOK, Phases, ReservationsExclusive, NEW t \in Task, Worker(t)
  PROVE  ReservationsExclusive'
  <1> DEFINE OnlyEnqueues == /\ UNCHANGED <<pendingWrites, relWrites, obj, acc>>
                             /\ \A u \in Task \ {t} : hpc'[u] = hpc[u]
                             /\ \/ hpc' = hpc
                                \/ hpc[t] = "none" /\ hpc'[t] \in Queued
  <1>1. OnlyEnqueues
    <2> USE DEF TypeOK, pendingVars, releaseVars, storageVars, handlerVars, Queued
    <2>1. ASSUME NEW k \in Key, SubmitStore(t, k) \/ SubmitRetrieve(t, k) PROVE OnlyEnqueues
      BY <2>1 DEF SubmitStore, SubmitRetrieve
    <2>2. CASE Gather(t)
      BY <2>2 DEF Gather, Phases, CopyingWorkerHasNoHandler
    <2>3. CASE GatherFails(t) \/ Scatter(t) \/ RetrieveRaises(t) \/ Timeout(t)
      BY <2>3 DEF GatherFails, Scatter, RetrieveRaises, Timeout
    <2>4. CASE SendCommitRetrieve(t)
      BY <2>4 DEF SendCommitRetrieve
    <2> QED BY <2>1, <2>2, <2>3, <2>4 DEF Worker
  <1>2. \A u \in Task : HandlerClaim(u)' = HandlerClaim(u)
    BY <1>1 DEF HandlerClaim, Queued
  <1> QED BY <1>1, <1>2, ClaimsUntouched

\* Resolving an instance and the handlers of a retrieve move no reservation.
LEMMA ReadingHandlersKeepExclusive ==
  ASSUME TypeOK, Phases, ReservationsExclusive, NEW t \in Task,
         \/ Resolve(t) \/ ReadGroup(t) \/ ReadGroupRaises(t) \/ RecordPendingRead(t)
         \/ PopPendingRead(t) \/ UnlockRetrieve(t)
  PROVE  ReservationsExclusive'
  <1> USE DEF TypeOK, pendingVars, releaseVars, storageVars, HandlerClaim
  <1>1. CASE Resolve(t)
    <2>1. acc[t] = {} /\ UNCHANGED <<pendingWrites, relWrites, obj, acc>>
      BY <1>1 DEF Resolve, Phases, IdleHandlersHoldNothing
    <2>2. \A u \in Task \ {t} : hpc'[u] = hpc[u]
      BY <1>1 DEF Resolve
    <2>3. \A u \in Task : HandlerClaim(u)' = HandlerClaim(u)
      BY <1>1, <2>1, <2>2 DEF Resolve, Queued
    <2> QED BY <2>1, <2>3, ClaimsUntouched
  <1>2. CASE ReadGroup(t)
    <2>1. /\ hpc[t] = "read" /\ UNCHANGED <<pendingWrites, relWrites, obj>>
          /\ \E keys : acc' = [acc EXCEPT ![t] = keys]
          /\ \/ hpc' = [hpc EXCEPT ![t] = "read"]
             \/ hpc' = [hpc EXCEPT ![t] = "recordRead"]
             \/ hpc' = [hpc EXCEPT ![t] = "none"]
      BY <1>2 DEF ReadGroup, NextGroup
    <2>2. \A u \in Task : HandlerClaim(u)' = HandlerClaim(u)
      BY <2>1
    <2> QED BY <2>1, <2>2, ClaimsUntouched
  <1>c2. CASE ReadGroupRaises(t)
    <2>1. \A u \in Task : HandlerClaim(u)' = HandlerClaim(u)
      BY <1>c2 DEF ReadGroupRaises
    <2> QED BY <1>c2, <2>1, ClaimsUntouched DEF ReadGroupRaises
  <1>3. CASE RecordPendingRead(t)
    <2>1. \A u \in Task : HandlerClaim(u)' = HandlerClaim(u)
      BY <1>3 DEF RecordPendingRead
    <2> QED BY <1>3, <2>1, ClaimsUntouched DEF RecordPendingRead
  <1>4. CASE PopPendingRead(t)
    <2>1. \A u \in Task : HandlerClaim(u)' = HandlerClaim(u)
      BY <1>4 DEF PopPendingRead
    <2> QED BY <1>4, <2>1, ClaimsUntouched DEF PopPendingRead
  <1>5. CASE UnlockRetrieve(t)
    <2>1. \A u \in Task : HandlerClaim(u)' = HandlerClaim(u)
      BY <1>5 DEF UnlockRetrieve
    <2> QED BY <1>5, <2>1, ClaimsUntouched DEF UnlockRetrieve
  <1> QED BY <1>1, <1>2, <1>c2, <1>3, <1>4, <1>5

\* Neither registration, nor liveness, nor eviction of unlocked objects, nor the
\* release of read locks moves a reservation.
LEMMA OtherStepsKeepExclusive ==
  ASSUME TypeOK, ReservationsExclusive,
         \/ \E i \in Instance : Lifecycle(i)
         \/ \E o \in ObjectKey : Evict(o)
         \/ ReapStale
         \/ \E r \in Releaser, k \in Key : FinishSweptRead(r, k)
         \/ UNCHANGED vars
  PROVE  ReservationsExclusive'
  <1> USE DEF pendingVars, releaseVars, storageVars, handlerVars
  <1>1. UNCHANGED <<pendingWrites, relWrites, hpc, acc>>
    <2>1. ASSUME NEW i \in Instance, Lifecycle(i)
          PROVE  UNCHANGED <<pendingWrites, relWrites, hpc, acc>>
      BY <2>1 DEF Lifecycle, Register, Touch, GoSilent, Unregister, Crash
    <2>2. ASSUME NEW o \in ObjectKey, Evict(o)
          PROVE  UNCHANGED <<pendingWrites, relWrites, hpc, acc>>
      BY <2>2 DEF Evict
    <2>3. ASSUME ReapStale PROVE UNCHANGED <<pendingWrites, relWrites, hpc, acc>>
      BY <2>3 DEF ReapStale
    <2>4. ASSUME NEW r \in Releaser, NEW k \in Key, FinishSweptRead(r, k)
          PROVE  UNCHANGED <<pendingWrites, relWrites, hpc, acc>>
      BY <2>4 DEF FinishSweptRead
    <2>5. UNCHANGED vars => UNCHANGED <<pendingWrites, relWrites, hpc, acc>>
      BY DEF vars
    <2> QED BY <2>1, <2>2, <2>3, <2>4, <2>5
  <1>2. \A o \in ObjectKey : obj[o] = "writing" => obj'[o] = "writing"
    <2>1. ASSUME NEW i \in Instance, Lifecycle(i) PROVE obj' = obj
      BY <2>1 DEF Lifecycle, Register, Touch, GoSilent, Unregister, Crash
    <2>2. ASSUME NEW o \in ObjectKey, Evict(o)
          PROVE  \A p \in ObjectKey : obj[p] = "writing" => obj'[p] = "writing"
      BY <2>2 DEF Evict, Drop, Unlocked, TypeOK
    <2>3. ASSUME ReapStale PROVE obj' = obj
      BY <2>3 DEF ReapStale
    <2>4. ASSUME NEW r \in Releaser, NEW k \in Key, FinishSweptRead(r, k)
          PROVE  obj' = obj
      BY <2>4 DEF FinishSweptRead
    <2>5. UNCHANGED vars => obj' = obj
      BY DEF vars
    <2> QED BY <2>1, <2>2, <2>3, <2>4, <2>5
  <1>3. \A t \in Task : HandlerClaim(t)' = HandlerClaim(t)
    BY <1>1 DEF HandlerClaim
  <1> QED BY <1>1, <1>2, <1>3, ClaimsUntouched
-----------------------------------------------------------------------------
(* The invariant.                                                          *)

\* Every step keeps the reservations exclusive.
LEMMA NextKeepsExclusive ==
  TypeOK /\ Phases /\ ReservationsExclusive /\ [Next]_vars => ReservationsExclusive'
  <1> SUFFICES ASSUME TypeOK, Phases, ReservationsExclusive, [Next]_vars
               PROVE  ReservationsExclusive'
    OBVIOUS
  <1>1. ASSUME NEW t \in Task, Handler(t) PROVE ReservationsExclusive'
    BY <1>1, ReserveKeepsExclusive, GiveBackKeepsExclusive, RecordKeepsExclusive, PopKeepsExclusive,
       PublishKeepsExclusive, ReadingHandlersKeepExclusive DEF Handler
  <1>2. ASSUME NEW r \in Releaser, Release(r) PROVE ReservationsExclusive'
    BY <1>2, SweepKeepsExclusive, FinishSweptKeepsExclusive, OtherStepsKeepExclusive
       DEF Release
  <1> QED BY <1>1, <1>2, WorkerKeepsExclusive, OtherStepsKeepExclusive DEF Next

\* The invariant is inductive.
LEMMA NextIInv == IInv /\ [Next]_vars => IInv'
  BY NextTypeOK, NextPhases, NextKeepsExclusive DEF IInv, Phases

\* A write reservation is in one place at a time, and write-locked there, for
\* any number of workers, operations, keys, groups and releases: commits and
\* releases never finish an object that is not theirs to finish.
THEOREM ReservationsAreExclusive == Spec => []ReservationsExclusive
  <1>1. Init => IInv
    BY InitIInv
  <1>2. IInv /\ [Next]_vars => IInv'
    BY NextIInv
  <1>3. IInv => ReservationsExclusive
    BY DEF IInv
  <1> QED BY <1>1, <1>2, <1>3, PTL DEF Spec
-----------------------------------------------------------------------------
(* A commit publishes what its own task copied.                            *)

\* The entry of a task's instance and key, and what of it the task reserved.
Entry(map, t) == map[InstanceOf[t]][key[t]]
Own(t, keys) == {o \in keys : writer[o] = t}

\* What a handler reserves is its task's; once the task has been answered, what
\* the entry has of its reservations is among its slots, and once it has sent
\* its commit, that is written, until the commit publishes it.
OwnCopied(t) ==
    /\ hpc[t] \in {"reserve", "finishUnused", "abandon", "record"} =>
          \A o \in acc[t] : writer[o] = t
    /\ wpc[t] = "gather" => Own(t, Entry(pendingWrites, t)) \subseteq slots[t]
    /\ hpc[t] \in {"commitStore", "pop"} => Own(t, Entry(pendingWrites, t)) \subseteq written
    /\ hpc[t] = "publish" => Own(t, acc[t]) \subseteq written

OwnCopies == \A t \in Task : OwnCopied(t)

\* A step of another task leaves it so, if it puts nothing of this task's in
\* the entry and takes no object away that is reserved.
LEMMA OwnUntouched ==
  ASSUME NEW u \in Task, OwnCopied(u),
         /\ hpc'[u] = hpc[u] /\ wpc'[u] = wpc[u] /\ key'[u] = key[u]
         /\ slots'[u] = slots[u] /\ acc'[u] = acc[u],
         Own(u, Entry(pendingWrites, u))' \subseteq Own(u, Entry(pendingWrites, u)),
         \A o \in HandlerClaim(u) : writer'[o] = writer[o],
         \A o \in HandlerClaim(u) \cup Entry(pendingWrites, u) :
            o \in written => o \in written'
  PROVE  OwnCopied(u)'
  <1>1. hpc'[u] \in {"reserve", "finishUnused", "abandon", "record"} =>
           \A o \in acc'[u] : writer'[o] = u
    BY DEF OwnCopied, HandlerClaim
  <1>2. wpc'[u] = "gather" => Own(u, Entry(pendingWrites, u))' \subseteq slots'[u]
    BY DEF OwnCopied
  <1>3. hpc'[u] \in {"commitStore", "pop"} => Own(u, Entry(pendingWrites, u))' \subseteq written'
    BY DEF OwnCopied, Own
  <1>4. hpc'[u] = "publish" => Own(u, acc[u])' \subseteq written'
    BY DEF OwnCopied, Own, HandlerClaim
  <1> QED BY <1>1, <1>2, <1>3, <1>4 DEF OwnCopied

\* The same for a step that writes, reserves and records nothing.
LEMMA OwnQuiet ==
  ASSUME NEW u \in Task, OwnCopied(u),
         /\ hpc'[u] = hpc[u] /\ wpc'[u] = wpc[u] /\ key'[u] = key[u]
         /\ slots'[u] = slots[u] /\ acc'[u] = acc[u],
         UNCHANGED writer, written \subseteq written',
         Entry(pendingWrites, u)' \subseteq Entry(pendingWrites, u)
  PROVE  OwnCopied(u)'
  <1>1. Own(u, Entry(pendingWrites, u))' \subseteq Own(u, Entry(pendingWrites, u))
    BY DEF Own
  <1> QED BY <1>1, OwnUntouched

\* What is claimed for writing cannot be reserved or evicted, so its content and
\* its writer stay what they are.
LEMMA ClaimedIsWriting ==
  ASSUME TypeOK, ReservationsExclusive, NEW u \in Task,
         NEW o \in HandlerClaim(u) \cup Entry(pendingWrites, u)
  PROVE  o \in ObjectKey /\ obj[o] = "writing"
  <1>1. InstanceOf[u] \in Instance /\ key[u] \in Key
    BY ConstantsAssumption DEF TypeOK
  <1>2. HandlerClaim(u) \subseteq WriteLocked /\ Entry(pendingWrites, u) \subseteq WriteLocked
    BY <1>1 DEF ReservationsExclusive, ClaimsLocked, Entry
  <1> QED BY <1>2 DEF WriteLocked

\* And for one that lets go of reservations of others.
LEMMA OwnDisowned ==
  ASSUME TypeOK, ReservationsExclusive, NEW u \in Task, OwnCopied(u),
         /\ hpc'[u] = hpc[u] /\ wpc'[u] = wpc[u] /\ key'[u] = key[u]
         /\ slots'[u] = slots[u] /\ acc'[u] = acc[u],
         NEW dropped, Disown(dropped), dropped \cap HandlerClaim(u) = {},
         written \subseteq written',
         Entry(pendingWrites, u)' \subseteq Entry(pendingWrites, u)
  PROVE  OwnCopied(u)'
  <1>1. u # NoTask
    BY ConstantsAssumption
  <1>2. ASSUME NEW o \in HandlerClaim(u) \cup Entry(pendingWrites, u)
        PROVE  writer'[o] = IF o \in dropped THEN NoTask ELSE writer[o]
    BY <1>2, ClaimedIsWriting DEF Disown
  <1>3. Own(u, Entry(pendingWrites, u))' \subseteq Own(u, Entry(pendingWrites, u))
    BY <1>1, <1>2 DEF Own
  <1> QED BY <1>2, <1>3, OwnUntouched

\* A worker's step: the copies of a gather are complete when it commits.
LEMMA WorkerOwn ==
  ASSUME TypeOK, Phases, OwnCopies, NEW t \in Task, Worker(t)
  PROVE  OwnCopies'
  <1> USE DEF registryVars, pendingVars, storageVars, workerVars, handlerVars, releaseVars
  <1>1. /\ UNCHANGED <<writer, pendingWrites, acc>> /\ written \subseteq written'
        /\ \A u \in Task \ {t} : /\ hpc'[u] = hpc[u] /\ wpc'[u] = wpc[u] /\ key'[u] = key[u]
                                 /\ slots'[u] = slots[u]
    <2> USE DEF TypeOK
    <2>1. ASSUME NEW k \in Key, SubmitStore(t, k) \/ SubmitRetrieve(t, k)
          PROVE  /\ UNCHANGED <<writer, pendingWrites, acc, written, slots>>
                 /\ \A u \in Task \ {t} : /\ hpc'[u] = hpc[u] /\ wpc'[u] = wpc[u]
                                          /\ key'[u] = key[u]
      BY <2>1 DEF SubmitStore, SubmitRetrieve
    <2>2. CASE Gather(t)
      BY <2>2 DEF Gather
    <2>3. CASE \/ GatherFails(t) \/ Scatter(t) \/ RetrieveRaises(t)
               \/ SendCommitRetrieve(t) \/ Timeout(t)
      BY <2>3 DEF GatherFails, Scatter, RetrieveRaises, SendCommitRetrieve, Timeout
    <2> QED BY <2>1, <2>2, <2>3 DEF Worker
  <1>2. ASSUME NEW u \in Task, u # t PROVE OwnCopied(u)'
    BY <1>1, <1>2, OwnQuiet DEF OwnCopies, Entry
  <1>3. OwnCopied(t)
    BY DEF OwnCopies
  <1>4. OwnCopied(t)'
    <2>1. CASE \E k \in Key : SubmitStore(t, k) \/ SubmitRetrieve(t, k)
      <3>1. /\ hpc'[t] \in {"prepareStore", "prepareRetrieve"}
            /\ wpc'[t] \in {"prepareStore", "prepareRetrieve"}
        BY <2>1 DEF SubmitStore, SubmitRetrieve, TypeOK
      <3> QED BY <3>1 DEF OwnCopied
    <2>2. CASE Gather(t)
      <3>1. /\ wpc[t] = "gather" /\ wpc'[t] = "commitStore" /\ hpc'[t] = "commitStore"
            /\ key' = key
            /\ written' = written \cup {o \in slots[t] : writer[o] = t}
        BY <2>2 DEF Gather, TypeOK
      <3>2. Own(t, Entry(pendingWrites, t))' = Own(t, Entry(pendingWrites, t))
        BY <1>1, <3>1 DEF Own, Entry
      <3>3. Own(t, Entry(pendingWrites, t)) \subseteq written'
        BY <1>3, <3>1 DEF OwnCopied, Own
      <3> QED BY <3>1, <3>2, <3>3 DEF OwnCopied
    <2>3. CASE SendCommitRetrieve(t)
      BY <2>3 DEF SendCommitRetrieve, OwnCopied, TypeOK
    <2>4. CASE GatherFails(t) \/ Scatter(t) \/ RetrieveRaises(t) \/ Timeout(t)
      <3>1. /\ hpc' = hpc /\ key' = key /\ wpc'[t] # "gather" /\ written' = written
        BY <2>4 DEF GatherFails, Scatter, RetrieveRaises, Timeout, TypeOK
      <3> QED BY <1>1, <1>3, <3>1 DEF OwnCopied, Own, Entry
    <2> QED BY <2>1, <2>2, <2>3, <2>4 DEF Worker
  <1> QED BY <1>2, <1>4 DEF OwnCopies

\* A reservation takes what nobody has.
LEMMA ReserveOwn ==
  ASSUME TypeOK, Phases, ReservationsExclusive, OwnCopies, NEW t \in Task,
         ReserveGroup(t) \/ ReserveGroupRaises(t)
  PROVE  OwnCopies'
  <1>0. PICK granted, rest \in SUBSET ObjectKey : Reserves(t, granted, rest)
    BY ReserveStep
  <1>1. /\ hpc[t] = "reserve"
        /\ acc' = [acc EXCEPT ![t] = @ \cup granted]
        /\ writer' = [o \in ObjectKey |-> IF o \in granted THEN t ELSE writer[o]]
        /\ hpc'[t] \in {"reserve", "record", "finishUnused", "abandon"}
        /\ \A u \in Task \ {t} : hpc'[u] = hpc[u]
        /\ UNCHANGED <<pendingWrites, written, wpc, key, slots>>
    BY <1>0 DEF Reserves, Reserve, NextGroup, pendingVars, workerVars, TypeOK
  <1>2. granted \subseteq ObjectKey /\ \A o \in granted : obj[o] = "absent"
    BY <1>0 DEF Reserves
  <1>3. ASSUME NEW u \in Task, NEW o \in HandlerClaim(u) \cup Entry(pendingWrites, u)
        PROVE  writer'[o] = writer[o]
    <2>1. o \in ObjectKey /\ obj[o] = "writing"
      BY <1>3, ClaimedIsWriting
    <2> QED BY <1>1, <1>2, <2>1
  <1>4. ASSUME NEW u \in Task, u # t PROVE OwnCopied(u)'
    <2>1. Own(u, Entry(pendingWrites, u))' \subseteq Own(u, Entry(pendingWrites, u))
      BY <1>1, <1>3 DEF Own, Entry
    <2>2. /\ hpc'[u] = hpc[u] /\ wpc'[u] = wpc[u] /\ key'[u] = key[u]
          /\ slots'[u] = slots[u] /\ acc'[u] = acc[u]
      BY <1>1, <1>4 DEF TypeOK
    <2> QED BY <1>1, <1>3, <2>1, <2>2, OwnUntouched DEF OwnCopies
  <1>5. OwnCopied(t)'
    <2>1. \A o \in acc'[t] : writer'[o] = t
      <3>1. \A o \in acc[t] : writer'[o] = writer[o] /\ writer[o] = t
        BY <1>1, <1>3 DEF HandlerClaim, OwnCopies, OwnCopied
      <3> QED BY <1>1, <1>2, <3>1 DEF TypeOK
    <2>2. hpc'[t] \in {"reserve", "record", "finishUnused", "abandon"} /\ wpc'[t] # "gather"
      BY <1>1 DEF TypeOK, Phases, CopyingWorkerHasNoHandler
    <2> QED BY <2>1, <2>2 DEF OwnCopied
  <1> QED BY <1>4, <1>5 DEF OwnCopies

\* What is given back, and what is abandoned, is nobody's any more.
LEMMA GiveBackOwn ==
  ASSUME TypeOK, Phases, ReservationsExclusive, OwnCopies, NEW t \in Task,
         FinishUnused(t) \/ AbandonPrepare(t)
  PROVE  OwnCopies'
  <1>1. PICK dropped :
           /\ dropped \subseteq acc[t] /\ GiveBackUnused(t, dropped)
           /\ \/ NextGroup(t, "reserve", "record")
              \/ hpc' = [hpc EXCEPT ![t] = "none"]
    BY GiveBackStep DEF Phases
  <1>2. /\ hpc[t] \in {"finishUnused", "abandon"} /\ HandlerClaim(t) = acc[t]
        /\ UNCHANGED <<pendingWrites, written, wpc, key, slots>>
        /\ acc'[t] = acc[t] \ dropped /\ Disown(dropped)
        /\ hpc'[t] \in {"reserve", "record", "none"}
        /\ \A u \in Task \ {t} : hpc'[u] = hpc[u] /\ acc'[u] = acc[u]
    <2>1. hpc[t] \in {"finishUnused", "abandon"}
      BY GiveBackStep DEF Phases
    <2>2. /\ hpc'[t] \in {"reserve", "record", "none"}
          /\ \A u \in Task \ {t} : hpc'[u] = hpc[u]
      BY <1>1 DEF NextGroup, TypeOK
    <2>3. /\ UNCHANGED <<pendingWrites, written, wpc, key, slots>>
          /\ acc'[t] = acc[t] \ dropped /\ Disown(dropped)
          /\ \A u \in Task \ {t} : acc'[u] = acc[u]
      BY <1>1 DEF GiveBackUnused, pendingVars, workerVars, TypeOK
    <2> QED BY <2>1, <2>2, <2>3 DEF HandlerClaim
  <1>3. ASSUME NEW u \in Task, u # t PROVE OwnCopied(u)'
    <2>1. dropped \cap HandlerClaim(u) = {}
      BY <1>1, <1>2, <1>3 DEF ReservationsExclusive, ClaimsDisjointWithin
    <2>2. Entry(pendingWrites, u)' = Entry(pendingWrites, u)
      BY <1>2 DEF Entry
    <2>3. OwnCopied(u)
      BY DEF OwnCopies
    <2> QED BY <1>2, <1>3, <2>1, <2>2, <2>3, OwnDisowned
  <1>4. OwnCopied(t)'
    <2>1. \A o \in acc'[t] : writer'[o] = t
      <3>1. \A o \in acc[t] : writer[o] = t /\ o \in ObjectKey
        BY <1>2 DEF OwnCopies, OwnCopied, TypeOK
      <3> QED BY <1>2, <3>1 DEF Disown
    <2>2. wpc'[t] # "gather"
      BY <1>2 DEF Phases, CopyingWorkerHasNoHandler
    <2> QED BY <1>2, <2>1, <2>2 DEF OwnCopied
  <1> QED BY <1>3, <1>4 DEF OwnCopies

\* The slots of the reply are the entry that is recorded; it replaces another
\* task's, of which the task whose it was copies the slots it has.
LEMMA RecordOwn ==
  ASSUME TypeOK, Phases, OwnCopies, NEW t \in Task, RecordPendingWrite(t)
  PROVE  OwnCopies'
  <1>1. /\ hpc[t] = "record" /\ hpc' = [hpc EXCEPT ![t] = "none"]
        /\ acc' = [acc EXCEPT ![t] = {}]
        /\ UNCHANGED <<writer, written, key>>
    BY DEF RecordPendingWrite, storageVars
  <1>2. \A o \in acc[t] : writer[o] = t
    BY <1>1 DEF OwnCopies, OwnCopied
  <1>3. \A u \in Task \ {t} : wpc'[u] = wpc[u] /\ slots'[u] = slots[u]
    BY DEF RecordPendingWrite, Reply, GiveSlots, TypeOK
  <1>4. \A u \in Task : \/ Entry(pendingWrites, u)' = Entry(pendingWrites, u)
                        \/ Entry(pendingWrites, u)' = acc[t]
    <2>1. \A i \in Instance, k \in Key :
             \/ pendingWrites'[i][k] = pendingWrites[i][k] \/ pendingWrites'[i][k] = acc[t]
      <3> DEFINE i0 == InstanceOf[t]
                 k0 == key[t]
      <3>1. i0 \in Instance /\ k0 \in Key
        BY ConstantsAssumption DEF TypeOK
      <3>2. \A i \in Instance, k \in Key :
               pendingWrites'[i][k] = IF i = i0 /\ k = k0 /\ acc[t] # {}
                                      THEN acc[t] ELSE pendingWrites[i][k]
        BY <3>1 DEF RecordPendingWrite, TypeOK
      <3> QED BY <3>2
    <2>2. \A u \in Task : InstanceOf[u] \in Instance /\ key[u] \in Key /\ key'[u] = key[u]
      BY <1>1, ConstantsAssumption DEF TypeOK
    <2> QED BY <2>1, <2>2 DEF Entry
  <1>5. ASSUME NEW u \in Task, u # t PROVE OwnCopied(u)'
    <2>1. Own(u, Entry(pendingWrites, u))' \subseteq Own(u, Entry(pendingWrites, u))
      BY <1>1, <1>2, <1>4, <1>5 DEF Own
    <2>2. /\ hpc'[u] = hpc[u] /\ wpc'[u] = wpc[u] /\ key'[u] = key[u]
          /\ slots'[u] = slots[u] /\ acc'[u] = acc[u]
      BY <1>1, <1>3, <1>5 DEF TypeOK
    <2> QED BY <1>1, <2>1, <2>2, OwnUntouched DEF OwnCopies
  <1>6. OwnCopied(t)'
    <2>1. hpc'[t] = "none" /\ wpc[t] # "gather"
      BY <1>1 DEF TypeOK, Phases, CopyingWorkerHasNoHandler
    <2>2. wpc'[t] = "gather" => Entry(pendingWrites, t)' \subseteq slots'[t]
      <3> SUFFICES ASSUME wpc'[t] = "gather"
                   PROVE  Entry(pendingWrites, t)' = acc[t] /\ slots'[t] = acc[t]
        OBVIOUS
      <3>1. acc[t] # {} /\ wpc[t] = "prepareStore"
        BY <2>1 DEF RecordPendingWrite, Reply, TypeOK
      <3>2. slots'[t] = acc[t]
        BY <3>1 DEF RecordPendingWrite, GiveSlots, TypeOK
      <3>3. InstanceOf[t] \in Instance /\ key[t] \in Key /\ key'[t] = key[t]
        BY <1>1, ConstantsAssumption DEF TypeOK
      <3>4. pendingWrites' = [pendingWrites EXCEPT ![InstanceOf[t]] = [@ EXCEPT ![key[t]] = acc[t]]]
        BY <3>1 DEF RecordPendingWrite
      <3>5. Entry(pendingWrites, t)' = acc[t]
        BY <3>3, <3>4 DEF Entry, TypeOK
      <3> QED BY <3>2, <3>5
    <2> QED BY <2>1, <2>2 DEF OwnCopied, Own
  <1> QED BY <1>5, <1>6 DEF OwnCopies

\* A commit takes the entry, whoever made it, and publishes it.
LEMMA CommitOwn ==
  ASSUME TypeOK, Phases, ReservationsExclusive, OwnCopies, NEW t \in Task,
         PopPendingWrite(t) \/ PublishStore(t)
  PROVE  OwnCopies'
  <1>1. /\ hpc[t] \in {"pop", "publish"} /\ UNCHANGED <<written, key, slots>>
        /\ \A u \in Task \ {t} : hpc'[u] = hpc[u] /\ wpc'[u] = wpc[u] /\ acc'[u] = acc[u]
        /\ wpc'[t] # "gather"
    BY DEF PopPendingWrite, PublishStore, Reply, storageVars, TypeOK, Phases,
       CopyingWorkerHasNoHandler
  <1>2. \A u \in Task : Entry(pendingWrites, u)' \subseteq Entry(pendingWrites, u)
    <2>1. \A i \in Instance, k \in Key : pendingWrites'[i][k] \subseteq pendingWrites[i][k]
      <3>1. CASE PopPendingWrite(t)
        <4> DEFINE i0 == InstanceOf[t]
                   k0 == key[t]
        <4>1. i0 \in Instance /\ k0 \in Key
          BY ConstantsAssumption DEF TypeOK
        <4>2. \A i \in Instance, k \in Key :
                 pendingWrites'[i][k] = IF i = i0 /\ k = k0 THEN {} ELSE pendingWrites[i][k]
          BY <3>1, <4>1 DEF PopPendingWrite, TypeOK
        <4> QED BY <4>2
      <3>2. CASE PublishStore(t)
        BY <3>2 DEF PublishStore, pendingVars
      <3> QED BY <3>1, <3>2
    <2>2. \A u \in Task : InstanceOf[u] \in Instance /\ key[u] \in Key /\ key'[u] = key[u]
      BY <1>1, ConstantsAssumption DEF TypeOK
    <2> QED BY <2>1, <2>2 DEF Entry
  <1>3. ASSUME NEW u \in Task, u # t PROVE OwnCopied(u)'
    <2>1. CASE PopPendingWrite(t)
      <3>1. UNCHANGED writer
        BY <2>1 DEF PopPendingWrite, storageVars
      <3> QED BY <1>1, <1>2, <1>3, <3>1, OwnQuiet DEF OwnCopies
    <2>2. CASE PublishStore(t)
      <3>1. Disown(acc[t]) /\ HandlerClaim(t) = acc[t]
        BY <2>2 DEF PublishStore, HandlerClaim
      <3>2. acc[t] \cap HandlerClaim(u) = {}
        BY <1>3, <3>1 DEF ReservationsExclusive, ClaimsDisjointWithin
      <3>3. OwnCopied(u) /\ written \subseteq written'
        BY <1>1 DEF OwnCopies
      <3> QED BY <1>1, <1>2, <1>3, <3>1, <3>2, <3>3, OwnDisowned
    <2> QED BY <2>1, <2>2
  <1>4. OwnCopied(t)'
    <2>1. CASE PopPendingWrite(t)
      <3>1. /\ hpc[t] = "pop" /\ hpc'[t] \in {"none", "publish"}
            /\ acc'[t] = Entry(pendingWrites, t)
        BY <2>1 DEF PopPendingWrite, Entry, TypeOK
      <3>2. UNCHANGED writer
        BY <2>1 DEF PopPendingWrite, storageVars
      <3> QED BY <1>1, <3>1, <3>2 DEF OwnCopies, OwnCopied, Own
    <2>2. CASE PublishStore(t)
      <3>1. hpc'[t] = "none"
        BY <2>2 DEF PublishStore, TypeOK
      <3> QED BY <1>1, <3>1 DEF OwnCopied
    <2> QED BY <2>1, <2>2
  <1> QED BY <1>3, <1>4 DEF OwnCopies

\* Resolving an instance and reading write nothing.
LEMMA ReadingOwn ==
  ASSUME TypeOK, Phases, OwnCopies, NEW t \in Task,
         \/ Resolve(t) \/ ReadGroup(t) \/ ReadGroupRaises(t) \/ RecordPendingRead(t)
         \/ PopPendingRead(t) \/ UnlockRetrieve(t)
  PROVE  OwnCopies'
  <1>1. UNCHANGED <<writer, written, key, pendingWrites>>
    BY DEF Resolve, ReadGroup, ReadGroupRaises, RecordPendingRead, PopPendingRead,
       UnlockRetrieve, storageVars, workerVars, pendingVars
  <1>2. \A u \in Task \ {t} : /\ hpc'[u] = hpc[u] /\ wpc'[u] = wpc[u] /\ acc'[u] = acc[u]
                              /\ slots'[u] = slots[u]
    <2> USE DEF TypeOK, workerVars
    <2>1. CASE Resolve(t) \/ PopPendingRead(t)
      BY <2>1 DEF Resolve, PopPendingRead
    <2>2. CASE ReadGroup(t) \/ ReadGroupRaises(t)
      BY <2>2 DEF ReadGroup, ReadGroupRaises, NextGroup, Reply
    <2>3. CASE RecordPendingRead(t) \/ UnlockRetrieve(t)
      BY <2>3 DEF RecordPendingRead, UnlockRetrieve, Reply, GiveSlots
    <2> QED BY <2>1, <2>2, <2>3
  <1>3. ASSUME NEW u \in Task, u # t PROVE OwnCopied(u)'
    <2>1. Entry(pendingWrites, u)' = Entry(pendingWrites, u)
      BY <1>1 DEF Entry
    <2> QED BY <1>1, <1>2, <1>3, <2>1, OwnQuiet DEF OwnCopies
  <1>4. OwnCopied(t)'
    <2>1. CASE Resolve(t)
      <3>1. /\ hpc[t] \in Queued /\ acc[t] = {} /\ UNCHANGED <<wpc, acc, slots>>
            /\ wpc[t] # "gather"
        BY <2>1 DEF Resolve, workerVars, Phases, IdleHandlersHoldNothing,
           CopyingWorkerHasNoHandler, Queued
      <3>2. /\ hpc'[t] \in {"none", "reserve", "pop", "read", "popRead"}
            /\ hpc'[t] = "pop" => hpc[t] = "commitStore"
        BY <2>1, <3>1 DEF Resolve, FirstStep, Queued, TypeOK
      <3> QED BY <1>1, <3>1, <3>2 DEF OwnCopies, OwnCopied, Own, Entry
    <2>2. CASE \/ ReadGroup(t) \/ ReadGroupRaises(t) \/ RecordPendingRead(t)
               \/ PopPendingRead(t) \/ UnlockRetrieve(t)
      <3>1. hpc'[t] \in {"none", "read", "recordRead", "unlock"} /\ wpc'[t] # "gather"
        <4> USE DEF TypeOK, workerVars, Phases, CopyingWorkerHasNoHandler
        <4>1. CASE ReadGroup(t)
          <5>1. hpc[t] = "read" /\ wpc[t] # "gather"
            BY <4>1 DEF ReadGroup
          <5>2. hpc'[t] \in {"none", "read", "recordRead"}
            BY <4>1, <5>1 DEF ReadGroup, NextGroup
          <5>3. wpc' = wpc \/ Reply(t, "prepareRetrieve", "endRetrieve")
            BY <4>1 DEF ReadGroup
          <5> QED BY <5>1, <5>2, <5>3 DEF Reply
        <4>2. CASE RecordPendingRead(t) \/ PopPendingRead(t) \/ UnlockRetrieve(t)
          BY <4>2 DEF RecordPendingRead, PopPendingRead, UnlockRetrieve, Reply
        <4>3. CASE ReadGroupRaises(t)
          BY <4>3 DEF ReadGroupRaises
        <4> QED BY <2>2, <4>1, <4>2, <4>3
      <3> QED BY <3>1 DEF OwnCopied
    <2> QED BY <2>1, <2>2
  <1> QED BY <1>3, <1>4 DEF OwnCopies

\* The registry, the reaper, the releases and eviction start no copy, and take
\* only what nobody has reserved.
LEMMA OtherOwn ==
  ASSUME TypeOK, ReservationsExclusive, OwnCopies,
         \/ \E i \in Instance : Lifecycle(i)
         \/ \E o \in ObjectKey : Evict(o)
         \/ ReapStale
         \/ \E r \in Releaser : Release(r)
         \/ UNCHANGED vars
  PROVE  OwnCopies'
  <1> USE DEF registryVars, pendingVars, storageVars, workerVars, handlerVars, releaseVars
  <1>1. ASSUME UNCHANGED <<writer, written, key, slots, acc, hpc, wpc>>,
               \A i \in Instance, k \in Key : pendingWrites'[i][k] \subseteq pendingWrites[i][k]
        PROVE  OwnCopies'
    <2>1. \A u \in Task : Entry(pendingWrites, u)' \subseteq Entry(pendingWrites, u)
      <3>1. \A u \in Task : InstanceOf[u] \in Instance /\ key[u] \in Key
        BY ConstantsAssumption DEF TypeOK
      <3> QED BY <1>1, <3>1 DEF Entry
    <2> QED BY <1>1, <2>1, OwnQuiet DEF OwnCopies
  <1>2. ASSUME NEW i \in Instance, Crash(i) PROVE OwnCopies'
    <2>1. /\ UNCHANGED <<writer, written, key, acc, hpc, pendingWrites>>
          /\ \A u \in Task : \/ wpc'[u] = wpc[u] /\ slots'[u] = slots[u]
                             \/ wpc'[u] = "idle"
      BY <1>2 DEF Crash, TypeOK
    <2>2. ASSUME NEW u \in Task PROVE OwnCopied(u)'
      <3>1. OwnCopied(u)
        BY DEF OwnCopies
      <3> QED BY <2>1, <3>1 DEF OwnCopied, Own, Entry
    <2> QED BY <2>2 DEF OwnCopies
  <1>3. ASSUME NEW i \in Instance, Lifecycle(i), ~Crash(i) PROVE OwnCopies'
    BY <1>1, <1>3 DEF Lifecycle, Register, Touch, GoSilent, Unregister
  <1>4. ASSUME NEW o \in ObjectKey, Evict(o) PROVE OwnCopies'
    <2>1. /\ obj[o] = "readable" /\ written' = written \ {o}
          /\ UNCHANGED <<writer, pendingWrites, key, slots, acc, hpc, wpc>>
      BY <1>4 DEF Evict, Unlocked, Drop
    <2>2. ASSUME NEW u \in Task, NEW p \in HandlerClaim(u) \cup Entry(pendingWrites, u)
          PROVE  p # o /\ writer'[p] = writer[p] /\ (p \in written => p \in written')
      <3>1. p \in ObjectKey /\ obj[p] = "writing"
        BY <2>2, ClaimedIsWriting
      <3> QED BY <2>1, <3>1 DEF TypeOK
    <2>3. ASSUME NEW u \in Task PROVE OwnCopied(u)'
      <3>1. Own(u, Entry(pendingWrites, u))' \subseteq Own(u, Entry(pendingWrites, u))
        BY <2>1, <2>2 DEF Own, Entry
      <3> QED BY <2>1, <2>2, <3>1, OwnUntouched DEF OwnCopies
    <2> QED BY <2>3 DEF OwnCopies
  <1>5. CASE ReapStale \/ UNCHANGED vars
    BY <1>1, <1>5 DEF ReapStale, vars
  <1>6. ASSUME NEW r \in Releaser, Release(r) PROVE OwnCopies'
    <2>1. \A i \in Instance, k \in Key : pendingWrites'[i][k] \subseteq pendingWrites[i][k]
      BY <1>6 DEF Release, SweepPending, FinishSweptWrite, FinishSweptRead, NoPending, TypeOK
    <2>2. CASE \/ \E i \in Instance : SweepPending(r, i)
               \/ \E k \in Key : FinishSweptRead(r, k)
      BY <1>1, <2>1, <2>2 DEF SweepPending, FinishSweptRead
    <2>3. ASSUME NEW k \in Key, FinishSweptWrite(r, k) PROVE OwnCopies'
      <3>1. /\ UNCHANGED <<written, key, slots, acc, hpc, wpc, pendingWrites>>
            /\ Disown(relWrites[r][k])
        BY <2>3 DEF FinishSweptWrite
      <3>2. ASSUME NEW u \in Task PROVE OwnCopied(u)'
        <4>1. relWrites[r][k] \cap HandlerClaim(u) = {}
          BY DEF ReservationsExclusive, ClaimsDisjointAcross
        <4>2. /\ Entry(pendingWrites, u)' = Entry(pendingWrites, u)
              /\ OwnCopied(u) /\ written \subseteq written'
          BY <3>1 DEF Entry, OwnCopies
        <4> QED BY <3>1, <4>1, <4>2, OwnDisowned
      <3> QED BY <3>2 DEF OwnCopies
    <2> QED BY <1>6, <2>2, <2>3 DEF Release
  <1> QED BY <1>2, <1>3, <1>4, <1>5, <1>6

\* Every step keeps it.
LEMMA NextOwn == IInv /\ OwnCopies /\ [Next]_vars => OwnCopies'
  <1> SUFFICES ASSUME TypeOK, Phases, ReservationsExclusive, OwnCopies, [Next]_vars
               PROVE  OwnCopies'
    BY DEF IInv, Phases
  <1>1. ASSUME NEW t \in Task, Handler(t) PROVE OwnCopies'
    BY <1>1, ReserveOwn, GiveBackOwn, RecordOwn, CommitOwn, ReadingOwn DEF Handler
  <1> QED BY <1>1, WorkerOwn, OtherOwn DEF Next

\* A commit never publishes an object that its own task reserved and has not
\* copied in full: also when it finds another task's entry under its key, when
\* an operation before it timed out, and when instances are released meanwhile.
THEOREM CommitsPublishOwnCopies == Spec => CommitPublishesOwnCopies
  <1>1. Init => IInv /\ OwnCopies
    <2>1. Init => OwnCopies
      BY DEF Init, OwnCopies, OwnCopied
    <2> QED BY <2>1, InitIInv
  <1>2. IInv /\ OwnCopies /\ [Next]_vars => (IInv /\ OwnCopies)'
    BY NextIInv, NextOwn
  <1>3. OwnCopies => [\A t \in Task :
           PublishStore(t) => {o \in acc[t] : writer[o] = t} \subseteq written]_vars
    <2> SUFFICES ASSUME OwnCopies, NEW t \in Task, PublishStore(t)
                 PROVE  {o \in acc[t] : writer[o] = t} \subseteq written
      OBVIOUS
    <2> QED BY DEF OwnCopies, OwnCopied, Own, PublishStore
  <1> QED BY <1>1, <1>2, <1>3, PTL DEF Spec, CommitPublishesOwnCopies

-----------------------------------------------------------------------------
(* Where the read locks are.                                               *)

\* The read locks a handler has in its hands.
Locks(t) ==
    IF hpc[t] \in Reading THEN Found(key[t]) ELSE IF hpc[t] = "unlock" THEN acc[t] ELSE {}

\* A lock that is, or is not, among those on `objects`, as a number.
One(objects, o) == IF o \in objects THEN 1 ELSE 0

\* There are finitely many places, and the locks in them and those that are left
\* are all there are on o; one that is read-locked can be read.
Accounted(o) ==
    /\ IsFiniteSet(LockEntries(o)) /\ IsFiniteSet(LockSwept(o))
    /\ readers[o] = Cardinality(Locking(o)) + Cardinality(LockEntries(o))
                    + Cardinality(LockSwept(o)) + left[o]

\* The objects of the first n groups of a key.
FirstGroups(k, n) == UNION {ObjKeys[k][g] : g \in 1 .. n}

\* Before the last group a retrieve has in its hands what it has read so far; at
\* the end it is all that the lookup found.
ReadSoFar(t) ==
    /\ hpc[t] \notin {"reserve", "finishUnused", "abandon", "read"} => grp[t] = 1
    /\ hpc[t] = "read" => acc[t] = FirstGroups(key[t], grp[t] - 1)
    /\ hpc[t] = "recordRead" => acc[t] = Found(key[t])

LockInv ==
    /\ \A o \in ObjectKey : Accounted(o)
    /\ \A t \in Task : ReadSoFar(t)

\* The places where a lock can be, one element more or less.
LEMMA CountOne ==
  ASSUME NEW S, IsFiniteSet(S), NEW x, NEW T, T \ {x} = S \ {x}
  PROVE  /\ IsFiniteSet(T)
         /\ Cardinality(S) \in Nat /\ Cardinality(T) \in Nat
         /\ x \in S => Cardinality(S) > 0
         /\ Cardinality(T) + (IF x \in S THEN 1 ELSE 0)
              = Cardinality(S) + (IF x \in T THEN 1 ELSE 0)
  <1>1. /\ IsFiniteSet(S \ {x}) /\ Cardinality(S) \in Nat
        /\ Cardinality(S \ {x}) = IF x \in S THEN Cardinality(S) - 1 ELSE Cardinality(S)
    BY FS_RemoveElement, FS_CardinalityType
  <1>2. Cardinality(S \ {x}) \in Nat
    BY <1>1, FS_CardinalityType
  <1>3. CASE x \in T
    <2>1. T = (S \ {x}) \cup {x}
      BY <1>3
    <2>2. IsFiniteSet(T) /\ Cardinality(T) = Cardinality(S \ {x}) + 1
      BY <1>1, <2>1, FS_AddElement
    <2> QED BY <1>1, <1>2, <1>3, <2>2
  <1>4. CASE x \notin T
    <2>1. T = S \ {x}
      BY <1>4
    <2> QED BY <1>1, <1>2, <1>4, <2>1
  <1> QED BY <1>3, <1>4

\* The handlers that have locks in their hands.
LEMMA LockingTasks ==
  ASSUME NEW o
  PROVE  Locking(o) = {t \in Task : o \in Locks(t)} /\ IsFiniteSet(Locking(o))
  <1>1. Locking(o) = {t \in Task : o \in Locks(t)}
    BY DEF Locking, Locks, Reading
  <1> QED BY <1>1, ConstantsAssumption, FS_Subset

\* What a handler has in its hands, or a pop or a release takes, is locked.
LEMMA HeldIsLocked ==
  ASSUME TypeOK, NEW o \in ObjectKey, Accounted(o)
  PROVE  /\ \A t \in Task : o \in Locks(t) => readers[o] > 0
         /\ \A i \in Instance, k \in Key : o \in pendingReads[i][k] => readers[o] > 0
         /\ \A r \in Releaser, k \in Key : o \in relReads[r][k] => readers[o] > 0
  <1>1. /\ Cardinality(Locking(o)) \in Nat /\ Cardinality(LockEntries(o)) \in Nat
        /\ Cardinality(LockSwept(o)) \in Nat /\ left[o] \in Nat
        /\ Locking(o) # {} => Cardinality(Locking(o)) # 0
        /\ LockEntries(o) # {} => Cardinality(LockEntries(o)) # 0
        /\ LockSwept(o) # {} => Cardinality(LockSwept(o)) # 0
    BY LockingTasks, FS_CardinalityType, FS_EmptySet DEF Accounted, TypeOK
  <1>2. Locking(o) # {} \/ LockEntries(o) # {} \/ LockSwept(o) # {} => readers[o] > 0
    BY <1>1 DEF Accounted
  <1>3. ASSUME NEW t \in Task, o \in Locks(t) PROVE readers[o] > 0
    BY <1>2, <1>3, LockingTasks
  <1>4. ASSUME NEW i \in Instance, NEW k \in Key, o \in pendingReads[i][k] PROVE readers[o] > 0
    <2>1. <<i, k>> \in LockEntries(o)
      BY <1>4 DEF LockEntries
    <2> QED BY <1>2, <2>1
  <1>5. ASSUME NEW r \in Releaser, NEW k \in Key, o \in relReads[r][k] PROVE readers[o] > 0
    <2>1. <<r, k>> \in LockSwept(o)
      BY <1>5 DEF LockSwept
    <2> QED BY <1>2, <2>1
  <1> QED BY <1>3, <1>4, <1>5

\* A step of one task, which may change the entry under its key: on each object
\* the locks that are gone from its hands and its entry are left, or given back.
LEMMA TaskStep ==
  ASSUME TypeOK, NEW o \in ObjectKey, Accounted(o), NEW t \in Task,
         \A u \in Task \ {t} : o \in Locks(u)' <=> o \in Locks(u),
         NEW i \in Instance, NEW k \in Key,
         \A j \in Instance, l \in Key :
            ~(j = i /\ l = k) => pendingReads'[j][l] = pendingReads[j][l],
         UNCHANGED relReads,
         readers'[o] \in Nat, left'[o] \in Nat,
         readers'[o] + One(Locks(t), o) + One(pendingReads[i][k], o) + left[o]
           = readers[o] + One(Locks(t)', o) + One(pendingReads'[i][k], o) + left'[o]
  PROVE  Accounted(o)'
  <1>1. /\ readers[o] = Cardinality(Locking(o)) + Cardinality(LockEntries(o))
                        + Cardinality(LockSwept(o)) + left[o]
        /\ IsFiniteSet(LockEntries(o)) /\ IsFiniteSet(LockSwept(o))
        /\ readers[o] \in Nat /\ left[o] \in Nat
    BY DEF Accounted, TypeOK
  <1>2. /\ Cardinality(Locking(o)) \in Nat /\ Cardinality(Locking(o)') \in Nat
        /\ Cardinality(Locking(o)') + One(Locks(t), o)
             = Cardinality(Locking(o)) + One(Locks(t)', o)
    <2>1. Locking(o)' = {u \in Task : o \in Locks(u)'}
      BY DEF Locking, Locks, Reading
    <2>2. /\ Locking(o)' \ {t} = Locking(o) \ {t}
          /\ t \in Locking(o) <=> o \in Locks(t)
          /\ t \in Locking(o)' <=> o \in Locks(t)'
      BY <2>1, LockingTasks
    <2> HIDE DEF Locks
    <2> QED BY <2>2, LockingTasks, CountOne DEF One
  <1>3. /\ IsFiniteSet(LockEntries(o)') /\ Cardinality(LockEntries(o)) \in Nat
        /\ Cardinality(LockEntries(o)') \in Nat
        /\ Cardinality(LockEntries(o)') + One(pendingReads[i][k], o)
             = Cardinality(LockEntries(o)) + One(pendingReads'[i][k], o)
    <2>1. LockEntries(o)' = {e \in Instance \X Key : o \in pendingReads'[e[1]][e[2]]}
      BY DEF LockEntries
    <2>2. /\ LockEntries(o)' \ {<<i, k>>} = LockEntries(o) \ {<<i, k>>}
          /\ <<i, k>> \in LockEntries(o) <=> o \in pendingReads[i][k]
          /\ <<i, k>> \in LockEntries(o)' <=> o \in pendingReads'[i][k]
      BY <2>1 DEF LockEntries
    <2> QED BY <1>1, <2>2, CountOne DEF One
  <1>4. LockSwept(o)' = LockSwept(o) /\ Cardinality(LockSwept(o)) \in Nat
    BY <1>1, FS_CardinalityType DEF LockSwept
  <1>5. /\ One(Locks(t), o) \in Nat /\ One(Locks(t)', o) \in Nat
        /\ One(pendingReads[i][k], o) \in Nat /\ One(pendingReads'[i][k], o) \in Nat
    BY DEF One
  <1>6. readers'[o] = Cardinality(Locking(o)') + Cardinality(LockEntries(o)')
                        + Cardinality(LockSwept(o)) + left'[o]
    <2> DEFINE a == Cardinality(Locking(o))
               b == Cardinality(LockEntries(o))
               s == Cardinality(LockSwept(o))
               a1 == Cardinality(Locking(o)')
               b1 == Cardinality(LockEntries(o)')
               x == One(Locks(t), o)
               x1 == One(Locks(t)', o)
               y == One(pendingReads[i][k], o)
               y1 == One(pendingReads'[i][k], o)
    <2>1. /\ a \in Nat /\ a1 \in Nat /\ b \in Nat /\ b1 \in Nat /\ s \in Nat
          /\ x \in Nat /\ x1 \in Nat /\ y \in Nat /\ y1 \in Nat
          /\ readers[o] = a + b + s + left[o] /\ a1 + x = a + x1 /\ b1 + y = b + y1
      BY <1>1, <1>2, <1>3, <1>4, <1>5
    <2>2. readers'[o] + x + y + left[o] = readers[o] + x1 + y1 + left'[o]
      OBVIOUS
    <2> HIDE DEF a, b, s, a1, b1, x, x1, y, y1
    <2>3. readers'[o] = a1 + b1 + s + left'[o]
      BY <1>1, <2>1, <2>2
    <2> QED BY <2>3 DEF a1, b1, s
  <1> QED BY <1>1, <1>3, <1>4, <1>6 DEF Accounted

\* What a step does to the storage's counters on one object.
LEMMA Counters ==
  ASSUME TypeOK, NEW o \in ObjectKey, NEW keys
  PROVE  /\ LockPrefetched(keys) => readers'[o] = readers[o] + One(keys, o)
         /\ FinishReadPrefetched(keys) /\ (o \in keys => readers[o] > 0)
               => readers'[o] = readers[o] - One(keys, o)
         /\ Leave(keys) => left'[o] = left[o] + One(keys, o)
         /\ readers[o] \in Nat /\ left[o] \in Nat /\ One(keys, o) \in Nat
  BY DEF LockPrefetched, FinishReadPrefetched, Leave, One, TypeOK

\* Nothing moves that has to do with read locks.
LEMMA AccountedStays ==
  ASSUME NEW o \in ObjectKey, Accounted(o),
         UNCHANGED <<readers, left, pendingReads, relReads>>,
         \A u \in Task : o \in Locks(u)' <=> o \in Locks(u)
  PROVE  Accounted(o)'
  <1>1. Locking(o)' = Locking(o)
    <2>1. Locking(o)' = {u \in Task : o \in Locks(u)'}
      BY DEF Locking, Locks, Reading
    <2> HIDE DEF Locks
    <2> QED BY <2>1, LockingTasks
  <1>2. LockEntries(o)' = LockEntries(o) /\ LockSwept(o)' = LockSwept(o)
    BY DEF LockEntries, LockSwept
  <1> QED BY <1>1, <1>2 DEF Accounted

\* A task that a step leaves alone.
LEMMA LocksStay ==
  ASSUME NEW u \in Task, ReadSoFar(u), UNCHANGED <<hpc[u], key[u], acc[u], grp[u]>>
  PROVE  Locks(u)' = Locks(u) /\ ReadSoFar(u)'
  <1>1. Found(key[u])' = Found(key[u])
    BY DEF Found
  <1>2. FirstGroups(key[u], grp[u] - 1)' = FirstGroups(key[u], grp[u] - 1)
    BY DEF FirstGroups
  <1> QED BY <1>1, <1>2 DEF Locks, ReadSoFar

\* A worker that begins to retrieve holds what the lookup found; else its requests
\* have nothing in their hands.
LEMMA WorkerLocks ==
  ASSUME TypeOK, Phases, LockInv, NEW t \in Task, Worker(t)
  PROVE  LockInv'
  <1>1. /\ UNCHANGED <<left, pendingReads, relReads, acc, grp>>
        /\ \A u \in Task \ {t} : hpc'[u] = hpc[u] /\ key'[u] = key[u]
    BY DEF Worker, SubmitStore, SubmitRetrieve, Gather, GatherFails, Scatter, RetrieveRaises,
       SendCommitRetrieve, Timeout, storageVars, pendingVars, handlerVars, workerVars,
       releaseVars, TypeOK
  <1>2. \A u \in Task \ {t} : Locks(u)' = Locks(u) /\ ReadSoFar(u)'
    BY <1>1, LocksStay DEF LockInv
  <1>3. ASSUME NEW k \in Key, SubmitRetrieve(t, k) PROVE LockInv'
    <2>1. /\ hpc[t] = "none" /\ hpc'[t] = "prepareRetrieve" /\ key'[t] = k
          /\ LockPrefetched(Found(k)) /\ acc[t] = {} /\ grp[t] = 1
      BY <1>3 DEF SubmitRetrieve, TypeOK, Phases, IdleHandlersHoldNothing, LockInv, ReadSoFar
    <2>2. ReadSoFar(t)'
      BY <1>1, <2>1 DEF ReadSoFar
    <2>3. Locks(t) = {} /\ Locks(t)' = Found(k)
      BY <2>1 DEF Locks, Reading, Found
    <2>4. ASSUME NEW o \in ObjectKey PROVE Accounted(o)'
      <3>1. /\ readers'[o] = readers[o] + One(Found(k), o) /\ left'[o] = left[o]
            /\ readers[o] \in Nat /\ left[o] \in Nat /\ One(Found(k), o) \in Nat
            /\ One(Locks(t), o) = 0 /\ One(Locks(t)', o) = One(Found(k), o)
        BY <1>1, <2>1, <2>3, Counters DEF One
      <3>2. InstanceOf[t] \in Instance /\ Accounted(o)
        BY ConstantsAssumption DEF LockInv
      <3>3. One(pendingReads[InstanceOf[t]][k], o) \in Nat
        BY DEF One
      <3>4. /\ readers'[o] \in Nat /\ left'[o] \in Nat
            /\ readers'[o] + One(Locks(t), o) + One(pendingReads[InstanceOf[t]][k], o) + left[o]
                 = readers[o] + One(Locks(t)', o) + One(pendingReads'[InstanceOf[t]][k], o) + left'[o]
        BY <1>1, <3>1, <3>3
      <3> QED BY <1>1, <1>2, <3>2, <3>4, TaskStep
    <2> QED BY <1>2, <2>2, <2>4 DEF LockInv
  <1>4. CASE ~\E k \in Key : SubmitRetrieve(t, k)
    <2>1. /\ UNCHANGED readers
          /\ \/ hpc'[t] = hpc[t] /\ key'[t] = key[t]
             \/ hpc[t] = "none" /\ hpc'[t] \in {"prepareStore", "commitStore", "commitRetrieve"}
      BY <1>4 DEF Worker, SubmitStore, Gather, GatherFails, Scatter, RetrieveRaises,
         SendCommitRetrieve, Timeout, storageVars, handlerVars, TypeOK, Phases,
         CopyingWorkerHasNoHandler
    <2>2. Locks(t)' = Locks(t)
      BY <1>1, <2>1 DEF Locks, Reading, Found
    <2>3. ReadSoFar(t)'
      <3>1. CASE hpc'[t] = hpc[t] /\ key'[t] = key[t]
        BY <1>1, <3>1, LocksStay DEF LockInv
      <3>2. CASE hpc[t] = "none" /\ hpc'[t] \in {"prepareStore", "commitStore", "commitRetrieve"}
        BY <1>1, <3>2 DEF LockInv, ReadSoFar
      <3> QED BY <2>1, <3>1, <3>2
    <2> QED BY <1>1, <1>2, <2>1, <2>2, <2>3, AccountedStays DEF LockInv
  <1> QED BY <1>3, <1>4

\* Handlers of a store have no read lock in their hands.
LEMMA StoreLocks ==
  ASSUME TypeOK, UnusedIsHeld, LockInv, NEW t \in Task,
         \/ ReserveGroup(t) \/ ReserveGroupRaises(t) \/ FinishUnused(t) \/ AbandonPrepare(t)
         \/ RecordPendingWrite(t) \/ PopPendingWrite(t) \/ PublishStore(t)
  PROVE  LockInv'
  <1> DEFINE Loop == {"reserve", "finishUnused", "abandon"}
             After == {"record", "publish", "none"}
  <1>1. /\ UNCHANGED <<readers, left, pendingReads, relReads, key>>
        /\ \A u \in Task \ {t} : hpc'[u] = hpc[u] /\ acc'[u] = acc[u] /\ grp'[u] = grp[u]
        /\ hpc[t] \in Loop \cup {"record", "pop", "publish"}
        /\ hpc'[t] \in Loop \/ (hpc'[t] \in After /\ grp'[t] = 1)
    <2> USE DEF storageVars, pendingVars, releaseVars, workerVars, handlerVars, TypeOK
    <2>1. CASE ReserveGroup(t) \/ ReserveGroupRaises(t)
      <3>1. PICK granted, rest \in SUBSET ObjectKey : Reserves(t, granted, rest)
        BY <2>1, ReserveStep
      <3> QED BY <3>1 DEF Reserves, Reserve, NextGroup
    <2>2. CASE FinishUnused(t) \/ AbandonPrepare(t)
      BY <2>2 DEF FinishUnused, AbandonPrepare, GiveBackUnused, NextGroup
    <2>3. CASE RecordPendingWrite(t) \/ PopPendingWrite(t) \/ PublishStore(t)
      <3>1. hpc[t] \in {"record", "pop", "publish"}
        BY <2>3 DEF RecordPendingWrite, PopPendingWrite, PublishStore
      <3>2. grp[t] = 1
        BY <3>1 DEF LockInv, ReadSoFar
      <3> QED BY <2>3, <3>1, <3>2 DEF RecordPendingWrite, PopPendingWrite, PublishStore
    <2> QED BY <2>1, <2>2, <2>3
  <1>2. \A u \in Task \ {t} : Locks(u)' = Locks(u) /\ ReadSoFar(u)'
    BY <1>1, LocksStay DEF LockInv
  <1>3. Locks(t) = {} /\ Locks(t)' = {}
    BY <1>1 DEF Locks, Reading
  <1>4. ReadSoFar(t)'
    BY <1>1 DEF ReadSoFar
  <1> QED BY <1>1, <1>2, <1>3, <1>4, AccountedStays DEF LockInv

\* The groups read so far and one more are the groups read then; with the last
\* one they are all that a lookup found.
LEMMA OneMoreGroup ==
  ASSUME NEW k \in Key, NEW g \in Group
  PROVE  /\ FirstGroups(k, g - 1) \cup ObjKeys[k][g] = FirstGroups(k, g)
         /\ g = NumGroups => FirstGroups(k, g) = Found(k)
         /\ FirstGroups(k, 0) = {}
  <1>1. g \in Nat \ {0} /\ NumGroups \in Nat
    BY ConstantsAssumption DEF Group
  <1>2. 1 .. g = (1 .. g - 1) \cup {g} /\ 1 .. 0 = {}
    BY <1>1
  <1> QED BY <1>2 DEF FirstGroups, Found, Group

\* A handler whose locks are left, or given back, and that goes on, or ends,
\* without a change of its entry.
LEMMA HandsStep ==
  ASSUME TypeOK, LockInv, NEW t \in Task, UNCHANGED <<pendingReads, relReads, key>>,
         \A u \in Task \ {t} : UNCHANGED <<hpc[u], acc[u], grp[u]>>,
         ReadSoFar(t)',
         \A o \in ObjectKey : /\ readers'[o] \in Nat /\ left'[o] \in Nat
                              /\ readers'[o] + One(Locks(t), o) + left[o]
                                   = readers[o] + One(Locks(t)', o) + left'[o]
  PROVE  LockInv'
  <1>1. \A u \in Task \ {t} : Locks(u)' = Locks(u) /\ ReadSoFar(u)'
    BY LocksStay DEF LockInv
  <1>2. ASSUME NEW o \in ObjectKey PROVE Accounted(o)'
    <2> DEFINE entry == pendingReads[InstanceOf[t]][key[t]]
    <2>1. InstanceOf[t] \in Instance /\ key[t] \in Key /\ Accounted(o)
      BY ConstantsAssumption DEF LockInv, TypeOK
    <2>2. /\ One(Locks(t), o) \in Nat /\ One(Locks(t)', o) \in Nat /\ One(entry, o) \in Nat
          /\ readers[o] \in Nat /\ left[o] \in Nat
      BY DEF One, TypeOK
    <2>3. readers'[o] + One(Locks(t), o) + One(entry, o) + left[o]
            = readers[o] + One(Locks(t)', o) + One(entry, o) + left'[o]
      BY <2>2
    <2> QED BY <1>1, <2>1, <2>3, TaskStep
  <1> QED BY <1>1, <1>2 DEF LockInv

\* A handler that resolves its instance keeps the locks of its lookup, or leaves
\* them when it raises.
LEMMA ResolveLocks ==
  ASSUME TypeOK, Phases, LockInv, NEW t \in Task, Resolve(t)
  PROVE  LockInv'
  <1>1. /\ hpc[t] \in Queued /\ acc[t] = {} /\ grp[t] = 1
        /\ UNCHANGED <<pendingReads, relReads, key, acc, grp, readers>>
        /\ \A u \in Task \ {t} : hpc'[u] = hpc[u]
    BY DEF Resolve, pendingVars, releaseVars, workerVars, Phases, IdleHandlersHoldNothing,
       LockInv, ReadSoFar, Queued, TypeOK
  <1>2. key[t] \in Key /\ 1 \in Group
    BY ConstantsAssumption DEF TypeOK, Group
  <1>3. CASE InstanceOf[t] \in contexts /\ InstanceOf[t] \in strategies
    <2>1. hpc'[t] = FirstStep[hpc[t]] /\ left' = left
      BY <1>3 DEF Resolve, TypeOK
    <2>2. /\ hpc'[t] \in {"reserve", "pop", "read", "popRead"}
          /\ hpc'[t] = "read" <=> hpc[t] = "prepareRetrieve"
      BY <1>1, <2>1 DEF FirstStep, Queued
    <2>3. Locks(t)' = Locks(t)
      BY <1>1, <2>2 DEF Locks, Reading, Queued, Found
    <2>4. ReadSoFar(t)'
      <3>1. grp'[t] - 1 = 0 /\ acc'[t] = {} /\ FirstGroups(key'[t], 0) = {}
        BY <1>1, <1>2, OneMoreGroup
      <3> QED BY <1>1, <2>2, <3>1 DEF ReadSoFar
    <2>5. \A o \in ObjectKey : readers[o] \in Nat /\ left[o] \in Nat
      BY DEF TypeOK
    <2> QED BY <1>1, <2>1, <2>3, <2>4, <2>5, HandsStep
  <1>4. CASE ~(InstanceOf[t] \in contexts /\ InstanceOf[t] \in strategies)
    <2>1. hpc'[t] = "none" /\ Leave(Locks(t))
      BY <1>1, <1>4 DEF Resolve, TypeOK, Locks, Reading, Queued
    <2>2. Locks(t)' = {}
      BY <2>1 DEF Locks, Reading
    <2>3. ReadSoFar(t)'
      BY <1>1, <2>1 DEF ReadSoFar
    <2>4. ASSUME NEW o \in ObjectKey
          PROVE  /\ readers'[o] \in Nat /\ left'[o] \in Nat
                 /\ readers'[o] + One(Locks(t), o) + left[o]
                      = readers[o] + One(Locks(t)', o) + left'[o]
      <3>1. left'[o] = left[o] + One(Locks(t), o) /\ One(Locks(t)', o) = 0
        BY <2>1, <2>2, Counters DEF One
      <3> QED BY <1>1, <3>1, Counters
    <2> QED BY <1>1, <2>3, <2>4, HandsStep
  <1> QED BY <1>3, <1>4

\* A group is read and its locks stay; or all locks read so far are given back and
\* the others left; or all are left.
LEMMA GroupLocks ==
  ASSUME TypeOK, LockInv, NEW t \in Task, ReadGroup(t) \/ ReadGroupRaises(t)
  PROVE  LockInv'
  <1> DEFINE wanted == ObjKeys[key[t]][grp[t]]
             held == acc[t] \cup Prefetched(wanted)
  <1>1. /\ hpc[t] = "read" /\ key[t] \in Key /\ grp[t] \in Group
        /\ UNCHANGED <<pendingReads, relReads, key>>
        /\ \A u \in Task \ {t} : UNCHANGED <<hpc[u], acc[u], grp[u]>>
        /\ acc[t] = FirstGroups(key[t], grp[t] - 1)
    BY DEF ReadGroup, ReadGroupRaises, NextGroup, pendingVars, releaseVars, workerVars,
       TypeOK, LockInv, ReadSoFar
  <1>2. Locks(t) = Found(key[t])
    BY <1>1 DEF Locks, Reading
  <1>3. held \subseteq Found(key[t])
    <2>1. 1 .. grp[t] - 1 \subseteq Group
      BY <1>1, ConstantsAssumption DEF Group
    <2> QED BY <1>1, <2>1 DEF FirstGroups, Found, Prefetched
  <1>4. CASE /\ acc' = [acc EXCEPT ![t] = held] /\ Prefetched(wanted) = wanted
             /\ NextGroup(t, "read", "recordRead") /\ UNCHANGED <<readers, left>>
    <2>1. acc'[t] = FirstGroups(key[t], grp[t])
      BY <1>1, <1>4, OneMoreGroup DEF TypeOK
    <2>2. \/ hpc'[t] = "read" /\ grp'[t] = grp[t] + 1
          \/ hpc'[t] = "recordRead" /\ grp'[t] = 1 /\ grp[t] = NumGroups
      BY <1>1, <1>4, ConstantsAssumption DEF NextGroup, TypeOK, Group
    <2>3. ReadSoFar(t)'
      <3>1. CASE hpc'[t] = "read" /\ grp'[t] = grp[t] + 1
        <4>1. FirstGroups(key[t], grp[t] - 1)' = FirstGroups(key'[t], grp'[t] - 1)
          BY DEF FirstGroups
        <4>2. FirstGroups(key'[t], grp'[t] - 1) = acc'[t]
          <5>1. key'[t] = key[t] /\ grp'[t] - 1 = grp[t]
            BY <1>1, <3>1, ConstantsAssumption DEF Group
          <5> QED BY <2>1, <5>1
        <4> QED BY <3>1, <4>1, <4>2 DEF ReadSoFar
      <3>2. CASE hpc'[t] = "recordRead" /\ grp'[t] = 1 /\ grp[t] = NumGroups
        <4>1. acc'[t] = Found(key'[t])
          BY <1>1, <2>1, <3>2, OneMoreGroup
        <4>2. Found(key[t])' = Found(key'[t])
          BY DEF Found
        <4> QED BY <3>2, <4>1, <4>2 DEF ReadSoFar
      <3> QED BY <2>2, <3>1, <3>2
    <2>4. Locks(t)' = Locks(t)
      BY <1>1, <2>2 DEF Locks, Reading, Found
    <2>5. \A o \in ObjectKey : readers[o] \in Nat /\ left[o] \in Nat
      BY DEF TypeOK
    <2> QED BY <1>1, <1>4, <2>3, <2>4, <2>5, HandsStep
  <1>5. ASSUME NEW given \in SUBSET Found(key[t]), FinishReadPrefetched(given),
               Leave(Found(key[t]) \ given), hpc' = [hpc EXCEPT ![t] = "none"],
               grp' = [grp EXCEPT ![t] = 1]
        PROVE  LockInv'
    <2>1. hpc'[t] = "none" /\ grp'[t] = 1
      BY <1>5 DEF TypeOK
    <2>2. Locks(t)' = {} /\ ReadSoFar(t)'
      BY <2>1 DEF Locks, Reading, ReadSoFar
    <2>3. ASSUME NEW o \in ObjectKey
          PROVE  /\ readers'[o] \in Nat /\ left'[o] \in Nat
                 /\ readers'[o] + One(Locks(t), o) + left[o]
                      = readers[o] + One(Locks(t)', o) + left'[o]
      <3>1. o \in given => readers[o] > 0
        BY <1>2, <1>5, HeldIsLocked DEF LockInv
      <3>2. /\ readers'[o] = readers[o] - One(given, o)
            /\ left'[o] = left[o] + One(Found(key[t]) \ given, o)
        BY <1>5, <3>1, Counters
      <3>3. /\ One(Locks(t), o) = One(given, o) + One(Found(key[t]) \ given, o)
            /\ One(Locks(t)', o) = 0
            /\ One(given, o) = 0 \/ (o \in given /\ One(given, o) = 1)
            /\ One(given, o) \in Nat /\ One(Found(key[t]) \ given, o) \in Nat
        BY <1>2, <2>2 DEF One
      <3>4. readers[o] \in Nat /\ left[o] \in Nat
        BY DEF TypeOK
      <3> QED BY <3>1, <3>2, <3>3, <3>4
    <2> QED BY <1>1, <2>2, <2>3, HandsStep
  <1>6. CASE ReadGroupRaises(t)
    <2>1. /\ Leave(Found(key[t]) \ {}) /\ hpc' = [hpc EXCEPT ![t] = "none"]
          /\ grp' = [grp EXCEPT ![t] = 1] /\ readers' = readers
      BY <1>6 DEF ReadGroupRaises
    <2>2. FinishReadPrefetched({})
      BY <2>1 DEF FinishReadPrefetched, TypeOK
    <2> QED BY <1>5, <2>1, <2>2
  <1>7. CASE ReadGroup(t)
    <2>1. \/ /\ acc' = [acc EXCEPT ![t] = held] /\ Prefetched(wanted) = wanted
             /\ NextGroup(t, "read", "recordRead") /\ UNCHANGED <<readers, left>>
          \/ /\ FinishReadPrefetched(held) /\ Leave(Found(key[t]) \ held)
             /\ hpc' = [hpc EXCEPT ![t] = "none"] /\ grp' = [grp EXCEPT ![t] = 1]
      BY <1>7 DEF ReadGroup
    <2> HIDE DEF held
    <2> QED BY <1>3, <1>4, <1>5, <2>1
  <1> QED BY <1>6, <1>7

\* The reply of a prepare moves its locks to the entry under its key; a commit
\* takes them out of it again; and gives them back.
LEMMA EntryLocks ==
  ASSUME TypeOK, LockInv, NEW t \in Task,
         RecordPendingRead(t) \/ PopPendingRead(t) \/ UnlockRetrieve(t)
  PROVE  LockInv'
  <1> DEFINE i == InstanceOf[t]
             k == key[t]
  <1>1. /\ i \in Instance /\ k \in Key
        /\ hpc[t] \in {"recordRead", "popRead", "unlock"} /\ hpc'[t] \in {"none", "unlock"}
        /\ UNCHANGED <<relReads, key, grp>> /\ grp[t] = 1
        /\ \A u \in Task \ {t} : UNCHANGED <<hpc[u], acc[u], grp[u]>>
    BY ConstantsAssumption DEF RecordPendingRead, PopPendingRead, UnlockRetrieve, releaseVars,
       workerVars, TypeOK, LockInv, ReadSoFar
  <1>2. \A u \in Task \ {t} : Locks(u)' = Locks(u) /\ ReadSoFar(u)'
    BY <1>1, LocksStay DEF LockInv
  <1>3. ReadSoFar(t)'
    BY <1>1 DEF ReadSoFar
  <1>4. ASSUME NEW o \in ObjectKey,
               \A j \in Instance, l \in Key :
                  ~(j = i /\ l = k) => pendingReads'[j][l] = pendingReads[j][l],
               readers'[o] \in Nat, left'[o] \in Nat,
               readers'[o] + One(Locks(t), o) + One(pendingReads[i][k], o) + left[o]
                 = readers[o] + One(Locks(t)', o) + One(pendingReads'[i][k], o) + left'[o]
        PROVE  Accounted(o)'
    <2>1. Accounted(o)
      BY DEF LockInv
    <2> QED BY <1>1, <1>2, <1>4, <2>1, TaskStep
  <1>5. ASSUME NEW o \in ObjectKey PROVE Accounted(o)'
    <2>0. readers[o] \in Nat /\ left[o] \in Nat /\ \A keys : One(keys, o) \in Nat /\ One({}, o) = 0
      BY DEF TypeOK, One
    <2>1. CASE RecordPendingRead(t)
      <3>1. /\ hpc[t] = "recordRead" /\ hpc'[t] = "none" /\ acc[t] = Found(k)
            /\ Leave(pendingReads[i][k]) /\ readers' = readers
            /\ pendingReads' = [pendingReads EXCEPT ![i] = [@ EXCEPT ![k] = acc[t]]]
        BY <2>1 DEF RecordPendingRead, TypeOK, LockInv, ReadSoFar
      <3>2. /\ pendingReads'[i][k] = acc[t]
            /\ \A j \in Instance, l \in Key :
                  ~(j = i /\ l = k) => pendingReads'[j][l] = pendingReads[j][l]
        BY <1>1, <3>1 DEF TypeOK
      <3>3. Locks(t) = acc[t] /\ Locks(t)' = {}
        BY <3>1 DEF Locks, Reading
      <3>4. left'[o] = left[o] + One(pendingReads[i][k], o)
        BY <3>1, Counters
      <3> HIDE DEF i, k
      <3>5. readers'[o] + One(Locks(t), o) + One(pendingReads[i][k], o) + left[o]
              = readers[o] + One(Locks(t)', o) + One(pendingReads'[i][k], o) + left'[o]
        BY <2>0, <3>1, <3>2, <3>3, <3>4
      <3> QED BY <1>4, <2>0, <3>1, <3>2, <3>4, <3>5
    <2>2. CASE PopPendingRead(t)
      <3>1. /\ hpc[t] = "popRead" /\ hpc'[t] = "unlock" /\ acc'[t] = pendingReads[i][k]
            /\ UNCHANGED <<readers, left>>
            /\ pendingReads' = [pendingReads EXCEPT ![i] = [@ EXCEPT ![k] = {}]]
        BY <2>2 DEF PopPendingRead, storageVars, TypeOK
      <3>2. /\ pendingReads'[i][k] = {}
            /\ \A j \in Instance, l \in Key :
                  ~(j = i /\ l = k) => pendingReads'[j][l] = pendingReads[j][l]
        BY <1>1, <3>1 DEF TypeOK
      <3>3. Locks(t) = {} /\ Locks(t)' = pendingReads[i][k]
        BY <3>1 DEF Locks, Reading
      <3> HIDE DEF i, k
      <3>4. readers'[o] + One(Locks(t), o) + One(pendingReads[i][k], o) + left[o]
              = readers[o] + One(Locks(t)', o) + One(pendingReads'[i][k], o) + left'[o]
        <4>1. /\ One(Locks(t), o) = 0 /\ One(pendingReads'[i][k], o) = 0
              /\ One(Locks(t)', o) = One(pendingReads[i][k], o)
              /\ One(pendingReads[i][k], o) \in Nat
          BY <2>0, <3>2, <3>3
        <4> QED BY <2>0, <3>1, <4>1
      <3>5. readers'[o] \in Nat /\ left'[o] \in Nat
        BY <2>0, <3>1
      <3> QED BY <1>4, <3>2, <3>4, <3>5
    <2>3. CASE UnlockRetrieve(t)
      <3>1. /\ hpc[t] = "unlock" /\ hpc'[t] = "none" /\ FinishReadPrefetched(acc[t])
            /\ UNCHANGED <<left, pendingReads>>
        BY <2>3 DEF UnlockRetrieve, pendingVars, TypeOK
      <3>2. Locks(t) = acc[t] /\ Locks(t)' = {}
        BY <3>1 DEF Locks, Reading
      <3>3. o \in acc[t] => readers[o] > 0
        BY <3>2, HeldIsLocked DEF LockInv
      <3>4. readers'[o] = readers[o] - One(acc[t], o)
        BY <3>1, <3>3, Counters
      <3>5. One(acc[t], o) = 0 \/ (o \in acc[t] /\ One(acc[t], o) = 1)
        BY DEF One
      <3>6. readers'[o] \in Nat
        BY <2>0, <3>3, <3>4, <3>5
      <3> HIDE DEF i, k
      <3>7. readers'[o] + One(Locks(t), o) + One(pendingReads[i][k], o) + left[o]
              = readers[o] + One(Locks(t)', o) + One(pendingReads'[i][k], o) + left'[o]
        BY <2>0, <3>1, <3>2, <3>4
      <3> QED BY <1>4, <2>0, <3>1, <3>6, <3>7
    <2> QED BY <2>1, <2>2, <2>3
  <1> QED BY <1>2, <1>3, <1>5 DEF LockInv

\* A release takes the entries of one instance into its hands.
LEMMA SweepLocks ==
  ASSUME TypeOK, LockInv, NEW r \in Releaser, NEW i \in Instance, SweepPending(r, i)
  PROVE  LockInv'
  <1>1. /\ UNCHANGED <<readers, left, hpc, key, acc, grp>>
        /\ relReads[r] = NoPending
        /\ relReads' = [relReads EXCEPT ![r] = pendingReads[i]]
        /\ pendingReads' = [pendingReads EXCEPT ![i] = NoPending]
    BY DEF SweepPending, storageVars, workerVars, handlerVars
  <1>2. \A u \in Task : Locks(u)' = Locks(u) /\ ReadSoFar(u)'
    BY <1>1, LocksStay DEF LockInv
  <1>3. ASSUME NEW o \in ObjectKey PROVE Accounted(o)'
    <2> DEFINE keys == {k \in Key : o \in pendingReads[i][k]}
               taken == {i} \X keys
               got == {r} \X keys
    <2>0. Accounted(o)
      BY DEF LockInv
    <2>1. Locking(o)' = Locking(o)
      BY <1>1 DEF Locking, Found
    <2>2. taken \subseteq LockEntries(o) /\ LockEntries(o)' = LockEntries(o) \ taken
      <3>1. LockEntries(o)' = {e \in Instance \X Key : o \in pendingReads'[e[1]][e[2]]}
        BY DEF LockEntries
      <3>2. \A j \in Instance, k \in Key :
               pendingReads'[j][k] = IF j = i THEN {} ELSE pendingReads[j][k]
        BY <1>1 DEF TypeOK, NoPending
      <3> QED BY <3>1, <3>2 DEF LockEntries
    <2>3. got \cap LockSwept(o) = {} /\ LockSwept(o)' = LockSwept(o) \cup got
      <3>1. LockSwept(o)' = {e \in Releaser \X Key : o \in relReads'[e[1]][e[2]]}
        BY DEF LockSwept
      <3>2. \A q \in Releaser, k \in Key :
               relReads'[q][k] = IF q = r THEN pendingReads[i][k] ELSE relReads[q][k]
        BY <1>1 DEF TypeOK
      <3>3. \A k \in Key : relReads[r][k] = {}
        BY <1>1 DEF NoPending
      <3> QED BY <3>1, <3>2, <3>3 DEF LockSwept
    <2>4. /\ IsFiniteSet(taken) /\ IsFiniteSet(got) /\ Cardinality(got) = Cardinality(taken)
      <3>1. IsFiniteSet(taken)
        BY <2>0, <2>2, FS_Subset DEF Accounted
      <3>2. ExistsBijection(taken, got)
        <4> DEFINE f == [e \in taken |-> <<r, e[2]>>]
        <4>1. f \in Bijection(taken, got)
          <5>1. f \in [taken -> got] /\ \A e \in taken : f[e] = <<r, e[2]>> /\ e = <<i, e[2]>>
            OBVIOUS
          <5>2. \A d, e \in taken : f[d] = f[e] => d = e
            BY <5>1
          <5>3. \A e \in got : \E d \in taken : f[d] = e
            <6> TAKE e \in got
            <6>1. <<i, e[2]>> \in taken /\ f[<<i, e[2]>>] = e
              OBVIOUS
            <6> QED BY <6>1
          <5> HIDE DEF f, taken, got
          <5>4. DOMAIN f = taken
            BY <5>1
          <5> QED BY <5>1, <5>2, <5>3, <5>4 DEF Bijection, Injection, Surjection, IsInjective
        <4> QED BY <4>1 DEF ExistsBijection
      <3> HIDE DEF taken, got
      <3> QED BY <3>1, <3>2, FS_Bijection
    <2> HIDE DEF taken, got
    <2>5. /\ IsFiniteSet(LockEntries(o)') /\ IsFiniteSet(LockSwept(o)')
          /\ Cardinality(LockEntries(o)') = Cardinality(LockEntries(o)) - Cardinality(taken)
          /\ Cardinality(LockSwept(o)') = Cardinality(LockSwept(o)) + Cardinality(taken)
          /\ Cardinality(LockEntries(o)) \in Nat /\ Cardinality(LockSwept(o)) \in Nat
          /\ Cardinality(taken) \in Nat
      <3>1. IsFiniteSet(LockEntries(o)) /\ IsFiniteSet(LockSwept(o))
        BY <2>0 DEF Accounted
      <3>2. /\ Cardinality(LockEntries(o)) \in Nat /\ Cardinality(LockSwept(o)) \in Nat
            /\ Cardinality(taken) \in Nat
        BY <2>4, <3>1, FS_CardinalityType
      <3>3. LockEntries(o) \cap taken = taken /\ LockSwept(o) \cap got = {}
        BY <2>2, <2>3
      <3>4. /\ IsFiniteSet(LockEntries(o) \ taken)
            /\ Cardinality(LockEntries(o) \ taken) = Cardinality(LockEntries(o)) - Cardinality(taken)
        BY <3>1, <3>3, FS_Difference
      <3>5. /\ IsFiniteSet(LockSwept(o) \cup got)
            /\ Cardinality(LockSwept(o) \cup got)
                  = Cardinality(LockSwept(o)) + Cardinality(got) - Cardinality(LockSwept(o) \cap got)
        BY <2>4, <3>1, FS_Union
      <3>6. Cardinality(LockSwept(o) \cup got) = Cardinality(LockSwept(o)) + Cardinality(taken)
        <4>1. Cardinality(LockSwept(o) \cap got) = 0
          BY <3>3, FS_EmptySet
        <4> QED BY <2>4, <3>2, <3>5, <4>1
      <3> QED BY <2>2, <2>3, <3>2, <3>4, <3>5, <3>6
    <2>6. /\ Cardinality(Locking(o)) \in Nat /\ left[o] \in Nat
          /\ readers[o] = Cardinality(Locking(o)) + Cardinality(LockEntries(o))
                          + Cardinality(LockSwept(o)) + left[o]
      BY <2>0, LockingTasks, FS_CardinalityType DEF Accounted, TypeOK
    <2>7. readers'[o] = Cardinality(Locking(o)) + Cardinality(LockEntries(o)')
                          + Cardinality(LockSwept(o)') + left'[o]
      BY <1>1, <2>5, <2>6
    <2> QED BY <2>1, <2>5, <2>7 DEF Accounted
  <1> QED BY <1>2, <1>3 DEF LockInv

\* A release gives back the locks it swept under one key.
LEMMA FinishSweptReadLocks ==
  ASSUME TypeOK, LockInv, NEW r \in Releaser, NEW k \in Key, FinishSweptRead(r, k)
  PROVE  LockInv'
  <1>1. /\ UNCHANGED <<left, pendingReads, hpc, key, acc, grp>>
        /\ FinishReadPrefetched(relReads[r][k])
        /\ relReads' = [relReads EXCEPT ![r] = [@ EXCEPT ![k] = {}]]
    BY DEF FinishSweptRead, pendingVars, workerVars, handlerVars
  <1>2. \A u \in Task : Locks(u)' = Locks(u) /\ ReadSoFar(u)'
    BY <1>1, LocksStay DEF LockInv
  <1>3. ASSUME NEW o \in ObjectKey PROVE Accounted(o)'
    <2>0. Accounted(o)
      BY DEF LockInv
    <2>1. Locking(o)' = Locking(o) /\ LockEntries(o)' = LockEntries(o)
      BY <1>1 DEF Locking, Found, LockEntries
    <2>2. /\ LockSwept(o)' \ {<<r, k>>} = LockSwept(o) \ {<<r, k>>}
          /\ <<r, k>> \in LockSwept(o) <=> o \in relReads[r][k]
          /\ <<r, k>> \notin LockSwept(o)'
      <3>1. LockSwept(o)' = {e \in Releaser \X Key : o \in relReads'[e[1]][e[2]]}
        BY DEF LockSwept
      <3>2. \A q \in Releaser, l \in Key :
               relReads'[q][l] = IF q = r /\ l = k THEN {} ELSE relReads[q][l]
        BY <1>1 DEF TypeOK
      <3> QED BY <3>1, <3>2 DEF LockSwept
    <2>3. /\ IsFiniteSet(LockSwept(o)') /\ Cardinality(LockSwept(o)') \in Nat
          /\ Cardinality(LockSwept(o)) \in Nat
          /\ Cardinality(LockSwept(o)') + One(relReads[r][k], o) = Cardinality(LockSwept(o))
      <3>1. IsFiniteSet(LockSwept(o))
        BY <2>0 DEF Accounted
      <3> QED BY <2>2, <3>1, CountOne DEF One
    <2>4. o \in relReads[r][k] => readers[o] > 0
      BY <2>0, HeldIsLocked
    <2>5. readers'[o] = readers[o] - One(relReads[r][k], o)
      BY <1>1, <2>4, Counters
    <2>6. /\ Cardinality(Locking(o)) \in Nat /\ Cardinality(LockEntries(o)) \in Nat
          /\ left[o] \in Nat /\ One(relReads[r][k], o) \in Nat
          /\ readers[o] = Cardinality(Locking(o)) + Cardinality(LockEntries(o))
                          + Cardinality(LockSwept(o)) + left[o]
      BY <2>0, LockingTasks, FS_CardinalityType DEF Accounted, TypeOK, One
    <2>7. readers'[o] = Cardinality(Locking(o)) + Cardinality(LockEntries(o))
                          + Cardinality(LockSwept(o)') + left'[o]
      BY <1>1, <2>3, <2>5, <2>6
    <2> QED BY <2>0, <2>1, <2>3, <2>7 DEF Accounted
  <1> QED BY <1>2, <1>3 DEF LockInv

\* The other steps take and give no read lock.
LEMMA OtherLocks ==
  ASSUME LockInv,
         \/ \E i \in Instance : Lifecycle(i)
         \/ \E o \in ObjectKey : Evict(o)
         \/ ReapStale
         \/ \E r \in Releaser, k \in Key : FinishSweptWrite(r, k)
         \/ UNCHANGED vars
  PROVE  LockInv'
  <1> USE DEF registryVars, pendingVars, storageVars, workerVars, handlerVars, releaseVars
  <1>1. UNCHANGED <<readers, left, pendingReads, relReads, hpc, key, acc, grp>>
    BY DEF Lifecycle, Register, Touch, GoSilent, Unregister, Crash, Evict, ReapStale,
       FinishSweptWrite, vars
  <1>2. \A u \in Task : Locks(u)' = Locks(u) /\ ReadSoFar(u)'
    BY <1>1, LocksStay DEF LockInv
  <1> QED BY <1>1, <1>2, AccountedStays DEF LockInv

\* Every step keeps the account.
LEMMA NextLocks == IInv /\ LockInv /\ [Next]_vars => LockInv'
  <1> SUFFICES ASSUME TypeOK, Phases, LockInv, [Next]_vars PROVE LockInv'
    BY DEF IInv, Phases
  <1>1. ASSUME NEW t \in Task, Handler(t) PROVE LockInv'
    BY <1>1, ResolveLocks, StoreLocks, GroupLocks, EntryLocks DEF Handler, Phases
  <1>2. ASSUME NEW r \in Releaser, Release(r) PROVE LockInv'
    BY <1>2, SweepLocks, FinishSweptReadLocks, OtherLocks DEF Release
  <1> QED BY <1>1, <1>2, WorkerLocks, OtherLocks DEF Next

\* The server starts with no read lock anywhere.
LEMMA InitLocks == Init => LockInv
  <1> SUFFICES ASSUME Init PROVE LockInv
    OBVIOUS
  <1>1. ASSUME NEW o \in ObjectKey PROVE Accounted(o)
    <2>1. Locking(o) = {} /\ LockEntries(o) = {} /\ LockSwept(o) = {}
      BY DEF Init, Locking, Reading, LockEntries, LockSwept, NoPending
    <2>2. readers[o] = 0 /\ left[o] = 0
      BY DEF Init
    <2> QED BY <2>1, <2>2, FS_EmptySet DEF Accounted
  <1>2. \A t \in Task : ReadSoFar(t)
    BY DEF Init, ReadSoFar
  <1> QED BY <1>1, <1>2 DEF LockInv

\* Every read lock is in one place -- a handler, a pending entry, a release --, or
\* is one that the code leaves at a miss before the last group, at a PREPARE_RETRIEVE
\* that raises, or in an entry that is replaced: for any number of workers,
\* operations, keys and groups, and also when instances are released, workers die,
\* and operations with the same instance and key overlap.
THEOREM ReadLocksAreAccounted == Spec => []ReadLocksAccounted
  <1>1. Init => IInv /\ LockInv
    BY InitIInv, InitLocks
  <1>2. IInv /\ LockInv /\ [Next]_vars => (IInv /\ LockInv)'
    BY NextIInv, NextLocks
  <1>3. LockInv => ReadLocksAccounted
    BY DEF LockInv, Accounted, ReadLocksAccounted
  <1> QED BY <1>1, <1>2, <1>3, PTL DEF Spec
=============================================================================
