------------------------ MODULE PickleTransferProofs ------------------------
(***************************************************************************)
(* Proofs about PickleTransfer for every set of instances, tasks, keys and *)
(* objects: type correctness, that every write lock has exactly one owner, *)
(* a running handler that will give it back, that what can be read has     *)
(* been written, and that lookups keep their locks.                        *)
(***************************************************************************)
EXTENDS PickleTransfer, FiniteSetTheorems, TLAPS

\* The loop over the groups keeps the types.
LEMMA NextGroupTypeOK ==
  ASSUME NEW t \in Task, TypeOK, NEW again \in HandlerPC, NEW request,
         NEW next \in WorkerPC, NextGroup(t, again, request, next)
  PROVE  /\ hpc' \in [Task -> HandlerPC] /\ wpc' \in [Task -> WorkerPC]
         /\ grp' \in [Task -> Group]
  <1> USE ConstantsAssumption DEF TypeOK, Group
  <1>1. grp[t] \in Group
    OBVIOUS
  <1>2. "none" \in HandlerPC /\ 1 \in Group
    BY DEF HandlerPC
  <1>3. CASE grp[t] < NumGroups
    <2>1. grp[t] + 1 \in Group
      BY <1>1, <1>3
    <2>2. /\ grp' = [grp EXCEPT ![t] = @ + 1] /\ hpc' = [hpc EXCEPT ![t] = again]
          /\ wpc' = wpc
      BY <1>3 DEF NextGroup
    <2>3. grp' \in [Task -> Group]
      BY <2>1, <2>2
    <2>4. hpc' \in [Task -> HandlerPC]
      BY <2>2
    <2> QED BY <2>2, <2>3, <2>4
  <1>4. CASE ~(grp[t] < NumGroups)
    <2>1. EndHandler(t) /\ Reply(t, request, next)
      BY <1>4 DEF NextGroup
    <2>2. hpc' \in [Task -> HandlerPC] /\ grp' \in [Task -> Group]
      BY <1>2, <2>1 DEF EndHandler
    <2>3. wpc' \in [Task -> WorkerPC]
      BY <2>1 DEF Reply
    <2> QED BY <2>2, <2>3
  <1> QED BY <1>3, <1>4

\* The end of a group's copy keeps the types.
LEMMA EndGroupTypeOK ==
  ASSUME NEW t \in Task, TypeOK, EndGroup(t)
  PROVE  /\ hpc' \in [Task -> HandlerPC] /\ wpc' \in [Task -> WorkerPC]
         /\ grp' \in [Task -> Group]
         /\ reserved' \in [Task -> SUBSET ObjectKey]
         /\ done' \in [Task -> SUBSET ObjectKey]
         /\ raised' \in [Task -> BOOLEAN]
  <1>1. CASE raised[t]
    <2>1. "none" \in HandlerPC /\ 1 \in Group
      BY ConstantsAssumption DEF HandlerPC, Group
    <2> QED BY <1>1, <2>1 DEF EndGroup, EndHandler, TypeOK
  <1>2. CASE ~raised[t]
    <2>1. "reserve" \in HandlerPC /\ "idle" \in WorkerPC
      BY DEF HandlerPC, WorkerPC
    <2>2. NextGroup(t, "reserve", "commitStore", "idle")
      BY <1>2 DEF EndGroup
    <2> QED BY <2>1, <2>2, NextGroupTypeOK DEF EndGroup, TypeOK
  <1> QED BY <1>1, <1>2

\* The server starts, empty, within its types.
LEMMA InitTypeOK == Init => TypeOK
  BY ConstantsAssumption DEF Init, TypeOK, Group, WorkerPC, HandlerPC

\* A worker step keeps the types.
LEMMA WorkerTypeOK ==
  ASSUME NEW t \in Task, TypeOK, Worker(t) PROVE TypeOK'
  <1> USE DEF TypeOK, storageVars, workerVars, handlerVars, ghostVars, Queued, WorkerPC,
          HandlerPC, Send
  <1>1. ASSUME NEW k \in Key, SubmitStore(t, k) PROVE TypeOK'
    BY <1>1 DEF SubmitStore
  <1>2. ASSUME NEW k \in Key, SubmitRetrieve(t, k) PROVE TypeOK'
    BY <1>2 DEF SubmitRetrieve, LockPrefetched
  <1>3. CASE Gather(t)
    BY <1>3 DEF Gather
  <1>4. CASE GatherFails(t)
    BY <1>4 DEF GatherFails
  <1>5. CASE Scatter(t)
    BY <1>5 DEF Scatter
  <1>6. CASE SendCommitRetrieve(t)
    BY <1>6 DEF SendCommitRetrieve
  <1>7. CASE Timeout(t)
    BY <1>7 DEF Timeout, Answered
  <1> QED BY <1>1, <1>2, <1>3, <1>4, <1>5, <1>6, <1>7 DEF Worker

\* A handler step keeps the types.
LEMMA HandlerTypeOK ==
  ASSUME NEW t \in Task, TypeOK, Handler(t) PROVE TypeOK'
  <1>0. Wanted(t) \subseteq ObjectKey
    <2>1. key[t] \in Key /\ grp[t] \in Group
      BY DEF TypeOK
    <2>2. ObjKeys[key[t]] \in [Group -> SUBSET ObjectKey]
      BY <2>1, ConstantsAssumption
    <2> QED BY <2>1, <2>2 DEF Wanted
  <1>a. /\ {"none", "handshake", "copyIn", "publish", "unlockLeftover", "deleteLeftover",
            "copyOut", "unlock", "unlockAgain", "reserve", "read"} \subseteq HandlerPC
        /\ {"idle", "gather", "scatter", "endRetrieve"} \subseteq WorkerPC
        /\ 1 \in Group
    BY ConstantsAssumption DEF HandlerPC, WorkerPC, Group
  <1>b. ASSUME NEW keys, FinishReadPrefetched(keys) PROVE readers' \in [ObjectKey -> Nat]
    BY <1>b DEF FinishReadPrefetched, TypeOK
  <1>c. ASSUME NEW request, NEW next \in WorkerPC, Reply(t, request, next), EndHandler(t)
        PROVE  /\ wpc' \in [Task -> WorkerPC] /\ hpc' \in [Task -> HandlerPC]
               /\ grp' \in [Task -> Group]
    BY <1>a, <1>c DEF Reply, EndHandler, TypeOK
  <1> USE DEF storageVars, workerVars, ghostVars
  <1>1. CASE Resolve(t)
    <2>1. hpc[t] \in Queued => FirstStep[hpc[t]] \in {"handshake", "reserve", "read"}
      BY DEF Queued, FirstStep
    <2> QED BY <1>1, <1>a, <2>1 DEF Resolve, TypeOK
  <1>2. CASE Handshake(t)
    BY <1>2, <1>a DEF Handshake, Answered, TypeOK
  <1>3. CASE RejectPayload(t)
    BY <1>3, <1>a, <1>c DEF RejectPayload, TypeOK
  <1>4. CASE ReserveGroup(t)
    BY <1>4, <1>0, <1>a DEF ReserveGroup, Reservable, TypeOK
  <1>5. CASE CopyIn(t)
    BY <1>5, <1>a DEF CopyIn, TypeOK
  <1>6. CASE PublishWritten(t)
    <2>1. obj' \in [ObjectKey -> {"absent", "writing", "readable"}]
      BY <1>6 DEF PublishWritten, FinishWrite, TypeOK
    <2>2. CASE EndGroup(t)
      BY <1>6, <2>1, <2>2, EndGroupTypeOK DEF PublishWritten, TypeOK
    <2>3. CASE ~EndGroup(t)
      BY <1>6, <1>a, <2>1, <2>3 DEF PublishWritten, TypeOK
    <2> QED BY <2>2, <2>3
  <1>7. CASE UnlockLeftover(t)
    BY <1>7, <1>a DEF UnlockLeftover, FinishWrite, TypeOK
  <1>8. CASE DeleteLeftover(t)
    <2>1. obj' \in [ObjectKey -> {"absent", "writing", "readable"}]
      BY <1>8 DEF DeleteLeftover, Drop, TypeOK
    <2>2. written' \subseteq ObjectKey
      BY <1>8 DEF DeleteLeftover, Drop, TypeOK
    <2>3. EndGroup(t)
      BY <1>8 DEF DeleteLeftover
    <2>4. /\ spoiled' \subseteq ObjectKey /\ unlockedTwice' \subseteq ObjectKey
          /\ UNCHANGED <<contexts, readers, key>>
      BY <1>8 DEF DeleteLeftover, TypeOK, Leftover
    <2>5. /\ hpc' \in [Task -> HandlerPC] /\ wpc' \in [Task -> WorkerPC]
          /\ grp' \in [Task -> Group] /\ reserved' \in [Task -> SUBSET ObjectKey]
          /\ done' \in [Task -> SUBSET ObjectKey] /\ raised' \in [Task -> BOOLEAN]
      BY <2>3, EndGroupTypeOK
    <2> QED BY <2>1, <2>2, <2>4, <2>5 DEF TypeOK
  <1>9. CASE ReadGroup(t)
    <2>1. CASE /\ hpc' = [hpc EXCEPT ![t] = "copyOut"]
               /\ UNCHANGED <<readers, wpc, grp>>
      BY <1>9, <1>a, <2>1 DEF ReadGroup, TypeOK
    <2>2. CASE /\ FinishReadPrefetched(Prefetched(Wanted(t)))
               /\ EndHandler(t)
               /\ Reply(t, "prepareRetrieve", "endRetrieve")
      BY <1>9, <1>a, <1>b, <1>c, <2>2 DEF ReadGroup, TypeOK
    <2> QED BY <1>9, <2>1, <2>2 DEF ReadGroup
  <1>10. CASE CopyOut(t)
    BY <1>10, <1>a DEF CopyOut, TypeOK
  <1>11. CASE CopyOutFails(t)
    BY <1>11, <1>a, <1>b DEF CopyOutFails, TypeOK
  <1>12. CASE UnlockGroup(t)
    <2>1. readers' \in [ObjectKey -> Nat]
      BY <1>12, <1>b DEF UnlockGroup
    <2>2. /\ unlockedTwice' \subseteq ObjectKey
          /\ UNCHANGED <<spoiled, contexts, obj, written, key, reserved, done, raised>>
      BY <1>12, <1>0 DEF UnlockGroup, TypeOK
    <2>3. CASE EndHandler(t) /\ UNCHANGED wpc
      BY <1>a, <2>1, <2>2, <2>3 DEF EndHandler, TypeOK
    <2>4. CASE NextGroup(t, "read", "prepareRetrieve", "scatter")
      BY <1>a, <2>1, <2>2, <2>4, NextGroupTypeOK DEF TypeOK
    <2> QED BY <1>12, <2>3, <2>4 DEF UnlockGroup
  <1> QED BY <1>1, <1>2, <1>3, <1>4, <1>5, <1>6, <1>7, <1>8, <1>9, <1>10, <1>11, <1>12
      DEF Handler

\* Every step keeps the types.
LEMMA NextTypeOK == TypeOK /\ [Next]_vars => TypeOK'
  <1> SUFFICES ASSUME TypeOK, [Next]_vars PROVE TypeOK'
    OBVIOUS
  <1>1. ASSUME NEW i \in Instance, Register(i) \/ Deregister(i) PROVE TypeOK'
    BY <1>1 DEF Register, Deregister, TypeOK, storageVars, workerVars, handlerVars,
       ghostVars
  <1>2. ASSUME NEW o \in ObjectKey, Evict(o) PROVE TypeOK'
    BY <1>2 DEF Evict, Drop, TypeOK, workerVars, handlerVars, ghostVars
  <1>3. CASE UNCHANGED vars
    BY <1>3 DEF vars, TypeOK, storageVars, workerVars, handlerVars, ghostVars
  <1> QED BY <1>1, <1>2, <1>3, WorkerTypeOK, HandlerTypeOK DEF Next

\* Type correctness: no handler leaves the groups or the states it has.
THEOREM TypeCorrect == Spec => []TypeOK
  BY InitTypeOK, NextTypeOK, PTL DEF Spec
-----------------------------------------------------------------------------

\* A commit that has copied a group's chunks and not finished with them.
Copied == {"publish", "unlockLeftover", "deleteLeftover"}

\* Every write lock has one owner.
Locks == DoneIsReserved /\ ReservationsExclusive /\ WriteLocksHaveOwner

\* A step that neither takes nor gives a write lock, and moves handlers only
\* between points at which they hold the same ones, keeps every lock owned.
LEMMA LocksUntouched ==
  ASSUME Locks, UNCHANGED <<reserved, done>>,
         \A o \in ObjectKey : obj'[o] = "writing" <=> obj[o] = "writing",
         \A t \in Task : Claim(t)' = Claim(t), \A t \in Task : Claim(t) \subseteq ObjectKey,
         \A t \in Task : hpc'[t] \in Copied => hpc[t] \in Copied
  PROVE  Locks'
  <1> USE DEF Locks
  <1>1. DoneIsReserved'
    BY DEF DoneIsReserved, Copied
  <1>2. ReservationsExclusive'
    BY DEF ReservationsExclusive
  <1>3. WriteLocksHaveOwner'
    BY DEF WriteLocksHaveOwner
  <1> QED BY <1>1, <1>2, <1>3

\* What a handler holds are objects.
LEMMA ClaimsAreObjects == TypeOK => \A t \in Task : Claim(t) \subseteq ObjectKey
  BY DEF TypeOK, Claim, Leftover

\* A worker only enqueues requests.
LEMMA WorkerLocks ==
  ASSUME TypeOK, Locks, NEW t \in Task, Worker(t) PROVE Locks'
  <1>1. /\ UNCHANGED <<obj, reserved, done>>
        /\ hpc' = hpc \/ (hpc[t] = "none" /\ \E r \in Queued : hpc' = [hpc EXCEPT ![t] = r])
    <2> USE DEF storageVars, handlerVars, Send, Queued
    <2>1. ASSUME NEW k \in Key, SubmitStore(t, k) \/ SubmitRetrieve(t, k)
          PROVE  /\ UNCHANGED <<obj, reserved, done>>
                 /\ hpc[t] = "none" /\ \E r \in Queued : hpc' = [hpc EXCEPT ![t] = r]
      BY <2>1 DEF SubmitStore, SubmitRetrieve
    <2>2. CASE Gather(t) \/ SendCommitRetrieve(t)
      BY <2>2 DEF Gather, SendCommitRetrieve
    <2>3. CASE GatherFails(t) \/ Scatter(t) \/ Timeout(t)
      BY <2>3 DEF GatherFails, Scatter, Timeout
    <2> QED BY <2>1, <2>2, <2>3 DEF Worker
  <1>2. \A u \in Task : Claim(u)' = Claim(u)
    BY <1>1 DEF Claim, Leftover, TypeOK, Queued
  <1>3. \A u \in Task : hpc'[u] \in Copied => hpc[u] \in Copied
    BY <1>1 DEF Copied, TypeOK, Queued
  <1> QED BY <1>1, <1>2, <1>3, LocksUntouched, ClaimsAreObjects

\* Resolving, the handshakes and the handlers of a retrieve take no write lock.
LEMMA ReadingLocks ==
  ASSUME TypeOK, Locks, NEW t \in Task,
         \/ Resolve(t) \/ Handshake(t) \/ RejectPayload(t)
         \/ ReadGroup(t) \/ CopyOut(t) \/ CopyOutFails(t) \/ UnlockGroup(t)
  PROVE  Locks'
  <1> DEFINE Holding == {"copyIn"} \cup Copied
  <1>1. /\ UNCHANGED <<obj, reserved, done>>
        /\ hpc[t] \notin Holding
        /\ \E pc : pc \notin Holding /\ hpc' = [hpc EXCEPT ![t] = pc]
    <2> USE DEF storageVars, EndHandler, NextGroup, Copied
    <2>1. CASE Resolve(t)
      <3>1. hpc[t] \in Queued => /\ hpc[t] \notin Holding /\ FirstStep[hpc[t]] \notin Holding
        BY DEF Queued, FirstStep
      <3> QED BY <2>1, <3>1 DEF Resolve
    <2>2. CASE Handshake(t)
      BY <2>2 DEF Handshake
    <2>3. CASE RejectPayload(t)
      BY <2>3 DEF RejectPayload
    <2>4. CASE ReadGroup(t)
      BY <2>4 DEF ReadGroup
    <2>5. CASE CopyOut(t)
      BY <2>5 DEF CopyOut
    <2>6. CASE CopyOutFails(t)
      BY <2>6 DEF CopyOutFails
    <2>7. CASE UnlockGroup(t)
      BY <2>7 DEF UnlockGroup
    <2> QED BY <2>1, <2>2, <2>3, <2>4, <2>5, <2>6, <2>7
  <1>2. \A u \in Task : Claim(u)' = Claim(u)
    BY <1>1 DEF Claim, Leftover, TypeOK, Copied
  <1>3. \A u \in Task : hpc'[u] \in Copied => hpc[u] \in Copied
    BY <1>1 DEF TypeOK
  <1> QED BY <1>1, <1>2, <1>3, LocksUntouched, ClaimsAreObjects

\* A reservation takes objects that nobody has locked.
LEMMA ReserveLocks ==
  ASSUME TypeOK, Locks, NEW t \in Task, ReserveGroup(t) PROVE Locks'
  <1>1. PICK granted \in SUBSET Reservable(Wanted(t)) :
           /\ hpc[t] = "reserve" /\ hpc' = [hpc EXCEPT ![t] = "copyIn"]
           /\ obj' = [o \in ObjectKey |-> IF o \in granted THEN "writing" ELSE obj[o]]
           /\ reserved' = [reserved EXCEPT ![t] = granted]
           /\ done' = done
    BY DEF ReserveGroup
  <1>2. granted \subseteq ObjectKey /\ \A o \in granted : obj[o] = "absent"
    <2>1. Wanted(t) \subseteq ObjectKey
      <3>1. key[t] \in Key /\ grp[t] \in Group
        BY DEF TypeOK
      <3>2. ObjKeys[key[t]] \in [Group -> SUBSET ObjectKey]
        BY <3>1, ConstantsAssumption
      <3> QED BY <3>1, <3>2 DEF Wanted
    <2> QED BY <2>1 DEF Reservable
  <1>3. Claim(t) = {} /\ Claim(t)' = granted
    BY <1>1 DEF Claim, TypeOK
  <1>4. \A u \in Task \ {t} : Claim(u)' = Claim(u)
    BY <1>1 DEF Claim, Leftover, TypeOK
  <1> USE DEF Locks
  <1>5. DoneIsReserved'
    BY <1>1 DEF DoneIsReserved, TypeOK
  <1>6. ReservationsExclusive'
    <2>1. \A u \in Task \ {t} : Claim(u) \cap granted = {}
      BY <1>2 DEF ReservationsExclusive
    <2>2. \A u \in Task : Claim(u) \subseteq ObjectKey
      BY ClaimsAreObjects
    <2>3. \A u \in Task : \A o \in Claim(u)' : obj'[o] = "writing"
      BY <1>1, <1>2, <1>3, <1>4, <2>2 DEF ReservationsExclusive
    <2>4. \A u, v \in Task : Claim(u)' \cap Claim(v)' # {} => u = v
      BY <1>3, <1>4, <2>1 DEF ReservationsExclusive
    <2> QED BY <2>3, <2>4 DEF ReservationsExclusive
  <1>7. WriteLocksHaveOwner'
    BY <1>1, <1>3, <1>4 DEF WriteLocksHaveOwner
  <1> QED BY <1>5, <1>6, <1>7

\* The copy gives and takes no lock.
LEMMA CopyInLocks ==
  ASSUME TypeOK, Locks, NEW t \in Task, CopyIn(t) PROVE Locks'
  <1>1. PICK copied \in SUBSET (reserved[t] \ NoTensor) :
           /\ hpc[t] = "copyIn" /\ hpc' = [hpc EXCEPT ![t] = "publish"]
           /\ done' = [done EXCEPT ![t] = copied]
           /\ UNCHANGED <<obj, reserved>>
    BY DEF CopyIn
  <1>2. \A u \in Task : Claim(u)' = Claim(u)
    BY <1>1 DEF Claim, Leftover, TypeOK
  <1> USE DEF Locks
  <1>3. DoneIsReserved'
    BY <1>1 DEF DoneIsReserved, TypeOK
  <1>4. ReservationsExclusive' /\ WriteLocksHaveOwner'
    BY <1>1, <1>2 DEF ReservationsExclusive, WriteLocksHaveOwner
  <1> QED BY <1>3, <1>4

\* At the end of a group the handler holds nothing of it.
LEMMA EndGroupReleases ==
  ASSUME TypeOK, NEW t \in Task, EndGroup(t)
  PROVE  /\ hpc'[t] \notin {"copyIn"} \cup Copied
         /\ \A u \in Task \ {t} : /\ hpc'[u] = hpc[u] /\ reserved'[u] = reserved[u]
                                  /\ done'[u] = done[u]
  BY DEF EndGroup, EndHandler, NextGroup, TypeOK, Copied

\* Giving back locks that are its own, a handler gives back nobody else's.
LEMMA GiveBack ==
  ASSUME TypeOK, Locks, NEW t \in Task, NEW keys \in SUBSET Claim(t),
         FinishWrite(keys), Claim(t)' = Claim(t) \ keys,
         \A u \in Task \ {t} : Claim(u)' = Claim(u)
  PROVE  ReservationsExclusive' /\ WriteLocksHaveOwner'
  <1> USE DEF Locks
  <1>1. \A u \in Task : Claim(u) \subseteq ObjectKey
    BY ClaimsAreObjects
  <1>2. ReservationsExclusive'
    BY <1>1 DEF ReservationsExclusive, FinishWrite
  <1>3. WriteLocksHaveOwner'
    BY DEF WriteLocksHaveOwner, FinishWrite
  <1> QED BY <1>2, <1>3

\* Publishing gives back the locks of what was copied, and of nothing else.
LEMMA PublishLocks ==
  ASSUME TypeOK, Locks, NEW t \in Task, PublishWritten(t) PROVE Locks'
  <1>1. hpc[t] = "publish" /\ FinishWrite(done[t]) /\ done[t] \subseteq reserved[t]
    BY DEF PublishWritten, Locks, DoneIsReserved
  <1>2. Claim(t) = reserved[t]
    BY <1>1 DEF Claim
  <1>3. CASE Leftover(t) = {}
    <2>1. EndGroup(t)
      BY <1>3 DEF PublishWritten
    <2>2. /\ Claim(t)' = {} /\ \A u \in Task \ {t} : Claim(u)' = Claim(u)
      BY <2>1, EndGroupReleases DEF Claim, Leftover, Copied
    <2>3. Claim(t)' = Claim(t) \ done[t]
      BY <1>1, <1>2, <1>3, <2>2 DEF Leftover
    <2>4. DoneIsReserved'
      BY <2>1, EndGroupReleases DEF Locks, DoneIsReserved, Copied
    <2> QED BY <1>1, <1>2, <2>2, <2>3, <2>4, GiveBack DEF Locks
  <1>4. CASE Leftover(t) # {}
    <2>1. /\ hpc' = [hpc EXCEPT ![t] = "unlockLeftover"]
          /\ UNCHANGED <<reserved, done>>
      BY <1>4 DEF PublishWritten
    <2>2. /\ Claim(t)' = Claim(t) \ done[t]
          /\ \A u \in Task \ {t} : Claim(u)' = Claim(u)
      BY <1>1, <1>2, <2>1 DEF Claim, Leftover, TypeOK
    <2>3. DoneIsReserved'
      BY <1>1, <2>1 DEF Locks, DoneIsReserved, TypeOK
    <2> QED BY <1>1, <1>2, <2>2, <2>3, GiveBack DEF Locks
  <1> QED BY <1>3, <1>4

\* The clean-up gives back the locks of what was not copied.
LEMMA UnlockLeftoverLocks ==
  ASSUME TypeOK, Locks, NEW t \in Task, UnlockLeftover(t) PROVE Locks'
  <1>1. /\ hpc[t] = "unlockLeftover" /\ hpc' = [hpc EXCEPT ![t] = "deleteLeftover"]
        /\ FinishWrite(Leftover(t)) /\ UNCHANGED <<reserved, done>>
    BY DEF UnlockLeftover
  <1>2. /\ Claim(t) = Leftover(t) /\ Claim(t)' = {}
        /\ \A u \in Task \ {t} : Claim(u)' = Claim(u)
    BY <1>1 DEF Claim, Leftover, TypeOK
  <1>3. DoneIsReserved'
    BY <1>1 DEF Locks, DoneIsReserved, TypeOK
  <1> QED BY <1>1, <1>2, <1>3, GiveBack DEF Locks

\* What the clean-up then deletes is not write-locked.
LEMMA DeleteLeftoverLocks ==
  ASSUME TypeOK, Locks, NEW t \in Task, DeleteLeftover(t) PROVE Locks'
  <1>1. /\ hpc[t] = "deleteLeftover" /\ EndGroup(t)
        /\ \A o \in ObjectKey : obj'[o] = "writing" <=> obj[o] = "writing"
    BY DEF DeleteLeftover, Drop
  <1>2. \A u \in Task : Claim(u)' = Claim(u)
    BY <1>1, EndGroupReleases DEF Claim, Leftover, Copied
  <1>3. DoneIsReserved'
    BY <1>1, EndGroupReleases DEF Locks, DoneIsReserved, Copied
  <1>4. ReservationsExclusive' /\ WriteLocksHaveOwner'
    BY <1>1, <1>2, ClaimsAreObjects DEF Locks, ReservationsExclusive, WriteLocksHaveOwner
  <1> QED BY <1>3, <1>4 DEF Locks

\* Every step keeps every write lock owned.
LEMMA NextLocks == TypeOK /\ Locks /\ [Next]_vars => Locks'
  <1> SUFFICES ASSUME TypeOK, Locks, [Next]_vars PROVE Locks'
    OBVIOUS
  <1>1. ASSUME NEW t \in Task, Handler(t) PROVE Locks'
    BY <1>1, ReadingLocks, ReserveLocks, CopyInLocks, PublishLocks,
       UnlockLeftoverLocks, DeleteLeftoverLocks DEF Handler
  <1>2. ASSUME UNCHANGED handlerVars,
               \A o \in ObjectKey : obj'[o] = "writing" <=> obj[o] = "writing"
        PROVE  Locks'
    BY <1>2, LocksUntouched, ClaimsAreObjects DEF handlerVars, Claim, Leftover
  <1>3. ASSUME NEW i \in Instance, Register(i) \/ Deregister(i) PROVE Locks'
    BY <1>2, <1>3 DEF Register, Deregister, storageVars
  <1>4. ASSUME NEW o \in ObjectKey, Evict(o) PROVE Locks'
    BY <1>2, <1>4 DEF Evict, Drop, Unlocked, TypeOK
  <1>5. CASE UNCHANGED vars
    BY <1>2, <1>5 DEF vars, storageVars
  <1> QED BY <1>1, <1>3, <1>4, <1>5, WorkerLocks DEF Next

\* Every write lock in the storage belongs to exactly one running commit, for
\* any number of workers, operations, keys and groups, whether copies succeed,
\* are partial or raise, and whether instances stay registered or not.
THEOREM WriteLocksOwned == Spec => [](ReservationsExclusive /\ WriteLocksHaveOwner)
  <1>1. Init => IInv
    BY InitTypeOK DEF Init, IInv, DoneIsReserved, ReservationsExclusive,
       WriteLocksHaveOwner, Claim
  <1>2. IInv /\ [Next]_vars => IInv'
    BY NextTypeOK, NextLocks DEF IInv, Locks
  <1>3. IInv => ReservationsExclusive /\ WriteLocksHaveOwner
    BY DEF IInv
  <1> QED BY <1>1, <1>2, <1>3, PTL DEF Spec
\* No finish_write of a commit reaches an object that another one is writing
\* (ReservationsExclusive).
THEOREM ReservationsAreExclusive == Spec => []ReservationsExclusive
  BY WriteLocksOwned, PTL
-----------------------------------------------------------------------------

\* What was copied stays written, and what is readable was written.
Content == DoneIsWritten /\ UnwrittenIsLeftover

\* A step that makes nothing readable, takes no readable object's content and
\* leaves every clean-up where it is leaves no unwritten object behind.
LEMMA NothingUnwritten ==
  ASSUME UnwrittenIsLeftover, spoiled \subseteq spoiled',
         \A o \in ObjectKey : obj'[o] = "readable"
             => obj[o] = "readable" /\ (o \in written => o \in written'),
         \A u \in Task : hpc[u] = "deleteLeftover"
                           => hpc'[u] = "deleteLeftover" /\ Leftover(u)' = Leftover(u)
  PROVE  UnwrittenIsLeftover'
  <1> SUFFICES ASSUME NEW o \in ObjectKey, o \notin spoiled', obj'[o] = "readable", o \notin written'
               PROVE  \E u \in Task : hpc'[u] = "deleteLeftover" /\ o \in Leftover(u)'
    BY DEF UnwrittenIsLeftover
  <1>1. o \notin spoiled /\ obj[o] = "readable" /\ o \notin written
    OBVIOUS
  <1>2. PICK u \in Task : hpc[u] = "deleteLeftover" /\ o \in Leftover(u)
    BY <1>1 DEF UnwrittenIsLeftover
  <1>3. hpc'[u] = "deleteLeftover" /\ Leftover(u)' = Leftover(u)
    BY <1>2
  <1>4. o \in Leftover(u)'
    BY <1>2, <1>3, Zenon
  <1> QED BY <1>3, <1>4

\* Dropping objects that can be read takes nothing a commit is about to publish.
LEMMA DropKeepsDone ==
  ASSUME DoneIsWritten, Locks, NEW gone, Drop(gone),
         \A o \in gone : obj[o] = "readable",
         \A u \in Task : hpc'[u] = "publish" => hpc[u] = "publish" /\ done'[u] = done[u]
  PROVE  DoneIsWritten'
  <1> SUFFICES ASSUME NEW u \in Task, hpc'[u] = "publish", NEW o \in done'[u]
               PROVE  o \in written'
    BY DEF DoneIsWritten
  <1>1. hpc[u] = "publish" /\ o \in done[u] /\ o \in written
    BY DEF DoneIsWritten
  <1>2. obj[o] = "writing"
    BY <1>1 DEF Locks, DoneIsReserved, ReservationsExclusive, Claim
  <1> QED BY <1>1, <1>2 DEF Drop

\* A worker's step, and a handler's step outside the clean-up, moves no content.
LEMMA QuietContent ==
  ASSUME TypeOK, Content, UNCHANGED <<obj, written, reserved, done, spoiled>>,
         \A u \in Task : hpc'[u] # hpc[u]
             => hpc[u] \notin Copied /\ hpc'[u] \notin Copied
  PROVE  Content'
  <1>1. DoneIsWritten'
    BY DEF Content, DoneIsWritten, Copied
  <1>2. \A u \in Task : hpc[u] = "deleteLeftover"
           => hpc'[u] = "deleteLeftover" /\ Leftover(u)' = Leftover(u)
    BY DEF Copied, Leftover
  <1>3. UnwrittenIsLeftover'
    BY <1>2, NothingUnwritten DEF Content
  <1> QED BY <1>1, <1>3 DEF Content

\* A worker moves no content.
LEMMA WorkerContent ==
  ASSUME TypeOK, Content, NEW t \in Task, Worker(t) PROVE Content'
  <1>1. /\ UNCHANGED <<obj, written, reserved, done, spoiled>>
        /\ hpc' = hpc \/ (hpc[t] = "none" /\ \E r \in Queued : hpc' = [hpc EXCEPT ![t] = r])
    <2> USE DEF storageVars, handlerVars, ghostVars, Send, Queued
    <2>1. ASSUME NEW k \in Key, SubmitStore(t, k) \/ SubmitRetrieve(t, k)
          PROVE  /\ UNCHANGED <<obj, written, reserved, done, spoiled>>
                 /\ hpc[t] = "none" /\ \E r \in Queued : hpc' = [hpc EXCEPT ![t] = r]
      BY <2>1 DEF SubmitStore, SubmitRetrieve
    <2>2. CASE Gather(t) \/ SendCommitRetrieve(t)
      BY <2>2 DEF Gather, SendCommitRetrieve
    <2>3. CASE GatherFails(t) \/ Scatter(t) \/ Timeout(t)
      BY <2>3 DEF GatherFails, Scatter, Timeout
    <2> QED BY <2>1, <2>2, <2>3 DEF Worker
  <1>2. \A u \in Task : hpc'[u] # hpc[u] => hpc[u] \notin Copied /\ hpc'[u] \notin Copied
    BY <1>1 DEF TypeOK, Queued, Copied
  <1> QED BY <1>1, <1>2, QuietContent

\* Resolving, the handshakes and the handlers of a retrieve move no content.
LEMMA ReadingContent ==
  ASSUME TypeOK, Content, NEW t \in Task,
         \/ Resolve(t) \/ Handshake(t) \/ RejectPayload(t)
         \/ ReadGroup(t) \/ CopyOut(t) \/ CopyOutFails(t) \/ UnlockGroup(t)
  PROVE  Content'
  <1>1. /\ UNCHANGED <<obj, written, reserved, done, spoiled>>
        /\ hpc[t] \notin Copied
        /\ \E pc : pc \notin Copied /\ hpc' = [hpc EXCEPT ![t] = pc]
    <2> USE DEF storageVars, ghostVars, EndHandler, NextGroup, Copied
    <2>1. CASE Resolve(t)
      <3>1. hpc[t] \in Queued => /\ hpc[t] \notin Copied /\ FirstStep[hpc[t]] \notin Copied
        BY DEF Queued, FirstStep
      <3> QED BY <2>1, <3>1 DEF Resolve
    <2>2. CASE Handshake(t)
      BY <2>2 DEF Handshake
    <2>3. CASE RejectPayload(t)
      BY <2>3 DEF RejectPayload
    <2>4. CASE ReadGroup(t)
      BY <2>4 DEF ReadGroup
    <2>5. CASE CopyOut(t)
      BY <2>5 DEF CopyOut
    <2>6. CASE CopyOutFails(t)
      BY <2>6 DEF CopyOutFails
    <2>7. CASE UnlockGroup(t)
      BY <2>7 DEF UnlockGroup
    <2> QED BY <2>1, <2>2, <2>3, <2>4, <2>5, <2>6, <2>7
  <1>2. \A u \in Task : hpc'[u] # hpc[u] => hpc[u] \notin Copied /\ hpc'[u] \notin Copied
    BY <1>1 DEF TypeOK
  <1> QED BY <1>1, <1>2, QuietContent

\* Reserving and copying make nothing readable.
LEMMA WritingContent ==
  ASSUME TypeOK, Content, NEW t \in Task, ReserveGroup(t) \/ CopyIn(t)
  PROVE  Content'
  <1>1. CASE ReserveGroup(t)
    <2>1. /\ hpc[t] = "reserve" /\ hpc' = [hpc EXCEPT ![t] = "copyIn"]
          /\ UNCHANGED <<written, done, spoiled>>
          /\ \A u \in Task \ {t} : reserved'[u] = reserved[u]
      BY <1>1 DEF ReserveGroup, ghostVars, TypeOK
    <2>2. \A o \in ObjectKey : obj'[o] = "readable" => obj[o] = "readable"
      BY <1>1 DEF ReserveGroup, TypeOK
    <2>3. DoneIsWritten'
      BY <2>1 DEF Content, DoneIsWritten, TypeOK
    <2>4. \A u \in Task : hpc[u] = "deleteLeftover"
             => hpc'[u] = "deleteLeftover" /\ Leftover(u)' = Leftover(u)
      BY <2>1 DEF Leftover, TypeOK
    <2> QED BY <2>1, <2>2, <2>3, <2>4, NothingUnwritten DEF Content
  <1>2. CASE CopyIn(t)
    <2>1. PICK copied \in SUBSET (reserved[t] \ NoTensor) :
             /\ hpc[t] = "copyIn" /\ hpc' = [hpc EXCEPT ![t] = "publish"]
             /\ written' = written \cup copied
             /\ done' = [done EXCEPT ![t] = copied]
             /\ UNCHANGED <<obj, reserved, spoiled>>
      BY <1>2 DEF CopyIn, ghostVars
    <2>2. DoneIsWritten'
      BY <2>1 DEF Content, DoneIsWritten, TypeOK
    <2>3. \A u \in Task : hpc[u] = "deleteLeftover"
             => hpc'[u] = "deleteLeftover" /\ Leftover(u)' = Leftover(u)
      BY <2>1 DEF Leftover, TypeOK
    <2> QED BY <2>1, <2>2, <2>3, NothingUnwritten DEF Content
  <1> QED BY <1>1, <1>2

\* What is published was copied; what was not is left to the clean-up.
LEMMA PublishingContent ==
  ASSUME TypeOK, Locks, Content, NEW t \in Task, PublishWritten(t) \/ UnlockLeftover(t)
  PROVE  Content'
  <1>1. UNCHANGED <<written, spoiled>> /\ hpc[t] # "deleteLeftover"
    BY DEF PublishWritten, UnlockLeftover, ghostVars
  <1>2. \A u \in Task \ {t} : /\ hpc'[u] = hpc[u] /\ reserved'[u] = reserved[u]
                              /\ done'[u] = done[u]
    <2>1. CASE EndGroup(t)
      BY <2>1, EndGroupReleases
    <2>2. CASE ~EndGroup(t)
      BY <2>2 DEF PublishWritten, UnlockLeftover, TypeOK
    <2> QED BY <2>1, <2>2
  <1>3. hpc'[t] # "publish"
    <2>1. CASE EndGroup(t)
      BY <2>1, EndGroupReleases DEF Copied
    <2>2. CASE ~EndGroup(t)
      BY <2>2 DEF PublishWritten, UnlockLeftover, TypeOK
    <2> QED BY <2>1, <2>2
  <1>4. DoneIsWritten'
    BY <1>1, <1>2, <1>3 DEF Content, DoneIsWritten
  <1>5. UnwrittenIsLeftover'
    <2> SUFFICES ASSUME NEW o \in ObjectKey \ spoiled', obj'[o] = "readable", o \notin written'
                 PROVE  \E u \in Task : hpc'[u] = "deleteLeftover" /\ o \in Leftover(u)'
      BY DEF UnwrittenIsLeftover
    <2>1. CASE obj[o] = "readable"
      <3>1. PICK u \in Task : hpc[u] = "deleteLeftover" /\ o \in Leftover(u)
        BY <1>1, <2>1 DEF Content, UnwrittenIsLeftover
      <3> QED BY <1>1, <1>2, <3>1 DEF Leftover
    <2>2. CASE obj[o] # "readable" /\ PublishWritten(t)
      <3>1. o \in done[t]
        BY <2>2 DEF PublishWritten, FinishWrite
      <3> QED BY <1>1, <2>2, <3>1 DEF PublishWritten, Content, DoneIsWritten
    <2>3. CASE obj[o] # "readable" /\ UnlockLeftover(t)
      <3>1. o \in Leftover(t) /\ hpc'[t] = "deleteLeftover" /\ Leftover(t)' = Leftover(t)
        BY <2>3 DEF UnlockLeftover, FinishWrite, Leftover, TypeOK
      <3> QED BY <3>1
    <2> QED BY <2>1, <2>2, <2>3
  <1> QED BY <1>4, <1>5 DEF Content

\* The clean-up leaves only what was read-locked.
LEMMA DeletingContent ==
  ASSUME TypeOK, Locks, Content, NEW t \in Task, DeleteLeftover(t)
  PROVE  Content'
  <1>1. PICK gone \in SUBSET Leftover(t) :
           /\ \A o \in gone : obj[o] = "readable"
           /\ {o \in Leftover(t) : Unlocked(o)} \subseteq gone
           /\ Drop(gone)
    BY DEF DeleteLeftover
  <1>2. hpc[t] = "deleteLeftover" /\ EndGroup(t)
        /\ spoiled' = spoiled \cup {o \in Leftover(t) : readers[o] > 0}
    BY DEF DeleteLeftover
  <1>3. \A u \in Task \ {t} : /\ hpc'[u] = hpc[u] /\ reserved'[u] = reserved[u]
                              /\ done'[u] = done[u]
    BY <1>2, EndGroupReleases
  <1>4. hpc'[t] \notin Copied
    BY <1>2, EndGroupReleases
  <1>5. DoneIsWritten'
    BY <1>1, <1>3, <1>4, DropKeepsDone DEF Content, Copied
  <1>6. UnwrittenIsLeftover'
    <2> SUFFICES ASSUME NEW o \in ObjectKey, o \notin spoiled', obj'[o] = "readable",
                        o \notin written'
                 PROVE  \E u \in Task : hpc'[u] = "deleteLeftover" /\ o \in Leftover(u)'
      BY DEF UnwrittenIsLeftover
    <2>1. obj[o] = "readable" /\ o \notin gone /\ o \notin written /\ o \notin spoiled
      BY <1>1, <1>2 DEF Drop, TypeOK
    <2>2. PICK u \in Task : hpc[u] = "deleteLeftover" /\ o \in Leftover(u)
      BY <2>1 DEF Content, UnwrittenIsLeftover
    <2>3. u # t
      <3>1. SUFFICES ASSUME o \in Leftover(t) PROVE FALSE
        BY <2>2
      <3>2. readers[o] \in Nat
        BY DEF TypeOK
      <3>3. readers[o] # 0
        BY <1>1, <2>1, <3>1 DEF Unlocked
      <3> QED BY <1>2, <3>1, <3>2, <3>3
    <2> QED BY <1>3, <2>2, <2>3 DEF Leftover
  <1> QED BY <1>5, <1>6 DEF Content

\* Every step keeps what is readable written.
LEMMA NextContent == TypeOK /\ Locks /\ Content /\ [Next]_vars => Content'
  <1> SUFFICES ASSUME TypeOK, Locks, Content, [Next]_vars PROVE Content'
    OBVIOUS
  <1>1. ASSUME NEW t \in Task, Handler(t) PROVE Content'
    BY <1>1, ReadingContent, WritingContent, PublishingContent, DeletingContent DEF Handler
  <1>2. ASSUME NEW i \in Instance, Register(i) \/ Deregister(i) PROVE Content'
    BY <1>2, QuietContent DEF Register, Deregister, storageVars, handlerVars, ghostVars
  <1>3. ASSUME NEW o \in ObjectKey, Evict(o) PROVE Content'
    <2>1. /\ Drop({o}) /\ obj[o] = "readable"
          /\ UNCHANGED <<hpc, reserved, done, spoiled>>
      BY <1>3 DEF Evict, Unlocked, handlerVars, ghostVars
    <2>2. DoneIsWritten'
      BY <2>1, DropKeepsDone DEF Content
    <2>3. UnwrittenIsLeftover'
      BY <2>1, NothingUnwritten DEF Content, Drop, Leftover, TypeOK
    <2> QED BY <2>2, <2>3 DEF Content
  <1>4. CASE UNCHANGED vars
    BY <1>4, QuietContent DEF vars, storageVars, handlerVars, ghostVars
  <1> QED BY <1>1, <1>2, <1>3, <1>4, WorkerContent DEF Next

\* In pickle mode what a lookup can find has been written in full, unless a
\* commit is about to delete it or found it read-locked when it came to.
THEOREM ReadableIsWritten == Spec => []UnwrittenIsLeftover
  <1>1. Init => TypeOK /\ Locks /\ Content
    BY InitTypeOK DEF Init, Locks, Content, DoneIsReserved, ReservationsExclusive,
       WriteLocksHaveOwner, Claim, DoneIsWritten, UnwrittenIsLeftover
  <1>2. TypeOK /\ Locks /\ Content /\ [Next]_vars => (TypeOK /\ Locks /\ Content)'
    BY NextTypeOK, NextLocks, NextContent
  <1>3. Content => UnwrittenIsLeftover
    BY DEF Content
  <1> QED BY <1>1, <1>2, <1>3, PTL DEF Spec
-----------------------------------------------------------------------------

\* Locks are counted right but for objects a failed copy gave back twice, and
\* what is counted on can be read.
Counted == \A o \in ObjectKey \ unlockedTwice : readers[o] >= Cardinality(Holders(o))
Served == \A o \in ObjectKey \ unlockedTwice :
             Holders(o) # {} /\ o \notin spoiled => obj[o] = "readable"

\* Where a retrieve's locks are held for it.
Holding == {"prepareRetrieve", "read", "copyOut", "unlock"}

\* The two conjuncts are the property.
LEMMA CountedServed == LookupHolds <=> Counted /\ Served
  BY DEF LookupHolds, Counted, Served

\* The holders of an object are finitely many.
LEMMA HoldersFinite ==
  ASSUME NEW o
  PROVE  IsFiniteSet(Holders(o)) /\ Cardinality(Holders(o)) \in Nat
  <1>1. Holders(o) \subseteq Task /\ IsFiniteSet(Task)
    BY ConstantsAssumption DEF Holders
  <1> QED BY <1>1, FS_Subset, FS_CardinalityType

\* A step after which fewer hold an object keeps its count as long as it gives
\* back at most one lock, and that one for a holder that has left.
LEMMA CountKept ==
  ASSUME TypeOK, NEW o \in ObjectKey, readers[o] >= Cardinality(Holders(o)),
         Holders(o)' \subseteq Holders(o),
         \/ readers'[o] = readers[o]
         \/ readers'[o] = readers[o] - 1 /\ \E t \in Holders(o) : t \notin Holders(o)'
  PROVE  readers'[o] >= Cardinality(Holders(o)')
  <1> DEFINE before == Holders(o)
             after == Holders(o)'
  <1>1. IsFiniteSet(before) /\ Cardinality(before) \in Nat /\ readers[o] \in Nat
    BY HoldersFinite DEF TypeOK
  <1>2. IsFiniteSet(after) /\ Cardinality(after) \in Nat /\ Cardinality(after) <= Cardinality(before)
    BY <1>1, FS_Subset, FS_CardinalityType
  <1>3. readers[o] >= Cardinality(before)
    OBVIOUS
  <1>4. CASE readers'[o] = readers[o]
    <2> HIDE DEF before, after
    <2>1. readers'[o] >= Cardinality(after)
      BY <1>1, <1>2, <1>3, <1>4
    <2> QED BY <2>1 DEF after
  <1>5. CASE readers'[o] = readers[o] - 1 /\ \E t \in before : t \notin after
    <2>1. after \subseteq before /\ after # before
      BY <1>5
    <2>a. readers'[o] = readers[o] - 1
      BY <1>5
    <2> HIDE DEF before, after
    <2>b. Cardinality(after) # Cardinality(before)
      BY <1>1, <2>1, FS_Subset
    <2>2. Cardinality(after) < Cardinality(before)
      BY <1>1, <1>2, <2>b
    <2>3. readers'[o] >= Cardinality(after)
      BY <1>1, <1>2, <1>3, <2>a, <2>2
    <2> QED BY <2>3 DEF after
  <1> QED BY <1>4, <1>5
-----------------------------------------------------------------------------

\* A step gives back locks of t: one on each of `given`, and t holds none of
\* them any more.
GivesBack(t, given) ==
  /\ given \subseteq Remaining(t)
  /\ Remaining(t)' \subseteq Remaining(t) \ given
  /\ \A u \in Task \ {t} : Remaining(u)' = Remaining(u)
  /\ \A o \in ObjectKey : \/ readers'[o] = readers[o]
                          \/ o \in given /\ readers'[o] = readers[o] - 1

\* A handler that gives back its own locks leaves everybody else's.
LEMMA GivenBackCounted ==
  ASSUME TypeOK, Counted, NEW t \in Task, NEW given, GivesBack(t, given),
         unlockedTwice \subseteq unlockedTwice'
  PROVE  Counted' /\ \A o \in ObjectKey : Holders(o)' \subseteq Holders(o)
  <1> USE DEF GivesBack
  <1>1. ASSUME NEW o PROVE Holders(o)' \subseteq Holders(o)
    <2> SUFFICES ASSUME NEW u \in Task, o \in Remaining(u)' PROVE o \in Remaining(u)
      BY DEF Holders
    <2> QED BY Zenon
  <1>2. ASSUME NEW o \in ObjectKey \ unlockedTwice' PROVE readers'[o] >= Cardinality(Holders(o)')
    <2>1. readers[o] >= Cardinality(Holders(o))
      BY DEF Counted
    <2>2. o \in given => t \in Holders(o) /\ t \notin Holders(o)'
      BY DEF Holders
    <2>3. Holders(o)' \subseteq Holders(o)
      BY <1>1
    <2> QED BY <2>1, <2>2, <2>3, CountKept
  <1>3. Counted'
    BY <1>2 DEF Counted
  <1> QED BY <1>1, <1>3

\* A step that holds nothing more, and takes no held object that can be read
\* away, serves whom it served.
LEMMA ServedKept ==
  ASSUME Served, spoiled \subseteq spoiled', unlockedTwice \subseteq unlockedTwice',
         \A o \in ObjectKey : Holders(o)' \subseteq Holders(o),
         \A o \in ObjectKey \ (spoiled' \cup unlockedTwice') :
            Holders(o) # {} /\ obj[o] = "readable" => obj'[o] = "readable"
  PROVE  Served'
  <1> SUFFICES ASSUME NEW o \in ObjectKey \ unlockedTwice', Holders(o)' # {}, o \notin spoiled'
               PROVE  obj'[o] = "readable"
    BY DEF Served
  <1>1. Holders(o) # {}
    <2>1. Holders(o)' \subseteq Holders(o)
      OBVIOUS
    <2> QED BY <2>1
  <1> QED BY <1>1 DEF Served

\* The objects of a retrieve, while it holds some.
LEMMA RemainingWanted ==
  ASSUME TypeOK, NEW t \in Task, hpc[t] \in Holding
  PROVE  Wanted(t) \subseteq Remaining(t)
  <1>1. grp[t] \in grp[t] .. NumGroups
    BY ConstantsAssumption DEF TypeOK, Group
  <1> QED BY <1>1 DEF Remaining, Wanted, Holding

\* Outside its own steps a task holds what it held.
LEMMA RemainingKept ==
  ASSUME NEW u \in Task, hpc'[u] = hpc[u], grp'[u] = grp[u], key'[u] = key[u]
  PROVE  Remaining(u)' = Remaining(u)
  BY DEF Remaining

\* A handler that leaves the reading of its groups holds nothing.
LEMMA RemainingNothing ==
  ASSUME NEW u \in Task
  PROVE  (hpc[u] \notin Holding => Remaining(u) = {})
         /\ (hpc'[u] \notin Holding => Remaining(u)' = {})
  BY DEF Remaining, Holding

\* The two together, for a step of t.
LEMMA HeldKept ==
  ASSUME TypeOK, Counted, Served, NEW t \in Task, NEW given, GivesBack(t, given),
         spoiled \subseteq spoiled', unlockedTwice \subseteq unlockedTwice',
         \A o \in ObjectKey \ spoiled' :
            Holders(o) # {} /\ obj[o] = "readable" => obj'[o] = "readable"
  PROVE  Counted' /\ Served'
  <1>1. Counted' /\ \A o \in ObjectKey : Holders(o)' \subseteq Holders(o)
    BY GivenBackCounted
  <1>2. Served'
    BY <1>1, ServedKept
  <1> QED BY <1>1, <1>2

\* A step of t that gives back nothing: it stays where it is among its groups,
\* or leaves them.
LEMMA NothingGiven ==
  ASSUME TypeOK, NEW t \in Task, readers' = readers,
         \A u \in Task \ {t} : hpc'[u] = hpc[u] /\ grp'[u] = grp[u] /\ key'[u] = key[u],
         \/ hpc'[t] \notin Holding
         \/ hpc[t] \in Holding /\ grp'[t] = grp[t] /\ key'[t] = key[t]
  PROVE  GivesBack(t, {})
  <1>1. \A u \in Task \ {t} : Remaining(u)' = Remaining(u)
    BY RemainingKept
  <1>2. Remaining(t)' \subseteq Remaining(t)
    <2>1. CASE hpc'[t] \notin Holding
      BY <2>1, RemainingNothing
    <2>2. CASE hpc'[t] \in Holding
      BY <2>2 DEF Remaining, Holding
    <2> QED BY <2>1, <2>2
  <1> QED BY <1>1, <1>2 DEF GivesBack

\* An object that somebody holds is read-locked, so it is not dropped.
LEMMA HeldAreLocked ==
  ASSUME TypeOK, Counted, NEW o \in ObjectKey \ unlockedTwice, Holders(o) # {}
  PROVE  readers[o] > 0
  <1>1. Cardinality(Holders(o)) # 0
    BY HoldersFinite, FS_EmptySet
  <1> QED BY <1>1, HoldersFinite DEF Counted, TypeOK

\* A lookup takes a lock on every object its retrieve will hold.
LEMMA SubmitRetrieveHeld ==
  ASSUME TypeOK, Counted, Served, NEW t \in Task, NEW k \in Key, SubmitRetrieve(t, k)
  PROVE  Counted' /\ Served'
  <1> DEFINE found == UNION {ObjKeys[k][g] : g \in Group}
  <1>1. /\ hpc[t] = "none" /\ hpc' = [hpc EXCEPT ![t] = "prepareRetrieve"]
        /\ key' = [key EXCEPT ![t] = k]
        /\ UNCHANGED <<obj, grp, spoiled, unlockedTwice>>
        /\ \A o \in found : obj[o] = "readable"
        /\ readers' = [o \in ObjectKey |-> IF o \in found THEN readers[o] + 1 ELSE readers[o]]
    BY DEF SubmitRetrieve, Send, LockPrefetched, ghostVars
  <1>2. \A u \in Task \ {t} : Remaining(u)' = Remaining(u)
    <2>1. \A u \in Task \ {t} : hpc'[u] = hpc[u] /\ grp'[u] = grp[u] /\ key'[u] = key[u]
      BY <1>1 DEF TypeOK
    <2> QED BY <2>1, RemainingKept
  <1>3. Remaining(t)' \subseteq found
    <2>1. hpc'[t] = "prepareRetrieve" /\ key'[t] = k /\ grp'[t] = grp[t] /\ grp[t] \in Group
      BY <1>1 DEF TypeOK
    <2>2. grp[t] .. NumGroups \subseteq Group
      BY <2>1, ConstantsAssumption DEF Group
    <2> QED BY <2>1, <2>2 DEF Remaining
  <1> HIDE DEF found
  <1>4. \A o : Holders(o)' \subseteq Holders(o) \cup {t}
               /\ (o \notin found => Holders(o)' \subseteq Holders(o))
    <2> TAKE o
    <2> SUFFICES ASSUME NEW u \in Task, o \in Remaining(u)'
                 PROVE  u \in Holders(o) \/ (u = t /\ o \in found)
      BY DEF Holders
    <2>1. CASE u = t
      BY <1>3, <2>1
    <2>2. CASE u # t
      <3>1. o \in Remaining(u)
        BY <1>2, <2>2, Zenon
      <3> QED BY <3>1 DEF Holders
    <2> QED BY <2>1, <2>2
  <1>5. ASSUME NEW o \in ObjectKey \ unlockedTwice' PROVE readers'[o] >= Cardinality(Holders(o)')
    <2>1. readers[o] >= Cardinality(Holders(o)) /\ readers[o] \in Nat
      BY <1>1 DEF Counted, TypeOK
    <2>2. CASE o \notin found
      <3>1. readers'[o] = readers[o] /\ Holders(o)' \subseteq Holders(o)
        BY <1>1, <1>4, <2>2
      <3> QED BY <2>1, <3>1, CountKept
    <2>3. CASE o \in found
      <3> DEFINE before == Holders(o)
                 after == Holders(o)'
      <3>1. IsFiniteSet(before) /\ Cardinality(before) \in Nat
        BY HoldersFinite
      <3>2. after \subseteq before \cup {t}
        BY <1>4
      <3>3. readers'[o] = readers[o] + 1
        BY <1>1, <2>3
      <3>a. readers[o] >= Cardinality(before)
        BY <2>1
      <3> HIDE DEF before, after
      <3>4. /\ IsFiniteSet(before \cup {t})
            /\ Cardinality(before \cup {t}) \in {Cardinality(before), Cardinality(before) + 1}
        BY <3>1, FS_AddElement
      <3>5. Cardinality(after) <= Cardinality(before \cup {t}) /\ Cardinality(after) \in Nat
        BY <3>2, <3>4, FS_Subset, FS_CardinalityType
      <3>6. readers'[o] >= Cardinality(after)
        BY <2>1, <3>1, <3>a, <3>3, <3>4, <3>5
      <3> QED BY <3>6 DEF after
    <2> QED BY <2>2, <2>3
  <1>6. ASSUME NEW o \in ObjectKey \ unlockedTwice', Holders(o)' # {}, o \notin spoiled'
        PROVE  obj'[o] = "readable"
    <2>1. CASE o \in found
      BY <1>1, <2>1
    <2>2. CASE o \notin found
      <3>1. Holders(o) # {}
        BY <1>4, <1>6, <2>2
      <3> QED BY <1>1, <1>6, <3>1 DEF Served
    <2> QED BY <2>1, <2>2
  <1> QED BY <1>5, <1>6 DEF Counted, Served

\* A worker's other steps only end what it held.
LEMMA WorkerHeld ==
  ASSUME TypeOK, Counted, Served, NEW t \in Task, Worker(t)
  PROVE  Counted' /\ Served'
  <1>1. ASSUME NEW k \in Key, SubmitRetrieve(t, k) PROVE Counted' /\ Served'
    BY <1>1, SubmitRetrieveHeld
  <1>2. ASSUME NEW k \in Key,
               SubmitStore(t, k) \/ Gather(t) \/ GatherFails(t) \/ Scatter(t)
               \/ SendCommitRetrieve(t) \/ Timeout(t)
        PROVE  Counted' /\ Served'
    <2>1. /\ UNCHANGED <<readers, obj, grp, spoiled, unlockedTwice>>
          /\ \A u \in Task \ {t} : hpc'[u] = hpc[u] /\ key'[u] = key[u]
          /\ \/ hpc'[t] \in {"prepareStore", "commitStore", "commitRetrieve"}
             \/ UNCHANGED <<hpc, key>>
      <3> USE DEF storageVars, handlerVars, ghostVars, Send, TypeOK
      <3>1. CASE SubmitStore(t, k)
        BY <3>1 DEF SubmitStore
      <3>2. CASE Gather(t) \/ SendCommitRetrieve(t)
        BY <3>2 DEF Gather, SendCommitRetrieve
      <3>3. CASE GatherFails(t) \/ Scatter(t) \/ Timeout(t)
        BY <3>3 DEF GatherFails, Scatter, Timeout
      <3> QED BY <1>2, <3>1, <3>2, <3>3
    <2>2. \/ hpc'[t] \notin Holding
          \/ hpc[t] \in Holding /\ grp'[t] = grp[t] /\ key'[t] = key[t]
      BY <2>1 DEF Holding
    <2>3. GivesBack(t, {})
      BY <2>1, <2>2, NothingGiven
    <2> QED BY <2>1, <2>3, HeldKept
  <1>3. CASE \E k \in Key : SubmitStore(t, k) \/ SubmitRetrieve(t, k)
    BY <1>1, <1>2, <1>3
  <1>4. CASE Gather(t) \/ GatherFails(t) \/ Scatter(t) \/ SendCommitRetrieve(t) \/ Timeout(t)
    <2>1. \E k \in Key : TRUE
      BY ConstantsAssumption
    <2> QED BY <1>2, <1>4, <2>1
  <1> QED BY <1>3, <1>4 DEF Worker

\* The handlers of a store hold no read lock, and give none back.
LEMMA StoringHeld ==
  ASSUME TypeOK, Counted, Served, NEW t \in Task,
         \/ Resolve(t) \/ Handshake(t) \/ RejectPayload(t) \/ ReserveGroup(t) \/ CopyIn(t)
         \/ PublishWritten(t) \/ UnlockLeftover(t) \/ DeleteLeftover(t)
  PROVE  Counted' /\ Served'
  <1>1. /\ UNCHANGED <<readers, key, unlockedTwice>> /\ spoiled \subseteq spoiled'
        /\ \A u \in Task \ {t} : hpc'[u] = hpc[u] /\ grp'[u] = grp[u]
        /\ hpc'[t] \notin Holding \/ (hpc[t] \in Holding /\ grp'[t] = grp[t])
    <2> USE DEF storageVars, workerVars, ghostVars, EndHandler, EndGroup, NextGroup, TypeOK,
            Holding
    <2>1. CASE Resolve(t)
      <3>1. hpc[t] \in Queued => \/ hpc[t] = "prepareRetrieve"
                                 \/ FirstStep[hpc[t]] \in {"handshake", "reserve"}
        BY DEF Queued, FirstStep
      <3> QED BY <2>1, <3>1 DEF Resolve
    <2>2. CASE Handshake(t) \/ RejectPayload(t)
      BY <2>2 DEF Handshake, RejectPayload
    <2>3. CASE ReserveGroup(t) \/ CopyIn(t)
      BY <2>3 DEF ReserveGroup, CopyIn
    <2>4. CASE PublishWritten(t) \/ UnlockLeftover(t)
      BY <2>4 DEF PublishWritten, UnlockLeftover
    <2>5. CASE DeleteLeftover(t)
      BY <2>5 DEF DeleteLeftover
    <2> QED BY <2>1, <2>2, <2>3, <2>4, <2>5
  <1>2. GivesBack(t, {})
    BY <1>1, NothingGiven
  <1>3. ASSUME NEW o \in ObjectKey \ spoiled', Holders(o) # {}, obj[o] = "readable",
               o \notin unlockedTwice
        PROVE  obj'[o] = "readable"
    <2>1. CASE Resolve(t) \/ Handshake(t) \/ RejectPayload(t) \/ CopyIn(t)
      BY <1>3, <2>1 DEF Resolve, Handshake, RejectPayload, CopyIn, storageVars
    <2>2. CASE ReserveGroup(t)
      BY <1>3, <2>2 DEF ReserveGroup, Reservable, TypeOK
    <2>3. CASE PublishWritten(t) \/ UnlockLeftover(t)
      BY <1>3, <2>3 DEF PublishWritten, UnlockLeftover, FinishWrite
    <2>4. CASE DeleteLeftover(t)
      <3>1. PICK gone \in SUBSET Leftover(t) : Drop(gone)
        BY <2>4 DEF DeleteLeftover
      <3>2. spoiled' = spoiled \cup {x \in Leftover(t) : readers[x] > 0}
        BY <2>4 DEF DeleteLeftover
      <3>3. readers[o] > 0
        BY <1>3, HeldAreLocked
      <3>4. o \notin gone
        BY <1>3, <3>1, <3>2, <3>3
      <3> QED BY <1>3, <3>1, <3>4 DEF Drop
    <2> QED BY <2>1, <2>2, <2>3, <2>4
  <1> QED BY <1>1, <1>2, <1>3, GivenBackCounted, ServedKept

\* A handler of a retrieve gives back what it has read, or what it gives up.
LEMMA RetrievingHeld ==
  ASSUME TypeOK, Counted, Served, NEW t \in Task,
         ReadGroup(t) \/ CopyOut(t) \/ CopyOutFails(t)
  PROVE  Counted' /\ Served'
  <1>1. /\ UNCHANGED <<obj, key, spoiled, unlockedTwice>> /\ hpc[t] \in Holding
        /\ \A u \in Task \ {t} : hpc'[u] = hpc[u] /\ grp'[u] = grp[u]
    BY DEF ReadGroup, CopyOut, CopyOutFails, EndHandler, ghostVars, storageVars, workerVars, TypeOK,
       Holding
  <1>2. \A u \in Task \ {t} : Remaining(u)' = Remaining(u)
    BY <1>1, RemainingKept
  <1>3. Wanted(t) \subseteq Remaining(t)
    BY <1>1, RemainingWanted
  <1>4. CASE readers' = readers /\ hpc'[t] \in Holding /\ grp'[t] = grp[t]
    <2>1. GivesBack(t, {})
      BY <1>1, <1>4, NothingGiven
    <2> QED BY <1>1, <2>1, HeldKept
  <1>5. ASSUME NEW keys \in SUBSET Wanted(t), FinishReadPrefetched(keys), hpc'[t] \notin Holding
        PROVE  Counted' /\ Served'
    <2>1. Remaining(t)' = {}
      BY <1>5, RemainingNothing
    <2>2. \A o \in ObjectKey : \/ readers'[o] = readers[o]
                               \/ o \in keys /\ readers'[o] = readers[o] - 1
      BY <1>5 DEF FinishReadPrefetched
    <2>3. keys \subseteq Remaining(t)
      BY <1>3
    <2>4. GivesBack(t, keys)
      BY <1>2, <2>1, <2>2, <2>3 DEF GivesBack
    <2> QED BY <1>1, <2>4, HeldKept
  <1>6. CASE ReadGroup(t)
    <2>1. CASE /\ hpc' = [hpc EXCEPT ![t] = "copyOut"]
               /\ UNCHANGED <<readers, wpc, grp>>
      BY <1>4, <2>1 DEF TypeOK, Holding
    <2>2. CASE FinishReadPrefetched(Prefetched(Wanted(t))) /\ EndHandler(t)
      <3>1. Prefetched(Wanted(t)) \subseteq Wanted(t)
        BY DEF Prefetched
      <3>2. hpc'[t] \notin Holding
        BY <2>2 DEF EndHandler, Holding, TypeOK
      <3> QED BY <1>5, <2>2, <3>1, <3>2
    <2> QED BY <1>6, <2>1, <2>2 DEF ReadGroup
  <1>7. CASE CopyOut(t)
    BY <1>4, <1>7 DEF CopyOut, storageVars, TypeOK, Holding
  <1>8. CASE CopyOutFails(t)
    <2>1. FinishReadPrefetched(Wanted(t)) /\ hpc'[t] \notin Holding
      BY <1>8 DEF CopyOutFails, Holding, TypeOK
    <2> QED BY <1>5, <2>1
  <1> QED BY <1>6, <1>7, <1>8

\* The finally clause gives back the group's locks: its own, since no object is
\* in two groups, or those that a failed copy has given back already.
LEMMA UnlockingHeld ==
  ASSUME TypeOK, Counted, Served, NEW t \in Task, UnlockGroup(t)
  PROVE  Counted' /\ Served'
  <1>1. /\ UNCHANGED <<obj, key, spoiled>> /\ unlockedTwice \subseteq unlockedTwice'
        /\ \A u \in Task \ {t} : hpc'[u] = hpc[u] /\ grp'[u] = grp[u]
        /\ FinishReadPrefetched(Wanted(t))
    BY DEF UnlockGroup, EndHandler, NextGroup, TypeOK
  <1>2. \A u \in Task \ {t} : Remaining(u)' = Remaining(u)
    BY <1>1, RemainingKept
  <1>3. \A o \in ObjectKey : \/ readers'[o] = readers[o]
                             \/ o \in Wanted(t) /\ readers'[o] = readers[o] - 1
    BY <1>1 DEF FinishReadPrefetched
  <1>4. CASE hpc[t] = "unlock"
    <2>1. Wanted(t) \subseteq Remaining(t)
      BY <1>4, RemainingWanted DEF Holding
    <2>2. Remaining(t)' \subseteq Remaining(t) \ Wanted(t)
      <3>1. NextGroup(t, "read", "prepareRetrieve", "scatter")
        BY <1>4 DEF UnlockGroup
      <3>2. CASE EndHandler(t)
        <4>1. hpc'[t] \notin Holding
          BY <3>2 DEF EndHandler, Holding, TypeOK
        <4> QED BY <4>1, RemainingNothing
      <3>3. CASE /\ grp[t] < NumGroups /\ grp' = [grp EXCEPT ![t] = @ + 1]
                 /\ hpc' = [hpc EXCEPT ![t] = "read"]
        <4> DEFINE objs == ObjKeys[key[t]]
        <4>1. /\ grp'[t] = grp[t] + 1 /\ hpc'[t] = "read" /\ key'[t] = key[t]
              /\ grp[t] \in Nat /\ 1 <= grp[t] /\ NumGroups \in Nat
          BY <1>1, <3>3, ConstantsAssumption DEF TypeOK, Group
        <4>2. \A g, h \in Group : g # h => objs[g] \cap objs[h] = {}
          BY ConstantsAssumption DEF TypeOK
        <4>3. /\ Remaining(t) = UNION {objs[g] : g \in grp[t] .. NumGroups}
              /\ Wanted(t) = objs[grp[t]]
          BY <1>4 DEF Remaining, Wanted
        <4>4. Remaining(t)' = UNION {objs[g] : g \in grp[t] + 1 .. NumGroups}
          BY <4>1 DEF Remaining
        <4> HIDE DEF objs
        <4>5. ASSUME NEW g \in grp[t] + 1 .. NumGroups
              PROVE  /\ g \in grp[t] .. NumGroups /\ g \in Group /\ grp[t] \in Group
                     /\ g # grp[t]
          BY <4>1 DEF Group
        <4> QED BY <4>2, <4>3, <4>4, <4>5
      <3> QED BY <3>1, <3>2, <3>3 DEF NextGroup
    <2>3. GivesBack(t, Wanted(t))
      BY <1>2, <1>3, <2>1, <2>2 DEF GivesBack
    <2> QED BY <1>1, <2>3, HeldKept
  <1>5. CASE hpc[t] = "unlockAgain"
    <2>1. /\ unlockedTwice' = unlockedTwice \cup Wanted(t) /\ hpc'[t] \notin Holding
      BY <1>5 DEF UnlockGroup, EndHandler, Holding, TypeOK
    <2>2. Remaining(t)' = {}
      BY <2>1, RemainingNothing
    <2>3. \A o : Holders(o)' \subseteq Holders(o)
      <3> SUFFICES ASSUME NEW o, NEW u \in Task, o \in Remaining(u)' PROVE o \in Remaining(u)
        BY DEF Holders
      <3> QED BY <1>2, <2>2, Zenon
    <2>4. ASSUME NEW o \in ObjectKey \ unlockedTwice'
          PROVE  readers'[o] >= Cardinality(Holders(o)')
      <3>1. readers'[o] = readers[o] /\ readers[o] >= Cardinality(Holders(o))
        BY <1>3, <2>1 DEF Counted
      <3>2. Holders(o)' \subseteq Holders(o)
        BY <2>3
      <3> QED BY <3>1, <3>2, CountKept
    <2>5. Counted'
      BY <2>4 DEF Counted
    <2>6. Served'
      BY <1>1, <2>3, ServedKept
    <2> QED BY <2>5, <2>6
  <1> QED BY <1>4, <1>5 DEF UnlockGroup

\* Every step keeps the lookups' locks.
LEMMA NextHeld == TypeOK /\ Counted /\ Served /\ [Next]_vars => Counted' /\ Served'
  <1> SUFFICES ASSUME TypeOK, Counted, Served, [Next]_vars PROVE Counted' /\ Served'
    OBVIOUS
  <1>1. ASSUME NEW t \in Task, Handler(t) PROVE Counted' /\ Served'
    BY <1>1, StoringHeld, RetrievingHeld, UnlockingHeld DEF Handler
  <1>2. ASSUME UNCHANGED <<readers, key, hpc, grp, spoiled, unlockedTwice>>,
               \A o \in ObjectKey : obj[o] = "readable" /\ readers[o] > 0 => obj'[o] = "readable"
        PROVE  Counted' /\ Served'
    <2>1. \A o : Holders(o)' = Holders(o)
      <3> SUFFICES ASSUME NEW u \in Task PROVE Remaining(u)' = Remaining(u)
        BY DEF Holders
      <3> QED BY <1>2, RemainingKept
    <2>2. Counted'
      <3> SUFFICES ASSUME NEW o \in ObjectKey \ unlockedTwice'
                   PROVE  readers'[o] >= Cardinality(Holders(o)')
        BY DEF Counted
      <3>1. readers[o] >= Cardinality(Holders(o)) /\ readers'[o] = readers[o]
        BY <1>2 DEF Counted
      <3>2. Holders(o)' \subseteq Holders(o)
        BY <2>1
      <3> QED BY <3>1, <3>2, CountKept
    <2>3. \A o \in ObjectKey \ (spoiled' \cup unlockedTwice') :
             Holders(o) # {} /\ obj[o] = "readable" => obj'[o] = "readable"
      BY <1>2, HeldAreLocked
    <2>4. Served'
      BY <1>2, <2>1, <2>3, ServedKept
    <2> QED BY <2>2, <2>4
  <1>3. ASSUME NEW i \in Instance, Register(i) \/ Deregister(i) PROVE Counted' /\ Served'
    BY <1>2, <1>3 DEF Register, Deregister, ghostVars, storageVars, workerVars, handlerVars
  <1>4. ASSUME NEW o \in ObjectKey, Evict(o) PROVE Counted' /\ Served'
    <2>1. /\ UNCHANGED <<readers, key, hpc, grp, spoiled, unlockedTwice>>
          /\ Drop({o}) /\ readers[o] = 0
      BY <1>4 DEF Evict, Unlocked, ghostVars, workerVars, handlerVars
    <2>2. \A p \in ObjectKey : obj[p] = "readable" /\ readers[p] > 0 => obj'[p] = "readable"
      BY <2>1 DEF Drop
    <2> QED BY <1>2, <2>1, <2>2
  <1>5. CASE UNCHANGED vars
    BY <1>2, <1>5 DEF vars, ghostVars, storageVars, workerVars, handlerVars
  <1> QED BY <1>1, <1>3, <1>4, <1>5, WorkerHeld DEF Next

\* Every retrieve under way has a read lock of its own on every object it has
\* still to read, and can read it, for any number of workers, retrieves, keys
\* and groups: only an object that a failed copy gave back twice, or one that a
\* clean-up met while a lookup was locking it, escapes (prepare_retrieve).
THEOREM LookupsHold == Spec => []LookupHolds
  <1>1. Init => TypeOK /\ Counted /\ Served
    <2> SUFFICES ASSUME Init PROVE Counted /\ Served
      BY InitTypeOK
    <2>1. \A o : Holders(o) = {}
      BY DEF Init, Holders, Remaining
    <2>2. \A o \in ObjectKey : readers[o] = 0
      BY DEF Init
    <2>3. Counted
      <3> SUFFICES ASSUME NEW o \in ObjectKey PROVE readers[o] >= Cardinality(Holders(o))
        BY DEF Counted
      <3>1. Cardinality(Holders(o)) = 0
        BY <2>1, FS_EmptySet
      <3> QED BY <2>2, <3>1
    <2>4. Served
      BY <2>1 DEF Served
    <2> QED BY <2>3, <2>4
  <1>2. TypeOK /\ Counted /\ Served /\ [Next]_vars => (TypeOK /\ Counted /\ Served)'
    BY NextTypeOK, NextHeld
  <1>3. Counted /\ Served => LookupHolds
    BY CountedServed
  <1> QED BY <1>1, <1>2, <1>3, PTL DEF Spec
=============================================================================
