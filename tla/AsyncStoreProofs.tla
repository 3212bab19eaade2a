-------------------------- MODULE AsyncStoreProofs --------------------------
(***************************************************************************)
(* Proofs about AsyncStore for every set of stores and every number of     *)
(* threads: type correctness, that no blocks are overwritten under a       *)
(* gather, that a close drains, and that the context is a DeferredStore.   *)
(***************************************************************************)
EXTENDS AsyncStore, TLAPS

\* The context starts in the invariant.
LEMMA InitIInv == Init => IInv
  <1> SUFFICES ASSUME Init PROVE IInv
    OBVIOUS
  <1>1. TypeOK
    BY DEF Init, TypeOK
  <1>2. GatherBeforeOverwrite /\ CloseDrains
    BY DEF Init, GatherBeforeOverwrite, CloseDrains
  <1>3. InOneSet /\ OneSubmitter /\ FlushCovers /\ ReclaimedIsFlushed
    BY DEF Init, InOneSet, OneSubmitter, FlushCovers, ReclaimedIsFlushed, Early, MayRead
  <1>4. OutcomeOfPhase /\ CloseCovers
    BY DEF Init, OutcomeOfPhase, CloseCovers, Early
  <1> QED BY <1>1, <1>2, <1>3, <1>4 DEF IInv

\* submit_store keeps the invariant: what it takes in is pending, and it runs
\* only while no flush and no step does.
LEMMA SubmitIInv == ASSUME NEW s \in Store, IInv, Submit(s) PROVE IInv'
  <1> USE DEF IInv, TypeOK, GatherBeforeOverwrite, CloseDrains, InOneSet, OneSubmitter,
          FlushCovers, ReclaimedIsFlushed, OutcomeOfPhase, CloseCovers, Early, MayRead, Running,
          setVars, closeVars, vllmVars
  <1>1. CASE BeginSubmit(s)
    BY <1>1 DEF BeginSubmit
  <1>2. CASE Enqueue(s)
    BY <1>2 DEF Enqueue
  <1>3. CASE SubmitFails(s)
    BY <1>3 DEF SubmitFails
  <1> QED BY <1>1, <1>2, <1>3 DEF Submit

\* A step of the task keeps the invariant: it leaves the pending set as it
\* enters the set in flight, and that one when its copies are done.
LEMMA TaskIInv == ASSUME NEW s \in Store, IInv, Task(s) PROVE IInv'
  <1> USE DEF IInv, TypeOK, GatherBeforeOverwrite, CloseDrains, InOneSet, OneSubmitter,
          FlushCovers, ReclaimedIsFlushed, OutcomeOfPhase, CloseCovers, Early, MayRead, Running,
          taskVars, setVars, mainVars, closeVars, vllmVars
  <1>1. CASE Start(s)
    BY <1>1 DEF Start
  <1>2. CASE Prepared(s)
    BY <1>2 DEF Prepared
  <1>3. CASE Gather(s)
    BY <1>3 DEF Gather
  <1>4. CASE GatherFails(s)
    BY <1>4 DEF GatherFails
  <1>5. CASE RecordEvent(s)
    BY <1>5 DEF RecordEvent
  <1>6. CASE SignalLaunched(s)
    BY <1>6 DEF SignalLaunched
  <1>7. CASE Synchronize(s)
    BY <1>7 DEF Synchronize
  <1>8. CASE AcquireCommitLock(s)
    BY <1>8 DEF AcquireCommitLock
  <1>9. CASE Committed(s)
    BY <1>9 DEF Committed
  <1>10. CASE Discard(s)
    BY <1>10 DEF Discard
  <1>11. CASE Resolve(s)
    BY <1>11 DEF Resolve
  <1>12. CASE SynchronizeFails(s)
    BY <1>12 DEF SynchronizeFails
  <1> QED BY <1>1, <1>2, <1>3, <1>4, <1>5, <1>6, <1>7, <1>8, <1>9, <1>10, <1>11, <1>12
          DEF Task

\* The device and vLLM keep the invariant: what a preemption takes back is
\* written to only behind a flush.
LEMMA EnvironmentIInv ==
  ASSUME IInv,
         Forward \/ \E s \in Store : CopyDone(s) \/ Preempt(s) \/ FreeFinished(s)
  PROVE  IInv'
  <1> USE DEF IInv, TypeOK, GatherBeforeOverwrite, CloseDrains, InOneSet, OneSubmitter,
          FlushCovers, ReclaimedIsFlushed, OutcomeOfPhase, CloseCovers, Early, MayRead, Running,
          taskVars, setVars, mainVars, closeVars, vllmVars
  <1>1. ASSUME NEW s \in Store, CopyDone(s) PROVE IInv'
    BY <1>1 DEF CopyDone
  <1>2. ASSUME NEW s \in Store, Preempt(s) PROVE IInv'
    BY <1>2 DEF Preempt
  <1>3. ASSUME NEW s \in Store, FreeFinished(s) PROVE IInv'
    BY <1>3 DEF FreeFinished
  <1>4. CASE Forward
    BY <1>4 DEF Forward
  <1> QED BY <1>1, <1>2, <1>3, <1>4

\* A flush keeps the invariant: whoever may read was pending when it began, or
\* is in flight once those have launched their gathers.
LEMMA FlushIInv == ASSUME IInv, Flush PROVE IInv'
  <1> USE DEF IInv, TypeOK, GatherBeforeOverwrite, CloseDrains, InOneSet, OneSubmitter,
          FlushCovers, ReclaimedIsFlushed, OutcomeOfPhase, CloseCovers, Early, MayRead, Running,
          taskVars, setVars, closeVars, vllmVars
  <1>1. CASE BeginFlush
    BY <1>1 DEF BeginFlush
  <1>2. CASE FlushLaunched
    BY <1>2 DEF FlushLaunched
  <1>3. CASE FlushSynced
    BY <1>3 DEF FlushSynced
  <1> QED BY <1>1, <1>2, <1>3 DEF Flush

\* A close keeps the invariant.
LEMMA CloseIInv == ASSUME IInv, Close PROVE IInv'
  <1> USE DEF IInv, TypeOK, GatherBeforeOverwrite, CloseDrains, InOneSet, OneSubmitter,
          FlushCovers, ReclaimedIsFlushed, OutcomeOfPhase, CloseCovers, Early, MayRead, Running,
          taskVars, setVars, mainVars, vllmVars
  <1>1. CASE BeginClose
    BY <1>1 DEF BeginClose
  <1>2. CASE CloseLaunched
    BY <1>2 DEF CloseLaunched
  <1>3. CASE CloseSynced
    BY <1>3 DEF CloseSynced
  <1>4. CASE CloseBase
    BY <1>4 DEF CloseBase
  <1> QED BY <1>1, <1>2, <1>3, <1>4 DEF Close

\* No step leaves the invariant.
LEMMA StepIInv == IInv /\ [Next]_vars => IInv'
  <1> SUFFICES ASSUME IInv, [Next]_vars PROVE IInv'
    OBVIOUS
  <1>1. CASE \E s \in Store : Submit(s)
    BY <1>1, SubmitIInv
  <1>2. CASE \E s \in Store : Task(s)
    BY <1>2, TaskIInv
  <1>3. CASE Forward \/ \E s \in Store : CopyDone(s) \/ Preempt(s) \/ FreeFinished(s)
    BY <1>3, EnvironmentIInv
  <1>4. CASE Flush
    BY <1>4, FlushIInv
  <1>5. CASE Close
    BY <1>5, CloseIInv
  <1>6. CASE UNCHANGED vars
    BY <1>6 DEF vars, taskVars, setVars, mainVars, closeVars, vllmVars, IInv, TypeOK,
                GatherBeforeOverwrite, CloseDrains, InOneSet, OneSubmitter, FlushCovers,
                ReclaimedIsFlushed, OutcomeOfPhase, CloseCovers, MayRead
  <1> QED BY <1>1, <1>2, <1>3, <1>4, <1>5, <1>6 DEF Next

LEMMA Inductive == Spec => []IInv
  BY InitIInv, StepIInv, PTL DEF Spec

\* Every reachable state of the asynchronous context is well typed.
THEOREM TypeCorrect == Spec => []TypeOK
  <1>1. IInv => TypeOK
    BY DEF IInv
  <1> QED BY <1>1, Inductive, PTL

\* No forward pass writes to blocks that a store which may still be committed
\* has to read (flush_inflight_stores).
THEOREM NoOverwriteUnderGather == Spec => []GatherBeforeOverwrite
  <1>1. IInv => GatherBeforeOverwrite
    BY DEF IInv
  <1> QED BY <1>1, Inductive, PTL

\* No store reaches an executor that is shut down, and none is left running on
\* a context that has closed (close).
THEOREM ClosesDrained == Spec => []CloseDrains
  <1>1. IInv => CloseDrains
    BY DEF IInv
  <1> QED BY <1>1, Inductive, PTL

-----------------------------------------------------------------------------
(* The context implements DeferredStore.                                   *)

\* An action that changes nothing vLLM sees is a stutter of the contract.
LEMMA Stutters ==
  ASSUME \A u \in Store : MayRead(u)' <=> MayRead(u),
         UNCHANGED <<outcome, reclaimed, overwritten>>
  PROVE  UNCHANGED Contract!vars
  <1>1. Reading' = Reading
    BY DEF Reading
  <1> QED BY <1>1 DEF Contract!vars

\* An action after which one store more is done with its blocks is EndRead.
LEMMA EndsRead ==
  ASSUME NEW s \in Store, MayRead(s), ~MayRead(s)',
         \A u \in Store \ {s} : MayRead(u)' <=> MayRead(u),
         UNCHANGED <<outcome, reclaimed, overwritten>>
  PROVE  Contract!Next
  <1>1. Reading' = Reading \ {s}
    BY DEF Reading
  <1>2. s \in Reading
    BY DEF Reading
  <1> QED BY <1>1, <1>2 DEF Contract!Next, Contract!EndRead

\* The same with the two alternatives left open.
LEMMA MayEndRead ==
  ASSUME NEW s \in Store, MayRead(s)' => MayRead(s),
         \A u \in Store \ {s} : MayRead(u)' <=> MayRead(u),
         UNCHANGED <<outcome, reclaimed, overwritten>>
  PROVE  Contract!Next \/ UNCHANGED Contract!vars
  <1>1. CASE MayRead(s)' <=> MayRead(s)
    BY <1>1, Stutters
  <1>2. CASE MayRead(s) /\ ~MayRead(s)'
    BY <1>2, EndsRead
  <1> QED BY <1>1, <1>2

\* submit_store takes a store in, refuses it, or gives it up again.
LEMMA SubmitRefines ==
  ASSUME NEW s \in Store, IInv, Submit(s)
  PROVE  Contract!Next \/ UNCHANGED Contract!vars
  <1> USE DEF IInv, TypeOK, OutcomeOfPhase, MayRead, Early, setVars, vllmVars
  <1>1. CASE BeginSubmit(s) /\ isClosing
    <2>1. UNCHANGED <<reclaimed, overwritten>> /\ outcome[s] = "none"
      BY <1>1 DEF BeginSubmit
    <2>2. outcome' = [outcome EXCEPT ![s] = "failed"]
      BY <1>1 DEF BeginSubmit
    <2>3. Reading' = Reading
      BY <1>1 DEF BeginSubmit, Reading
    <2> QED BY <2>1, <2>2, <2>3 DEF Contract!Next, Contract!Refuse
  <1>2. CASE BeginSubmit(s) /\ ~isClosing
    <2>1. UNCHANGED <<reclaimed, overwritten>> /\ outcome[s] = "none"
      BY <1>2 DEF BeginSubmit
    <2>2. outcome' = [outcome EXCEPT ![s] = "open"]
      BY <1>2 DEF BeginSubmit
    <2>3. Reading' = Reading \cup {s}
      BY <1>2 DEF BeginSubmit, Reading
    <2> QED BY <2>1, <2>2, <2>3 DEF Contract!Next, Contract!Submit
  <1>3. CASE Enqueue(s)
    <2>1. \A u \in Store : MayRead(u)' <=> MayRead(u)
      BY <1>3 DEF Enqueue
    <2> QED BY <1>3, <2>1, Stutters DEF Enqueue
  <1>4. CASE SubmitFails(s)
    <2>1. UNCHANGED <<reclaimed, overwritten>> /\ outcome[s] = "open" /\ s \in Reading
      BY <1>4 DEF SubmitFails, Reading
    <2>2. outcome' = [outcome EXCEPT ![s] = "failed"]
      BY <1>4 DEF SubmitFails
    <2>3. Reading' = Reading \ {s}
      BY <1>4 DEF SubmitFails, Reading
    <2> QED BY <2>1, <2>2, <2>3 DEF Contract!Next, Contract!Abandon
  <1> QED BY <1>1, <1>2, <1>3, <1>4 DEF Submit

\* A step of the task, or of the device, ends a store's reading or changes
\* nothing, until the last one resolves its future.
LEMMA TaskRefines ==
  ASSUME NEW s \in Store, IInv, Task(s) \/ CopyDone(s)
  PROVE  Contract!Next \/ UNCHANGED Contract!vars
  <1> USE DEF IInv, TypeOK, OutcomeOfPhase, MayRead, Early, taskVars, setVars, vllmVars
  <1>1. CASE Resolve(s)
    <2>1. UNCHANGED <<reclaimed, overwritten>> /\ outcome[s] = "open" /\ s \notin Reading
      BY <1>1 DEF Resolve, Reading
    <2>2. \E end \in {"stored", "failed"} : outcome' = [outcome EXCEPT ![s] = end]
      BY <1>1 DEF Resolve
    <2>3. Reading' = Reading
      BY <1>1 DEF Resolve, Reading
    <2> QED BY <2>1, <2>2, <2>3 DEF Contract!Next, Contract!Resolve
  <1>2. CASE ~Resolve(s)
    <2>1. UNCHANGED <<outcome, reclaimed, overwritten>>
      BY <1>2 DEF Task, Start, Prepared, Gather, GatherFails, RecordEvent, SignalLaunched,
                  Synchronize, SynchronizeFails, AcquireCommitLock, Committed, Discard, CopyDone
    <2>2. MayRead(s)' => MayRead(s)
      BY <1>2 DEF Task, Start, Prepared, Gather, GatherFails, RecordEvent, SignalLaunched,
                  Synchronize, SynchronizeFails, AcquireCommitLock, Committed, Discard, CopyDone
    <2>3. \A u \in Store \ {s} : MayRead(u)' <=> MayRead(u)
      BY <1>2 DEF Task, Start, Prepared, Gather, GatherFails, RecordEvent, SignalLaunched,
                  Synchronize, SynchronizeFails, AcquireCommitLock, Committed, Discard, CopyDone
    <2> QED BY <2>1, <2>2, <2>3, MayEndRead
  <1> QED BY <1>1, <1>2

\* vLLM takes blocks back and writes to them as the contract allows it to.
LEMMA ReclaimRefines ==
  ASSUME IInv, Forward \/ \E s \in Store : Preempt(s) \/ FreeFinished(s)
  PROVE  Contract!Next
  <1> USE DEF taskVars, MayRead
  <1>1. ASSUME NEW s \in Store, Preempt(s) \/ FreeFinished(s) PROVE Contract!Next
    <2>1. outcome[s] # "none"
      BY <1>1 DEF IInv, TypeOK, OutcomeOfPhase, Preempt, FreeFinished
    <2>2. reclaimed' = reclaimed \cup {s} /\ UNCHANGED <<outcome, overwritten>>
      BY <1>1 DEF Preempt, FreeFinished
    <2>3. Reading' = Reading
      BY <1>1 DEF Preempt, FreeFinished, Reading
    <2> QED BY <2>1, <2>2, <2>3 DEF Contract!Next, Contract!Reclaim
  <1>2. CASE Forward
    <2>1. reclaimed \cap Reading = {}
      BY <1>2 DEF Forward, IInv, ReclaimedIsFlushed, Reading
    <2>2. overwritten' = reclaimed /\ UNCHANGED <<outcome, reclaimed>>
      BY <1>2 DEF Forward
    <2>3. Reading' = Reading
      BY <1>2 DEF Forward, Reading
    <2> QED BY <2>1, <2>2, <2>3 DEF Contract!Next, Contract!Overwrite
  <1> QED BY <1>1, <1>2

\* Every step of the context is a step of the contract or a stutter.
LEMMA StepRefines == IInv /\ [Next]_vars => [Contract!Next]_Contract!vars
  <1> SUFFICES ASSUME IInv, [Next]_vars
               PROVE  Contract!Next \/ UNCHANGED Contract!vars
    OBVIOUS
  <1>1. CASE \E s \in Store : Submit(s)
    BY <1>1, SubmitRefines
  <1>2. CASE \E s \in Store : Task(s) \/ CopyDone(s)
    BY <1>2, TaskRefines
  <1>3. CASE Forward \/ \E s \in Store : Preempt(s) \/ FreeFinished(s)
    BY <1>3, ReclaimRefines
  <1>4. CASE Flush \/ Close \/ UNCHANGED vars
    <2>1. UNCHANGED <<phase, copying, outcome, reclaimed, overwritten>>
      BY <1>4 DEF Flush, BeginFlush, FlushLaunched, FlushSynced, Close, BeginClose,
                  CloseLaunched, CloseSynced, CloseBase, vars, taskVars, vllmVars
    <2> QED BY <2>1, Stutters DEF MayRead
  <1> QED BY <1>1, <1>2, <1>3, <1>4 DEF Next

\* The asynchronous context keeps the contract vLLM relies on: it reads the
\* blocks of a store it has taken in until it says so, resolves every store at
\* most once, and leaves no one reading when blocks are overwritten.
THEOREM ImplementsContract == Spec => ContractSpec
  <1>1. Init => Contract!Init
    <2> SUFFICES ASSUME Init PROVE Contract!Init
      OBVIOUS
    <2>1. Reading = {}
      BY DEF Init, Reading, MayRead, Early
    <2> QED BY <2>1 DEF Init, Contract!Init
  <1> QED BY <1>1, Inductive, StepRefines, PTL DEF Spec, ContractSpec, Contract!Spec
=============================================================================
