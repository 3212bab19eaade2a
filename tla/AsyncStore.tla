----------------------------- MODULE AsyncStore -----------------------------
(***************************************************************************)
(* AsyncEngineDrivenTransferContext: stores that prepare, gather and       *)
(* commit on a pool of threads while the forward thread goes on, the flush *)
(* before blocks are overwritten, and the close that drains everything.    *)
(*                                                                         *)
(* The forward thread submits and flushes, another thread may close, the   *)
(* pool threads run the tasks, the device completes the copies, and vLLM   *)
(* preempts requests whose blocks a later forward pass overwrites.  Stores *)
(* of hybrid models take the synchronous path and are not here.            *)
(***************************************************************************)
EXTENDS FiniteSets, Naturals

CONSTANTS
    Store,          \* the stores submitted during a run
    CommitWorkers,  \* threads of _commit_executor
    NoStore         \* nobody: _commit_lock is free

ASSUME ConstantsAssumption ==
    CommitWorkers \in Nat \ {0} /\ NoStore \notin Store

VARIABLES
    phase,          \* where a store is
    ok,             \* a task's `ok`
    outcome,        \* its future: "none", "open", "stored" or "failed"
    pending,        \* _pending_stores
    launched,       \* the gather_launched events that are set
    events,         \* _inflight_gather_events
    copying,        \* stores with copies on the copy stream
    commitLock,     \* holder of _commit_lock
    isClosing, executorDown,
    mainPC, mainSet,   \* the forward thread and what it waits for in a flush
    closePC, closeSet, \* the closing thread, likewise
    needFlush,      \* need_flush_before_forward of the next step
    reclaimed,      \* stores whose blocks vLLM has taken back
    overwritten     \* stores whose blocks a forward pass has written since

taskVars  == <<phase, ok, outcome>>
setVars   == <<pending, launched, events>>
mainVars  == <<mainPC, mainSet>>
closeVars == <<closePC, closeSet, isClosing, executorDown>>
vllmVars  == <<needFlush, reclaimed, overwritten>>
vars == <<taskVars, setVars, copying, commitLock, mainVars, closeVars, vllmVars>>

\* Phases in which a task occupies a thread of the pool.
Running == {"prepare", "gather", "record", "signal", "sync", "lock", "commit",
            "discard", "resolve"}

Init ==
    /\ phase = [s \in Store |-> "new"]
    /\ ok = [s \in Store |-> FALSE]
    /\ outcome = [s \in Store |-> "none"]
    /\ pending = {} /\ launched = {} /\ events = {} /\ copying = {}
    /\ commitLock = NoStore
    /\ isClosing = FALSE /\ executorDown = FALSE
    /\ mainPC = "idle" /\ mainSet = {}
    /\ closePC = "idle" /\ closeSet = {}
    /\ needFlush = FALSE /\ reclaimed = {} /\ overwritten = {}

-----------------------------------------------------------------------------
(* submit_store on the forward thread.                                     *)

\* Under _inflight_lock: a context that closes refuses, else the store is pending.
BeginSubmit(s) ==
    /\ phase[s] = "new" /\ mainPC = "idle"
    /\ IF isClosing
       THEN /\ phase' = [phase EXCEPT ![s] = "done"]
            /\ outcome' = [outcome EXCEPT ![s] = "failed"]
            /\ UNCHANGED <<pending, mainPC>>
       ELSE /\ pending' = pending \cup {s}
            /\ phase' = [phase EXCEPT ![s] = "accepted"]
            /\ outcome' = [outcome EXCEPT ![s] = "open"]
            /\ mainPC' = "submit"
    /\ UNCHANGED <<ok, launched, events, copying, commitLock, mainSet, closeVars,
                   vllmVars>>

\* The task goes to the executor ...
Enqueue(s) ==
    /\ phase[s] = "accepted"
    /\ phase' = [phase EXCEPT ![s] = "queued"]
    /\ mainPC' = "idle"
    /\ UNCHANGED <<ok, outcome, setVars, copying, commitLock, mainSet, closeVars,
                   vllmVars>>

\* Mutant: the failed store stays pending.
SubmitFailsPending(s) ==
    /\ phase[s] = "accepted"
    /\ phase' = [phase EXCEPT ![s] = "done"]
    /\ outcome' = [outcome EXCEPT ![s] = "failed"]
    /\ mainPC' = "idle"
    /\ UNCHANGED <<ok, setVars, copying, commitLock, mainSet, closeVars, vllmVars>>

\* ... or something raises before that.
SubmitFails(s) ==
    /\ phase[s] = "accepted"
    /\ pending' = pending \ {s}
    /\ launched' = launched \cup {s}
    /\ phase' = [phase EXCEPT ![s] = "done"]
    /\ outcome' = [outcome EXCEPT ![s] = "failed"]
    /\ mainPC' = "idle"
    /\ UNCHANGED <<ok, events, copying, commitLock, mainSet, closeVars, vllmVars>>

-----------------------------------------------------------------------------
(* _prepare_gather_and_commit on a pool thread.                            *)

Start(s) ==
    /\ phase[s] = "queued"
    /\ Cardinality({u \in Store : phase[u] \in Running}) < CommitWorkers
    /\ phase' = [phase EXCEPT ![s] = "prepare"]
    /\ UNCHANGED <<ok, outcome, setVars, copying, commitLock, mainVars, closeVars,
                   vllmVars>>

\* prepare_store answers: a target to gather into, or that all chunks are
\* there already (ok), or it raises.
Prepared(s) ==
    /\ phase[s] = "prepare"
    /\ \E next \in {"gather", "discard"}, cached \in BOOLEAN :
          /\ next = "gather" => ~cached
          /\ phase' = [phase EXCEPT ![s] = next]
          /\ ok' = [ok EXCEPT ![s] = cached]
    /\ UNCHANGED <<outcome, setVars, copying, commitLock, mainVars, closeVars, vllmVars>>

\* The copies are put on the copy stream, with an event behind them.
Gather(s) ==
    /\ phase[s] = "gather"
    /\ copying' = copying \cup {s}
    /\ phase' = [phase EXCEPT ![s] = "record"]
    /\ UNCHANGED <<ok, outcome, setVars, commitLock, mainVars, closeVars, vllmVars>>

\* The gather raises, with some copies on the stream or none.
GatherFails(s) ==
    /\ phase[s] = "gather"
    /\ copying' \in {copying, copying \cup {s}}
    /\ phase' = [phase EXCEPT ![s] = "discard"]
    /\ UNCHANGED <<ok, outcome, setVars, commitLock, mainVars, closeVars, vllmVars>>

\* Mutant: the store is no longer pending and its event is not in flight yet.
RecordEventLate(s) ==
    /\ phase[s] = "record"
    /\ pending' = pending \ {s}
    /\ phase' = [phase EXCEPT ![s] = "signal"]
    /\ UNCHANGED <<ok, outcome, launched, events, copying, commitLock, mainVars,
                   closeVars, vllmVars>>

\* Under _inflight_lock: from pending to in flight.
RecordEvent(s) ==
    /\ phase[s] = "record"
    /\ events' = events \cup {s}
    /\ pending' = pending \ {s}
    /\ phase' = [phase EXCEPT ![s] = "signal"]
    /\ UNCHANGED <<ok, outcome, launched, copying, commitLock, mainVars, closeVars,
                   vllmVars>>

SignalLaunched(s) ==
    /\ phase[s] = "signal"
    /\ launched' = launched \cup {s}
    /\ phase' = [phase EXCEPT ![s] = "sync"]
    /\ UNCHANGED <<ok, outcome, pending, events, copying, commitLock, mainVars,
                   closeVars, vllmVars>>

\* gather_done.synchronize().
Synchronize(s) ==
    /\ phase[s] = "sync" /\ s \notin copying
    /\ phase' = [phase EXCEPT ![s] = "lock"]
    /\ UNCHANGED <<ok, outcome, setVars, copying, commitLock, mainVars, closeVars,
                   vllmVars>>

\* The wait raises: nothing is committed, and the copies may still be running.
SynchronizeFails(s) ==
    /\ phase[s] = "sync"
    /\ phase' = [phase EXCEPT ![s] = "discard"]
    /\ UNCHANGED <<ok, outcome, setVars, copying, commitLock, mainVars, closeVars,
                   vllmVars>>

AcquireCommitLock(s) ==
    /\ phase[s] = "lock" /\ commitLock = NoStore
    /\ commitLock' = s
    /\ phase' = [phase EXCEPT ![s] = "commit"]
    /\ UNCHANGED <<ok, outcome, setVars, copying, mainVars, closeVars, vllmVars>>

\* Mutant: a commit that does not succeed keeps the lock.
CommittedKeepsLock(s) ==
    /\ phase[s] = "commit"
    /\ \E stored \in BOOLEAN :
          /\ ok' = [ok EXCEPT ![s] = stored]
          /\ commitLock' = IF stored THEN NoStore ELSE commitLock
    /\ phase' = [phase EXCEPT ![s] = "discard"]
    /\ UNCHANGED <<outcome, setVars, copying, mainVars, closeVars, vllmVars>>

\* commit_store answers True or False, or raises; the lock is released.
Committed(s) ==
    /\ phase[s] = "commit"
    /\ \E stored \in BOOLEAN : ok' = [ok EXCEPT ![s] = stored]
    /\ commitLock' = NoStore
    /\ phase' = [phase EXCEPT ![s] = "discard"]
    /\ UNCHANGED <<outcome, setVars, copying, mainVars, closeVars, vllmVars>>

\* The finally clause, under _inflight_lock ...
Discard(s) ==
    /\ phase[s] = "discard"
    /\ events' = events \ {s}
    /\ pending' = pending \ {s}
    /\ phase' = [phase EXCEPT ![s] = "resolve"]
    /\ UNCHANGED <<ok, outcome, launched, copying, commitLock, mainVars, closeVars,
                   vllmVars>>

\* ... and after it.
Resolve(s) ==
    /\ phase[s] = "resolve"
    /\ launched' = launched \cup {s}
    /\ outcome' = [outcome EXCEPT ![s] = IF ok[s] THEN "stored" ELSE "failed"]
    /\ phase' = [phase EXCEPT ![s] = "done"]
    /\ UNCHANGED <<ok, pending, events, copying, commitLock, mainVars, closeVars,
                   vllmVars>>

Task(s) ==
    \/ Start(s) \/ Prepared(s) \/ Gather(s) \/ GatherFails(s) \/ RecordEvent(s)
    \/ SignalLaunched(s) \/ Synchronize(s) \/ SynchronizeFails(s)
    \/ AcquireCommitLock(s) \/ Committed(s) \/ Discard(s) \/ Resolve(s)

\* The device ends the copies of a store.
CopyDone(s) ==
    /\ s \in copying
    /\ copying' = copying \ {s}
    /\ UNCHANGED <<taskVars, setVars, commitLock, mainVars, closeVars, vllmVars>>

-----------------------------------------------------------------------------
(* vLLM: preemption, and the step on the forward thread.                   *)

\* A request is preempted: the metadata of the next step asks for a flush.
Preempt(s) ==
    /\ phase[s] \notin {"new", "accepted"} /\ mainPC = "idle" /\ s \notin reclaimed
    /\ reclaimed' = reclaimed \cup {s}
    /\ needFlush' = TRUE
    /\ UNCHANGED <<taskVars, setVars, copying, commitLock, mainVars, closeVars,
                   overwritten>>

\* A request has finished: its blocks are kept until its stores are over.
FreeFinished(s) ==
    /\ outcome[s] \in {"stored", "failed"} /\ mainPC = "idle" /\ s \notin reclaimed
    /\ reclaimed' = reclaimed \cup {s}
    /\ UNCHANGED <<taskVars, setVars, copying, commitLock, mainVars, closeVars,
                   needFlush, overwritten>>

\* Mutant: the flush waits for the copies that are in flight already only.
BeginFlushEventsOnly ==
    /\ mainPC = "idle" /\ needFlush
    /\ mainSet' = {}
    /\ mainPC' = "waitPending"
    /\ UNCHANGED <<taskVars, setVars, copying, commitLock, closeVars, vllmVars>>

\* handle_preemptions: flush_inflight_stores takes the pending stores ...
BeginFlush ==
    /\ mainPC = "idle" /\ needFlush
    /\ mainSet' = pending
    /\ mainPC' = "waitPending"
    /\ UNCHANGED <<taskVars, setVars, copying, commitLock, closeVars, vllmVars>>

\* ... waits until each has launched its gather, takes the events in flight ...
FlushLaunched ==
    /\ mainPC = "waitPending" /\ mainSet \subseteq launched
    /\ mainSet' = events
    /\ mainPC' = "syncEvents"
    /\ UNCHANGED <<taskVars, setVars, copying, commitLock, closeVars, vllmVars>>

\* ... and synchronizes with each.
FlushSynced ==
    /\ mainPC = "syncEvents" /\ mainSet \cap copying = {}
    /\ mainSet' = {}
    /\ mainPC' = "idle"
    /\ needFlush' = FALSE
    /\ UNCHANGED <<taskVars, setVars, copying, commitLock, closeVars, reclaimed,
                   overwritten>>

\* The forward pass writes to blocks that vLLM has given to other requests.
Forward ==
    /\ mainPC = "idle" /\ ~needFlush /\ overwritten # reclaimed
    /\ overwritten' = reclaimed
    /\ UNCHANGED <<taskVars, setVars, copying, commitLock, mainVars, closeVars,
                   needFlush, reclaimed>>

-----------------------------------------------------------------------------
(* close.                                                                  *)

\* Mutant: stores are still taken in while the context closes.
BeginCloseOpen ==
    /\ closePC = "idle"
    /\ closeSet' = pending
    /\ closePC' = "waitPending"
    /\ UNCHANGED <<taskVars, setVars, copying, commitLock, mainVars, isClosing,
                   executorDown, vllmVars>>

BeginClose ==
    /\ closePC = "idle"
    /\ isClosing' = TRUE
    /\ closeSet' = pending
    /\ closePC' = "waitPending"
    /\ UNCHANGED <<taskVars, setVars, copying, commitLock, mainVars, executorDown,
                   vllmVars>>

CloseLaunched ==
    /\ closePC = "waitPending" /\ closeSet \subseteq launched
    /\ closeSet' = events
    /\ closePC' = "syncEvents"
    /\ UNCHANGED <<taskVars, setVars, copying, commitLock, mainVars, isClosing,
                   executorDown, vllmVars>>

CloseSynced ==
    /\ closePC = "syncEvents" /\ closeSet \cap copying = {}
    /\ closeSet' = {}
    /\ executorDown' = TRUE
    /\ closePC' = "shutdown"
    /\ UNCHANGED <<taskVars, setVars, copying, commitLock, mainVars, isClosing, vllmVars>>

\* shutdown(wait=True) has seen the last task end; the base context closes.
CloseBase ==
    /\ closePC = "shutdown"
    /\ \A s \in Store : phase[s] # "queued" /\ phase[s] \notin Running
    /\ closePC' = "closed"
    /\ UNCHANGED <<taskVars, setVars, copying, commitLock, mainVars, closeSet,
                   isClosing, executorDown, vllmVars>>

Submit(s) == BeginSubmit(s) \/ Enqueue(s) \/ SubmitFails(s)

Flush == BeginFlush \/ FlushLaunched \/ FlushSynced

Close == BeginClose \/ CloseLaunched \/ CloseSynced \/ CloseBase

Next ==
    \/ \E s \in Store : Submit(s) \/ Task(s) \/ CopyDone(s) \/ Preempt(s) \/ FreeFinished(s)
    \/ Flush \/ Forward \/ Close

Spec == Init /\ [][Next]_vars

\* The pool threads, the device and the threads that flush and close keep
\* running; requests of a task come back, if only by a timeout; the executor's
\* queue and the lock pass nobody over for ever.  Nothing has to be submitted,
\* preempted or closed.
FairSpec ==
    /\ Spec
    /\ \A s \in Store :
          /\ SF_vars(Start(s)) /\ SF_vars(AcquireCommitLock(s)) /\ WF_vars(Task(s))
          /\ WF_vars(CopyDone(s)) /\ WF_vars(Enqueue(s) \/ SubmitFails(s))
    /\ WF_vars(FlushLaunched \/ FlushSynced)
    /\ WF_vars(CloseLaunched \/ CloseSynced \/ CloseBase)

-----------------------------------------------------------------------------
(* What the context promises.                                              *)

\* The variables stay within their types.
TypeOK ==
    /\ phase \in [Store -> Running \cup {"new", "accepted", "queued", "done"}]
    /\ ok \in [Store -> BOOLEAN]
    /\ outcome \in [Store -> {"none", "open", "stored", "failed"}]
    /\ pending \subseteq Store /\ launched \subseteq Store /\ events \subseteq Store
    /\ copying \subseteq Store
    /\ commitLock \in Store \cup {NoStore}
    /\ isClosing \in BOOLEAN /\ executorDown \in BOOLEAN
    /\ mainPC \in {"idle", "submit", "waitPending", "syncEvents"}
    /\ closePC \in {"idle", "waitPending", "syncEvents", "shutdown", "closed"}
    /\ mainSet \subseteq Store /\ closeSet \subseteq Store
    /\ needFlush \in BOOLEAN /\ reclaimed \subseteq Store /\ overwritten \subseteq Store

\* Phases of a store that was taken in and has not recorded its gather.
Early == {"accepted", "queued", "prepare", "gather", "record"}

\* A store that may still be committed and has not read all its blocks.
MayRead(s) == phase[s] \in Early \/ (phase[s] \in {"signal", "sync"} /\ s \in copying)

Reading == {s \in Store : MayRead(s)}

\* "vLLM cannot overwrite paged KV blocks before a deferred gather has finished
\* reading them" (flush_inflight_stores).
GatherBeforeOverwrite == \A s \in overwritten : ~MayRead(s)

\* A store that is taken in reaches the executor before it is shut down, and
\* once close has returned no task runs on the closed context.
CloseDrains ==
    /\ executorDown => \A s \in Store : phase[s] \notin {"accepted", "queued"}
    /\ closePC = "closed" => \A s \in Store : phase[s] \in {"new", "done"}

\* The contract towards vLLM, with a store reading as long as it may.
Contract == INSTANCE DeferredStore WITH reading <- Reading

ContractSpec == Contract!Spec

\* A store is pending until its gather is recorded, in flight from then on, and
\* has not signalled before: a flush sees it in one of the two sets.
InOneSet ==
    \A s \in Store :
        /\ phase[s] \in Early => s \in pending
        /\ phase[s] \in {"signal", "sync"} => s \in events
        /\ phase[s] \in Early \cup {"new"} => s \notin launched

\* The forward thread submits one store at a time, and does nothing else then.
OneSubmitter ==
    \A s \in Store : phase[s] = "accepted" =>
        mainPC = "submit" /\ \A u \in Store : phase[u] = "accepted" => u = s

\* A flush waits for every store that was under way when it began.
FlushCovers ==
    \A s \in Store :
        /\ mainPC = "waitPending" /\ phase[s] \in Early => s \in mainSet
        /\ mainPC = "syncEvents" => phase[s] \notin Early
        /\ mainPC = "syncEvents" /\ MayRead(s) => s \in mainSet

\* Blocks are taken back from stores that were submitted, and no step runs on
\* the blocks of one that may read them unless it flushes first.
ReclaimedIsFlushed ==
    /\ overwritten \subseteq reclaimed
    /\ \A s \in reclaimed : phase[s] # "new" /\ (needFlush \/ ~MayRead(s))

\* A future is handed out by submit_store and resolved by the store's last step.
OutcomeOfPhase ==
    \A s \in Store :
        /\ outcome[s] = "none" <=> phase[s] = "new"
        /\ outcome[s] \in {"stored", "failed"} <=> phase[s] = "done"

\* A close lets no store in and waits for the gathers of those that were.
CloseCovers ==
    /\ closePC # "idle" => isClosing
    /\ closePC = "idle" => ~executorDown
    /\ closePC = "waitPending" => ~executorDown
    /\ closePC = "syncEvents" => ~executorDown
    /\ \A s \in Store :
          /\ closePC = "waitPending" /\ phase[s] \in Early => s \in closeSet
          /\ closePC \in {"syncEvents", "shutdown", "closed"} => phase[s] \notin Early

\* The inductive invariant behind GatherBeforeOverwrite, CloseDrains and
\* ContractSpec.
IInv ==
    /\ TypeOK /\ GatherBeforeOverwrite /\ CloseDrains
    /\ InOneSet /\ OneSubmitter /\ FlushCovers
    /\ ReclaimedIsFlushed /\ OutcomeOfPhase /\ CloseCovers

\* Every future that was handed out is resolved.
StoresResolve == \A s \in Store : outcome[s] = "open" ~> outcome[s] \in {"stored", "failed"}

\* A flush ends, and so does a close: neither waits for a store that will not
\* come to its gather.
FlushAndCloseReturn ==
    /\ mainPC = "waitPending" ~> mainPC = "idle"
    /\ closePC = "waitPending" ~> closePC = "closed"

\* "the underlying ZMQ socket is not thread-safe" (_commit_lock): at most one
\* thread of the pool is in a request to the server.
SocketExclusive ==
    Cardinality({s \in Store : phase[s] \in {"prepare", "commit"}}) <= 1
=============================================================================
