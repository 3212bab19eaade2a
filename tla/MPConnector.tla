---------------------------- MODULE MPConnector ----------------------------
(***************************************************************************)
(* The scheduler side of LMCacheMPConnector: the tracker it keeps for each *)
(* request, the lookup locks it answers for, and the store and retrieve    *)
(* operations it hands to the workers.                                     *)
(*                                                                         *)
(* vLLM's scheduler calls the connector from one thread; what interleaves  *)
(* are the requests, the answers of the LMCache server, loads that finish  *)
(* between two steps, allocations that fail, and preemptions.  A token     *)
(* count stands for the prefix of that length, and a block list for its    *)
(* length.  vLLM is not part of this repository: its calls are what the    *)
(* callbacks and their comments say of it.                                 *)
(***************************************************************************)
EXTENDS Naturals

CONSTANTS
    Request,        \* request ids
    Group,          \* engine groups
    TokensPerBlock, \* _group_tokens_per_block
    Chunk,          \* lmcache_tokens_per_chunk
    MaxTokens,      \* bound: tokens of a request, generated ones included
    MaxFailures,    \* bound: allocations that fail for want of blocks
    MaxPreemptions  \* bound: preemptions

ASSUME ConstantsAssumption ==
    /\ Group # {}
    /\ TokensPerBlock \in [Group -> Nat \ {0}]
    /\ Chunk \in Nat \ {0}
    /\ \A g \in Group : Chunk % TokensPerBlock[g] = 0
    /\ MaxTokens \in Nat \ {0} /\ MaxFailures \in Nat /\ MaxPreemptions \in Nat

VARIABLES
    status,     \* vLLM: where the request is
    numTokens,  \* vLLM: len(all_token_ids)
    computed,   \* vLLM: tokens whose KV is in the request's blocks
    scheduled,  \* vLLM: tokens scheduled in the step that is being put together
    listed,     \* vLLM: the list of the scheduler output the request is in
    vblocks,    \* vLLM: blocks of the request in each group
    local,      \* vLLM: tokens the prefix cache hit, as passed to the connector
    tracker,    \* request_trackers, NoTracker for no entry
    lookup,     \* the lookup: "none", "pending" or "answered"
    hit,        \* its answer
    locked,     \* tokens the lookup locked chunks for
    freed,      \* tokens handed to free_lookup_locks, from 0
    load,       \* the retrieve operation sent to the workers
    store,      \* the last store operation sent to the workers
    saved,      \* ghost: the prefix LMCache was found or made to hold
    spoiled,    \* ghost: requests a load of which has failed
    failures, preemptions  \* counts, up to their bounds

vllmVars   == <<status, numTokens, computed, scheduled, listed, vblocks, local>>
lookupVars == <<lookup, hit, locked, freed>>
opVars     == <<load, store, saved, spoiled>>
vars == <<vllmVars, tracker, lookupVars, opVars, failures, preemptions>>

Status == {"new", "waiting", "preempted", "matched", "rematched", "loading",
           "loaded", "running", "finished"}

NoBlocks == [g \in Group |-> 0]

NoOp == [start |-> 0, end |-> 0, skip |-> 0]

NewTracker == [state |-> "PREFETCHING", scheduled |-> 0, stored |-> 0,
               vllmHit |-> 0, lmcacheHit |-> 0, blocks |-> NoBlocks]

NoTracker == [NewTracker EXCEPT !.state = "none"]

\* math.lcm of the groups' block sizes.
HitAlignment ==
    CHOOSE n \in 1..Chunk :
        /\ \A g \in Group : n % TokensPerBlock[g] = 0
        /\ \A m \in 1..(n - 1) : \E g \in Group : m % TokensPerBlock[g] # 0

RoundDown(n, unit) == (n \div unit) * unit

\* The blocks that n tokens take in each group.
BlocksFor(n) ==
    [g \in Group |-> (n + TokensPerBlock[g] - 1) \div TokensPerBlock[g]]

\* Both hits are prefixes that are there already, so they overlap.
Larger(m, n) == IF m > n THEN m ELSE n

-----------------------------------------------------------------------------
(* The tracker.                                                            *)

NeedsRetrieve(T) == T.lmcacheHit > T.vllmHit /\ T.state # "READY"

\* Mutant: the two hits are added up.
ComputedTokensSum(T) == T.scheduled + T.vllmHit + T.lmcacheHit

ComputedTokens(T) == T.scheduled + Larger(T.vllmHit, T.lmcacheHit)

\* The bounds on what can be stored: the tokens there are, the blocks of every
\* group, and what has been computed.
StoreBounds(T, len) ==
    {len, ComputedTokens(T)} \cup {T.blocks[g] * TokensPerBlock[g] : g \in Group}

Available(T, len) ==
    CHOOSE n \in StoreBounds(T, len) : \A m \in StoreBounds(T, len) : n <= m

\* Mutant: the last chunk need not be full.
StoreEndPartial(T, len) ==
    IF Available(T, len) >= T.stored + Chunk THEN Available(T, len) ELSE T.stored

\* GetStoreMetadata stores [T.stored, StoreEnd): the full chunks available.
StoreEnd(T, len) ==
    IF Available(T, len) >= T.stored + Chunk
    THEN T.stored + RoundDown(Available(T, len) - T.stored, Chunk)
    ELSE T.stored

\* Mutant: the range starts behind the chunk vLLM has in part.
RetrieveStartRoundedUp(T) == RoundDown(T.vllmHit + Chunk - 1, Chunk)

RetrieveStart(T) == RoundDown(T.vllmHit, Chunk)

\* Mutant: one token more than the load needs.
RetrieveOpStrict(T) ==
    IF NeedsRetrieve(T) /\ \A g \in Group : T.blocks[g] * TokensPerBlock[g] > T.lmcacheHit
    THEN [start |-> RetrieveStart(T), end |-> T.lmcacheHit,
          skip |-> T.vllmHit - RetrieveStart(T)]
    ELSE NoOp

\* GetRetrieveMetadata: no operation unless every group has blocks for all of it.
RetrieveOp(T) ==
    IF NeedsRetrieve(T) /\ \A g \in Group : T.blocks[g] * TokensPerBlock[g] >= T.lmcacheHit
    THEN [start |-> RetrieveStart(T), end |-> T.lmcacheHit,
          skip |-> T.vllmHit - RetrieveStart(T)]
    ELSE NoOp

-----------------------------------------------------------------------------
Init ==
    /\ status = [r \in Request |-> "new"]
    /\ numTokens = [r \in Request |-> 0]
    /\ computed = [r \in Request |-> 0]
    /\ scheduled = [r \in Request |-> 0]
    /\ listed = [r \in Request |-> "none"]
    /\ vblocks = [r \in Request |-> NoBlocks]
    /\ local = [r \in Request |-> 0]
    /\ tracker = [r \in Request |-> NoTracker]
    /\ lookup = [r \in Request |-> "none"]
    /\ hit = [r \in Request |-> 0]
    /\ locked = [r \in Request |-> 0]
    /\ freed = [r \in Request |-> 0]
    /\ load = [r \in Request |-> NoOp]
    /\ store = [r \in Request |-> NoOp]
    /\ saved = [r \in Request |-> 0]
    /\ spoiled = {}
    /\ failures = 0 /\ preemptions = 0

Arrive(r) ==
    \E n \in 1..MaxTokens :
        /\ status[r] = "new"
        /\ status' = [status EXCEPT ![r] = "waiting"]
        /\ numTokens' = [numTokens EXCEPT ![r] = n]
        /\ UNCHANGED <<computed, scheduled, listed, vblocks, local, tracker,
                       lookupVars, opVars, failures, preemptions>>

\* get_num_new_matched_tokens asks the server and has no answer yet: vLLM will
\* ask again in a later step.
SubmitLookup(r) ==
    /\ status[r] = "waiting" /\ lookup[r] = "none"
    /\ lookup' = [lookup EXCEPT ![r] = "pending"]
    /\ tracker' = [tracker EXCEPT ![r] = IF @ = NoTracker THEN NewTracker ELSE @]
    /\ UNCHANGED <<vllmVars, hit, locked, freed, opVars, failures, preemptions>>

\* The server found the first n tokens' chunks and locked them.
LookupAnswers(r) ==
    \E n \in 0..numTokens[r] :
        /\ lookup[r] = "pending" /\ n % Chunk = 0
        /\ lookup' = [lookup EXCEPT ![r] = "answered"]
        /\ hit' = [hit EXCEPT ![r] = n]
        /\ locked' = [locked EXCEPT ![r] = n]
        /\ freed' = [freed EXCEPT ![r] = 0]
        /\ load' = [load EXCEPT ![r] = NoOp]
        /\ UNCHANGED <<vllmVars, tracker, store, saved, spoiled, failures, preemptions>>

\* get_num_new_matched_tokens, with vLLM's own hit of n tokens and an answer.
\* A hit counts as stored, on top of what the tracker has.
Matched(r) ==
    \E n \in 0..(numTokens[r] - 1) :
        /\ status[r] = "waiting" /\ lookup[r] = "answered"
        /\ status' = [status EXCEPT ![r] = "matched"]
        /\ local' = [local EXCEPT ![r] = n]
        /\ IF hit[r] = 0 THEN UNCHANGED tracker
           ELSE tracker' = [tracker EXCEPT ![r].stored = @ + hit[r],
                                           ![r].vllmHit = RoundDown(n, HitAlignment),
                                           ![r].lmcacheHit = hit[r]]
        /\ saved' = [saved EXCEPT ![r] = Larger(@, hit[r])]
        /\ UNCHANGED <<numTokens, computed, scheduled, listed, vblocks, lookupVars,
                       load, store, spoiled, failures, preemptions>>

\* The same for a preempted request: a tracker that is not fresh is replaced,
\* and nothing is loaded.
MatchedPreempted(r) ==
    \E n \in 0..(numTokens[r] - 1) :
        /\ status[r] = "preempted"
        /\ status' = [status EXCEPT ![r] = "rematched"]
        /\ local' = [local EXCEPT ![r] = n]
        /\ tracker' = [tracker EXCEPT ![r] =
                          IF @.state = "PREFETCHING" THEN @ ELSE NewTracker]
        /\ UNCHANGED <<numTokens, computed, scheduled, listed, vblocks, lookupVars,
                       opVars, failures, preemptions>>

\* vLLM has no blocks for the request and tries again in a later step.
AllocationFails(r) ==
    /\ status[r] \in {"matched", "rematched"} /\ failures < MaxFailures
    /\ status' = [status EXCEPT ![r] = IF @ = "matched" THEN "waiting" ELSE "preempted"]
    /\ failures' = failures + 1
    /\ UNCHANGED <<numTokens, computed, scheduled, listed, vblocks, local, tracker,
                   lookupVars, opVars, preemptions>>

\* The tokens vLLM was told it can load beyond its own hit.
External(r) ==
    IF status[r] = "matched" /\ hit[r] > local[r] THEN hit[r] - local[r] ELSE 0

\* Mutant: all locks go when vLLM has any hit of its own.
LocksToFreeAll(T) ==
    IF NeedsRetrieve(T) /\ T.vllmHit = 0 THEN 0 ELSE T.lmcacheHit

\* The tokens update_state_after_alloc frees the lookup locks of, from 0.
LocksToFree(T) == IF NeedsRetrieve(T) THEN T.vllmHit ELSE T.lmcacheHit

\* Mutant: the blocks of a second call are appended to those of the first.
GrownAppends(T, given) ==
    [T EXCEPT !.blocks = [g \in Group |-> @[g] + given[g]]]

\* Only the blocks beyond those already tracked are appended.
Grown(T, given) == [T EXCEPT !.blocks = [g \in Group |-> Larger(@[g], given[g])]]

\* update_state_after_alloc: the first call after the lookup decides about the
\* load, drops the lookup's result and frees the locks no load will need.
UpdateStateAfterAlloc(r, given) ==
    LET T == Grown(tracker[r], given) IN
    /\ IF T.state = "PREFETCHING"
       THEN /\ tracker' = [tracker EXCEPT ![r] =
                  [T EXCEPT !.state = IF NeedsRetrieve(T) THEN "WAITING_FOR_LOAD"
                                                          ELSE "READY"]]
            /\ lookup' = [lookup EXCEPT ![r] = "none"]
            /\ freed' = [freed EXCEPT ![r] = IF T.lmcacheHit > 0 THEN LocksToFree(T) ELSE @]
       ELSE /\ tracker' = [tracker EXCEPT ![r] = T]
            /\ UNCHANGED <<lookup, freed>>
    /\ vblocks' = [vblocks EXCEPT ![r] = given]

\* Blocks for a load: the request waits, outside the steps, until it is done.
AllocateForLoad(r) ==
    /\ status[r] = "matched" /\ External(r) > 0
    /\ UpdateStateAfterAlloc(r, BlocksFor(local[r] + External(r)))
    /\ status' = [status EXCEPT ![r] = "loading"]
    /\ computed' = [computed EXCEPT ![r] = local[r]]
    /\ UNCHANGED <<numTokens, scheduled, listed, local, hit, locked, opVars,
                   failures, preemptions>>

\* Blocks for the next m tokens of a request that has nothing to load.
AllocateNew(r) ==
    \E m \in 1..(numTokens[r] - local[r]) :
        /\ status[r] \in {"matched", "rematched"} /\ External(r) = 0
        /\ UpdateStateAfterAlloc(r, BlocksFor(local[r] + m))
        /\ status' = [status EXCEPT ![r] = "running"]
        /\ computed' = [computed EXCEPT ![r] = local[r]]
        /\ scheduled' = [scheduled EXCEPT ![r] = m]
        /\ listed' = [listed EXCEPT ![r] = IF status[r] = "matched" THEN "new"
                                                                    ELSE "resumed"]
        /\ UNCHANGED <<numTokens, local, hit, locked, opVars, failures, preemptions>>

\* The worker reports the load finished; the last token is computed in any case.
LoadFinished(r) ==
    /\ status[r] = "loading" /\ load[r] # NoOp
    /\ status' = [status EXCEPT ![r] = "loaded"]
    /\ computed' = [computed EXCEPT ![r] =
                       IF load[r].end = numTokens[r] THEN load[r].end - 1 ELSE load[r].end]
    /\ UNCHANGED <<numTokens, scheduled, listed, vblocks, local, tracker, lookupVars,
                   opVars, failures, preemptions>>

\* The worker reports blocks with load errors: vLLM keeps the n tokens before
\* them and computes the rest, or starts over when there are none.
LoadFailed(r) ==
    \E n \in 0..(load[r].end - 1) :
        /\ status[r] = "loading" /\ load[r] # NoOp
        /\ status' = [status EXCEPT ![r] = IF n = 0 THEN "waiting" ELSE "loaded"]
        /\ computed' = [computed EXCEPT ![r] = n]
        /\ vblocks' = [vblocks EXCEPT ![r] = IF n = 0 THEN NoBlocks ELSE @]
        /\ spoiled' = spoiled \cup {r}
        /\ UNCHANGED <<numTokens, scheduled, listed, local, tracker, lookupVars,
                       load, store, saved, failures, preemptions>>

\* The second allocation of a request that has loaded.
AllocateLoaded(r) ==
    \E m \in 1..(numTokens[r] - computed[r]) :
        /\ status[r] = "loaded"
        /\ UpdateStateAfterAlloc(r, BlocksFor(computed[r] + m))
        /\ status' = [status EXCEPT ![r] = "running"]
        /\ scheduled' = [scheduled EXCEPT ![r] = m]
        /\ listed' = [listed EXCEPT ![r] = "new"]
        /\ UNCHANGED <<numTokens, computed, local, hit, locked, opVars, failures,
                       preemptions>>

\* A running request gets its next m tokens.
ScheduleRunning(r) ==
    \E m \in 1..(numTokens[r] - computed[r]) :
        /\ status[r] = "running" /\ listed[r] = "none"
        /\ scheduled' = [scheduled EXCEPT ![r] = m]
        /\ listed' = [listed EXCEPT ![r] = "cached"]
        /\ UNCHANGED <<status, numTokens, computed, vblocks, local, tracker,
                       lookupVars, opVars, failures, preemptions>>

-----------------------------------------------------------------------------
(* build_connector_meta, which ends the scheduler's step.                  *)

\* vLLM's blocks of r once the step is put together.
BlocksOfStep(r) ==
    IF listed[r] = "cached"
    THEN [g \in Group |-> Larger(vblocks[r][g], BlocksFor(computed[r] + scheduled[r])[g])]
    ELSE vblocks[r]

\* The new blocks of a request that goes on; a resumed one has had its own.
AppendNewBlocks(r, T) ==
    [T EXCEPT !.blocks = [g \in Group |-> @[g] + (BlocksOfStep(r)[g] - vblocks[r][g])]]

\* The tracker of r as GetStoreMetadata sees it.
InStep(r) ==
    LET T == IF tracker[r].state = "WAITING_FOR_LOAD"
             THEN [tracker[r] EXCEPT !.state = "READY"] ELSE tracker[r]
    IN IF listed[r] = "none" THEN T
       ELSE [AppendNewBlocks(r, T) EXCEPT !.scheduled = @ + scheduled[r]]

StoreOp(r) ==
    IF listed[r] = "none" \/ StoreEnd(InStep(r), numTokens[r]) = InStep(r).stored
    THEN NoOp
    ELSE [start |-> InStep(r).stored, end |-> StoreEnd(InStep(r), numTokens[r]), skip |-> 0]

\* Retrieves for the requests that wait for one, stores for those that are
\* scheduled.  The step then runs: the scheduled tokens are computed.
BuildConnectorMeta ==
    /\ \E r \in Request : listed[r] # "none" \/ tracker[r].state = "WAITING_FOR_LOAD"
    /\ tracker' = [r \in Request |->
          IF StoreOp(r) = NoOp THEN InStep(r) ELSE [InStep(r) EXCEPT !.stored = StoreOp(r).end]]
    /\ load' = [r \in Request |-> IF tracker[r].state = "WAITING_FOR_LOAD"
                                  THEN RetrieveOp(tracker[r]) ELSE load[r]]
    /\ store' = [r \in Request |-> StoreOp(r)]
    /\ saved' = [r \in Request |-> IF StoreOp(r).start <= saved[r]
                                   THEN Larger(saved[r], StoreOp(r).end) ELSE saved[r]]
    /\ computed' = [r \in Request |-> computed[r] + scheduled[r]]
    /\ vblocks' = [r \in Request |-> BlocksOfStep(r)]
    /\ scheduled' = [r \in Request |-> 0]
    /\ listed' = [r \in Request |-> "none"]
    /\ UNCHANGED <<status, numTokens, local, lookupVars, spoiled, failures, preemptions>>

-----------------------------------------------------------------------------
(* Between the steps.                                                      *)

Generate(r) ==
    /\ status[r] = "running" /\ listed[r] = "none"
    /\ computed[r] = numTokens[r] /\ numTokens[r] < MaxTokens
    /\ numTokens' = [numTokens EXCEPT ![r] = @ + 1]
    /\ UNCHANGED <<status, computed, scheduled, listed, vblocks, local, tracker,
                   lookupVars, opVars, failures, preemptions>>

\* vLLM takes the request's blocks away.
Preempt(r) ==
    /\ status[r] = "running" /\ listed[r] = "none" /\ preemptions < MaxPreemptions
    /\ status' = [status EXCEPT ![r] = "preempted"]
    /\ computed' = [computed EXCEPT ![r] = 0]
    /\ vblocks' = [vblocks EXCEPT ![r] = NoBlocks]
    /\ store' = [store EXCEPT ![r] = NoOp]
    /\ preemptions' = preemptions + 1
    /\ UNCHANGED <<numTokens, scheduled, listed, local, tracker, lookupVars, load,
                   saved, spoiled, failures>>

\* request_finished, for a request that is done or aborted: the tracker goes.
RequestFinished(r) ==
    /\ status[r] \notin {"new", "matched", "rematched", "finished"} /\ listed[r] = "none"
    /\ status' = [status EXCEPT ![r] = "finished"]
    /\ tracker' = [tracker EXCEPT ![r] = NoTracker]
    /\ UNCHANGED <<numTokens, computed, scheduled, listed, vblocks, local, lookupVars,
                   opVars, failures, preemptions>>

Next ==
    \/ \E r \in Request :
          \/ Arrive(r) \/ SubmitLookup(r) \/ LookupAnswers(r)
          \/ Matched(r) \/ MatchedPreempted(r) \/ AllocationFails(r)
          \/ AllocateForLoad(r) \/ AllocateNew(r) \/ AllocateLoaded(r)
          \/ LoadFinished(r) \/ LoadFailed(r) \/ ScheduleRunning(r)
          \/ Generate(r) \/ Preempt(r) \/ RequestFinished(r)
    \/ BuildConnectorMeta

Spec == Init /\ [][Next]_vars

-----------------------------------------------------------------------------
(* What the connector promises.                                            *)

Op == [start : Nat, end : Nat, skip : Nat]

Tracker ==
    [state : {"none", "PREFETCHING", "WAITING_FOR_LOAD", "READY"},
     scheduled : Nat, stored : Nat, vllmHit : Nat, lmcacheHit : Nat,
     blocks : [Group -> Nat]]

\* The variables stay within their types: no skip and no block count is negative.
TypeOK ==
    /\ status \in [Request -> Status]
    /\ numTokens \in [Request -> Nat]
    /\ computed \in [Request -> Nat]
    /\ scheduled \in [Request -> Nat]
    /\ listed \in [Request -> {"none", "new", "cached", "resumed"}]
    /\ vblocks \in [Request -> [Group -> Nat]]
    /\ local \in [Request -> Nat]
    /\ tracker \in [Request -> Tracker]
    /\ lookup \in [Request -> {"none", "pending", "answered"}]
    /\ hit \in [Request -> Nat]
    /\ locked \in [Request -> Nat] /\ freed \in [Request -> Nat]
    /\ load \in [Request -> Op] /\ store \in [Request -> Op]
    /\ saved \in [Request -> Nat] /\ spoiled \subseteq Request
    /\ failures \in Nat /\ preemptions \in Nat

\* A load that fails leaves the tracker counting on it (LoadFailed changes
\* nothing of it), so what follows speaks of the requests whose loads succeeded.
Sound == Request \ spoiled

\* "avoid saving tokens whose KV has not been computed yet" (the tracker): once
\* the step has run, the tokens of its store operation are computed, and the
\* blocks of every group reach that far.
StoresOnlyComputed ==
    \A r \in Sound : store[r] # NoOp =>
        /\ store[r].end <= computed[r]
        /\ \A g \in Group : store[r].end <= vblocks[r][g] * TokensPerBlock[g]

\* "num_stored_tokens should always be a multiple of lmcache_tokens_per_chunk"
\* (GetStoreMetadata): every operation covers whole chunks, whatever failed.
ChunkAligned ==
    \A r \in Request :
        /\ tracker[r].stored % Chunk = 0 /\ tracker[r].lmcacheHit % Chunk = 0
        /\ load[r].start % Chunk = 0 /\ load[r].end % Chunk = 0

\* The tracker indexes exactly the blocks vLLM has given the request, in every
\* group: none twice, none of before a preemption.
BlocksTracked ==
    \A r \in Sound :
        status[r] = "running" /\ listed[r] # "cached" => tracker[r].blocks = vblocks[r]

\* Every chunk the lookup locked is given back once, by free_lookup_locks or by
\* the retrieve, which leaves out what free_lookup_locks has freed.
LocksGivenBackOnce ==
    \A r \in Sound : tracker[r].state = "READY" =>
        IF load[r] = NoOp THEN freed[r] = locked[r]
        ELSE /\ load[r].start = RoundDown(freed[r], Chunk)
             /\ load[r].end = locked[r]

\* Rounding, overlapping hits and allocations that are tried again suppress no
\* retrieve: a request that vLLM holds back, and no load of which has failed, has
\* its retrieve coming or under way, and it covers what was promised.  After a
\* load that failed at its first block this does not hold: the tracker stays
\* READY, update_state_after_alloc asks for no other load, and vLLM waits for ever.
LoadsAreSent ==
    \A r \in Sound : status[r] = "loading" =>
        \/ tracker[r].state = "WAITING_FOR_LOAD" /\ RetrieveOp(tracker[r]).end = hit[r]
        \/ load[r].end = hit[r]

\* The parts of the inductive invariant.  These hold of every request ...
Bookkeeping(r) ==
    /\ status[r] = "new" <=> numTokens[r] = 0
    /\ status[r] = "finished" => tracker[r] = NoTracker
    /\ hit[r] % Chunk = 0
    /\ listed[r] # "none" => status[r] = "running"
    /\ listed[r] = "none" => scheduled[r] = 0
    /\ store[r] # NoOp => status[r] \in {"running", "finished"}

\* ... and these of those in Sound.  Until its first allocation a request has
\* loaded and stored nothing, and all locks of its lookup are held.
BeforeAllocation(r) ==
    status[r] \in {"new", "waiting", "matched"} =>
        /\ load[r] = NoOp /\ freed[r] = 0 /\ locked[r] = hit[r] /\ hit[r] <= numTokens[r]
        /\ tracker[r].scheduled = 0 /\ tracker[r].blocks = NoBlocks
        /\ tracker[r].lmcacheHit \in {0, hit[r]}
        /\ tracker[r].lmcacheHit = 0 => tracker[r].vllmHit = 0
        /\ lookup[r] = "none" => tracker[r] = NoTracker
        /\ lookup[r] # "none" => tracker[r].state = "PREFETCHING"
        /\ lookup[r] = "pending" => tracker[r].lmcacheHit = 0
        /\ status[r] = "new" => lookup[r] = "none"
        /\ status[r] = "matched" =>
              /\ lookup[r] = "answered" /\ local[r] < numTokens[r]
              /\ tracker[r].lmcacheHit = hit[r]
              /\ hit[r] > 0 => tracker[r].vllmHit = RoundDown(local[r], HitAlignment)

\* While it loads, the blocks are there for all that was promised, the locks
\* of vLLM's own part are free, and the retrieve gives back the others.
WhileLoading(r) ==
    status[r] \in {"loading", "loaded"} =>
        /\ lookup[r] = "none" /\ freed[r] = tracker[r].vllmHit /\ locked[r] = hit[r]
        /\ tracker[r].vllmHit < hit[r] /\ hit[r] <= numTokens[r]
        /\ tracker[r].lmcacheHit = hit[r] /\ tracker[r].scheduled = 0
        /\ tracker[r].blocks = BlocksFor(hit[r])
        /\ \/ status[r] = "loading" /\ tracker[r].state = "WAITING_FOR_LOAD"
              /\ load[r] = NoOp
           \/ tracker[r].state = "READY" /\ load[r].end = hit[r]
              /\ load[r].start = RetrieveStart(tracker[r])
        /\ status[r] = "loaded" =>
              computed[r] = hit[r] \/ (hit[r] = numTokens[r] /\ computed[r] = hit[r] - 1)

\* The last token of a full hit is computed again, so the tracker may be one
\* token ahead; then the steps reach the end of the request.
AtMostOneAhead(r) ==
    \/ ComputedTokens(tracker[r]) <= computed[r]
    \/ /\ ComputedTokens(tracker[r]) = computed[r] + 1
       /\ IF listed[r] = "none" THEN computed[r] + 1 >= numTokens[r]
          ELSE computed[r] + scheduled[r] = numTokens[r]

WhileRunning(r) ==
    status[r] = "running" =>
        /\ lookup[r] = "none" /\ tracker[r].state = "READY"
        /\ tracker[r].blocks = vblocks[r]
        /\ computed[r] + scheduled[r] <= numTokens[r]
        /\ AtMostOneAhead(r)

WhilePreempted(r) ==
    status[r] \in {"preempted", "rematched"} =>
        /\ lookup[r] = "none" /\ tracker[r].state \in {"READY", "PREFETCHING"}
        /\ status[r] = "rematched" =>
              tracker[r].state = "PREFETCHING" /\ local[r] < numTokens[r]
        /\ tracker[r].state = "PREFETCHING" =>
              /\ tracker[r].scheduled = 0 /\ tracker[r].blocks = NoBlocks
              /\ tracker[r].vllmHit = 0 /\ tracker[r].lmcacheHit = 0

\* Once the allocation is made, the locks are given back.
LocksSettled(r) ==
    status[r] \in {"running", "preempted", "rematched"} =>
        IF load[r] = NoOp THEN freed[r] = locked[r]
        ELSE /\ load[r].start = RoundDown(freed[r], Chunk)
             /\ load[r].end = locked[r]

\* The inductive invariant behind the properties above.
IInv ==
    /\ TypeOK /\ ChunkAligned /\ StoresOnlyComputed
    /\ \A r \in Request : Bookkeeping(r)
    /\ \A r \in Sound :
          /\ BeforeAllocation(r) /\ WhileLoading(r) /\ WhileRunning(r)
          /\ WhilePreempted(r) /\ LocksSettled(r)

\* What a request stores continues what LMCache has of it: a chunk behind a
\* missing one could never be found by a prefix lookup.
NoStoreGap == \A r \in Request : store[r] # NoOp => store[r].start <= saved[r]
=============================================================================
