------------------------- MODULE MPConnectorProofs -------------------------
(***************************************************************************)
(* Proofs about MPConnector for every chunk size, every set of groups and  *)
(* block sizes that divide a chunk, and requests of any length.            *)
(***************************************************************************)
EXTENDS MPConnector, WellFoundedInduction, TLAPS

-----------------------------------------------------------------------------
(* Arithmetic.                                                             *)

\* A set of naturals that is not empty has a least element.
LEMMA LeastNatural ==
  ASSUME NEW T \in SUBSET Nat, T # {}
  PROVE  \E x \in T : \A y \in T : x <= y
  <1> DEFINE R == OpToRel(<, Nat)
  <1>1. IsWellFoundedOn(R, Nat)
    BY NatLessThanWellFounded
  <1>2. \A x, y \in Nat : <<y, x>> \in R <=> y < x
    BY DEF OpToRel
  <1> HIDE DEF R
  <1>3. PICK x \in T : \A y \in T : ~ (<<y, x>> \in R)
    BY <1>1, WFMin
  <1>4. ASSUME NEW y \in T PROVE x <= y
    <2>1. ~(y < x)
      BY <1>2, <1>3
    <2>2. x \in Nat /\ y \in Nat
      OBVIOUS
    <2> QED BY <2>1, <2>2
  <1> QED BY <1>4

\* A product is a multiple.
LEMMA Multiple ==
  ASSUME NEW k \in Nat, NEW c \in Nat \ {0}
  PROVE  k * c \in Nat /\ (k * c) % c = 0
  OBVIOUS

\* A multiple is a product.
LEMMA Quotient ==
  ASSUME NEW n \in Nat, NEW c \in Nat \ {0}, n % c = 0
  PROVE  n \div c \in Nat /\ n = (n \div c) * c
  OBVIOUS

\* Sums of multiples are multiples.
LEMMA SumOfMultiples ==
  ASSUME NEW m \in Nat, NEW n \in Nat, NEW c \in Nat \ {0}, m % c = 0, n % c = 0
  PROVE  (m + n) % c = 0
  <1>1. PICK i \in Nat : m = i * c
    BY Quotient
  <1>2. PICK j \in Nat : n = j * c
    BY Quotient
  <1>3. m + n = (i + j) * c
    BY <1>1, <1>2
  <1>4. i + j \in Nat
    OBVIOUS
  <1> QED BY <1>3, <1>4, Multiple

\* A product grows with its factor.
LEMMA TimesMonotonic ==
  ASSUME NEW m \in Nat, NEW n \in Nat, NEW c \in Nat, m <= n
  PROVE  m * c <= n * c
  OBVIOUS

\* Multiples of a multiple are multiples.
LEMMA MultipleOfMultiple ==
  ASSUME NEW n \in Nat, NEW b \in Nat \ {0}, NEW c \in Nat \ {0}, n % b = 0, b % c = 0
  PROVE  n % c = 0
  <1>1. PICK i \in Nat : n = i * b
    BY Quotient
  <1>2. PICK j \in Nat : b = j * c
    BY Quotient
  <1>3. n = (i * j) * c
    BY <1>1, <1>2
  <1>4. i * j \in Nat
    OBVIOUS
  <1> QED BY <1>3, <1>4, Multiple

\* Rounding down gives a multiple that is no larger.
LEMMA Rounded ==
  ASSUME NEW n \in Nat, NEW c \in Nat \ {0}
  PROVE  /\ RoundDown(n, c) \in Nat /\ RoundDown(n, c) <= n
         /\ RoundDown(n, c) % c = 0
  BY DEF RoundDown

\* A multiple that is no larger than a number is no larger than it rounded down.
LEMMA RoundedBound ==
  ASSUME NEW m \in Nat, NEW n \in Nat, NEW c \in Nat \ {0}, m % c = 0, m <= n
  PROVE  m <= RoundDown(n, c)
  <1>1. PICK i \in Nat : m = i * c
    BY Quotient
  <1>2. n \div c \in Nat /\ n < (n \div c + 1) * c
    OBVIOUS
  <1>3. i < n \div c + 1
    <2> SUFFICES ASSUME n \div c + 1 <= i PROVE FALSE
      BY <1>2
    <2>1. (n \div c + 1) * c <= i * c
      BY <1>2, TimesMonotonic
    <2> QED BY <1>1, <1>2, <2>1
  <1>4. i * c <= (n \div c) * c
    BY <1>2, <1>3, TimesMonotonic
  <1> QED BY <1>1, <1>4 DEF RoundDown

\* The difference of two multiples.
LEMMA RestOfMultiples ==
  ASSUME NEW m \in Nat, NEW n \in Nat \ {0}, NEW c \in Nat \ {0}, m % c = 0, n % c = 0
  PROVE  (m % n) % c = 0
  <1>1. PICK i \in Nat : m = i * c
    BY Quotient
  <1>2. PICK j \in Nat : n = j * c
    BY Quotient
  <1>3. PICK q \in Nat : m = q * n + (m % n)
    <2>1. m \div n \in Nat /\ m = (m \div n) * n + (m % n)
      OBVIOUS
    <2> QED BY <2>1
  <1> DEFINE p == q * j
             k == i - p
  <1>4. p \in Nat /\ k \in Int /\ m % n \in Nat
    OBVIOUS
  <1>5. (m % n) = k * c
    <2>1. q * n = p * c
      BY <1>2
    <2> HIDE DEF p
    <2>2. (m % n) = i * c - p * c
      BY <1>1, <1>3, <2>1
    <2> QED BY <1>4, <2>2
  <1> HIDE DEF k, p
  <1>6. k \in Nat
    <2> SUFFICES ASSUME k < 0 PROVE FALSE
      BY <1>4
    <2>1. k * c < 0
      BY <1>4
    <2> QED BY <1>4, <1>5, <2>1
  <1> QED BY <1>5, <1>6, Multiple

-----------------------------------------------------------------------------
(* The operators of the module.                                            *)

\* The least common multiple exists and divides a chunk.
LEMMA HitAlignmentDivides ==
  HitAlignment \in Nat \ {0} /\ Chunk % HitAlignment = 0
  <1> USE ConstantsAssumption
  <1> DEFINE Common == {n \in 1..Chunk : \A g \in Group : n % TokensPerBlock[g] = 0}
             Least(n) ==
                /\ \A g \in Group : n % TokensPerBlock[g] = 0
                /\ \A m \in 1..(n - 1) : \E g \in Group : m % TokensPerBlock[g] # 0
  <1>1. \E n \in 1..Chunk : Least(n)
    <2>1. Chunk \in Common /\ Common \in SUBSET Nat
      OBVIOUS
    <2>2. PICK n \in Common : \A m \in Common : n <= m
      BY <2>1, LeastNatural
    <2>3. ASSUME NEW m \in 1..(n - 1) PROVE \E g \in Group : m % TokensPerBlock[g] # 0
      <3>1. m \in 1..Chunk /\ ~(n <= m)
        BY <2>1, <2>2
      <3> QED BY <2>2, <3>1
    <2> QED BY <2>2, <2>3
  <1>2. HitAlignment \in 1..Chunk /\ Least(HitAlignment)
    BY <1>1 DEF HitAlignment
  <1> DEFINE rest == Chunk % HitAlignment
  <1>3. HitAlignment \in Nat \ {0} /\ rest \in 0..(HitAlignment - 1)
    BY <1>2
  <1>4. \A g \in Group : rest % TokensPerBlock[g] = 0
    <2> SUFFICES ASSUME NEW g \in Group PROVE rest % TokensPerBlock[g] = 0
      OBVIOUS
    <2>1. TokensPerBlock[g] \in Nat \ {0} /\ Chunk % TokensPerBlock[g] = 0
          /\ HitAlignment % TokensPerBlock[g] = 0
      BY <1>2
    <2> QED BY <1>3, <2>1, RestOfMultiples
  <1>5. rest = 0
    BY <1>2, <1>3, <1>4
  <1> QED BY <1>3, <1>5

\* BlocksFor(n) are enough blocks for n tokens, and no fewer than for less.
LEMMA BlocksForBounds ==
  ASSUME NEW n \in Nat
  PROVE  /\ BlocksFor(n) \in [Group -> Nat]
         /\ \A g \in Group : n <= BlocksFor(n)[g] * TokensPerBlock[g]
         /\ \A m \in Nat : n <= m => \A g \in Group : BlocksFor(n)[g] <= BlocksFor(m)[g]
  <1> USE ConstantsAssumption
  <1>1. ASSUME NEW g \in Group, NEW m \in Nat
        PROVE  /\ (m + TokensPerBlock[g] - 1) \div TokensPerBlock[g] \in Nat
               /\ m <= ((m + TokensPerBlock[g] - 1) \div TokensPerBlock[g]) * TokensPerBlock[g]
    <2> DEFINE t == TokensPerBlock[g]
    <2>1. t \in Nat \ {0} /\ m + t - 1 \in Nat
      OBVIOUS
    <2> HIDE DEF t
    <2>2. (m + t - 1) \div t \in Nat /\ m <= ((m + t - 1) \div t) * t
      BY <2>1
    <2> QED BY <2>2 DEF t
  <1>2. ASSUME NEW g \in Group, NEW m \in Nat, n <= m
        PROVE  BlocksFor(n)[g] <= BlocksFor(m)[g]
    <2> DEFINE t == TokensPerBlock[g]
               a == (n + t - 1) \div t
               b == (m + t - 1) \div t
    <2>1. t \in Nat \ {0} /\ n + t - 1 \in Nat /\ m + t - 1 \in Nat
      OBVIOUS
    <2>2. a \in Nat /\ b \in Nat /\ a * t <= n + t - 1 /\ m + t - 1 < (b + 1) * t
      <3> HIDE DEF t
      <3> QED BY <2>1
    <2>3. BlocksFor(n)[g] = a /\ BlocksFor(m)[g] = b
      BY DEF BlocksFor
    <2> HIDE DEF t, a, b
    <2>4. a * t < (b + 1) * t
      BY <1>2, <2>1, <2>2
    <2>5. ~(b + 1 <= a)
      BY <2>1, <2>2, <2>4, TimesMonotonic
    <2> QED BY <2>2, <2>3, <2>5
  <1> QED BY <1>1, <1>2 DEF BlocksFor

\* What is available is the least of the bounds on it.
LEMMA AvailableIsLeast ==
  ASSUME NEW T \in Tracker, NEW len \in Nat
  PROVE  /\ Available(T, len) \in Nat
         /\ Available(T, len) <= len /\ Available(T, len) <= ComputedTokens(T)
         /\ \A g \in Group : Available(T, len) <= T.blocks[g] * TokensPerBlock[g]
  <1>1. StoreBounds(T, len) \in SUBSET Nat /\ StoreBounds(T, len) # {}
    <2>1. ComputedTokens(T) \in Nat
      BY DEF Tracker, ComputedTokens, Larger
    <2>2. \A g \in Group : T.blocks[g] * TokensPerBlock[g] \in Nat
      BY ConstantsAssumption DEF Tracker
    <2> QED BY <2>1, <2>2 DEF StoreBounds
  <1>2. \E n \in StoreBounds(T, len) : \A m \in StoreBounds(T, len) : n <= m
    BY <1>1, LeastNatural
  <1>3. /\ Available(T, len) \in StoreBounds(T, len)
        /\ \A m \in StoreBounds(T, len) : Available(T, len) <= m
    BY <1>2 DEF Available
  <1> QED BY <1>1, <1>3 DEF StoreBounds

\* The end of a store is in whole chunks behind its start, and available.
LEMMA StoreEndBounds ==
  ASSUME NEW T \in Tracker, NEW len \in Nat, T.stored % Chunk = 0
  PROVE  /\ StoreEnd(T, len) \in Nat /\ StoreEnd(T, len) % Chunk = 0
         /\ StoreEnd(T, len) # T.stored => StoreEnd(T, len) <= Available(T, len)
  <1> DEFINE n == Available(T, len)
  <1>1. n \in Nat /\ T.stored \in Nat /\ Chunk \in Nat \ {0}
    BY AvailableIsLeast, ConstantsAssumption DEF Tracker
  <1> HIDE DEF n
  <1>2. CASE n >= T.stored + Chunk
    <2>1. n - T.stored \in Nat
      BY <1>1, <1>2
    <2>2. /\ RoundDown(n - T.stored, Chunk) \in Nat
          /\ RoundDown(n - T.stored, Chunk) <= n - T.stored
          /\ RoundDown(n - T.stored, Chunk) % Chunk = 0
      BY <1>1, <2>1, Rounded
    <2>3. StoreEnd(T, len) = T.stored + RoundDown(n - T.stored, Chunk)
      BY <1>2 DEF StoreEnd, n
    <2>4. (T.stored + RoundDown(n - T.stored, Chunk)) % Chunk = 0
      BY <1>1, <2>2, SumOfMultiples
    <2> QED BY <1>1, <2>2, <2>3, <2>4 DEF n
  <1>3. CASE ~(n >= T.stored + Chunk)
    BY <1>1, <1>3 DEF StoreEnd, n
  <1> QED BY <1>2, <1>3

-----------------------------------------------------------------------------
(* One request at a time: what the invariant says of it, and the steps     *)
(* that leave it alone.                                                    *)

\* What IInv says of every request ...
OfAny(r) ==
    /\ Bookkeeping(r)
    /\ tracker[r].stored % Chunk = 0 /\ tracker[r].lmcacheHit % Chunk = 0
    /\ load[r].start % Chunk = 0 /\ load[r].end % Chunk = 0

\* ... and of those no load of which has failed.
OfSound(r) ==
    /\ BeforeAllocation(r) /\ WhileLoading(r) /\ WhileRunning(r)
    /\ WhilePreempted(r) /\ LocksSettled(r)
    /\ store[r] # NoOp =>
          /\ store[r].end <= computed[r]
          /\ \A g \in Group : store[r].end <= vblocks[r][g] * TokensPerBlock[g]

OfRequest(r) == OfAny(r) /\ (r \notin spoiled => OfSound(r))

Same(r) ==
    /\ status'[r] = status[r] /\ numTokens'[r] = numTokens[r]
    /\ computed'[r] = computed[r] /\ scheduled'[r] = scheduled[r]
    /\ listed'[r] = listed[r] /\ vblocks'[r] = vblocks[r] /\ local'[r] = local[r]
    /\ tracker'[r] = tracker[r] /\ lookup'[r] = lookup[r] /\ hit'[r] = hit[r]
    /\ locked'[r] = locked[r] /\ freed'[r] = freed[r]
    /\ load'[r] = load[r] /\ store'[r] = store[r]
    /\ r \in spoiled' <=> r \in spoiled

StepOf(r) ==
    \/ Arrive(r) \/ SubmitLookup(r) \/ LookupAnswers(r)
    \/ Matched(r) \/ MatchedPreempted(r) \/ AllocationFails(r)
    \/ AllocateForLoad(r) \/ AllocateNew(r) \/ AllocateLoaded(r)
    \/ LoadFinished(r) \/ LoadFailed(r) \/ ScheduleRunning(r)
    \/ Generate(r) \/ Preempt(r) \/ RequestFinished(r)

\* The invariant is one statement about each request.
LEMMA ByRequest == IInv <=> TypeOK /\ \A r \in Request : OfRequest(r)
  BY DEF IInv, ChunkAligned, StoresOnlyComputed, Sound, OfRequest, OfAny, OfSound

\* What holds of a request still does after a step that leaves it alone.
LEMMA Frame ==
  ASSUME NEW r \in Request, Same(r), OfRequest(r)
  PROVE  OfRequest(r)'
  <1>1. Bookkeeping(r) => Bookkeeping(r)'
    BY DEF Same, Bookkeeping
  <1>2. OfAny(r)'
    BY <1>1 DEF Same, OfRequest, OfAny
  <1>3. BeforeAllocation(r) => BeforeAllocation(r)'
    BY DEF Same, BeforeAllocation
  <1>4. WhileLoading(r) => WhileLoading(r)'
    BY DEF Same, WhileLoading
  <1>5. WhileRunning(r) => WhileRunning(r)'
    BY DEF Same, WhileRunning, AtMostOneAhead
  <1>6. WhilePreempted(r) => WhilePreempted(r)'
    BY DEF Same, WhilePreempted
  <1>7. LocksSettled(r) => LocksSettled(r)'
    BY DEF Same, LocksSettled
  <1> QED BY <1>2, <1>3, <1>4, <1>5, <1>6, <1>7 DEF Same, OfRequest, OfSound

\* A step of one request leaves the others alone.
LEMMA Others ==
  ASSUME TypeOK, NEW r \in Request, StepOf(r), NEW u \in Request, u # r
  PROVE  Same(u)
  <1> USE DEF Same, vllmVars, lookupVars, opVars
  <1>1. CASE Arrive(r)
    BY <1>1 DEF TypeOK, Arrive
  <1>2. CASE SubmitLookup(r)
    BY <1>2 DEF TypeOK, SubmitLookup
  <1>3. CASE LookupAnswers(r)
    BY <1>3 DEF TypeOK, LookupAnswers
  <1>4. CASE Matched(r)
    BY <1>4 DEF TypeOK, Matched
  <1>5. CASE MatchedPreempted(r)
    BY <1>5 DEF TypeOK, MatchedPreempted
  <1>6. CASE AllocationFails(r)
    BY <1>6 DEF TypeOK, AllocationFails
  <1>7. CASE AllocateForLoad(r)
    BY <1>7 DEF TypeOK, AllocateForLoad, UpdateStateAfterAlloc
  <1>8. CASE AllocateNew(r)
    BY <1>8 DEF TypeOK, AllocateNew, UpdateStateAfterAlloc
  <1>9. CASE AllocateLoaded(r)
    BY <1>9 DEF TypeOK, AllocateLoaded, UpdateStateAfterAlloc
  <1>10. CASE LoadFinished(r)
    BY <1>10 DEF TypeOK, LoadFinished
  <1>11. CASE LoadFailed(r)
    BY <1>11 DEF TypeOK, LoadFailed
  <1>12. CASE ScheduleRunning(r)
    BY <1>12 DEF TypeOK, ScheduleRunning
  <1>13. CASE Generate(r)
    BY <1>13 DEF TypeOK, Generate
  <1>14. CASE Preempt(r)
    BY <1>14 DEF TypeOK, Preempt
  <1>15. CASE RequestFinished(r)
    BY <1>15 DEF TypeOK, RequestFinished
  <1> QED BY <1>1, <1>2, <1>3, <1>4, <1>5, <1>6, <1>7, <1>8, <1>9, <1>10, <1>11,
             <1>12, <1>13, <1>14, <1>15 DEF StepOf
-----------------------------------------------------------------------------
(* The types.                                                              *)

\* The constants of the module are of their types.
LEMMA NewTrackerTypes == NewTracker \in Tracker /\ NoTracker \in Tracker /\ NoOp \in Op
  BY DEF NewTracker, NoTracker, NoOp, NoBlocks, Tracker, Op

\* update_state_after_alloc changes only the blocks of a tracker.
LEMMA GrownTypes ==
  ASSUME NEW T \in Tracker, NEW given \in [Group -> Nat]
  PROVE  /\ Grown(T, given) \in Tracker
         /\ Grown(T, given).state = T.state
         /\ Grown(T, given).scheduled = T.scheduled /\ Grown(T, given).stored = T.stored
         /\ Grown(T, given).vllmHit = T.vllmHit
         /\ Grown(T, given).lmcacheHit = T.lmcacheHit
         /\ Grown(T, given).blocks = [g \in Group |-> Larger(T.blocks[g], given[g])]
  <1>1. [g \in Group |-> Larger(T.blocks[g], given[g])] \in [Group -> Nat]
    BY DEF Tracker, Larger
  <1> QED BY <1>1 DEF Tracker, Grown

\* What the first call after a lookup makes of the tracker, and any other.
LEMMA Allocated ==
  ASSUME TypeOK, NEW r \in Request, NEW given \in [Group -> Nat],
         UpdateStateAfterAlloc(r, given)
  PROVE  /\ tracker' \in [Request -> Tracker]
         /\ lookup' \in [Request -> {"none", "pending", "answered"}]
         /\ freed' \in [Request -> Nat]
         /\ vblocks' \in [Request -> [Group -> Nat]] /\ vblocks'[r] = given
         /\ tracker'[r].scheduled = tracker[r].scheduled
         /\ tracker'[r].stored = tracker[r].stored
         /\ tracker'[r].vllmHit = tracker[r].vllmHit
         /\ tracker'[r].lmcacheHit = tracker[r].lmcacheHit
         /\ tracker'[r].blocks = [g \in Group |-> Larger(tracker[r].blocks[g], given[g])]
         /\ tracker[r].state = "PREFETCHING" =>
               /\ lookup'[r] = "none"
               /\ tracker'[r].state = IF tracker[r].lmcacheHit > tracker[r].vllmHit
                                      THEN "WAITING_FOR_LOAD" ELSE "READY"
               /\ freed'[r] = IF tracker[r].lmcacheHit = 0 THEN freed[r]
                              ELSE IF tracker[r].lmcacheHit > tracker[r].vllmHit
                                   THEN tracker[r].vllmHit ELSE tracker[r].lmcacheHit
         /\ tracker[r].state # "PREFETCHING" =>
               /\ lookup'[r] = lookup[r] /\ freed'[r] = freed[r]
               /\ tracker'[r].state = tracker[r].state
  <1> DEFINE T == Grown(tracker[r], given)
             S == [T EXCEPT !.state = IF NeedsRetrieve(T) THEN "WAITING_FOR_LOAD" ELSE "READY"]
  <1>1. tracker[r] \in Tracker
    BY DEF TypeOK
  <1>2. /\ T \in Tracker /\ T.state = tracker[r].state
        /\ T.scheduled = tracker[r].scheduled /\ T.stored = tracker[r].stored
        /\ T.vllmHit = tracker[r].vllmHit /\ T.lmcacheHit = tracker[r].lmcacheHit
        /\ T.blocks = [g \in Group |-> Larger(tracker[r].blocks[g], given[g])]
    BY <1>1, GrownTypes
  <1>3. tracker'[r] = IF T.state = "PREFETCHING" THEN S ELSE T
    BY DEF TypeOK, UpdateStateAfterAlloc
  <1>4. /\ T.state = "PREFETCHING" => lookup'[r] = "none"
        /\ T.state # "PREFETCHING" => lookup'[r] = lookup[r] /\ freed'[r] = freed[r]
        /\ T.state = "PREFETCHING" =>
              freed'[r] = IF T.lmcacheHit > 0 THEN LocksToFree(T) ELSE freed[r]
        /\ vblocks' \in [Request -> [Group -> Nat]] /\ vblocks'[r] = given
        /\ lookup' \in [Request -> {"none", "pending", "answered"}]
    BY DEF TypeOK, UpdateStateAfterAlloc
  <1>5. tracker' = [tracker EXCEPT ![r] = IF T.state = "PREFETCHING" THEN S ELSE T]
    BY DEF UpdateStateAfterAlloc
  <1>6. freed' = [freed EXCEPT ![r] =
                    IF T.state = "PREFETCHING" /\ T.lmcacheHit > 0 THEN LocksToFree(T) ELSE @]
    BY DEF TypeOK, UpdateStateAfterAlloc
  <1> HIDE DEF T
  <1>7. S \in Tracker /\ S.scheduled = T.scheduled /\ S.stored = T.stored
        /\ S.vllmHit = T.vllmHit /\ S.lmcacheHit = T.lmcacheHit /\ S.blocks = T.blocks
        /\ S.state = IF NeedsRetrieve(T) THEN "WAITING_FOR_LOAD" ELSE "READY"
    BY <1>2 DEF Tracker
  <1> HIDE DEF S
  <1>8. LocksToFree(T) \in Nat
    BY <1>2 DEF LocksToFree, Tracker
  <1>9. tracker' \in [Request -> Tracker] /\ freed' \in [Request -> Nat]
    BY <1>2, <1>5, <1>6, <1>7, <1>8 DEF TypeOK
  <1>10. T.lmcacheHit \in Nat /\ T.vllmHit \in Nat
    BY <1>2 DEF Tracker
  <1> QED BY <1>2, <1>3, <1>4, <1>7, <1>9, <1>10 DEF NeedsRetrieve, LocksToFree

\* What a hit makes of the tracker.
LEMMA WithHit ==
  ASSUME TypeOK, NEW r \in Request, NEW n \in Nat, hit[r] # 0,
         tracker' = [tracker EXCEPT ![r].stored = @ + hit[r],
                                    ![r].vllmHit = RoundDown(n, HitAlignment),
                                    ![r].lmcacheHit = hit[r]]
  PROVE  /\ tracker' \in [Request -> Tracker]
         /\ tracker'[r].state = tracker[r].state
         /\ tracker'[r].scheduled = tracker[r].scheduled
         /\ tracker'[r].stored = tracker[r].stored + hit[r]
         /\ tracker'[r].vllmHit = RoundDown(n, HitAlignment)
         /\ tracker'[r].lmcacheHit = hit[r]
         /\ tracker'[r].blocks = tracker[r].blocks
  <1> DEFINE a == tracker[r].stored + hit[r]
             b == RoundDown(n, HitAlignment)
             T == [tracker[r] EXCEPT !.stored = a, !.vllmHit = b, !.lmcacheHit = hit[r]]
  <1>1. tracker \in [Request -> Tracker] /\ tracker[r] \in Tracker /\ hit[r] \in Nat
    BY DEF TypeOK
  <1>2. a \in Nat
    BY <1>1 DEF Tracker
  <1>3. b \in Nat
    BY HitAlignmentDivides, Rounded
  <1>4. tracker' = [tracker EXCEPT ![r] = T]
    BY <1>1 DEF TypeOK, Tracker
  <1> HIDE DEF a, b
  <1>5. /\ T \in Tracker
        /\ T.state = tracker[r].state /\ T.scheduled = tracker[r].scheduled
        /\ T.stored = a /\ T.vllmHit = b /\ T.lmcacheHit = hit[r]
        /\ T.blocks = tracker[r].blocks
    BY <1>1, <1>2, <1>3 DEF Tracker
  <1> HIDE DEF T
  <1>6. tracker' \in [Request -> Tracker] /\ tracker'[r] = T
    BY <1>1, <1>4, <1>5, Zenon
  <1> QED BY <1>5, <1>6 DEF a, b

\* The steps of a request keep the types.
LEMMA TypesOfStep ==
  ASSUME TypeOK, NEW r \in Request, OfAny(r), StepOf(r)
  PROVE  TypeOK'
  <1> USE DEF vllmVars, lookupVars, opVars
  <1>0. tracker[r] \in Tracker /\ numTokens[r] \in Nat /\ local[r] \in Nat
        /\ hit[r] \in Nat /\ computed[r] \in Nat /\ load[r] \in Op
    BY DEF TypeOK
  <1>1. CASE Arrive(r)
    BY <1>1 DEF TypeOK, Arrive, Status
  <1>2. CASE SubmitLookup(r)
    BY <1>2, NewTrackerTypes DEF TypeOK, SubmitLookup
  <1>3. CASE LookupAnswers(r)
    BY <1>0, <1>3, NewTrackerTypes DEF TypeOK, LookupAnswers
  <1>4. CASE Matched(r)
    <2>1. PICK n \in 0..(numTokens[r] - 1) :
             /\ local' = [local EXCEPT ![r] = n]
             /\ IF hit[r] = 0 THEN UNCHANGED tracker
                ELSE tracker' = [tracker EXCEPT ![r].stored = @ + hit[r],
                                                ![r].vllmHit = RoundDown(n, HitAlignment),
                                                ![r].lmcacheHit = hit[r]]
      BY <1>4 DEF Matched
    <2>2. n \in Nat /\ RoundDown(n, HitAlignment) \in Nat
      BY HitAlignmentDivides, Rounded
    <2>3. tracker' \in [Request -> Tracker]
      <3>1. CASE hit[r] = 0
        BY <2>1, <3>1 DEF TypeOK
      <3>2. CASE hit[r] # 0
        BY <2>1, <2>2, <3>2, WithHit
      <3> QED BY <3>1, <3>2
    <2>4. saved' \in [Request -> Nat]
      BY <1>4 DEF TypeOK, Matched, Larger
    <2> QED BY <1>4, <2>1, <2>2, <2>3, <2>4 DEF TypeOK, Matched, Status
  <1>5. CASE MatchedPreempted(r)
    BY <1>0, <1>5, NewTrackerTypes DEF TypeOK, MatchedPreempted, Status
  <1>6. CASE AllocationFails(r)
    BY <1>6 DEF TypeOK, AllocationFails, Status
  <1>7. CASE AllocateForLoad(r)
    <2>1. local[r] + External(r) \in Nat
      BY <1>0 DEF External
    <2>2. BlocksFor(local[r] + External(r)) \in [Group -> Nat]
      BY <2>1, BlocksForBounds
    <2>3. /\ tracker' \in [Request -> Tracker]
          /\ lookup' \in [Request -> {"none", "pending", "answered"}]
          /\ freed' \in [Request -> Nat] /\ vblocks' \in [Request -> [Group -> Nat]]
      BY <1>7, <2>2, Allocated DEF AllocateForLoad
    <2> QED BY <1>7, <2>3 DEF TypeOK, AllocateForLoad, Status
  <1>8. CASE AllocateNew(r)
    <2>1. PICK m \in 1..(numTokens[r] - local[r]) :
             /\ UpdateStateAfterAlloc(r, BlocksFor(local[r] + m))
             /\ scheduled' = [scheduled EXCEPT ![r] = m]
      BY <1>8 DEF AllocateNew
    <2>2. m \in Nat /\ local[r] + m \in Nat
      BY <1>0
    <2>3. BlocksFor(local[r] + m) \in [Group -> Nat]
      BY <2>2, BlocksForBounds
    <2>4. /\ tracker' \in [Request -> Tracker]
          /\ lookup' \in [Request -> {"none", "pending", "answered"}]
          /\ freed' \in [Request -> Nat] /\ vblocks' \in [Request -> [Group -> Nat]]
      BY <2>1, <2>3, Allocated
    <2>5. scheduled' \in [Request -> Nat]
      BY <2>1, <2>2 DEF TypeOK
    <2>6. listed' \in [Request -> {"none", "new", "cached", "resumed"}]
      BY <1>8 DEF TypeOK, AllocateNew
    <2>7. status' \in [Request -> Status] /\ computed' \in [Request -> Nat]
      BY <1>0, <1>8 DEF TypeOK, AllocateNew, Status
    <2> QED BY <1>8, <2>4, <2>5, <2>6, <2>7 DEF TypeOK, AllocateNew
  <1>9. CASE AllocateLoaded(r)
    <2>1. PICK m \in 1..(numTokens[r] - computed[r]) :
             /\ UpdateStateAfterAlloc(r, BlocksFor(computed[r] + m))
             /\ scheduled' = [scheduled EXCEPT ![r] = m]
      BY <1>9 DEF AllocateLoaded
    <2>2. m \in Nat /\ computed[r] + m \in Nat
      BY <1>0
    <2>3. BlocksFor(computed[r] + m) \in [Group -> Nat]
      BY <2>2, BlocksForBounds
    <2>4. /\ tracker' \in [Request -> Tracker]
          /\ lookup' \in [Request -> {"none", "pending", "answered"}]
          /\ freed' \in [Request -> Nat] /\ vblocks' \in [Request -> [Group -> Nat]]
      BY <2>1, <2>3, Allocated
    <2> QED BY <1>9, <2>1, <2>2, <2>4 DEF TypeOK, AllocateLoaded, Status
  <1>10. CASE LoadFinished(r)
    <2>1. load[r].end \in Nat /\ numTokens[r] > 0
      BY <1>0, <1>10 DEF Op, LoadFinished, OfAny, Bookkeeping
    <2> QED BY <1>0, <1>10, <2>1 DEF TypeOK, LoadFinished, Status
  <1>11. CASE LoadFailed(r)
    <2>1. load[r].end \in Nat /\ NoBlocks \in [Group -> Nat]
      BY <1>0 DEF Op, NoBlocks
    <2> QED BY <1>0, <1>11, <2>1 DEF TypeOK, LoadFailed, Status
  <1>12. CASE ScheduleRunning(r)
    BY <1>0, <1>12 DEF TypeOK, ScheduleRunning
  <1>13. CASE Generate(r)
    BY <1>13 DEF TypeOK, Generate
  <1>14. CASE Preempt(r)
    <2>1. NoBlocks \in [Group -> Nat]
      BY DEF NoBlocks
    <2> QED BY <1>14, <2>1, NewTrackerTypes DEF TypeOK, Preempt, Status
  <1>15. CASE RequestFinished(r)
    BY <1>15, NewTrackerTypes DEF TypeOK, RequestFinished, Status
  <1> QED BY <1>1, <1>2, <1>3, <1>4, <1>5, <1>6, <1>7, <1>8, <1>9, <1>10, <1>11,
             <1>12, <1>13, <1>14, <1>15 DEF StepOf
-----------------------------------------------------------------------------
(* Each step keeps what the invariant says of its request.                 *)

\* A request that arrives has no lookup, no operation and no tracker.
LEMMA ArriveKeeps ==
  ASSUME TypeOK, NEW r \in Request, OfRequest(r), Arrive(r)
  PROVE  OfRequest(r)'
  <1> USE DEF vllmVars, lookupVars, opVars
  <1>1. /\ status[r] = "new" /\ status'[r] = "waiting" /\ numTokens'[r] \in Nat
        /\ numTokens'[r] > 0 /\ numTokens[r] = 0 /\ hit[r] \in Nat
    BY DEF TypeOK, Arrive, OfRequest, OfAny, Bookkeeping
  <1>2. UNCHANGED <<computed, scheduled, listed, vblocks, local, tracker, lookup, hit,
                    locked, freed, load, store, spoiled>>
    BY DEF Arrive
  <1>3. OfAny(r)'
    BY <1>1, <1>2 DEF OfRequest, OfAny, Bookkeeping
  <1>4. ASSUME r \notin spoiled PROVE OfSound(r)'
    <2>1. BeforeAllocation(r)'
      BY <1>1, <1>2, <1>4 DEF OfRequest, OfSound, BeforeAllocation
    <2> QED BY <1>1, <1>2, <1>4, <2>1 DEF OfRequest, OfSound, WhileLoading, WhileRunning,
               WhilePreempted, LocksSettled
  <1> QED BY <1>2, <1>3, <1>4 DEF OfRequest

\* A lookup starts with a fresh tracker.
LEMMA SubmitLookupKeeps ==
  ASSUME TypeOK, NEW r \in Request, OfRequest(r), SubmitLookup(r)
  PROVE  OfRequest(r)'
  <1> USE DEF vllmVars, lookupVars, opVars
  <1>1. /\ status[r] = "waiting" /\ lookup[r] = "none" /\ lookup'[r] = "pending"
        /\ tracker'[r] = IF tracker[r] = NoTracker THEN NewTracker ELSE tracker[r]
    BY DEF TypeOK, SubmitLookup
  <1>2. UNCHANGED <<status, numTokens, computed, scheduled, listed, vblocks, local, hit,
                    locked, freed, load, store, spoiled>>
    BY DEF SubmitLookup
  <1>3. /\ NewTracker.state = "PREFETCHING" /\ NewTracker.stored = 0
        /\ NewTracker.lmcacheHit = 0 /\ NewTracker.vllmHit = 0
        /\ NewTracker.scheduled = 0 /\ NewTracker.blocks = NoBlocks
        /\ 0 % Chunk = 0
    BY ConstantsAssumption DEF NewTracker
  <1>4. OfAny(r)'
    BY <1>1, <1>2, <1>3 DEF OfRequest, OfAny, Bookkeeping
  <1>5. ASSUME r \notin spoiled PROVE OfSound(r)'
    <2>1. BeforeAllocation(r)'
      BY <1>1, <1>2, <1>3, <1>5 DEF OfRequest, OfSound, BeforeAllocation
    <2> QED BY <1>1, <1>2, <1>5, <2>1 DEF OfRequest, OfSound, WhileLoading, WhileRunning,
               WhilePreempted, LocksSettled
  <1> QED BY <1>2, <1>4, <1>5 DEF OfRequest

\* An answer locks whole chunks, no more than the request has.
LEMMA LookupAnswersKeeps ==
  ASSUME TypeOK, NEW r \in Request, OfRequest(r), LookupAnswers(r)
  PROVE  OfRequest(r)'
  <1> USE DEF vllmVars, lookupVars, opVars
  <1>1. PICK n \in 0..numTokens[r] :
           /\ lookup[r] = "pending" /\ n % Chunk = 0
           /\ lookup'[r] = "answered" /\ hit'[r] = n /\ locked'[r] = n /\ freed'[r] = 0
           /\ load'[r] = NoOp
    BY DEF TypeOK, LookupAnswers
  <1>2. UNCHANGED <<status, numTokens, computed, scheduled, listed, vblocks, local, tracker,
                    store, spoiled>>
    BY DEF LookupAnswers
  <1>3. NoOp.start = 0 /\ NoOp.end = 0 /\ 0 % Chunk = 0 /\ numTokens[r] \in Nat
    BY ConstantsAssumption DEF NoOp, TypeOK
  <1>4. OfAny(r)'
    BY <1>1, <1>2, <1>3 DEF OfRequest, OfAny, Bookkeeping
  <1>5. ASSUME r \notin spoiled PROVE OfSound(r)'
    <2>1. BeforeAllocation(r)'
      BY <1>1, <1>2, <1>3, <1>5 DEF OfRequest, OfSound, BeforeAllocation
    <2> QED BY <1>1, <1>2, <1>5, <2>1 DEF OfRequest, OfSound, WhileLoading, WhileRunning,
               WhilePreempted, LocksSettled
  <1> QED BY <1>2, <1>4, <1>5 DEF OfRequest

\* A hit is whole chunks on top of what the tracker has stored.
LEMMA MatchedKeeps ==
  ASSUME TypeOK, NEW r \in Request, OfRequest(r), Matched(r)
  PROVE  OfRequest(r)'
  <1> USE DEF vllmVars, lookupVars, opVars
  <1>1. PICK n \in 0..(numTokens[r] - 1) :
           /\ status[r] = "waiting" /\ lookup[r] = "answered"
           /\ status'[r] = "matched" /\ local'[r] = n
           /\ IF hit[r] = 0 THEN UNCHANGED tracker
              ELSE tracker' = [tracker EXCEPT ![r].stored = @ + hit[r],
                                              ![r].vllmHit = RoundDown(n, HitAlignment),
                                              ![r].lmcacheHit = hit[r]]
    BY DEF TypeOK, Matched
  <1>2. UNCHANGED <<numTokens, computed, scheduled, listed, vblocks, lookup, hit, locked,
                    freed, load, store, spoiled>>
    BY DEF Matched
  <1>3. /\ numTokens[r] \in Nat /\ n \in Nat /\ hit[r] \in Nat /\ tracker[r].stored \in Nat
        /\ n < numTokens[r] /\ hit[r] % Chunk = 0 /\ Chunk \in Nat \ {0}
    BY <1>1, ConstantsAssumption DEF TypeOK, Tracker, OfRequest, OfAny, Bookkeeping
  <1>4. CASE hit[r] = 0
    <2>1. tracker' = tracker
      BY <1>1, <1>4
    <2>2. OfAny(r)'
      BY <1>1, <1>2, <2>1 DEF OfRequest, OfAny, Bookkeeping
    <2>3. ASSUME r \notin spoiled PROVE OfSound(r)'
      <3>1. BeforeAllocation(r)'
        BY <1>1, <1>2, <1>3, <1>4, <2>1, <2>3 DEF OfRequest, OfSound, BeforeAllocation
      <3> QED BY <1>1, <1>2, <2>3, <3>1 DEF OfRequest, OfSound, Bookkeeping, OfAny,
                 WhileLoading, WhileRunning, WhilePreempted, LocksSettled
    <2> QED BY <1>2, <2>2, <2>3 DEF OfRequest
  <1>5. CASE hit[r] # 0
    <2>1. /\ tracker'[r].state = tracker[r].state
          /\ tracker'[r].scheduled = tracker[r].scheduled
          /\ tracker'[r].stored = tracker[r].stored + hit[r]
          /\ tracker'[r].vllmHit = RoundDown(n, HitAlignment)
          /\ tracker'[r].lmcacheHit = hit[r]
          /\ tracker'[r].blocks = tracker[r].blocks
      BY <1>1, <1>3, <1>5, WithHit
    <2>2. (tracker[r].stored + hit[r]) % Chunk = 0
      BY <1>3, SumOfMultiples DEF OfRequest, OfAny
    <2>3. OfAny(r)'
      BY <1>1, <1>2, <1>3, <2>1, <2>2 DEF OfRequest, OfAny, Bookkeeping
    <2>4. ASSUME r \notin spoiled PROVE OfSound(r)'
      <3>1. BeforeAllocation(r)'
        BY <1>1, <1>2, <1>3, <1>5, <2>1, <2>4 DEF OfRequest, OfSound, BeforeAllocation
      <3> QED BY <1>1, <1>2, <2>4, <3>1 DEF OfRequest, OfSound, Bookkeeping, OfAny,
                 WhileLoading, WhileRunning, WhilePreempted, LocksSettled
    <2> QED BY <1>2, <2>3, <2>4 DEF OfRequest
  <1> QED BY <1>4, <1>5

\* A preempted request gets a tracker without a hit.
LEMMA MatchedPreemptedKeeps ==
  ASSUME TypeOK, NEW r \in Request, OfRequest(r), MatchedPreempted(r)
  PROVE  OfRequest(r)'
  <1> USE DEF vllmVars, lookupVars, opVars
  <1>1. PICK n \in 0..(numTokens[r] - 1) :
           /\ status[r] = "preempted" /\ status'[r] = "rematched" /\ local'[r] = n
           /\ tracker'[r] = IF tracker[r].state = "PREFETCHING" THEN tracker[r] ELSE NewTracker
    BY DEF TypeOK, MatchedPreempted
  <1>2. UNCHANGED <<numTokens, computed, scheduled, listed, vblocks, lookup, hit, locked,
                    freed, load, store, spoiled>>
    BY DEF MatchedPreempted
  <1>3. /\ NewTracker.state = "PREFETCHING" /\ NewTracker.stored = 0
        /\ NewTracker.lmcacheHit = 0 /\ NewTracker.vllmHit = 0
        /\ NewTracker.scheduled = 0 /\ NewTracker.blocks = NoBlocks
        /\ 0 % Chunk = 0 /\ numTokens[r] \in Nat /\ n < numTokens[r]
    BY <1>1, ConstantsAssumption DEF NewTracker, TypeOK
  <1>4. OfAny(r)'
    BY <1>1, <1>2, <1>3 DEF OfRequest, OfAny, Bookkeeping
  <1>5. ASSUME r \notin spoiled PROVE OfSound(r)'
    <2>1. WhilePreempted(r)'
      BY <1>1, <1>2, <1>3, <1>5 DEF OfRequest, OfSound, WhilePreempted
    <2>2. LocksSettled(r)'
      BY <1>1, <1>2, <1>5 DEF OfRequest, OfSound, LocksSettled
    <2> QED BY <1>1, <1>2, <1>5, <2>1, <2>2 DEF OfRequest, OfSound, BeforeAllocation,
               WhileLoading, WhileRunning
  <1> QED BY <1>2, <1>4, <1>5 DEF OfRequest

\* A failed allocation leads back to where the callback may be repeated.
LEMMA AllocationFailsKeeps ==
  ASSUME TypeOK, NEW r \in Request, OfRequest(r), AllocationFails(r)
  PROVE  OfRequest(r)'
  <1> USE DEF vllmVars, lookupVars, opVars
  <1>1. \/ status[r] = "matched" /\ status'[r] = "waiting"
        \/ status[r] = "rematched" /\ status'[r] = "preempted"
    BY DEF TypeOK, AllocationFails
  <1>2. UNCHANGED <<numTokens, computed, scheduled, listed, vblocks, local, tracker, lookup,
                    hit, locked, freed, load, store, spoiled>>
    BY DEF AllocationFails
  <1>3. OfAny(r)'
    BY <1>1, <1>2 DEF OfRequest, OfAny, Bookkeeping
  <1>4. ASSUME r \notin spoiled PROVE OfSound(r)'
    BY <1>1, <1>2, <1>4 DEF OfRequest, OfSound, BeforeAllocation, WhileLoading, WhileRunning,
       WhilePreempted, LocksSettled
  <1> QED BY <1>2, <1>3, <1>4 DEF OfRequest

\* A finished load computes all of the hit, or all but the last token.
LEMMA LoadFinishedKeeps ==
  ASSUME TypeOK, NEW r \in Request, OfRequest(r), LoadFinished(r)
  PROVE  OfRequest(r)'
  <1> USE DEF vllmVars, lookupVars, opVars
  <1>1. /\ status[r] = "loading" /\ load[r] # NoOp /\ status'[r] = "loaded"
        /\ computed'[r] = IF load[r].end = numTokens[r] THEN load[r].end - 1 ELSE load[r].end
    BY DEF TypeOK, LoadFinished
  <1>2. UNCHANGED <<numTokens, scheduled, listed, vblocks, local, tracker, lookup, hit,
                    locked, freed, load, store, spoiled>>
    BY DEF LoadFinished
  <1>3. OfAny(r)'
    BY <1>1, <1>2 DEF OfRequest, OfAny, Bookkeeping
  <1>4. ASSUME r \notin spoiled PROVE OfSound(r)'
    <2>1. WhileLoading(r)'
      BY <1>1, <1>2, <1>4 DEF OfRequest, OfSound, WhileLoading, RetrieveStart
    <2>2. store[r] = NoOp
      BY <1>1 DEF OfRequest, OfAny, Bookkeeping
    <2> QED BY <1>1, <1>2, <1>4, <2>1, <2>2 DEF OfRequest, OfSound, BeforeAllocation,
               WhileRunning, WhilePreempted, LocksSettled
  <1> QED BY <1>2, <1>3, <1>4 DEF OfRequest

\* Of a request whose load fails only the alignment is kept.
LEMMA LoadFailedKeeps ==
  ASSUME TypeOK, NEW r \in Request, OfRequest(r), LoadFailed(r)
  PROVE  OfRequest(r)'
  <1> USE DEF vllmVars, lookupVars, opVars
  <1>1. /\ status[r] = "loading" /\ status'[r] \in {"waiting", "loaded"}
        /\ spoiled' = spoiled \cup {r}
    BY DEF TypeOK, LoadFailed
  <1>2. UNCHANGED <<numTokens, scheduled, listed, local, tracker, lookup, hit, locked,
                    freed, load, store>>
    BY DEF LoadFailed
  <1>3. OfAny(r)'
    BY <1>1, <1>2 DEF OfRequest, OfAny, Bookkeeping
  <1> QED BY <1>1, <1>3 DEF OfRequest

\* The next tokens of a running request stay within it.
LEMMA ScheduleRunningKeeps ==
  ASSUME TypeOK, NEW r \in Request, OfRequest(r), ScheduleRunning(r)
  PROVE  OfRequest(r)'
  <1> USE DEF vllmVars, lookupVars, opVars
  <1>1. PICK m \in 1..(numTokens[r] - computed[r]) :
           /\ status[r] = "running" /\ listed[r] = "none"
           /\ scheduled'[r] = m /\ listed'[r] = "cached"
    BY DEF TypeOK, ScheduleRunning
  <1>2. UNCHANGED <<status, numTokens, computed, vblocks, local, tracker, lookup, hit,
                    locked, freed, load, store, spoiled>>
    BY DEF ScheduleRunning
  <1>3. numTokens[r] \in Nat /\ computed[r] \in Nat
    BY DEF TypeOK
  <1>4. OfAny(r)'
    BY <1>1, <1>2 DEF OfRequest, OfAny, Bookkeeping
  <1>5. ASSUME r \notin spoiled PROVE OfSound(r)'
    <2>1. WhileRunning(r)'
      BY <1>1, <1>2, <1>3, <1>5 DEF OfRequest, OfSound, WhileRunning, AtMostOneAhead
    <2> QED BY <1>1, <1>2, <1>5, <2>1 DEF OfRequest, OfSound, BeforeAllocation,
               WhileLoading, WhilePreempted, LocksSettled
  <1> QED BY <1>2, <1>4, <1>5 DEF OfRequest

\* A generated token leaves no room to be ahead by more than one.
LEMMA GenerateKeeps ==
  ASSUME TypeOK, NEW r \in Request, OfRequest(r), Generate(r)
  PROVE  OfRequest(r)'
  <1> USE DEF vllmVars, lookupVars, opVars
  <1>1. /\ status[r] = "running" /\ listed[r] = "none" /\ computed[r] = numTokens[r]
        /\ numTokens'[r] = numTokens[r] + 1
    BY DEF TypeOK, Generate
  <1>2. UNCHANGED <<status, computed, scheduled, listed, vblocks, local, tracker, lookup,
                    hit, locked, freed, load, store, spoiled>>
    BY DEF Generate
  <1>3. numTokens[r] \in Nat /\ computed[r] \in Nat
    BY DEF TypeOK
  <1>4. OfAny(r)'
    BY <1>1, <1>2, <1>3 DEF OfRequest, OfAny, Bookkeeping
  <1>5. ASSUME r \notin spoiled PROVE OfSound(r)'
    <2>1. scheduled[r] = 0
      BY <1>1 DEF OfRequest, OfAny, Bookkeeping
    <2>2. WhileRunning(r)'
      BY <1>1, <1>2, <1>3, <1>5, <2>1 DEF OfRequest, OfSound, WhileRunning, AtMostOneAhead
    <2> QED BY <1>1, <1>2, <1>5, <2>2 DEF OfRequest, OfSound, BeforeAllocation,
               WhileLoading, WhilePreempted, LocksSettled
  <1> QED BY <1>2, <1>4, <1>5 DEF OfRequest

\* A preemption leaves the locks settled.
LEMMA PreemptKeeps ==
  ASSUME TypeOK, NEW r \in Request, OfRequest(r), Preempt(r)
  PROVE  OfRequest(r)'
  <1> USE DEF vllmVars, lookupVars, opVars
  <1>1. /\ status[r] = "running" /\ status'[r] = "preempted" /\ listed[r] = "none"
        /\ store'[r] = NoOp
    BY DEF TypeOK, Preempt
  <1>2. UNCHANGED <<numTokens, scheduled, listed, local, tracker, lookup, hit, locked,
                    freed, load, spoiled>>
    BY DEF Preempt
  <1>3. OfAny(r)'
    BY <1>1, <1>2 DEF OfRequest, OfAny, Bookkeeping
  <1>4. ASSUME r \notin spoiled PROVE OfSound(r)'
    <2>1. WhilePreempted(r)'
      BY <1>1, <1>2, <1>4 DEF OfRequest, OfSound, WhileRunning, WhilePreempted
    <2>2. LocksSettled(r)'
      BY <1>1, <1>2, <1>4 DEF OfRequest, OfSound, LocksSettled
    <2> QED BY <1>1, <1>2, <1>4, <2>1, <2>2 DEF OfRequest, OfSound, BeforeAllocation,
               WhileLoading, WhileRunning
  <1> QED BY <1>2, <1>3, <1>4 DEF OfRequest

\* A request that is done has no tracker.
LEMMA RequestFinishedKeeps ==
  ASSUME TypeOK, NEW r \in Request, OfRequest(r), RequestFinished(r)
  PROVE  OfRequest(r)'
  <1> USE DEF vllmVars, lookupVars, opVars
  <1>1. /\ status[r] # "new" /\ status'[r] = "finished" /\ listed[r] = "none"
        /\ tracker'[r] = NoTracker
    BY DEF TypeOK, RequestFinished
  <1>2. UNCHANGED <<numTokens, computed, scheduled, listed, vblocks, local, lookup, hit,
                    locked, freed, load, store, spoiled>>
    BY DEF RequestFinished
  <1>3. NoTracker.stored = 0 /\ NoTracker.lmcacheHit = 0 /\ 0 % Chunk = 0
    BY ConstantsAssumption DEF NoTracker, NewTracker
  <1>4. OfAny(r)'
    BY <1>1, <1>2, <1>3 DEF OfRequest, OfAny, Bookkeeping
  <1>5. ASSUME r \notin spoiled PROVE OfSound(r)'
    BY <1>1, <1>2, <1>5 DEF OfRequest, OfSound, BeforeAllocation, WhileLoading,
       WhileRunning, WhilePreempted, LocksSettled
  <1> QED BY <1>2, <1>4, <1>5 DEF OfRequest

\* A load is decided on exactly when vLLM waits for one: the hit is whole chunks, so
\* rounding vLLM's own hit down to a block of every group does not change which is larger.
LEMMA AllocateForLoadKeeps ==
  ASSUME TypeOK, NEW r \in Request, OfRequest(r), AllocateForLoad(r)
  PROVE  OfRequest(r)'
  <1> USE DEF vllmVars, lookupVars, opVars
  <1>1. /\ status[r] = "matched" /\ External(r) > 0 /\ status'[r] = "loading"
        /\ UpdateStateAfterAlloc(r, BlocksFor(local[r] + External(r)))
    BY DEF TypeOK, AllocateForLoad
  <1>2. UNCHANGED <<numTokens, scheduled, listed, local, hit, locked, load, store, spoiled>>
    BY DEF AllocateForLoad
  <1>3. /\ hit[r] \in Nat /\ local[r] \in Nat /\ tracker[r] \in Tracker
        /\ tracker[r].vllmHit \in Nat
    BY DEF TypeOK, Tracker
  <1>4. local[r] < hit[r] /\ local[r] + External(r) = hit[r]
    BY <1>1, <1>3 DEF External
  <1>5. BlocksFor(hit[r]) \in [Group -> Nat]
    BY <1>3, BlocksForBounds
  <1>6. UpdateStateAfterAlloc(r, BlocksFor(hit[r]))
    BY <1>1, <1>4
  <1>7. /\ tracker'[r].scheduled = tracker[r].scheduled
        /\ tracker'[r].stored = tracker[r].stored
        /\ tracker'[r].vllmHit = tracker[r].vllmHit
        /\ tracker'[r].lmcacheHit = tracker[r].lmcacheHit
        /\ tracker'[r].blocks =
              [g \in Group |-> Larger(tracker[r].blocks[g], BlocksFor(hit[r])[g])]
        /\ tracker[r].state = "PREFETCHING" =>
              /\ lookup'[r] = "none"
              /\ tracker'[r].state = IF tracker[r].lmcacheHit > tracker[r].vllmHit
                                     THEN "WAITING_FOR_LOAD" ELSE "READY"
              /\ freed'[r] = IF tracker[r].lmcacheHit = 0 THEN freed[r]
                             ELSE IF tracker[r].lmcacheHit > tracker[r].vllmHit
                                  THEN tracker[r].vllmHit ELSE tracker[r].lmcacheHit
    BY <1>5, <1>6, Allocated
  <1>8. OfAny(r)'
    BY <1>1, <1>2, <1>7 DEF OfRequest, OfAny, Bookkeeping
  <1>9. ASSUME r \notin spoiled PROVE OfSound(r)'
    <2>1. /\ tracker[r].state = "PREFETCHING" /\ tracker[r].lmcacheHit = hit[r]
          /\ tracker[r].scheduled = 0 /\ tracker[r].blocks = NoBlocks
          /\ tracker[r].vllmHit = RoundDown(local[r], HitAlignment)
          /\ locked[r] = hit[r] /\ hit[r] <= numTokens[r] /\ load[r] = NoOp
      BY <1>1, <1>3, <1>4, <1>9 DEF OfRequest, OfSound, BeforeAllocation
    <2>2. tracker[r].vllmHit < hit[r]
      BY <1>3, <1>4, <2>1, HitAlignmentDivides, Rounded
    <2>3. tracker'[r].blocks = BlocksFor(hit[r])
      <3>1. \A g \in Group : Larger(NoBlocks[g], BlocksFor(hit[r])[g]) = BlocksFor(hit[r])[g]
        BY <1>5 DEF Larger, NoBlocks
      <3> QED BY <1>5, <1>7, <2>1, <3>1
    <2>4. WhileLoading(r)'
      BY <1>1, <1>2, <1>3, <1>4, <1>7, <2>1, <2>2, <2>3 DEF WhileLoading
    <2>5. store[r] = NoOp
      BY <1>1 DEF OfRequest, OfAny, Bookkeeping
    <2> QED BY <1>1, <1>2, <2>4, <2>5 DEF OfSound, BeforeAllocation, WhileRunning,
               WhilePreempted, LocksSettled
  <1> QED BY <1>2, <1>8, <1>9 DEF OfRequest

\* Without a load all locks are freed, and the tracker is not ahead of vLLM.
LEMMA AllocateNewKeeps ==
  ASSUME TypeOK, NEW r \in Request, OfRequest(r), AllocateNew(r)
  PROVE  OfRequest(r)'
  <1> USE DEF vllmVars, lookupVars, opVars
  <1>1. PICK m \in 1..(numTokens[r] - local[r]) :
           /\ status[r] \in {"matched", "rematched"} /\ External(r) = 0
           /\ UpdateStateAfterAlloc(r, BlocksFor(local[r] + m))
           /\ status'[r] = "running" /\ computed'[r] = local[r] /\ scheduled'[r] = m
           /\ listed'[r] \in {"new", "resumed"}
    BY DEF TypeOK, AllocateNew
  <1>2. UNCHANGED <<numTokens, local, hit, locked, load, store, spoiled>>
    BY DEF AllocateNew
  <1>3. /\ hit[r] \in Nat /\ local[r] \in Nat /\ numTokens[r] \in Nat
        /\ tracker[r] \in Tracker /\ tracker[r].vllmHit \in Nat
        /\ m \in Nat \ {0} /\ local[r] + m \in Nat /\ local[r] + m <= numTokens[r]
    BY <1>1 DEF TypeOK, Tracker
  <1> DEFINE given == BlocksFor(local[r] + m)
  <1>4. given \in [Group -> Nat]
    BY <1>3, BlocksForBounds
  <1> HIDE DEF given
  <1>5. /\ vblocks'[r] = given
        /\ tracker'[r].scheduled = tracker[r].scheduled
        /\ tracker'[r].stored = tracker[r].stored
        /\ tracker'[r].vllmHit = tracker[r].vllmHit
        /\ tracker'[r].lmcacheHit = tracker[r].lmcacheHit
        /\ tracker'[r].blocks = [g \in Group |-> Larger(tracker[r].blocks[g], given[g])]
        /\ tracker[r].state = "PREFETCHING" =>
              /\ lookup'[r] = "none"
              /\ tracker'[r].state = IF tracker[r].lmcacheHit > tracker[r].vllmHit
                                     THEN "WAITING_FOR_LOAD" ELSE "READY"
              /\ freed'[r] = IF tracker[r].lmcacheHit = 0 THEN freed[r]
                             ELSE IF tracker[r].lmcacheHit > tracker[r].vllmHit
                                  THEN tracker[r].vllmHit ELSE tracker[r].lmcacheHit
    BY <1>1, <1>4, Allocated DEF given
  <1>6. store[r] = NoOp
    BY <1>1 DEF OfRequest, OfAny, Bookkeeping
  <1>7. OfAny(r)'
    BY <1>1, <1>2, <1>5, <1>6 DEF OfRequest, OfAny, Bookkeeping
  <1>8. ASSUME r \notin spoiled PROVE OfSound(r)'
    <2>1. /\ tracker[r].state = "PREFETCHING" /\ tracker[r].scheduled = 0
          /\ tracker[r].blocks = NoBlocks
      BY <1>1, <1>8 DEF OfRequest, OfSound, BeforeAllocation, WhilePreempted
    <2>2. tracker'[r].blocks = given
      <3>1. \A g \in Group : Larger(NoBlocks[g], given[g]) = given[g]
        BY <1>4 DEF Larger, NoBlocks
      <3> QED BY <1>4, <1>5, <2>1, <3>1
    <2>3. /\ tracker[r].lmcacheHit <= tracker[r].vllmHit /\ tracker[r].vllmHit <= local[r]
          /\ tracker[r].lmcacheHit \in Nat
      <3>1. CASE status[r] = "matched"
        <4>1. hit[r] <= local[r]
          BY <1>1, <1>3, <3>1 DEF External
        <4>2. /\ tracker[r].lmcacheHit = hit[r] /\ locked[r] = hit[r] /\ freed[r] = 0
              /\ hit[r] = 0 => tracker[r].vllmHit = 0
              /\ hit[r] > 0 => tracker[r].vllmHit = RoundDown(local[r], HitAlignment)
          BY <1>8, <3>1 DEF OfRequest, OfSound, BeforeAllocation
        <4>3. /\ hit[r] <= RoundDown(local[r], HitAlignment)
              /\ RoundDown(local[r], HitAlignment) <= local[r]
          <5>1. hit[r] % Chunk = 0
            BY DEF OfRequest, OfAny, Bookkeeping
          <5>2. hit[r] % HitAlignment = 0
            BY <1>3, <5>1, HitAlignmentDivides, ConstantsAssumption, MultipleOfMultiple
          <5> QED BY <1>3, <4>1, <5>2, HitAlignmentDivides, Rounded, RoundedBound
        <4> QED BY <1>3, <4>1, <4>2, <4>3
      <3>2. CASE status[r] = "rematched"
        <4>1. tracker[r].vllmHit = 0 /\ tracker[r].lmcacheHit = 0
          BY <1>8, <3>2, <2>1 DEF OfRequest, OfSound, WhilePreempted
        <4> QED BY <1>3, <4>1
      <3> QED BY <1>1, <3>1, <3>2
    <2>4. lookup'[r] = "none" /\ tracker'[r].state = "READY"
      BY <1>3, <1>5, <2>1, <2>3
    <2>5. WhileRunning(r)'
      <3>1. ComputedTokens(tracker'[r]) <= computed'[r]
        BY <1>1, <1>3, <1>5, <2>1, <2>3 DEF ComputedTokens, Larger
      <3> QED BY <1>1, <1>2, <1>3, <1>5, <2>2, <2>4, <3>1 DEF WhileRunning, AtMostOneAhead
    <2>6. LocksSettled(r)'
      <3>1. CASE status[r] = "matched"
        <4>1. load[r] = NoOp /\ freed[r] = 0 /\ locked[r] = hit[r]
              /\ tracker[r].lmcacheHit = hit[r]
          BY <1>8, <3>1 DEF OfRequest, OfSound, BeforeAllocation
        <4> QED BY <1>2, <1>3, <1>5, <2>1, <2>3, <4>1 DEF LocksSettled
      <3>2. CASE status[r] = "rematched"
        <4>1. freed'[r] = freed[r]
          BY <1>5, <1>8, <2>1, <3>2 DEF OfRequest, OfSound, WhilePreempted
        <4> QED BY <1>2, <1>8, <3>2, <4>1 DEF OfRequest, OfSound, LocksSettled
      <3> QED BY <1>1, <3>1, <3>2
    <2> QED BY <1>1, <1>2, <1>6, <2>5, <2>6 DEF OfSound, BeforeAllocation,
               WhileLoading, WhilePreempted
  <1> QED BY <1>2, <1>7, <1>8 DEF OfRequest

\* The second allocation covers the first, and is tracked once.
LEMMA AllocateLoadedKeeps ==
  ASSUME TypeOK, NEW r \in Request, OfRequest(r), AllocateLoaded(r)
  PROVE  OfRequest(r)'
  <1> USE DEF vllmVars, lookupVars, opVars
  <1>1. PICK m \in 1..(numTokens[r] - computed[r]) :
           /\ status[r] = "loaded"
           /\ UpdateStateAfterAlloc(r, BlocksFor(computed[r] + m))
           /\ status'[r] = "running" /\ scheduled'[r] = m /\ listed'[r] = "new"
    BY DEF TypeOK, AllocateLoaded
  <1>2. UNCHANGED <<numTokens, computed, local, hit, locked, load, store, spoiled>>
    BY DEF AllocateLoaded
  <1>3. /\ hit[r] \in Nat /\ computed[r] \in Nat /\ numTokens[r] \in Nat
        /\ tracker[r] \in Tracker /\ tracker[r].vllmHit \in Nat
        /\ m \in Nat \ {0} /\ computed[r] + m \in Nat /\ computed[r] + m <= numTokens[r]
    BY <1>1 DEF TypeOK, Tracker
  <1> DEFINE given == BlocksFor(computed[r] + m)
  <1>4. given \in [Group -> Nat]
    BY <1>3, BlocksForBounds
  <1> HIDE DEF given
  <1>5. /\ vblocks'[r] = given
        /\ tracker'[r].scheduled = tracker[r].scheduled
        /\ tracker'[r].stored = tracker[r].stored
        /\ tracker'[r].vllmHit = tracker[r].vllmHit
        /\ tracker'[r].lmcacheHit = tracker[r].lmcacheHit
        /\ tracker'[r].blocks = [g \in Group |-> Larger(tracker[r].blocks[g], given[g])]
        /\ tracker[r].state # "PREFETCHING" =>
              /\ lookup'[r] = lookup[r] /\ freed'[r] = freed[r]
              /\ tracker'[r].state = tracker[r].state
    BY <1>1, <1>4, Allocated DEF given
  <1>6. store[r] = NoOp
    BY <1>1 DEF OfRequest, OfAny, Bookkeeping
  <1>7. OfAny(r)'
    BY <1>1, <1>2, <1>5, <1>6 DEF OfRequest, OfAny, Bookkeeping
  <1>8. ASSUME r \notin spoiled PROVE OfSound(r)'
    <2>1. /\ lookup[r] = "none" /\ freed[r] = tracker[r].vllmHit /\ locked[r] = hit[r]
          /\ tracker[r].vllmHit < hit[r] /\ tracker[r].lmcacheHit = hit[r]
          /\ tracker[r].scheduled = 0 /\ tracker[r].blocks = BlocksFor(hit[r])
          /\ tracker[r].state = "READY" /\ load[r].end = hit[r]
          /\ load[r].start = RetrieveStart(tracker[r])
          /\ computed[r] = hit[r] \/ (hit[r] = numTokens[r] /\ computed[r] = hit[r] - 1)
      BY <1>1, <1>8 DEF OfRequest, OfSound, WhileLoading
    <2>2. tracker'[r].blocks = given
      <3>1. hit[r] <= computed[r] + m
        BY <1>3, <2>1
      <3>2. \A g \in Group : BlocksFor(hit[r])[g] <= given[g]
        BY <1>3, <3>1, BlocksForBounds DEF given
      <3>3. \A g \in Group : BlocksFor(hit[r])[g] \in Nat
        BY <1>3, BlocksForBounds
      <3>4. \A g \in Group : Larger(BlocksFor(hit[r])[g], given[g]) = given[g]
        BY <1>4, <3>2, <3>3 DEF Larger
      <3> QED BY <1>4, <1>5, <2>1, <3>4
    <2>3. ComputedTokens(tracker'[r]) = hit[r]
      BY <1>3, <1>5, <2>1 DEF ComputedTokens, Larger
    <2>4. WhileRunning(r)'
      BY <1>1, <1>2, <1>3, <1>5, <2>1, <2>2, <2>3 DEF WhileRunning, AtMostOneAhead
    <2>5. LocksSettled(r)'
      <3>1. load[r] # NoOp
        BY <1>3, <2>1 DEF NoOp
      <3> QED BY <1>2, <1>5, <2>1, <3>1 DEF LocksSettled, RetrieveStart
    <2> QED BY <1>1, <1>2, <1>6, <2>4, <2>5 DEF OfSound, BeforeAllocation,
               WhileLoading, WhilePreempted
  <1> QED BY <1>2, <1>7, <1>8 DEF OfRequest
-----------------------------------------------------------------------------
(* build_connector_meta.                                                   *)

\* The operation sent for a request that waits for its load.
LEMMA RetrieveOpBounds ==
  ASSUME NEW T \in Tracker, T.lmcacheHit % Chunk = 0
  PROVE  /\ RetrieveOp(T) \in Op
         /\ RetrieveOp(T).start % Chunk = 0 /\ RetrieveOp(T).end % Chunk = 0
         /\ (/\ NeedsRetrieve(T)
             /\ \A g \in Group : T.blocks[g] * TokensPerBlock[g] >= T.lmcacheHit)
            => /\ RetrieveOp(T).end = T.lmcacheHit
               /\ RetrieveOp(T).start = RetrieveStart(T)
  <1>1. /\ T.vllmHit \in Nat /\ T.lmcacheHit \in Nat /\ Chunk \in Nat \ {0}
        /\ 0 % Chunk = 0
    BY ConstantsAssumption DEF Tracker
  <1>2. /\ RetrieveStart(T) \in Nat /\ RetrieveStart(T) <= T.vllmHit
        /\ RetrieveStart(T) % Chunk = 0
    BY <1>1, Rounded DEF RetrieveStart
  <1>3. T.vllmHit - RetrieveStart(T) \in Nat
    BY <1>1, <1>2
  <1> QED BY <1>1, <1>2, <1>3 DEF RetrieveOp, NoOp, Op

\* The blocks of a request only grow in a step.
LEMMA BlocksOfStepGrow ==
  ASSUME TypeOK, NEW r \in Request
  PROVE  /\ BlocksOfStep(r) \in [Group -> Nat]
         /\ \A g \in Group : vblocks[r][g] <= BlocksOfStep(r)[g]
         /\ listed[r] = "none" => BlocksOfStep(r) = vblocks[r]
  <1>1. vblocks[r] \in [Group -> Nat] /\ computed[r] + scheduled[r] \in Nat
    BY DEF TypeOK
  <1> DEFINE grown == BlocksFor(computed[r] + scheduled[r])
  <1>2. grown \in [Group -> Nat]
    BY <1>1, BlocksForBounds
  <1> HIDE DEF grown
  <1>3. \A g \in Group : /\ Larger(vblocks[r][g], grown[g]) \in Nat
                         /\ vblocks[r][g] <= Larger(vblocks[r][g], grown[g])
    BY <1>1, <1>2 DEF Larger
  <1>4. BlocksOfStep(r) = IF listed[r] = "cached"
                          THEN [g \in Group |-> Larger(vblocks[r][g], grown[g])]
                          ELSE vblocks[r]
    BY DEF BlocksOfStep, grown
  <1> QED BY <1>1, <1>3, <1>4

\* The tracker within a step, field by field.
LEMMA InStepFields ==
  ASSUME TypeOK, NEW r \in Request
  PROVE  /\ InStep(r) \in Tracker
         /\ InStep(r).state = IF tracker[r].state = "WAITING_FOR_LOAD" THEN "READY"
                              ELSE tracker[r].state
         /\ InStep(r).stored = tracker[r].stored
         /\ InStep(r).vllmHit = tracker[r].vllmHit
         /\ InStep(r).lmcacheHit = tracker[r].lmcacheHit
         /\ listed[r] = "none" =>
               /\ InStep(r).scheduled = tracker[r].scheduled
               /\ InStep(r).blocks = tracker[r].blocks
               /\ tracker[r].state # "WAITING_FOR_LOAD" => InStep(r) = tracker[r]
         /\ listed[r] # "none" =>
               /\ InStep(r).scheduled = tracker[r].scheduled + scheduled[r]
               /\ InStep(r).blocks = [g \in Group |->
                     tracker[r].blocks[g] + (BlocksOfStep(r)[g] - vblocks[r][g])]
  <1> DEFINE T == IF tracker[r].state = "WAITING_FOR_LOAD"
                  THEN [tracker[r] EXCEPT !.state = "READY"] ELSE tracker[r]
             more == [g \in Group |-> T.blocks[g] + (BlocksOfStep(r)[g] - vblocks[r][g])]
             U == [T EXCEPT !.blocks = more]
             V == [U EXCEPT !.scheduled = @ + scheduled[r]]
  <1>1. tracker[r] \in Tracker /\ vblocks[r] \in [Group -> Nat] /\ scheduled[r] \in Nat
    BY DEF TypeOK
  <1>2. /\ T \in Tracker
        /\ T.state = IF tracker[r].state = "WAITING_FOR_LOAD" THEN "READY"
                     ELSE tracker[r].state
        /\ T.stored = tracker[r].stored /\ T.vllmHit = tracker[r].vllmHit
        /\ T.lmcacheHit = tracker[r].lmcacheHit /\ T.scheduled = tracker[r].scheduled
        /\ T.blocks = tracker[r].blocks
        /\ tracker[r].state # "WAITING_FOR_LOAD" => T = tracker[r]
    BY <1>1 DEF Tracker
  <1>3. InStep(r) = IF listed[r] = "none" THEN T ELSE V
    BY DEF InStep, AppendNewBlocks
  <1> HIDE DEF T
  <1>4. more \in [Group -> Nat]
    <2>1. ASSUME NEW g \in Group
          PROVE  T.blocks[g] + (BlocksOfStep(r)[g] - vblocks[r][g]) \in Nat
      <3>1. /\ T.blocks[g] \in Nat /\ BlocksOfStep(r)[g] \in Nat /\ vblocks[r][g] \in Nat
            /\ vblocks[r][g] <= BlocksOfStep(r)[g]
        BY <1>1, <1>2, BlocksOfStepGrow DEF Tracker
      <3> QED BY <3>1
    <2> QED BY <2>1
  <1>5. more = [g \in Group |->
                  tracker[r].blocks[g] + (BlocksOfStep(r)[g] - vblocks[r][g])]
    BY <1>2
  <1> HIDE DEF more
  <1>6. /\ V \in Tracker /\ V.state = T.state /\ V.stored = T.stored
        /\ V.vllmHit = T.vllmHit /\ V.lmcacheHit = T.lmcacheHit
        /\ V.scheduled = T.scheduled + scheduled[r] /\ V.blocks = more
    <2>1. /\ U \in Tracker /\ U.state = T.state /\ U.stored = T.stored
          /\ U.vllmHit = T.vllmHit /\ U.lmcacheHit = T.lmcacheHit
          /\ U.scheduled = T.scheduled /\ U.blocks = more
      BY <1>2, <1>4 DEF Tracker
    <2> DEFINE n == U.scheduled + scheduled[r]
    <2>2. n \in Nat /\ n = T.scheduled + scheduled[r]
      BY <1>1, <2>1 DEF Tracker
    <2> HIDE DEF U, n
    <2>3. /\ [U EXCEPT !.scheduled = n] \in Tracker
          /\ V = [U EXCEPT !.scheduled = n]
      BY <2>1, <2>2 DEF Tracker, n
    <2> HIDE DEF V
    <2> QED BY <2>1, <2>2, <2>3 DEF Tracker
  <1> HIDE DEF V
  <1> QED BY <1>2, <1>3, <1>5, <1>6

\* The store operation of a step starts where the last ended, ends on a chunk,
\* and ends no further than what is available.
LEMMA StoreOpBounds ==
  ASSUME TypeOK, NEW r \in Request, tracker[r].stored % Chunk = 0
  PROVE  /\ StoreOp(r) \in Op /\ StoreOp(r).end % Chunk = 0
         /\ StoreOp(r) # NoOp =>
               /\ listed[r] # "none"
               /\ StoreOp(r).end <= Available(InStep(r), numTokens[r])
  <1>1. /\ InStep(r) \in Tracker /\ InStep(r).stored = tracker[r].stored
        /\ numTokens[r] \in Nat /\ InStep(r).stored \in Nat
    BY InStepFields DEF TypeOK, Tracker
  <1> DEFINE end == StoreEnd(InStep(r), numTokens[r])
  <1>2. /\ end \in Nat /\ end % Chunk = 0
        /\ end # InStep(r).stored => end <= Available(InStep(r), numTokens[r])
    BY <1>1, StoreEndBounds
  <1>3. 0 % Chunk = 0
    BY ConstantsAssumption
  <1>4. StoreOp(r) = IF listed[r] = "none" \/ end = InStep(r).stored THEN NoOp
                     ELSE [start |-> InStep(r).stored, end |-> end, skip |-> 0]
    BY DEF StoreOp
  <1> HIDE DEF end
  <1> QED BY <1>1, <1>2, <1>3, <1>4 DEF NoOp, Op

\* What the step makes of one request.
LEMMA BuildFields ==
  ASSUME TypeOK, NEW r \in Request, tracker[r].stored % Chunk = 0, BuildConnectorMeta
  PROVE  /\ tracker'[r] \in Tracker
         /\ tracker'[r] = IF StoreOp(r) = NoOp THEN InStep(r)
                          ELSE [InStep(r) EXCEPT !.stored = StoreOp(r).end]
         /\ tracker'[r].state = InStep(r).state
         /\ tracker'[r].scheduled = InStep(r).scheduled
         /\ tracker'[r].stored \in {tracker[r].stored, StoreOp(r).end}
         /\ tracker'[r].vllmHit = InStep(r).vllmHit
         /\ tracker'[r].lmcacheHit = InStep(r).lmcacheHit
         /\ tracker'[r].blocks = InStep(r).blocks
         /\ load'[r] = IF tracker[r].state = "WAITING_FOR_LOAD"
                       THEN RetrieveOp(tracker[r]) ELSE load[r]
         /\ store'[r] = StoreOp(r)
         /\ computed'[r] = computed[r] + scheduled[r]
         /\ vblocks'[r] = BlocksOfStep(r)
         /\ scheduled'[r] = 0 /\ listed'[r] = "none"
  <1> DEFINE T == InStep(r)
             U == [T EXCEPT !.stored = StoreOp(r).end]
  <1>1. T \in Tracker /\ T.stored = tracker[r].stored
    BY InStepFields
  <1>2. StoreOp(r).end \in Nat
    BY StoreOpBounds DEF Op
  <1>3. tracker'[r] = IF StoreOp(r) = NoOp THEN T ELSE U
    BY DEF BuildConnectorMeta
  <1>4. /\ load'[r] = IF tracker[r].state = "WAITING_FOR_LOAD"
                      THEN RetrieveOp(tracker[r]) ELSE load[r]
        /\ store'[r] = StoreOp(r) /\ computed'[r] = computed[r] + scheduled[r]
        /\ vblocks'[r] = BlocksOfStep(r) /\ scheduled'[r] = 0 /\ listed'[r] = "none"
    BY DEF BuildConnectorMeta
  <1> HIDE DEF T
  <1>5. /\ U \in Tracker /\ U.state = T.state /\ U.scheduled = T.scheduled
        /\ U.stored = StoreOp(r).end /\ U.vllmHit = T.vllmHit
        /\ U.lmcacheHit = T.lmcacheHit /\ U.blocks = T.blocks
    BY <1>1, <1>2 DEF Tracker
  <1>6. U = [InStep(r) EXCEPT !.stored = StoreOp(r).end]
    BY DEF T
  <1> HIDE DEF U
  <1> QED BY <1>1, <1>3, <1>4, <1>5, <1>6 DEF T

\* The step keeps the types: blocks only grow, ranges are not negative.
LEMMA BuildConnectorMetaTypes ==
  ASSUME TypeOK, \A r \in Request : OfAny(r), BuildConnectorMeta
  PROVE  TypeOK'
  <1> USE DEF vllmVars, lookupVars, opVars
  <1>1. ASSUME NEW r \in Request
        PROVE  /\ tracker'[r] \in Tracker /\ load'[r] \in Op /\ store'[r] \in Op
               /\ computed'[r] \in Nat /\ vblocks'[r] \in [Group -> Nat]
               /\ saved'[r] \in Nat
    <2>1. /\ tracker[r].stored % Chunk = 0 /\ tracker[r].lmcacheHit % Chunk = 0
          /\ tracker[r] \in Tracker /\ load[r] \in Op /\ saved[r] \in Nat
          /\ computed[r] \in Nat /\ scheduled[r] \in Nat
      BY DEF OfAny, TypeOK
    <2>2. /\ tracker'[r] \in Tracker
          /\ load'[r] = IF tracker[r].state = "WAITING_FOR_LOAD"
                        THEN RetrieveOp(tracker[r]) ELSE load[r]
          /\ store'[r] = StoreOp(r)
          /\ computed'[r] = computed[r] + scheduled[r] /\ vblocks'[r] = BlocksOfStep(r)
      BY <2>1, BuildFields
    <2>3. RetrieveOp(tracker[r]) \in Op /\ StoreOp(r) \in Op
      BY <2>1, RetrieveOpBounds, StoreOpBounds
    <2>4. BlocksOfStep(r) \in [Group -> Nat]
      BY BlocksOfStepGrow
    <2>5. saved'[r] \in Nat
      <3>1. saved'[r] = IF StoreOp(r).start <= saved[r]
                        THEN Larger(saved[r], StoreOp(r).end) ELSE saved[r]
        BY DEF BuildConnectorMeta
      <3> QED BY <2>1, <2>3, <3>1 DEF Larger, Op
    <2> QED BY <2>1, <2>2, <2>3, <2>4, <2>5
  <1>2. /\ tracker' \in [Request -> Tracker] /\ load' \in [Request -> Op]
        /\ store' \in [Request -> Op] /\ computed' \in [Request -> Nat]
        /\ vblocks' \in [Request -> [Group -> Nat]] /\ saved' \in [Request -> Nat]
        /\ scheduled' \in [Request -> Nat]
        /\ listed' \in [Request -> {"none", "new", "cached", "resumed"}]
    <2>1. /\ tracker' = [r \in Request |-> tracker'[r]] /\ load' = [r \in Request |-> load'[r]]
          /\ store' = [r \in Request |-> store'[r]]
          /\ computed' = [r \in Request |-> computed'[r]]
          /\ vblocks' = [r \in Request |-> vblocks'[r]]
          /\ saved' = [r \in Request |-> saved'[r]]
          /\ scheduled' = [r \in Request |-> 0] /\ listed' = [r \in Request |-> "none"]
      BY DEF BuildConnectorMeta
    <2> QED BY <1>1, <2>1
  <1> QED BY <1>2 DEF TypeOK, BuildConnectorMeta

\* The step sends the loads that are waited for, and stores what it leaves computed.
LEMMA BuildConnectorMetaKeeps ==
  ASSUME TypeOK, NEW r \in Request, OfRequest(r), BuildConnectorMeta
  PROVE  OfRequest(r)'
  <1> USE DEF vllmVars, lookupVars, opVars
  <1>1. /\ tracker[r] \in Tracker /\ tracker[r].scheduled \in Nat
        /\ tracker[r].vllmHit \in Nat /\ tracker[r].lmcacheHit \in Nat
        /\ numTokens[r] \in Nat /\ computed[r] \in Nat /\ scheduled[r] \in Nat
        /\ vblocks[r] \in [Group -> Nat] /\ hit[r] \in Nat
    BY DEF TypeOK, Tracker
  <1>2. /\ tracker[r].stored % Chunk = 0 /\ tracker[r].lmcacheHit % Chunk = 0
        /\ load[r].start % Chunk = 0 /\ load[r].end % Chunk = 0 /\ Bookkeeping(r)
    BY DEF OfRequest, OfAny
  <1>3. UNCHANGED <<status, numTokens, local, lookup, hit, locked, freed, spoiled>>
    BY DEF BuildConnectorMeta
  <1>4. /\ tracker'[r] = IF StoreOp(r) = NoOp THEN InStep(r)
                         ELSE [InStep(r) EXCEPT !.stored = StoreOp(r).end]
        /\ tracker'[r].state = InStep(r).state
        /\ tracker'[r].scheduled = InStep(r).scheduled
        /\ tracker'[r].stored \in {tracker[r].stored, StoreOp(r).end}
        /\ tracker'[r].vllmHit = InStep(r).vllmHit
        /\ tracker'[r].lmcacheHit = InStep(r).lmcacheHit
        /\ tracker'[r].blocks = InStep(r).blocks
    BY <1>2, BuildFields
  <1>5. /\ load'[r] = IF tracker[r].state = "WAITING_FOR_LOAD"
                      THEN RetrieveOp(tracker[r]) ELSE load[r]
        /\ store'[r] = StoreOp(r) /\ computed'[r] = computed[r] + scheduled[r]
        /\ vblocks'[r] = BlocksOfStep(r) /\ scheduled'[r] = 0 /\ listed'[r] = "none"
    BY <1>2, BuildFields
  <1>6. /\ InStep(r) \in Tracker
        /\ InStep(r).state = IF tracker[r].state = "WAITING_FOR_LOAD" THEN "READY"
                             ELSE tracker[r].state
        /\ InStep(r).vllmHit = tracker[r].vllmHit
        /\ InStep(r).lmcacheHit = tracker[r].lmcacheHit
        /\ listed[r] = "none" =>
              /\ InStep(r).scheduled = tracker[r].scheduled
              /\ InStep(r).blocks = tracker[r].blocks
              /\ tracker[r].state # "WAITING_FOR_LOAD" => InStep(r) = tracker[r]
        /\ listed[r] # "none" =>
              /\ InStep(r).scheduled = tracker[r].scheduled + scheduled[r]
              /\ InStep(r).blocks = [g \in Group |->
                    tracker[r].blocks[g] + (BlocksOfStep(r)[g] - vblocks[r][g])]
    BY InStepFields
  <1>7. /\ StoreOp(r).end % Chunk = 0
        /\ StoreOp(r) # NoOp =>
              listed[r] # "none" /\ StoreOp(r).end <= Available(InStep(r), numTokens[r])
    BY <1>2, StoreOpBounds
  <1>8. /\ BlocksOfStep(r) \in [Group -> Nat]
        /\ listed[r] = "none" => BlocksOfStep(r) = vblocks[r]
    BY BlocksOfStepGrow
  <1>9. RetrieveOp(tracker[r]).start % Chunk = 0 /\ RetrieveOp(tracker[r]).end % Chunk = 0
    BY <1>1, <1>2, RetrieveOpBounds
  <1>10. /\ listed[r] # "none" => status[r] = "running"
         /\ listed[r] = "none" => scheduled[r] = 0
         /\ status[r] = "finished" => tracker[r] = NoTracker
    BY <1>2 DEF Bookkeeping
  <1>11. OfAny(r)'
    <2>1. Bookkeeping(r)'
      <3>1. status'[r] = "finished" => tracker'[r] = NoTracker
        BY <1>3, <1>4, <1>6, <1>7, <1>10 DEF NoTracker, NewTracker
      <3> QED BY <1>2, <1>3, <1>5, <1>7, <1>10, <3>1 DEF Bookkeeping
    <2> QED BY <1>2, <1>4, <1>5, <1>6, <1>7, <1>9, <2>1 DEF OfAny
  <1>12. ASSUME r \notin spoiled PROVE OfSound(r)'
    <2>1. /\ BeforeAllocation(r) /\ WhileLoading(r) /\ WhileRunning(r)
          /\ WhilePreempted(r) /\ LocksSettled(r)
      BY <1>12 DEF OfRequest, OfSound
    <2>2. CASE status[r] = "running"
      <3>1. /\ lookup[r] = "none" /\ tracker[r].state = "READY"
            /\ tracker[r].blocks = vblocks[r]
            /\ computed[r] + scheduled[r] <= numTokens[r] /\ AtMostOneAhead(r)
        BY <2>1, <2>2 DEF WhileRunning
      <3>2. InStep(r).scheduled = tracker[r].scheduled + scheduled[r]
        BY <1>1, <1>6, <1>10
      <3>3. InStep(r).blocks = BlocksOfStep(r)
        <4>1. CASE listed[r] = "none"
          BY <1>6, <1>8, <3>1, <4>1
        <4>2. CASE listed[r] # "none"
          <5>1. ASSUME NEW g \in Group
                PROVE  vblocks[r][g] + (BlocksOfStep(r)[g] - vblocks[r][g]) = BlocksOfStep(r)[g]
            <6>1. vblocks[r][g] \in Nat /\ BlocksOfStep(r)[g] \in Nat
              BY <1>1, <1>8
            <6> QED BY <6>1
          <5> QED BY <1>6, <1>8, <3>1, <4>2, <5>1
        <4> QED BY <4>1, <4>2
      <3>4. /\ ComputedTokens(InStep(r)) = ComputedTokens(tracker[r]) + scheduled[r]
            /\ ComputedTokens(tracker[r]) \in Nat
        BY <1>1, <1>6, <3>2 DEF ComputedTokens, Larger
      <3>5. ComputedTokens(tracker'[r]) = ComputedTokens(InStep(r))
        BY <1>4 DEF ComputedTokens
      <3>6. WhileRunning(r)'
        <4>1. AtMostOneAhead(r)'
          BY <1>1, <1>3, <1>5, <1>10, <3>1, <3>4, <3>5 DEF AtMostOneAhead
        <4> QED BY <1>1, <1>3, <1>4, <1>5, <1>6, <3>1, <3>3, <4>1 DEF WhileRunning
      <3>7. ASSUME store'[r] # NoOp
            PROVE  /\ store'[r].end <= computed'[r]
                   /\ \A g \in Group : store'[r].end <= vblocks'[r][g] * TokensPerBlock[g]
        <4>1. /\ store'[r].end <= Available(InStep(r), numTokens[r]) /\ listed[r] # "none"
              /\ store'[r].end \in Nat
          BY <1>2, <1>5, <1>7, <3>7, StoreOpBounds DEF Op
        <4>2. /\ Available(InStep(r), numTokens[r]) \in Nat
              /\ Available(InStep(r), numTokens[r]) <= numTokens[r]
              /\ Available(InStep(r), numTokens[r]) <= ComputedTokens(InStep(r))
              /\ \A g \in Group : Available(InStep(r), numTokens[r])
                                     <= InStep(r).blocks[g] * TokensPerBlock[g]
          BY <1>1, <1>6, AvailableIsLeast
        <4>3. store'[r].end <= computed'[r]
          BY <1>1, <1>5, <3>1, <3>4, <4>1, <4>2 DEF AtMostOneAhead
        <4>4. ASSUME NEW g \in Group
              PROVE  store'[r].end <= vblocks'[r][g] * TokensPerBlock[g]
          <5>1. vblocks'[r][g] * TokensPerBlock[g] \in Nat
            BY <1>5, <1>8, ConstantsAssumption
          <5> QED BY <1>5, <3>3, <4>1, <4>2, <5>1
        <4> QED BY <4>3, <4>4
      <3>8. LocksSettled(r)'
        BY <1>3, <1>5, <2>1, <2>2, <3>1 DEF LocksSettled
      <3> QED BY <1>3, <2>2, <3>6, <3>7, <3>8 DEF OfSound, BeforeAllocation, WhileLoading,
                 WhilePreempted
    <2>3. CASE status[r] \in {"loading", "loaded"}
      <3>1. listed[r] = "none" /\ store'[r] = NoOp
        BY <1>5, <1>7, <1>10, <2>3
      <3>2. /\ lookup[r] = "none" /\ freed[r] = tracker[r].vllmHit /\ locked[r] = hit[r]
            /\ tracker[r].vllmHit < hit[r] /\ hit[r] <= numTokens[r]
            /\ tracker[r].lmcacheHit = hit[r] /\ tracker[r].scheduled = 0
            /\ tracker[r].blocks = BlocksFor(hit[r])
            /\ \/ status[r] = "loading" /\ tracker[r].state = "WAITING_FOR_LOAD"
                  /\ load[r] = NoOp
               \/ tracker[r].state = "READY" /\ load[r].end = hit[r]
                  /\ load[r].start = RetrieveStart(tracker[r])
            /\ status[r] = "loaded" =>
                  computed[r] = hit[r] \/ (hit[r] = numTokens[r] /\ computed[r] = hit[r] - 1)
        BY <2>1, <2>3 DEF WhileLoading
      <3>3. load'[r].end = hit[r] /\ load'[r].start = RetrieveStart(tracker[r])
        <4>1. CASE tracker[r].state = "WAITING_FOR_LOAD"
          <5>1. NeedsRetrieve(tracker[r])
            BY <3>2, <4>1 DEF NeedsRetrieve
          <5>2. ASSUME NEW g \in Group
                PROVE  tracker[r].blocks[g] * TokensPerBlock[g] >= tracker[r].lmcacheHit
            <6>1. /\ BlocksFor(hit[r])[g] \in Nat
                  /\ hit[r] <= BlocksFor(hit[r])[g] * TokensPerBlock[g]
              BY <1>1, BlocksForBounds
            <6>2. TokensPerBlock[g] \in Nat
              BY ConstantsAssumption
            <6> QED BY <1>1, <3>2, <6>1, <6>2
          <5> QED BY <1>1, <1>2, <1>5, <3>2, <4>1, <5>1, <5>2, RetrieveOpBounds
        <4>2. CASE tracker[r].state # "WAITING_FOR_LOAD"
          BY <1>5, <3>2, <4>2
        <4> QED BY <4>1, <4>2
      <3>4. /\ tracker'[r].state = "READY" /\ tracker'[r].scheduled = 0
            /\ tracker'[r].vllmHit = tracker[r].vllmHit
            /\ tracker'[r].lmcacheHit = tracker[r].lmcacheHit
            /\ tracker'[r].blocks = tracker[r].blocks
            /\ computed'[r] = computed[r]
        BY <1>1, <1>4, <1>5, <1>6, <1>10, <3>1, <3>2
      <3>5. WhileLoading(r)'
        BY <1>3, <3>2, <3>3, <3>4 DEF WhileLoading, RetrieveStart
      <3> QED BY <1>3, <2>3, <3>1, <3>5 DEF OfSound, BeforeAllocation, WhileRunning,
                 WhilePreempted, LocksSettled
    <2>4. CASE status[r] \notin {"running", "loading", "loaded"}
      <3>1. listed[r] = "none" /\ StoreOp(r) = NoOp
        BY <1>7, <1>10, <2>4
      <3>2. tracker[r].state # "WAITING_FOR_LOAD"
        BY <1>10, <2>1, <2>4 DEF TypeOK, Status, BeforeAllocation, WhilePreempted,
           NoTracker, NewTracker
      <3>3. tracker'[r] = tracker[r] /\ load'[r] = load[r] /\ store'[r] = NoOp
        BY <1>4, <1>5, <1>6, <3>1, <3>2
      <3>4. BeforeAllocation(r)'
        BY <1>3, <2>1, <3>3 DEF BeforeAllocation
      <3>5. WhilePreempted(r)' /\ LocksSettled(r)'
        BY <1>3, <2>1, <3>3 DEF WhilePreempted, LocksSettled
      <3> QED BY <1>3, <2>4, <3>3, <3>4, <3>5 DEF OfSound, WhileLoading, WhileRunning
    <2> QED BY <2>2, <2>3, <2>4
  <1> QED BY <1>3, <1>11, <1>12 DEF OfRequest
-----------------------------------------------------------------------------
(* The inductive invariant.                                                *)

\* The connector starts in the invariant.
LEMMA IInvInit == Init => IInv
  <1> SUFFICES ASSUME Init PROVE IInv
    OBVIOUS
  <1> USE DEF Init
  <1>1. TypeOK
    BY NewTrackerTypes DEF TypeOK, Status, NoBlocks
  <1>2. ASSUME NEW r \in Request PROVE OfRequest(r)
    <2>1. /\ NoTracker.state = "none" /\ NoTracker.stored = 0 /\ NoTracker.lmcacheHit = 0
          /\ NoTracker.vllmHit = 0 /\ NoTracker.scheduled = 0 /\ NoTracker.blocks = NoBlocks
          /\ NoOp.start = 0 /\ NoOp.end = 0 /\ 0 % Chunk = 0
      <3>1. 0 % Chunk = 0
        BY ConstantsAssumption
      <3>2. NoOp.start = 0 /\ NoOp.end = 0
        BY DEF NoOp
      <3>3. /\ NoTracker.state = "none" /\ NoTracker.stored = 0 /\ NoTracker.lmcacheHit = 0
            /\ NoTracker.vllmHit = 0 /\ NoTracker.scheduled = 0 /\ NoTracker.blocks = NoBlocks
        BY DEF NoTracker, NewTracker
      <3> QED BY <3>1, <3>2, <3>3
    <2>2. OfAny(r)
      BY <2>1 DEF OfAny, Bookkeeping
    <2>3. OfSound(r)
      BY <2>1 DEF OfSound, BeforeAllocation, WhileLoading, WhileRunning, WhilePreempted,
         LocksSettled
    <2> QED BY <2>2, <2>3 DEF OfRequest
  <1> QED BY <1>1, <1>2, ByRequest

\* No step leaves the invariant.
LEMMA IInvNext == IInv /\ [Next]_vars => IInv'
  <1> SUFFICES ASSUME IInv, [Next]_vars PROVE IInv'
    OBVIOUS
  <1>1. TypeOK /\ \A r \in Request : OfRequest(r)
    BY ByRequest
  <1>2. (TypeOK /\ \A r \in Request : OfRequest(r))' => IInv'
    BY ByRequest, PTL
  <1>3. ASSUME NEW r \in Request, StepOf(r) PROVE IInv'
    <2>1. TypeOK'
      BY <1>1, <1>3, TypesOfStep DEF OfRequest
    <2>2. OfRequest(r)'
      BY <1>1, <1>3, ArriveKeeps, SubmitLookupKeeps, LookupAnswersKeeps, MatchedKeeps,
         MatchedPreemptedKeeps, AllocationFailsKeeps, AllocateForLoadKeeps, AllocateNewKeeps,
         AllocateLoadedKeeps, LoadFinishedKeeps, LoadFailedKeeps, ScheduleRunningKeeps,
         GenerateKeeps, PreemptKeeps, RequestFinishedKeeps DEF StepOf
    <2>3. ASSUME NEW u \in Request PROVE OfRequest(u)'
      <3>1. CASE u = r
        BY <2>2, <3>1
      <3>2. CASE u # r
        <4>1. Same(u)
          BY <1>1, <1>3, <3>2, Others
        <4> QED BY <1>1, <4>1, Frame
      <3> QED BY <3>1, <3>2
    <2> QED BY <1>2, <2>1, <2>3
  <1>4. CASE BuildConnectorMeta
    <2>1. TypeOK'
      BY <1>1, <1>4, BuildConnectorMetaTypes DEF OfRequest
    <2>2. \A r \in Request : OfRequest(r)'
      BY <1>1, <1>4, BuildConnectorMetaKeeps
    <2> QED BY <1>2, <2>1, <2>2
  <1>5. CASE UNCHANGED vars
    <2>1. TypeOK'
      BY <1>1, <1>5 DEF TypeOK, vars, vllmVars, lookupVars, opVars
    <2>2. ASSUME NEW r \in Request PROVE OfRequest(r)'
      <3>1. Same(r)
        BY <1>5 DEF Same, vars, vllmVars, lookupVars, opVars
      <3> QED BY <1>1, <3>1, Frame
    <2> QED BY <1>2, <2>1, <2>2
  <1> QED BY <1>3, <1>4, <1>5 DEF Next, StepOf

\* The invariant holds of every reachable state.
LEMMA IInvAlways == Spec => []IInv
  BY IInvInit, IInvNext, PTL DEF Spec

-----------------------------------------------------------------------------
(* What the connector promises.                                            *)

\* The variables keep their types: no count, skip or block list goes negative.
THEOREM TypeCorrect == Spec => []TypeOK
  <1>1. IInv => TypeOK
    BY DEF IInv
  <1> QED BY <1>1, IInvAlways, PTL

\* What a tracker counts as stored or hit, and each load, is in whole chunks,
\* also for requests a load of which has failed.
THEOREM WholeChunks == Spec => []ChunkAligned
  <1>1. IInv => ChunkAligned
    BY DEF IInv
  <1> QED BY <1>1, IInvAlways, PTL

\* A step stores only tokens it leaves computed, in blocks the request has.
THEOREM ComputedBeforeStored == Spec => []StoresOnlyComputed
  <1>1. IInv => StoresOnlyComputed
    BY DEF IInv
  <1> QED BY <1>1, IInvAlways, PTL

\* The tracker's blocks are vLLM's, across the two allocations of a load and
\* the fresh blocks of a preempted request.
THEOREM BlocksAgree == Spec => []BlocksTracked
  <1>1. IInv => BlocksTracked
    BY DEF IInv, BlocksTracked, WhileRunning
  <1> QED BY <1>1, IInvAlways, PTL

\* free_lookup_locks and the retrieve give back what the lookup locked, once.
THEOREM LocksBalance == Spec => []LocksGivenBackOnce
  <1>1. ASSUME IInv, NEW r \in Sound, tracker[r].state = "READY"
        PROVE  IF load[r] = NoOp THEN freed[r] = locked[r]
               ELSE /\ load[r].start = RoundDown(freed[r], Chunk)
                    /\ load[r].end = locked[r]
    <2>1. r \in Request /\ OfRequest(r) /\ r \notin spoiled /\ status[r] \in Status
      BY <1>1, ByRequest DEF Sound, TypeOK
    <2>2. BeforeAllocation(r) /\ WhileLoading(r) /\ LocksSettled(r) /\ Bookkeeping(r)
      BY <2>1 DEF OfRequest, OfSound, OfAny
    <2>3. tracker[r] # NoTracker
      BY <1>1 DEF NoTracker, NewTracker
    <2>4. CASE status[r] \in {"running", "preempted", "rematched"}
      BY <2>2, <2>4 DEF LocksSettled
    <2>5. CASE status[r] \in {"loading", "loaded"}
      <3>1. /\ load[r].end = hit[r] /\ load[r].start = RetrieveStart(tracker[r])
            /\ freed[r] = tracker[r].vllmHit /\ locked[r] = hit[r]
            /\ tracker[r].vllmHit < hit[r]
        BY <1>1, <2>2, <2>5 DEF WhileLoading
      <3>2. tracker[r].vllmHit \in Nat /\ hit[r] \in Nat
        BY <1>1, <2>1 DEF IInv, TypeOK, Tracker
      <3>3. load[r] # NoOp
        BY <3>1, <3>2 DEF NoOp
      <3> QED BY <3>1, <3>3 DEF RetrieveStart
    <2>6. CASE status[r] \in {"new", "waiting", "matched", "finished"}
      BY <1>1, <2>2, <2>3, <2>6 DEF BeforeAllocation, Bookkeeping
    <2> QED BY <2>1, <2>4, <2>5, <2>6 DEF Status
  <1>2. IInv => LocksGivenBackOnce
    BY <1>1 DEF LocksGivenBackOnce
  <1> QED BY <1>2, IInvAlways, PTL

\* A request that vLLM holds back for a load has that load coming or under way, as
\* long as no load of it has failed.
THEOREM NoLoadForgotten == Spec => []LoadsAreSent
  <1>1. ASSUME IInv, NEW r \in Sound, status[r] = "loading"
        PROVE  \/ tracker[r].state = "WAITING_FOR_LOAD" /\ RetrieveOp(tracker[r]).end = hit[r]
               \/ load[r].end = hit[r]
    <2>1. /\ r \in Request /\ OfRequest(r) /\ r \notin spoiled
          /\ tracker[r] \in Tracker /\ hit[r] \in Nat
      BY <1>1, ByRequest DEF Sound, TypeOK
    <2>2. /\ tracker[r].vllmHit < hit[r] /\ tracker[r].lmcacheHit = hit[r]
          /\ tracker[r].blocks = BlocksFor(hit[r])
          /\ \/ tracker[r].state = "WAITING_FOR_LOAD"
             \/ load[r].end = hit[r]
      BY <1>1, <2>1 DEF OfRequest, OfSound, WhileLoading
    <2>3. CASE tracker[r].state = "WAITING_FOR_LOAD"
      <3>1. NeedsRetrieve(tracker[r])
        BY <2>2, <2>3 DEF NeedsRetrieve
      <3>2. ASSUME NEW g \in Group
            PROVE  tracker[r].blocks[g] * TokensPerBlock[g] >= tracker[r].lmcacheHit
        <4>1. /\ BlocksFor(hit[r])[g] \in Nat
              /\ hit[r] <= BlocksFor(hit[r])[g] * TokensPerBlock[g]
          BY <2>1, BlocksForBounds
        <4>2. TokensPerBlock[g] \in Nat
          BY ConstantsAssumption
        <4> QED BY <2>1, <2>2, <4>1, <4>2
      <3>3. tracker[r].lmcacheHit % Chunk = 0
        BY <2>1 DEF OfRequest, OfAny
      <3> QED BY <2>1, <2>2, <2>3, <3>1, <3>2, <3>3, RetrieveOpBounds
    <2> QED BY <2>2, <2>3
  <1>2. IInv => LoadsAreSent
    BY <1>1 DEF LoadsAreSent
  <1> QED BY <1>2, IInvAlways, PTL
=============================================================================
