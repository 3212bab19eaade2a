------------------------- MODULE PagedTransferProofs -------------------------
(***************************************************************************)
(* Proofs about TransferPlan and PagedTransfer for every chunk size, every *)
(* block size and window that divide it, every layout of object groups,    *)
(* and operations of any number of chunks in batches of any size.          *)
(***************************************************************************)
EXTENDS PagedTransfer, FiniteSetTheorems, FunctionTheorems, SequenceTheorems, TLAPS

-----------------------------------------------------------------------------
(* Arithmetic.                                                             *)

\* A number is its quotient and its remainder.
LEMMA Division ==
  ASSUME NEW n \in Nat, NEW c \in Nat \ {0}
  PROVE  /\ n \div c \in Nat /\ n % c \in 0 .. (c - 1)
         /\ n = ((n \div c) * c) + (n % c)
  OBVIOUS

\* A product grows with its factor, by the other factor at least.
LEMMA TimesStrict ==
  ASSUME NEW m \in Nat, NEW n \in Nat, NEW c \in Nat, m < n
  PROVE  (m * c) + c <= n * c
  <1>1. (m + 1) * c <= n * c
    OBVIOUS
  <1> QED BY <1>1

\* Quotient and remainder are unique.
LEMMA DivisionUnique ==
  ASSUME NEW q \in Nat, NEW c \in Nat \ {0}, NEW r \in 0 .. (c - 1)
  PROVE  ((q * c) + r) \div c = q /\ ((q * c) + r) % c = r
  <1> DEFINE n == (q * c) + r
  <1>1. n \in Nat
    OBVIOUS
  <1>2. /\ n \div c \in Nat /\ n % c \in 0 .. (c - 1)
        /\ n = ((n \div c) * c) + (n % c)
    BY <1>1, Division
  <1>3. ~(n \div c < q)
    <2> SUFFICES ASSUME n \div c < q PROVE FALSE
      OBVIOUS
    <2>1. ((n \div c) * c) + c <= q * c
      BY <1>2, TimesStrict
    <2>2. q * c \in Nat /\ (n \div c) * c \in Nat
      BY <1>2
    <2> QED BY <1>2, <2>1, <2>2
  <1>4. ~(q < n \div c)
    <2> SUFFICES ASSUME q < n \div c PROVE FALSE
      OBVIOUS
    <2>1. (q * c) + c <= (n \div c) * c
      BY <1>2, TimesStrict
    <2>2. q * c \in Nat /\ (n \div c) * c \in Nat
      BY <1>2
    <2> QED BY <1>2, <2>1, <2>2
  <1>5. n \div c = q
    BY <1>2, <1>3, <1>4
  <1>6. n % c = r
    BY <1>2, <1>5
  <1> QED BY <1>5, <1>6

\* What the skip of a kernel group's blocks amounts to: block j of the kept
\* blocks of chunk c is among the skipped ones exactly when the block it came
\* from is among the first `blocks` blocks (_recalculate_blocks_to_skip).
THEOREM SkipCountsKeptBlocks ==
  ASSUME NEW group, group.chunk \in Nat \ {0}, group.window \in 1 .. group.chunk,
         NEW blocks \in Nat, NEW c \in Nat, NEW j \in 0 .. (group.window - 1)
  PROVE  (c * group.window) + j < BlocksToSkip(group, blocks)
           <=> (c * group.chunk) + (group.chunk - group.window) + j < blocks
  <1> DEFINE n == group.chunk
             w == group.window
             q == blocks \div n
             r == blocks % n
  <1>1. n \in Nat \ {0} /\ w \in 1 .. n /\ j \in 0 .. (w - 1)
    OBVIOUS
  <1>2. q \in Nat /\ r \in 0 .. (n - 1) /\ blocks = (q * n) + r
    BY <1>1, Division
  <1>3. CASE n = w
    BY <1>3 DEF BlocksToSkip
  <1>4. CASE n # w
    <2>1. BlocksToSkip(group, blocks) = (q * w) + AtLeastZero(r - (n - w))
      BY <1>4 DEF BlocksToSkip
    <2> HIDE DEF n, w, q, r
    <2>2. AtLeastZero(r - (n - w)) \in Nat /\ AtLeastZero(r - (n - w)) < w
      BY <1>1, <1>2 DEF AtLeastZero
    <2>3. c * w \in Nat /\ q * w \in Nat /\ c * n \in Nat /\ q * n \in Nat
      BY <1>1, <1>2
    <2>4. CASE c < q
      <3>1. (c * w) + w <= q * w /\ (c * n) + n <= q * n
        BY <1>1, <1>2, <2>4, TimesStrict
      <3>2. (c * w) + j < (q * w) + AtLeastZero(r - (n - w))
        BY <1>1, <2>2, <2>3, <3>1
      <3>3. (c * n) + (n - w) + j < blocks
        BY <1>1, <1>2, <2>3, <3>1
      <3> QED BY <2>1, <3>2, <3>3 DEF n, w
    <2>5. CASE c = q
      <3>1. j < AtLeastZero(r - (n - w)) <=> (n - w) + j < r
        BY <1>1, <1>2 DEF AtLeastZero
      <3>2. c * w = q * w /\ c * n = q * n
        BY <2>5
      <3>3. (c * w) + j < (q * w) + AtLeastZero(r - (n - w))
              <=> (c * n) + (n - w) + j < blocks
        BY <1>1, <1>2, <2>2, <2>3, <3>1, <3>2
      <3> QED BY <2>1, <3>3 DEF n, w
    <2>6. CASE q < c
      <3>1. (q * w) + w <= c * w /\ (q * n) + n <= c * n
        BY <1>1, <1>2, <2>6, TimesStrict
      <3>2. ~((c * w) + j < (q * w) + AtLeastZero(r - (n - w)))
        BY <1>1, <2>2, <2>3, <3>1
      <3>3. ~((c * n) + (n - w) + j < blocks)
        BY <1>1, <1>2, <2>3, <3>1
      <3> QED BY <2>1, <3>2, <3>3 DEF n, w
    <2> QED BY <1>2, <2>4, <2>5, <2>6
  <1> QED BY <1>3, <1>4
-----------------------------------------------------------------------------
(* Geometry.                                                               *)

\* A registered group has whole blocks, and keeps some of every chunk.
LEMMA GeometryFits ==
  ASSUME Configured, phase # "unregistered", NEW k \in KernelGroup
  PROVE  /\ Geometry(k).chunk \in Nat \ {0}
         /\ Geometry(k).window \in 1 .. Geometry(k).chunk
         /\ Geometry(k).tokens \in Nat \ {0}
         /\ Info(k).tokensPerBlock \in Nat \ {0}
  <1> DEFINE t == Info(k).tokensPerBlock
             w == WindowTokens(Info(k))
  <1>1. /\ t \in Nat \ {0} /\ Info(k).slots \in Nat \ {0} /\ Info(k).window \in Int \ {0}
        /\ ChunkTokens \in Nat \ {0}
    BY LayoutsAssumption DEF Configured, Info, KernelGroup
  <1>2. ChunkTokens % t = 0 /\ w % t = 0
    BY DEF Configured, Divides
  <1>3. w \in 1 .. ChunkTokens
    BY <1>1 DEF WindowTokens
  <1>4. /\ EngineGeometry(Info(k)) = [chunk |-> ChunkTokens \div t, window |-> w \div t, tokens |-> Info(k).slots]
        /\ ServerGeometry(Info(k)) = [chunk |-> ChunkTokens \div t, window |-> w \div t, tokens |-> t]
    BY DEF EngineGeometry, ServerGeometry
  <1>5. /\ Geometry(k).chunk = ChunkTokens \div t /\ Geometry(k).window = w \div t
        /\ Geometry(k).tokens \in Nat \ {0}
    BY <1>1, <1>4 DEF Geometry
  <1> HIDE DEF t, w
  <1>6. /\ ChunkTokens \div t \in Nat /\ ChunkTokens = (ChunkTokens \div t) * t
        /\ w \div t \in Nat /\ w = (w \div t) * t
    <2>1. w \in Nat
      BY <1>1, <1>3
    <2>2. \A n \in Nat : n % t = 0 => n \div t \in Nat /\ n = (n \div t) * t
      BY <1>1
    <2> QED BY <1>1, <1>2, <2>1, <2>2
  <1>7. ChunkTokens \div t # 0 /\ w \div t # 0
    <2>1. ChunkTokens \div t = 0 => ChunkTokens = 0
      BY <1>1, <1>6
    <2>2. w \div t = 0 => w = 0
      BY <1>1, <1>6
    <2> QED BY <1>1, <1>3, <2>1, <2>2
  <1>8. w \div t <= ChunkTokens \div t
    <2> SUFFICES ASSUME ChunkTokens \div t < w \div t PROVE FALSE
      BY <1>6
    <2> DEFINE a == ChunkTokens \div t
               b == w \div t
    <2> HIDE DEF a, b
    <2>1. (a * t) + t <= b * t
      BY <1>1, <1>6, TimesStrict DEF a, b
    <2>2. a * t \in Nat /\ b * t \in Nat /\ a * t = ChunkTokens /\ b * t = w
      BY <1>1, <1>3, <1>6 DEF a, b
    <2> QED BY <1>1, <1>3, <2>1, <2>2
  <1> QED BY <1>1, <1>5, <1>6, <1>7, <1>8 DEF t

\* The number of objects that are left out is a natural number.
LEMMA SkippedObjects ==
  ASSUME Configured, NEW g \in DOMAIN ObjectGroups
  PROVE  ObjectsToSkip(chunks, ChunksInWindow(g), TRUE) \in Nat
  <1>1. ChunksInWindow(g) \in Int
    BY LayoutsAssumption DEF Configured, ChunksInWindow, ObjectGroups
  <1> QED BY <1>1 DEF Configured, ObjectsToSkip, AtLeastZero

\* The kernel groups of an object group are groups of the layout, and of no
\* other object group.
LEMMA GroupsDisjoint ==
  ASSUME Configured, NEW g \in DOMAIN ObjectGroups
  PROVE  /\ ObjectGroups[g] \subseteq KernelGroup
         /\ \A h \in DOMAIN ObjectGroups : g # h => ObjectGroups[g] \cap ObjectGroups[h] = {}
  <1>1. CASE path = "server"
    BY <1>1, LayoutsAssumption DEF Configured, ObjectGroups, KernelGroup
  <1>2. CASE path # "server"
    BY <1>2 DEF ObjectGroups, KernelGroup
  <1> QED BY <1>1, <1>2

-----------------------------------------------------------------------------
(* A batch of a retrieve.                                                  *)

\* The blocks the launch of a batch skips, and what they are counted from: in
\* slots, no block behind them lies before the skipped prefix.
LEMMA BlocksBehindSkip ==
  ASSUME NEW n \in Nat \ {0}, NEW t \in Nat \ {0}, NEW s \in Nat, NEW first \in Nat,
         NEW d \in Nat, d >= TokensToSkip(first, n * t, s) \div t
  PROVE  ((first * n) + d + 1) * t > s
  <1> DEFINE f == first * (n * t)
             rest == TokensToSkip(first, n * t, s)
  <1>1. n * t \in Nat /\ f \in Nat /\ first * n \in Nat /\ f = (first * n) * t
    <2>1. n * t \in Nat /\ first * n \in Nat
      OBVIOUS
    <2>2. first * (n * t) = (first * n) * t
      OBVIOUS
    <2> QED BY <2>1, <2>2
  <1>2. rest \in Nat /\ f + rest >= s
    BY <1>1 DEF TokensToSkip, Greater
  <1>3. d >= rest \div t
    OBVIOUS
  <1> HIDE DEF f, rest
  <1>4. /\ rest \div t \in Nat /\ rest % t \in 0 .. (t - 1)
        /\ rest = ((rest \div t) * t) + (rest % t)
    BY <1>2, Division
  <1>5. ((rest \div t) * t) + t <= (d + 1) * t
    BY <1>3, <1>4, TimesStrict
  <1>6. (d + 1) * t > rest
    <2>1. (d + 1) * t \in Nat /\ (rest \div t) * t \in Nat
      BY <1>4
    <2> QED BY <1>2, <1>4, <1>5, <2>1
  <1>7. ((first * n) + d + 1) * t = ((first * n) * t) + ((d + 1) * t)
    BY <1>1
  <1>8. (d + 1) * t \in Nat
    OBVIOUS
  <1> QED BY <1>1, <1>2, <1>6, <1>7, <1>8

\* The kept blocks that are skipped are a natural number of blocks.
LEMMA SkipIsNatural ==
  ASSUME NEW group, group.chunk \in Nat \ {0}, group.window \in 1 .. group.chunk,
         NEW blocks \in Nat
  PROVE  BlocksToSkip(group, blocks) \in Nat
  <1>1. /\ blocks \div group.chunk \in Nat /\ group.window \in Nat
        /\ AtLeastZero((blocks % group.chunk) - (group.chunk - group.window)) \in Nat
    <2> DEFINE n == group.chunk
               w == group.window
    <2>1. n \in Nat \ {0} /\ w \in 1 .. n
      OBVIOUS
    <2> HIDE DEF n, w
    <2>2. blocks \div n \in Nat /\ blocks % n \in Nat
      <3>1. blocks \div n \in Nat /\ blocks % n \in 0 .. (n - 1)
        BY <2>1, Division
      <3> QED BY <2>1, <3>1
    <2>3. w \in Nat /\ AtLeastZero((blocks % n) - (n - w)) \in Nat
      BY <2>1, <2>2 DEF AtLeastZero
    <2> QED BY <2>2, <2>3 DEF n, w
  <1>2. (blocks \div group.chunk) * group.window \in Nat
    BY <1>1
  <1> QED BY <1>1, <1>2 DEF BlocksToSkip

\* A block that in this rank's slots does not lie before the skipped prefix
\* does not lie before it in the scheduler's tokens either (_physical_skip_tokens).
LEMMA SlotsToTokens ==
  ASSUME NEW b \in Nat, NEW t \in Nat \ {0}, NEW u \in Nat \ {0}, NEW s \in Nat,
         (b + 1) * t > (s \div u) * t
  PROVE  (b + 1) * u > s
  <1>1. /\ s \div u \in Nat /\ s % u \in 0 .. (u - 1)
        /\ s = ((s \div u) * u) + (s % u)
    BY Division
  <1>2. s \div u < b + 1
    <2> SUFFICES ASSUME b + 1 <= s \div u PROVE FALSE
      BY <1>1
    <2>1. (b + 1) * t <= (s \div u) * t
      BY <1>1
    <2> QED BY <1>1, <2>1
  <1>3. ((s \div u) * u) + u <= (b + 1) * u
    BY <1>1, <1>2, TimesStrict
  <1>4. (s \div u) * u \in Nat /\ (b + 1) * u \in Nat
    BY <1>1
  <1> QED BY <1>1, <1>3, <1>4

\* Whatever a batch of a retrieve launches is due.
LEMMA MovesAreDue ==
  ASSUME Configured, Loading, phase = "scatter", start < Len(chosen),
         NEW k \in ObjectGroups[grp], NEW m \in Moves(k, TRUE)
  PROVE  m \in DueMoves
  <1> DEFINE n == Geometry(k).chunk
             w == Geometry(k).window
             t == Geometry(k).tokens
             u == Info(k).tokensPerBlock
             len == ThisBatch(TRUE)
             S == SkipTokens(k)
             B == TokensToSkip(start, n * t, S) \div t
             skipped == BlocksToSkip(Geometry(k), B)
             size == BatchSize(TRUE)
             out == ObjectsToSkip(chunks, ChunksInWindow(grp), TRUE)
             l == LaunchOf(k, TRUE)
  <1>0. start >= out
    BY Zenon DEF Loading
  <1> HIDE DEF out, size, l
  <1>1. k \in KernelGroup
    BY GroupsDisjoint DEF Configured
  <1>2. n \in Nat \ {0} /\ w \in 1 .. n /\ t \in Nat \ {0} /\ u \in Nat \ {0}
    BY <1>1, GeometryFits
  <1>3. /\ chunks \in Nat /\ Len(chosen) = chunks /\ \A i \in 1 .. chunks : chosen[i] = i - 1
        /\ start \in Nat /\ start < chunks
    BY DEF Configured, Loading
  <1>4. len \in Nat /\ start + len <= chunks
    <2>1. size \in Nat
      BY <1>3, LayoutsAssumption DEF size, BatchSize, Configured, Path
    <2>2. len = Lesser(size, chunks - start)
      BY <1>3, Zenon DEF ThisBatch, BatchLen, size
    <2> HIDE DEF len
    <2>3. chunks \in Nat /\ start \in Nat /\ start < chunks
      BY <1>3
    <2> QED BY <2>1, <2>2, <2>3 DEF Lesser
  <1>5. S \in Nat
    <2>1. Info(k).slots \in Nat
      BY <1>1, LayoutsAssumption DEF Configured, Info, KernelGroup
    <2>2. skip \in Nat /\ skip \div u \in Nat
      BY <1>2, Division DEF Configured
    <2> HIDE DEF u
    <2>3. (skip \div u) * Info(k).slots \in Nat
      BY <2>1, <2>2
    <2> QED BY <2>2, <2>3 DEF SkipTokens, u
  <1>6. l = [startBlockPos |-> start * w, numBlocks |-> len * w, skipBlocks |-> skipped]
    <2>1. CASE path = "tensor"
      <3>1. start = 0
        BY <1>3, <2>1 DEF Loading
      <3>2. n * t \in Nat /\ TokensToSkip(0, n * t, S) = S
        BY <1>2, <1>5 DEF TokensToSkip, Greater
      <3>3. B = S \div t
        BY <3>1, <3>2
      <3> QED BY <2>1, <3>3 DEF l, LaunchOf, Launch
    <2>2. CASE path # "tensor"
      BY <2>2 DEF l, LaunchOf, Launch, TokensPerChunk
    <2> QED BY <2>1, <2>2
  <1>7. B \in Nat /\ skipped \in Nat
    <2>1. n * t \in Nat /\ start * (n * t) \in Nat
      BY <1>2, <1>3
    <2>2. TokensToSkip(start, n * t, S) \in Nat
      BY <1>3, <1>5, <2>1 DEF TokensToSkip, Greater
    <2>3. B \in Nat
      BY <1>2, <2>2, Division
    <2> QED BY <1>2, <2>3, SkipIsNatural
  <1>8. PICK p \in (start * w + skipped) .. ((start * w) + (len * w) - 1) :
          m = [group |-> k, object |-> ObjectAt(k, p), slot |-> SlotAt(k, p), block |-> Staged(k, p)]
    <2>1. /\ l.startBlockPos = start * w /\ l.numBlocks = len * w /\ l.skipBlocks = skipped
      BY <1>6
    <2>2. \E p \in (l.startBlockPos + l.skipBlocks) .. (l.startBlockPos + l.numBlocks - 1) :
            m = [group |-> k, object |-> ObjectAt(k, p), slot |-> SlotAt(k, p), block |-> Staged(k, p)]
      BY DEF Moves, l
    <2> HIDE DEF n, w, t, u, len, S, B, skipped
    <2> QED BY <2>1, <2>2
  <1> HIDE DEF n, w, t, u, len, S, B, skipped
  <1>9. start * w \in Nat /\ len * w \in Nat /\ (start * w) + (len * w) = (start + len) * w
    BY <1>2, <1>3, <1>4
  <1>10. p \in Nat /\ p >= (start * w) + skipped /\ p < (start + len) * w
    BY <1>7, <1>8, <1>9
  <1> DEFINE c == p \div w
             j == p % w
  <1>11. c \in Nat /\ j \in 0 .. (w - 1) /\ p = (c * w) + j
    BY <1>2, <1>10, Division
  <1> HIDE DEF c, j
  <1>12. c >= start
    <2> SUFFICES ASSUME c < start PROVE FALSE
      BY <1>3, <1>11
    <2>1. (c * w) + w <= start * w
      BY <1>2, <1>3, <1>11, TimesStrict
    <2>2. c * w \in Nat
      BY <1>2, <1>11
    <2> QED BY <1>2, <1>7, <1>9, <1>10, <1>11, <2>1, <2>2
  <1>13. c < chunks
    <2> SUFFICES ASSUME start + len <= c PROVE FALSE
      BY <1>3, <1>4, <1>11
    <2>1. (start + len) * w <= c * w
      BY <1>2, <1>3, <1>4, <1>11
    <2>2. c * w \in Nat /\ (start + len) * w \in Nat
      BY <1>2, <1>3, <1>4, <1>11
    <2> QED BY <1>10, <1>11, <2>1, <2>2
  <1> DEFINE e == c - start
             d == (e * n) + (n - w) + j
  <1>14. e \in Nat /\ c = start + e
    BY <1>3, <1>11, <1>12
  <1>15. (c * w) = (start * w) + (e * w) /\ (c * n) = (start * n) + (e * n)
    BY <1>2, <1>3, <1>14
  <1> HIDE DEF e
  <1>16. d \in Nat /\ d >= B
    <2>1. e * n \in Nat /\ e * w \in Nat
      BY <1>2, <1>14
    <2>2. ~((e * w) + j < skipped)
      BY <1>7, <1>9, <1>10, <1>11, <1>15, <2>1
    <2>3. ~(d < B)
      BY <1>2, <1>7, <1>11, <1>14, <2>2, SkipCountsKeptBlocks DEF n, w, skipped
    <2>4. d \in Nat
      BY <1>2, <1>11, <2>1
    <2> QED BY <1>7, <2>3, <2>4
  <1>17. m.group = k /\ m.object = c /\ m.slot = j /\ m.block = (c * n) + ((n - w) + j)
    <2>1. chosen[c + 1] = c
      BY <1>3, <1>11, <1>13
    <2>2. Staged(k, p) = (c * n) + (n - w) + j
      BY <2>1 DEF Staged, c, j, n, w
    <2>3. ObjectAt(k, p) = c /\ SlotAt(k, p) = j
      BY <2>1 DEF ObjectAt, SlotAt, c, j, w
    <2>4. c * n \in Nat
      BY <1>2, <1>11
    <2>5. (c * n) + (n - w) + j = (c * n) + ((n - w) + j)
      BY <1>2, <1>11, <2>4
    <2> QED BY <1>8, <2>2, <2>3, <2>5
  <1>18. /\ m.block \in Nat /\ m.block \div n = c /\ m.block % n = (n - w) + j
    <2>1. (n - w) + j \in 0 .. (n - 1)
      BY <1>2, <1>11
    <2>2. c * n \in Nat
      BY <1>2, <1>11
    <2> DEFINE r == (n - w) + j
    <2>3. m.block = (c * n) + r /\ r \in 0 .. (n - 1)
      BY <1>17, <2>1
    <2> HIDE DEF r
    <2>4. ((c * n) + r) \div n = c /\ ((c * n) + r) % n = r
      BY <1>2, <1>11, <2>3, DivisionUnique
    <2>5. (c * n) + r \in Nat
      BY <2>2, <2>3
    <2>6. m.block \in Nat /\ m.block \div n = c /\ m.block % n = r
      BY <2>3, <2>4, <2>5
    <2> QED BY <2>6 DEF r
  <1>19. (m.block + 1) * t > S
    <2>1. m.block = (start * n) + d
      <3> DEFINE x == start * n
                 y == e * n
      <3>1. x \in Nat /\ y \in Nat
        BY <1>2, <1>3, <1>14
      <3>2. c * n = x + y
        BY <1>15
      <3>3. m.block = (x + y) + ((n - w) + j)
        BY <1>17, <3>2
      <3>4. d = y + (n - w) + j
        OBVIOUS
      <3> HIDE DEF x, y, d
      <3>5. (x + y) + ((n - w) + j) = x + (y + (n - w) + j)
        BY <1>2, <1>11, <3>1
      <3>6. m.block = x + d
        BY <3>3, <3>4, <3>5
      <3> QED BY <3>6 DEF x
    <2> HIDE DEF d
    <2>2. ((start * n) + d + 1) * t > S
      BY <1>2, <1>3, <1>5, <1>16, BlocksBehindSkip DEF B
    <2> QED BY <2>1, <2>2
  <1>20. (m.block + 1) * u > skip
    <2>1. CASE path = "server"
      <3>1. t = u /\ S = skip
        BY <2>1 DEF t, u, S, Geometry, ServerGeometry, EngineGeometry, SkipTokens
      <3> QED BY <1>19, <3>1
    <2>2. CASE path # "server"
      <3>1. t = Info(k).slots /\ S = (skip \div u) * t
        BY <2>2 DEF t, u, S, Geometry, EngineGeometry, SkipTokens
      <3>2. (m.block + 1) * t > (skip \div u) * t
        BY <1>19, <3>1
      <3>3. skip \in Nat
        BY DEF Configured
      <3> QED BY <1>2, <1>18, <3>2, <3>3, SlotsToTokens
    <2> QED BY <2>1, <2>2
  <1>21. Due(grp, k, m.block)
    <2>1. c >= out
      <3>1. out \in Nat
        BY SkippedObjects DEF Configured, out
      <3> QED BY <1>0, <1>3, <1>11, <1>12, <3>1
    <2>2. m.block % n >= n - w
      BY <1>2, <1>11, <1>18
    <2> QED BY <1>18, <1>20, <2>1, <2>2 DEF Due, n, w, u, out
  <1>22. \A g \in DOMAIN ObjectGroups : m.group \in ObjectGroups[g] => Due(g, m.group, m.block)
    <2>1. \A g \in DOMAIN ObjectGroups : k \in ObjectGroups[g] => g = grp
      BY GroupsDisjoint DEF Configured
    <2> QED BY <1>17, <1>21, <2>1
  <1>23. m \in [group : KernelGroup, object : Nat, slot : Nat, block : Nat]
    BY <1>1, <1>2, <1>8, <1>11, <1>17, <1>18
  <1> QED BY <1>22, <1>23 DEF DueMoves

-----------------------------------------------------------------------------
(* The inductive invariant.                                                *)

\* A batch ends behind its beginning.
LEMMA BatchAdvances ==
  ASSUME Configured, Loading, phase = "scatter", start < Len(chosen)
  PROVE  /\ Len(chosen) = chunks
         /\ start + ThisBatch(TRUE) \in Nat /\ start + ThisBatch(TRUE) >= start
         /\ path = "tensor" => start + ThisBatch(TRUE) >= chunks
  <1> DEFINE size == BatchSize(TRUE)
             len == ThisBatch(TRUE)
  <1>1. chunks \in Nat /\ Len(chosen) = chunks /\ start \in Nat /\ start < chunks
    BY DEF Configured, Loading
  <1>2. size \in Nat /\ (path = "tensor" => size = chunks)
    BY <1>1, LayoutsAssumption DEF BatchSize, Configured, Path
  <1> HIDE DEF size
  <1>3. len = Lesser(size, chunks - start)
    BY <1>1, Zenon DEF ThisBatch, BatchLen, size
  <1> HIDE DEF len
  <1>4. path = "tensor" => start = 0
    BY <1>1 DEF Loading
  <1>5. len \in Nat /\ (path = "tensor" => start + len >= chunks)
    BY <1>1, <1>2, <1>3, <1>4 DEF Lesser
  <1>6. start + len \in Nat /\ start + len >= start
    BY <1>1, <1>5
  <1> QED BY <1>1, <1>5, <1>6 DEF len

\* A state the operation's phase, group and retrieved blocks agree with keeps
\* what Configured says.
LEMMA ConfiguredStays ==
  ASSUME Configured, UNCHANGED registered, grp' \in DOMAIN ObjectGroups,
         chunks' \in Nat, skip' \in Nat, phase # "unregistered"
  PROVE  Configured'
  <1>1. ObjectGroups' = ObjectGroups /\ KernelGroup' = KernelGroup
    BY DEF registered, ObjectGroups, KernelGroup
  <1>2. \A k \in KernelGroup : Divides(Info(k)) <=> Divides(Info(k))'
    BY <1>1 DEF registered, Divides, WindowTokens, Info
  <1> QED BY <1>1, <1>2 DEF Configured, registered

\* What is due depends on the layout, the chunks and the skipped prefix.
LEMMA DueStays ==
  ASSUME UNCHANGED <<registered, chunks, skip>>
  PROVE  /\ ObjectGroups' = ObjectGroups /\ KernelGroup' = KernelGroup
         /\ \A g, k, b : Due(g, k, b)' <=> Due(g, k, b)
         /\ DueMoves' = DueMoves
  <1>1. ObjectGroups' = ObjectGroups /\ KernelGroup' = KernelGroup
    BY DEF registered, ObjectGroups, KernelGroup
  <1>2. \A g, k, b : Due(g, k, b)' <=> Due(g, k, b)
    BY DEF registered, Due, ChunksInWindow, Geometry, ServerGeometry, EngineGeometry,
           WindowTokens, Info, ObjectsToSkip
  <1> QED BY <1>1, <1>2 DEF DueMoves

\* A group that is entered begins behind the objects that are left out.
LEMMA EnteredBehindSkip ==
  ASSUME Configured, NEW g \in DOMAIN ObjectGroups,
         NEW s, s = ObjectsToSkip(chunks, ChunksInWindow(g), TRUE)
  PROVE  /\ s \in Nat
         /\ path = "tensor" => s = 0
  <1>1. s \in Nat
    BY SkippedObjects
  <1>2. path = "tensor" => ChunksInWindow(g) = -1
    BY DEF ChunksInWindow
  <1>3. ChunksInWindow(g) = -1 => s = 0
    BY DEF ObjectsToSkip
  <1> QED BY <1>1, <1>2, <1>3

\* Nothing is loaded while nothing is retrieved.
LEMMA NotLoading ==
  ASSUME phase' \notin {"scatter", "retrieved"}
  PROVE  Loading' /\ SharedBlocksUntouched'
  BY DEF Loading, SharedBlocksUntouched

\* Every step of a registration or of a store keeps the invariant.
LEMMA StoreSteps ==
  ASSUME IInv,
         \/ Register
         \/ \E n \in 1 .. MaxChunks : BeginStore(n)
         \/ \E granted \in SUBSET (0 .. (chunks - 1)) : Reserve(granted)
         \/ Gather \/ RunGather \/ EndGather
  PROVE  IInv'
  <1>1. CASE Register
    <2>1. Configured'
      BY <1>1 DEF IInv, Configured, Register, registered, ObjectGroups, KernelGroup, Divides,
                  WindowTokens, Info
    <2>2. AtRest'
      BY <1>1 DEF Register, AtRest
    <2>3. phase' = "idle"
      BY <1>1 DEF Register
    <2> QED BY <2>1, <2>2, <2>3, NotLoading DEF IInv
  <1>2. ASSUME NEW n \in 1 .. MaxChunks, BeginStore(n) PROVE IInv'
    <2>1. Configured'
      <3>1. phase # "unregistered" /\ UNCHANGED <<registered, grp, skip>> /\ chunks' = n
        BY <1>2 DEF BeginStore
      <3>2. n \in Nat
        BY LayoutsAssumption
      <3> QED BY <3>1, <3>2, ConfiguredStays DEF IInv, Configured
    <2>2. AtRest' /\ phase' = "reserve"
      BY <1>2 DEF BeginStore, AtRest
    <2> QED BY <2>1, <2>2, NotLoading DEF IInv
  <1>3. ASSUME NEW granted, Reserve(granted) PROVE IInv'
    <2>1. Configured'
      <3>1. phase # "unregistered" /\ UNCHANGED <<registered, grp, skip, chunks>>
        BY <1>3 DEF Reserve
      <3> QED BY <3>1, ConfiguredStays DEF IInv, Configured
    <2>2. AtRest' /\ phase' = "gather"
      BY <1>3 DEF Reserve, AtRest
    <2> QED BY <2>1, <2>2, NotLoading DEF IInv
  <1>4. CASE Gather
    <2>1. phase = "gather" /\ UNCHANGED <<registered, grp, skip, chunks, phase>>
      BY <1>4, Zenon DEF Gather, EnqueueBatch
    <2>2. Configured'
      BY <2>1, ConfiguredStays DEF IInv, Configured
    <2>3. AtRest'
      BY <2>1 DEF AtRest
    <2> QED BY <2>1, <2>2, <2>3, NotLoading DEF IInv
  <1>5. CASE RunGather
    <2>1. phase \in {"reserve", "gather"} /\ UNCHANGED <<registered, grp, skip, chunks, phase>>
      BY <1>5, Zenon DEF RunGather
    <2>2. Configured'
      BY <2>1, ConfiguredStays DEF IInv, Configured
    <2>3. AtRest'
      BY <2>1 DEF AtRest
    <2> QED BY <2>1, <2>2, <2>3, NotLoading DEF IInv
  <1>6. CASE EndGather
    <2>1. /\ phase = "gather" /\ UNCHANGED <<registered, skip, chunks, stream>>
          /\ phase' = IF LastGroup THEN "stored" ELSE "reserve"
          /\ grp' = IF LastGroup THEN 1 ELSE grp + 1
          /\ LastGroup => stream = <<>>
      BY <1>6 DEF EndGather, MayGoOn
    <2>2. 1 \in DOMAIN ObjectGroups
      BY LayoutsAssumption DEF IInv, Configured, ObjectGroups, KernelGroup
    <2>3. grp' \in DOMAIN ObjectGroups
      BY <2>1, <2>2 DEF LastGroup
    <2>4. Configured'
      BY <2>1, <2>3, ConfiguredStays DEF IInv, Configured
    <2>5. AtRest'
      BY <2>1 DEF AtRest
    <2>6. phase' \notin {"scatter", "retrieved"}
      BY <2>1
    <2> QED BY <2>4, <2>5, <2>6, NotLoading DEF IInv
  <1> QED BY <1>1, <1>2, <1>3, <1>4, <1>5, <1>6

\* The beginning of a retrieve keeps the invariant: its blocks are untouched.
LEMMA BeginRetrieveKeeps ==
  ASSUME IInv, NEW s \in 0 .. (chunks * ChunkTokens), BeginRetrieve(s)
  PROVE  IInv'
  <1>1. /\ phase \in {"stored", "retrieved"} /\ phase' = "scatter" /\ skip' = s
        /\ chosen' = [i \in 1 .. chunks |-> i - 1] /\ dest' = Untouched
        /\ start' = ObjectsToSkip(chunks, ChunksInWindow(1), TRUE)
        /\ UNCHANGED <<registered, chunks, grp, stream>>
    BY Zenon DEF BeginRetrieve, EnterGroup
  <1>2. stream = <<>> /\ grp = 1
    BY <1>1 DEF IInv, AtRest
  <1>3. Configured'
    BY <1>1, ConfiguredStays DEF IInv, Configured
  <1>4. AtRest'
    BY <1>1 DEF AtRest
  <1>5. /\ start' \in Nat /\ (path = "tensor" => start' = 0)
        /\ start' = ObjectsToSkip(chunks, ChunksInWindow(grp), TRUE)'
    <2>1. grp \in DOMAIN ObjectGroups
      BY DEF IInv, Configured
    <2>2. ObjectsToSkip(chunks, ChunksInWindow(grp), TRUE)' = ObjectsToSkip(chunks, ChunksInWindow(1), TRUE)
      BY <1>1, <1>2, Zenon DEF ChunksInWindow, registered, ObjectsToSkip
    <2>3. start' = ObjectsToSkip(chunks, ChunksInWindow(grp), TRUE)
      BY <1>1, <1>2, Zenon
    <2> QED BY <1>1, <2>1, <2>2, <2>3, EnteredBehindSkip, Zenon DEF IInv
  <1>6. Loading'
    <2>1. stream' = <<>> /\ <<>> \in Seq(SUBSET DueMoves')
      BY <1>1, <1>2
    <2> DEFINE out == ObjectsToSkip(chunks, ChunksInWindow(grp), TRUE)
    <2>2. start' \in Nat /\ start' = out'
      BY <1>5
    <2> HIDE DEF out
    <2>3. start' \in Nat /\ start' >= out'
      BY <2>2
    <2>4. path' = path /\ chunks' = chunks
      BY <1>1 DEF registered
    <2> QED BY <1>1, <1>5, <2>1, <2>3, <2>4, Zenon DEF Loading, out
  <1>7. SharedBlocksUntouched'
    <2>1. \A k \in KernelGroup' : \A b \in DOMAIN dest'[k] : dest'[k][b] = Nothing
      BY <1>1 DEF Untouched, registered, KernelGroup
    <2>2. \A g \in DOMAIN ObjectGroups' : ObjectGroups'[g] \subseteq KernelGroup'
      BY <1>1, GroupsDisjoint DEF IInv, registered, KernelGroup, ObjectGroups
    <2> QED BY <2>1, <2>2 DEF SharedBlocksUntouched
  <1> QED BY <1>3, <1>4, <1>6, <1>7 DEF IInv

\* A batch of a retrieve launches what is due, and leaves the blocks alone.
LEMMA ScatterKeeps ==
  ASSUME IInv, Scatter
  PROVE  IInv'
  <1> DEFINE launched == UNION {Moves(k, TRUE) : k \in ObjectGroups[grp]}
             next == start + ThisBatch(TRUE)
             out == ObjectsToSkip(chunks, ChunksInWindow(grp), TRUE)
  <1>1. /\ phase = "scatter" /\ start < Len(chosen) /\ start' = next
        /\ stream' = stream \/ stream' = Append(stream, launched)
        /\ UNCHANGED <<registered, phase, chunks, skip, grp, chosen, memory>>
    BY Zenon DEF Scatter, EnqueueBatch
  <1>2. Configured /\ Loading
    BY DEF IInv
  <1>3. launched \in SUBSET DueMoves
    BY <1>1, <1>2, MovesAreDue
  <1>4. next \in Nat /\ next >= start /\ (path = "tensor" => next >= chunks)
    BY <1>1, <1>2, BatchAdvances
  <1>5. out \in Nat /\ start \in Nat /\ start >= out
    <2>1. out \in Nat
      BY <1>2, SkippedObjects DEF Configured
    <2>2. start \in Nat /\ start >= out
      BY <1>1, <1>2, Zenon DEF Loading
    <2> QED BY <2>1, <2>2
  <1>6. out' = out
    BY <1>1, Zenon DEF ChunksInWindow, registered, ObjectsToSkip
  <1> HIDE DEF launched, next, out
  <1>7. start' \in Nat /\ start' >= out'
    BY <1>1, <1>4, <1>5, <1>6
  <1>8. stream' \in Seq(SUBSET DueMoves')
    <2>1. DueMoves' = DueMoves
      BY <1>1, DueStays
    <2>2. stream \in Seq(SUBSET DueMoves)
      BY <1>1, <1>2, Zenon DEF Loading
    <2>3. Append(stream, launched) \in Seq(SUBSET DueMoves)
      BY <1>3, <2>2, AppendProperties
    <2> QED BY <1>1, <2>1, <2>2, <2>3
  <1>9. Loading'
    <2>1. path' = path /\ chunks' = chunks /\ chosen' = chosen /\ (path = "tensor" => start' >= chunks)
      BY <1>1, <1>4 DEF registered
    <2>2. chosen = [i \in 1 .. chunks |-> i - 1]
      BY <1>1, <1>2, Zenon DEF Loading
    <2> QED BY <1>7, <1>8, <2>1, <2>2, Zenon DEF Loading, out
  <1>10. Configured'
    BY <1>1, <1>2, ConfiguredStays DEF Configured
  <1>11. AtRest'
    BY <1>1 DEF AtRest
  <1>12. SharedBlocksUntouched'
    BY <1>1, DueStays DEF IInv, SharedBlocksUntouched, memory
  <1> QED BY <1>9, <1>10, <1>11, <1>12 DEF IInv

\* A launch that runs writes the blocks of its moves, which are due.
LEMMA RunScatterKeeps ==
  ASSUME IInv, RunScatter
  PROVE  IInv'
  <1>1. /\ phase = "scatter" /\ stream # <<>> /\ stream' = Tail(stream)
        /\ UNCHANGED <<registered, phase, chunks, skip, grp, chosen, start>>
    BY Zenon DEF RunScatter
  <1>2. dest' = [k \in KernelGroup |-> [b \in DOMAIN dest[k] |->
                   IF \E m \in Head(stream) : m.group = k /\ m.block = b
                     THEN Source(CHOOSE m \in Head(stream) : m.group = k /\ m.block = b)
                     ELSE dest[k][b]]]
    BY Zenon DEF RunScatter
  <1>3. Configured /\ Loading
    BY DEF IInv
  <1>4. stream \in Seq(SUBSET DueMoves)
    BY <1>1, <1>3, Zenon DEF Loading
  <1>5. Head(stream) \in SUBSET DueMoves /\ Tail(stream) \in Seq(SUBSET DueMoves)
    BY <1>1, <1>4, HeadTailProperties
  <1>6. DueMoves' = DueMoves
    BY <1>1, DueStays
  <1>7. Loading'
    <2>1. path' = path /\ stream' \in Seq(SUBSET DueMoves')
      BY <1>1, <1>5, <1>6 DEF registered
    <2>2. ObjectsToSkip(chunks, ChunksInWindow(grp), TRUE)' = ObjectsToSkip(chunks, ChunksInWindow(grp), TRUE)
      BY <1>1, Zenon DEF ChunksInWindow, registered, ObjectsToSkip
    <2> QED BY <1>1, <1>3, <2>1, <2>2, Zenon DEF Loading
  <1>8. Configured'
    BY <1>1, <1>3, ConfiguredStays DEF Configured
  <1>9. AtRest'
    BY <1>1 DEF AtRest
  <1>10. SharedBlocksUntouched'
    <2> SUFFICES ASSUME NEW g \in DOMAIN ObjectGroups, NEW k \in ObjectGroups[g],
                        NEW b \in DOMAIN dest'[k], dest'[k][b] # Nothing
                 PROVE  Due(g, k, b)
      BY <1>1, DueStays DEF SharedBlocksUntouched
    <2>1. k \in KernelGroup
      BY <1>3, GroupsDisjoint
    <2>2. /\ b \in DOMAIN dest[k]
          /\ dest'[k][b] = IF \E m \in Head(stream) : m.group = k /\ m.block = b
                             THEN Source(CHOOSE m \in Head(stream) : m.group = k /\ m.block = b)
                             ELSE dest[k][b]
      BY <1>2, <2>1, Zenon
    <2>3. CASE \E m \in Head(stream) : m.group = k /\ m.block = b
      <3>1. PICK m \in Head(stream) : m.group = k /\ m.block = b
        BY <2>3
      <3>2. m \in DueMoves
        BY <1>5
      <3>3. Due(g, m.group, m.block)
        BY <3>1, <3>2, Zenon DEF DueMoves
      <3> QED BY <3>1, <3>3
    <2>4. CASE ~(\E m \in Head(stream) : m.group = k /\ m.block = b)
      <3>1. dest[k][b] # Nothing
        BY <2>2, <2>4
      <3> QED BY <1>1, <2>2, <3>1 DEF IInv, SharedBlocksUntouched
    <2> QED BY <2>3, <2>4
  <1> QED BY <1>7, <1>8, <1>9, <1>10 DEF IInv

\* The end of a group's batches enters the next group, or ends the retrieve.
LEMMA EndScatterKeeps ==
  ASSUME IInv, EndScatter
  PROVE  IInv'
  <1>1. /\ phase = "scatter" /\ MayGoOn
        /\ phase' = IF LastGroup THEN "retrieved" ELSE "scatter"
        /\ grp' = IF LastGroup THEN 1 ELSE grp + 1
        /\ ~LastGroup => start' = ObjectsToSkip(chunks, ChunksInWindow(grp + 1), TRUE)
        /\ UNCHANGED <<registered, chunks, skip, chosen, memory, stream>>
    BY Zenon DEF EndScatter, EnterGroup
  <1>2. Configured /\ Loading
    BY DEF IInv
  <1>3. 1 \in DOMAIN ObjectGroups
    BY <1>2, LayoutsAssumption DEF Configured, ObjectGroups, KernelGroup
  <1>4. grp' \in DOMAIN ObjectGroups
    BY <1>1, <1>3 DEF LastGroup
  <1>5. Configured'
    BY <1>1, <1>2, <1>4, ConfiguredStays DEF Configured
  <1>6. AtRest'
    BY <1>1 DEF AtRest, MayGoOn
  <1>7. Loading'
    <2> SUFFICES ASSUME ~LastGroup PROVE Loading'
      BY <1>1 DEF Loading
    <2> DEFINE out == ObjectsToSkip(chunks, ChunksInWindow(grp), TRUE)
    <2>1. grp + 1 \in DOMAIN ObjectGroups
      BY DEF LastGroup
    <2>2. out' = ObjectsToSkip(chunks, ChunksInWindow(grp + 1), TRUE)
      BY <1>1, Zenon DEF ChunksInWindow, registered, ObjectsToSkip
    <2>3. start' = ObjectsToSkip(chunks, ChunksInWindow(grp + 1), TRUE)
      BY <1>1
    <2>4. start' \in Nat /\ (path = "tensor" => start' = 0)
      <3>1. \A g \in DOMAIN ObjectGroups : \A s : s = ObjectsToSkip(chunks, ChunksInWindow(g), TRUE)
              => s \in Nat /\ (path = "tensor" => s = 0)
        BY <1>2, EnteredBehindSkip, Zenon
      <3>2. \A s : s = ObjectsToSkip(chunks, ChunksInWindow(grp + 1), TRUE)
              => s \in Nat /\ (path = "tensor" => s = 0)
        BY <2>1, <3>1, Zenon
      <3> QED BY <2>3, <3>2, Zenon
    <2>5. start' = out'
      BY <2>2, <2>3, Zenon
    <2> HIDE DEF out
    <2>6. start' >= out'
      BY <2>4, <2>5
    <2>7. path' = path /\ DueMoves' = DueMoves
      BY <1>1, DueStays DEF registered
    <2> QED BY <1>1, <1>2, <2>4, <2>6, <2>7, Zenon DEF Loading, out
  <1>8. SharedBlocksUntouched'
    BY <1>1, DueStays DEF IInv, SharedBlocksUntouched, memory
  <1> QED BY <1>5, <1>6, <1>7, <1>8 DEF IInv

\* Every step keeps the invariant.
LEMMA IInvKept ==
  ASSUME IInv, [Next]_vars
  PROVE  IInv'
  <1>1. CASE Next
    <2>1. CASE \/ Register
               \/ \E n \in 1 .. MaxChunks : BeginStore(n)
               \/ \E granted \in SUBSET (0 .. (chunks - 1)) : Reserve(granted)
               \/ Gather \/ RunGather \/ EndGather
      BY <2>1, StoreSteps
    <2>2. CASE \E s \in 0 .. (chunks * ChunkTokens) : BeginRetrieve(s)
      BY <2>2, BeginRetrieveKeeps
    <2>3. CASE Scatter
      BY <2>3, ScatterKeeps
    <2>4. CASE RunScatter
      BY <2>4, RunScatterKeeps
    <2>5. CASE EndScatter
      BY <2>5, EndScatterKeeps
    <2> QED BY <1>1, <2>1, <2>2, <2>3, <2>4, <2>5, Zenon DEF Next
  <1>2. CASE UNCHANGED vars
    <2>1. UNCHANGED <<registered, phase, chunks, skip, grp, chosen, start, memory, stream>>
      BY <1>2, Zenon DEF vars
    <2>2. Configured'
      BY <2>1 DEF IInv, Configured, registered, ObjectGroups, KernelGroup, Divides, WindowTokens, Info
    <2>3. AtRest'
      BY <2>1 DEF IInv, AtRest
    <2>4. Loading'
      <3>1. ObjectsToSkip(chunks, ChunksInWindow(grp), TRUE)' = ObjectsToSkip(chunks, ChunksInWindow(grp), TRUE)
        BY <2>1, Zenon DEF ChunksInWindow, registered, ObjectsToSkip
      <3>2. DueMoves' = DueMoves /\ path' = path
        BY <2>1, DueStays DEF registered
      <3> QED BY <2>1, <3>1, <3>2, Zenon DEF IInv, Loading
    <2>5. SharedBlocksUntouched'
      BY <2>1, DueStays DEF IInv, SharedBlocksUntouched, memory
    <2> QED BY <2>2, <2>3, <2>4, <2>5 DEF IInv
  <1> QED BY <1>1, <1>2

\* The initial states satisfy it.
LEMMA IInvBegins ==
  ASSUME Init
  PROVE  IInv
  <1>1. Configured
    BY LayoutsAssumption DEF Init, Configured, ObjectGroups, KernelGroup
  <1> QED BY <1>1 DEF Init, IInv, AtRest, Loading, SharedBlocksUntouched

\* On every path, for every layout, batch size and skipped prefix, a retrieve
\* writes no block of the skipped prefix, none in front of the sliding window
\* and none a chunk does not keep, however its launches are delayed.
THEOREM SharedUntouched == Spec => []SharedBlocksUntouched
  <1>1. Init => IInv
    BY IInvBegins
  <1>2. IInv /\ [Next]_vars => IInv'
    BY IInvKept
  <1>3. IInv => SharedBlocksUntouched
    BY DEF IInv
  <1> QED BY <1>1, <1>2, <1>3, PTL DEF Spec

-----------------------------------------------------------------------------
(* What a store publishes and a retrieve restores: the invariant.          *)

\* The block the kept block j of chunk o comes from.
BlockOf(k, o, j) == (o * Geometry(k).chunk) + (Geometry(k).chunk - Geometry(k).window) + j

\* A move between an object and the block it came from.
RightMoves ==
    {m \in [group : KernelGroup, object : 0 .. (chunks - 1), slot : Nat, block : Nat] :
        m.slot \in Slots(m.group) /\ m.block = BlockOf(m.group, m.object, m.slot)}

\* An operation has at most MaxChunks chunks, and chooses among them; whatever
\* it has launched moves blocks between their own objects.
Sized ==
    /\ phase \in Phase /\ chunks \in 0 .. MaxChunks /\ start \in Nat
    /\ reserved \subseteq 0 .. (chunks - 1) /\ chosen \in Seq(0 .. (chunks - 1))
    /\ phase \in {"unregistered", "idle"} =>
         chunks = 0 /\ stream = <<>> /\ chosen = <<>> /\ reserved = {}
    /\ stream \in Seq(SUBSET RightMoves)

\* The server stages every chunk, a worker the chunks it was granted.
Granted ==
    phase = "gather" =>
        IF path = "server" THEN chosen = [i \in 1 .. chunks |-> i - 1]
        ELSE \A i \in DOMAIN chosen : chosen[i] \in reserved

\* What a slot holds: nothing yet, or the content of a block.
Content == {Nothing} \cup (KernelGroup \X Nat)

\* Every kernel group has an object for every chunk, with its kept blocks.
Shape ==
    phase \notin {"unregistered", "idle"} =>
        \A k \in KernelGroup : kept[k] \in [0 .. (chunks - 1) -> [Slots(k) -> Content]]

\* A launch that has not run fills the slot.
Pending(k, o, j) ==
    \E i \in DOMAIN stream : \E m \in stream[i] : m.group = k /\ m.object = o /\ m.slot = j

\* The object is in a batch that has not been launched.
ToCome(k, o) ==
    /\ phase = "gather" /\ k \in ObjectGroups[grp] /\ o \in reserved
    /\ \E i \in DOMAIN chosen : i > start /\ chosen[i] = o

\* A slot has the content of its block unless the block is still to be gathered.
Gathered ==
    phase \notin {"unregistered", "idle"} =>
        \A k \in KernelGroup : \A o \in 0 .. (chunks - 1) : \A j \in Slots(k) :
            \/ kept[k][o][j] = <<k, BlockOf(k, o, j)>>
            \/ phase \in {"reserve", "gather"} /\ Pending(k, o, j)
            \/ ToCome(k, o)

Stores == Sized /\ Granted /\ Shape /\ Gathered

\* The pinned buffers hold the chunks of the group whose launches wait.
Buffers ==
    path = "copied" /\ phase = "scatter" =>
        pinned = grp /\ \A i \in DOMAIN stream : \A m \in stream[i] : m.group = grp

\* A launch that has not run writes the block.
Loads(k, b) == \E i \in DOMAIN stream : \E m \in stream[i] : m.group = k /\ m.block = b

\* A retrieve writes the blocks of its chunks.
DestShape ==
    phase \in {"scatter", "retrieved"} =>
        DOMAIN dest = KernelGroup
        /\ \A k \in KernelGroup : DOMAIN dest[k] = 0 .. ((chunks * Geometry(k).chunk) - 1)

\* A block that is due has its content unless its load is still to run, or to
\* be launched: its group or its batch has not been reached.
Scattered ==
    phase \in {"scatter", "retrieved"} =>
        \A g \in DOMAIN ObjectGroups : \A k \in ObjectGroups[g] : \A b \in DOMAIN dest[k] :
            Due(g, k, b) =>
                \/ dest[k][b] = <<k, b>>
                \/ Loads(k, b)
                \/ /\ phase = "scatter"
                   /\ g > grp \/ (g = grp /\ b \div Geometry(k).chunk >= start)

Retrieves == Buffers /\ DestShape /\ Scattered

-----------------------------------------------------------------------------
(* The chunks of a set, in order.                                          *)

\* A sequence over a set is one over a larger set.
LEMMA SeqWidens ==
  ASSUME NEW A, NEW B, A \subseteq B, NEW s \in Seq(A)
  PROVE  s \in Seq(B)
  <1>1. PICK n \in Nat : s \in [1 .. n -> A]
    OBVIOUS
  <1>2. s \in [1 .. n -> B]
    BY <1>1
  <1> QED BY <1>2

\* The items of a sequence over a set are in it.
LEMMA SeqMembers ==
  ASSUME NEW A, NEW s \in Seq(A)
  PROVE  \A i \in DOMAIN s : s[i] \in A
  <1>1. PICK n \in Nat : s \in [1 .. n -> A]
    OBVIOUS
  <1> QED BY <1>1

\* InOrder lists every member of a set of numbers, and nothing else.
LEMMA InOrderLists ==
  ASSUME NEW n \in Nat, NEW S \in SUBSET (0 .. (n - 1))
  PROVE  /\ InOrder(S) \in Seq(S)
         /\ \A o \in S : \E i \in DOMAIN InOrder(S) : InOrder(S)[i] = o
  <1> DEFINE Below(o) == {p \in S : p < o}
             m == Cardinality(S)
             R == [o \in S |-> Cardinality(Below(o)) + 1]
  <1>1. IsFiniteSet(S) /\ m \in Nat
    <2>1. IsFiniteSet(0 .. (n - 1))
      BY FS_Interval
    <2>2. IsFiniteSet(S)
      BY <2>1, FS_Subset
    <2> QED BY <2>2, FS_CardinalityType
  <1>2. \A o \in S : IsFiniteSet(Below(o)) /\ Cardinality(Below(o)) \in Nat /\ Cardinality(Below(o)) < m
    <2> SUFFICES ASSUME NEW o \in S
                 PROVE  IsFiniteSet(Below(o)) /\ Cardinality(Below(o)) \in Nat /\ Cardinality(Below(o)) < m
      OBVIOUS
    <2>1. Below(o) \in SUBSET S /\ o \notin Below(o)
      OBVIOUS
    <2>2. Below(o) # S
      BY <2>1
    <2> HIDE DEF Below
    <2>3. IsFiniteSet(Below(o)) /\ Cardinality(Below(o)) <= m /\ m # Cardinality(Below(o))
      BY <1>1, <2>1, <2>2, FS_Subset
    <2>4. Cardinality(Below(o)) \in Nat
      BY <2>3, FS_CardinalityType
    <2> QED BY <1>1, <2>3, <2>4
  <1>3. \A o, q \in S : o < q => Cardinality(Below(o)) < Cardinality(Below(q))
    <2> SUFFICES ASSUME NEW o \in S, NEW q \in S, o < q
                 PROVE  Cardinality(Below(o)) < Cardinality(Below(q))
      OBVIOUS
    <2>1. o \in Int /\ q \in Int /\ \A p \in S : p \in Int
      OBVIOUS
    <2>2. Below(o) \in SUBSET Below(q) /\ o \in Below(q) /\ o \notin Below(o)
      <3>1. \A p \in S : p < o => p < q
        BY <2>1
      <3>2. ~(o < o)
        BY <2>1
      <3>3. Below(o) \in SUBSET Below(q)
        BY <3>1
      <3> QED BY <3>2, <3>3
    <2> HIDE DEF Below, m
    <2>3. Cardinality(Below(o)) <= Cardinality(Below(q)) /\ Cardinality(Below(q)) # Cardinality(Below(o))
      BY <1>2, <2>2, FS_Subset
    <2>4. Cardinality(Below(o)) \in Nat /\ Cardinality(Below(q)) \in Nat
      BY <1>2
    <2> QED BY <2>3, <2>4
  <1>4. \A o, q \in S : Cardinality(Below(o)) = Cardinality(Below(q)) => o = q
    <2> SUFFICES ASSUME NEW o \in S, NEW q \in S, Cardinality(Below(o)) = Cardinality(Below(q))
                 PROVE  o = q
      OBVIOUS
    <2>1. o \in Int /\ q \in Int
      OBVIOUS
    <2> HIDE DEF Below, m
    <2>2. Cardinality(Below(o)) \in Nat /\ Cardinality(Below(q)) \in Nat
      BY <1>2
    <2>3. ~(o < q) /\ ~(q < o)
      BY <1>3, <2>2
    <2> QED BY <2>1, <2>3
  <1>5. R \in Injection(S, 1 .. m)
    <2> HIDE DEF Below, m
    <2>1. \A o \in S : R[o] \in 1 .. m
      BY <1>1, <1>2
    <2>2. R \in [S -> 1 .. m]
      BY <2>1
    <2>3. \A o, q \in S : R[o] = R[q] => o = q
      <3> SUFFICES ASSUME NEW o \in S, NEW q \in S, R[o] = R[q] PROVE o = q
        OBVIOUS
      <3>1. Cardinality(Below(o)) \in Nat /\ Cardinality(Below(q)) \in Nat
        BY <1>2
      <3>2. Cardinality(Below(o)) + 1 = Cardinality(Below(q)) + 1
        OBVIOUS
      <3>3. Cardinality(Below(o)) = Cardinality(Below(q))
        BY <3>1, <3>2
      <3> QED BY <1>4, <3>3
    <2> HIDE DEF R
    <2> QED BY <2>2, <2>3 DEF Injection, IsInjective
  <1>6. R \in Surjection(S, 1 .. m)
    <2> HIDE DEF R
    <2>1. IsFiniteSet(1 .. m) /\ Cardinality(1 .. m) = m
      <3>1. IsFiniteSet(1 .. m) /\ Cardinality(1 .. m) = IF 1 > m THEN 0 ELSE m - 1 + 1
        BY <1>1, FS_Interval
      <3> HIDE DEF m
      <3> QED BY <1>1, <3>1
    <2> QED BY <1>5, <2>1, FS_Injection
  <1>7. \A i \in 1 .. m : \E o \in S : Cardinality(Below(o)) = i - 1
    <2> SUFFICES ASSUME NEW i \in 1 .. m PROVE \E o \in S : Cardinality(Below(o)) = i - 1
      OBVIOUS
    <2>1. PICK o \in S : R[o] = i
      BY <1>6 DEF Surjection
    <2> HIDE DEF Below, m
    <2>2. Cardinality(Below(o)) \in Nat /\ Cardinality(Below(o)) + 1 = i
      BY <1>2, <2>1
    <2> QED BY <2>2
  <1>8. /\ DOMAIN InOrder(S) = 1 .. m
        /\ \A i \in 1 .. m : InOrder(S)[i] \in S /\ Cardinality(Below(InOrder(S)[i])) = i - 1
    <2>1. InOrder(S) = [i \in 1 .. m |-> CHOOSE o \in S : Cardinality(Below(o)) = i - 1]
      BY DEF InOrder
    <2> HIDE DEF m, Below
    <2> QED BY <1>7, <2>1
  <1>9. InOrder(S) \in Seq(S)
    <2>1. InOrder(S) = [i \in 1 .. m |-> CHOOSE o \in S : Cardinality(Below(o)) = i - 1]
      BY DEF InOrder
    <2> HIDE DEF m, Below
    <2>2. \A i \in 1 .. m : (CHOOSE o \in S : Cardinality(Below(o)) = i - 1) \in S
      BY <1>7
    <2>3. InOrder(S) \in [1 .. m -> S]
      BY <2>1, <2>2
    <2> QED BY <1>1, <2>3
  <1>10. \A o \in S : \E i \in DOMAIN InOrder(S) : InOrder(S)[i] = o
    <2> SUFFICES ASSUME NEW o \in S PROVE \E i \in DOMAIN InOrder(S) : InOrder(S)[i] = o
      OBVIOUS
    <2> HIDE DEF Below, m
    <2> DEFINE i == Cardinality(Below(o)) + 1
    <2>1. Cardinality(Below(o)) \in Nat /\ i \in 1 .. m /\ i - 1 = Cardinality(Below(o))
      BY <1>1, <1>2
    <2> HIDE DEF i
    <2>2. InOrder(S)[i] \in S /\ Cardinality(Below(InOrder(S)[i])) = Cardinality(Below(o))
      BY <1>8, <2>1
    <2>3. InOrder(S)[i] = o
      BY <1>4, <2>2
    <2> QED BY <1>8, <2>1, <2>3
  <1> QED BY <1>9, <1>10
-----------------------------------------------------------------------------
(* What a batch moves.                                                     *)

\* The move of the kept block j of object o.
MoveOf(k, o, j) == [group |-> k, object |-> o, slot |-> j, block |-> BlockOf(k, o, j)]

\* The move is one of the batch: its object is among the batch's, and its block
\* is not skipped.
InBatch(k, isH2D, m) ==
    \E c \in BatchOf(start, ThisBatch(isH2D)) : \E j \in Slots(k) :
        /\ ((c - start) * Geometry(k).window) + j >= LaunchOf(k, isH2D).skipBlocks
        /\ m = MoveOf(k, chosen[c + 1], j)

\* A batch has objects, and none behind the last; the server stores one by one.
LEMMA BatchBounds ==
  ASSUME Configured, chosen \in Seq(0 .. (chunks - 1)), start \in Nat, start < Len(chosen),
         NEW isH2D \in BOOLEAN
  PROVE  /\ ThisBatch(isH2D) \in Nat \ {0} /\ start + ThisBatch(isH2D) <= Len(chosen)
         /\ path = "server" /\ ~isH2D => ThisBatch(isH2D) = 1
  <1> DEFINE n == Len(chosen)
             size == BatchSize(isH2D)
  <1>1. n \in Nat /\ start \in Nat /\ start < n
    OBVIOUS
  <1>2. size \in Nat \ {0} /\ (path = "server" /\ ~isH2D => size = 1)
    BY <1>1, LayoutsAssumption DEF BatchSize, Configured, Path
  <1>3. ThisBatch(isH2D) = Lesser(size, n - start)
    BY DEF ThisBatch, BatchLen
  <1> HIDE DEF n, size
  <1>4. Lesser(size, n - start) \in Nat \ {0} /\ start + Lesser(size, n - start) <= n
    BY <1>1, <1>2 DEF Lesser
  <1>5. size = 1 => Lesser(size, n - start) = 1
    BY <1>1 DEF Lesser
  <1> QED BY <1>2, <1>3, <1>4, <1>5 DEF n

\* The blocks a launch skips are a number.
LEMMA SkipBlocksNat ==
  ASSUME Configured, phase # "unregistered", start \in Nat, NEW isH2D \in BOOLEAN,
         NEW k \in KernelGroup
  PROVE  LaunchOf(k, isH2D).skipBlocks \in Nat
  <1> DEFINE n == Geometry(k).chunk
             w == Geometry(k).window
             t == Geometry(k).tokens
             S == IF isH2D THEN SkipTokens(k) ELSE 0
             T == TokensPerChunk(k)
  <1>1. n \in Nat \ {0} /\ w \in 1 .. n /\ t \in Nat \ {0} /\ Info(k).tokensPerBlock \in Nat \ {0}
    BY GeometryFits
  <1>2. T \in Nat
    <2>1. T = n * t
      BY DEF TokensPerChunk
    <2> HIDE DEF n, t, T
    <2> QED BY <1>1, <2>1
  <1>3. SkipTokens(k) \in Nat
    <2> DEFINE u == Info(k).tokensPerBlock
    <2>1. Info(k).slots \in Nat
      BY LayoutsAssumption DEF Configured, Info, KernelGroup
    <2>2. skip \in Nat /\ skip \div u \in Nat
      BY <1>1, Division DEF Configured
    <2> HIDE DEF u
    <2>3. (skip \div u) * Info(k).slots \in Nat
      BY <2>1, <2>2
    <2> QED BY <2>2, <2>3 DEF SkipTokens, u
  <1>4. S \in Nat
    BY <1>3
  <1> HIDE DEF S, T
  <1>5. TokensToSkip(start, T, S) \in Nat
    <2>1. start * T \in Nat
      BY <1>2
    <2> QED BY <1>4, <2>1 DEF TokensToSkip, Greater
  <1>6. S \div t \in Nat /\ TokensToSkip(start, T, S) \div t \in Nat
    BY <1>1, <1>4, <1>5, Division
  <1>7. \/ LaunchOf(k, isH2D).skipBlocks = BlocksToSkip(Geometry(k), S \div t)
        \/ LaunchOf(k, isH2D).skipBlocks = BlocksToSkip(Geometry(k), TokensToSkip(start, T, S) \div t)
    BY DEF LaunchOf, Launch, S, T
  <1> QED BY <1>1, <1>6, <1>7, SkipIsNatural

\* A launch moves the kept blocks of its batch's objects, but the skipped ones,
\* each between its block and its slot (multi_layer_block_kv_transfer).
LEMMA MovesOf ==
  ASSUME Configured, phase # "unregistered", NEW isH2D \in BOOLEAN, NEW k \in KernelGroup,
         start \in Nat, start < Len(chosen), chosen \in Seq(0 .. (chunks - 1))
  PROVE  \A m : m \in Moves(k, isH2D) <=> InBatch(k, isH2D, m)
  <1> DEFINE len == ThisBatch(isH2D)
             skipped == LaunchOf(k, isH2D).skipBlocks
  <1>0. len \in Nat \ {0} /\ skipped \in Nat
    BY BatchBounds, SkipBlocksNat
  <1> HIDE DEF len, skipped
  <1> DEFINE n == Geometry(k).chunk
             w == Geometry(k).window
             l == LaunchOf(k, isH2D)
             PMove(p) == [group |-> k, object |-> ObjectAt(k, p), slot |-> SlotAt(k, p), block |-> Staged(k, p)]
             First == (start * w) + skipped
             Last == (start * w) + (len * w) - 1
  <1>1. n \in Nat \ {0} /\ w \in 1 .. n
    BY GeometryFits
  <1>2. Slots(k) = 0 .. (w - 1)
    BY DEF Slots
  <1>3. \A c \in Nat : \A j \in 0 .. (w - 1) : PMove((c * w) + j) = MoveOf(k, chosen[c + 1], j)
    <2> SUFFICES ASSUME NEW c \in Nat, NEW j \in 0 .. (w - 1)
                 PROVE  PMove((c * w) + j) = MoveOf(k, chosen[c + 1], j)
      OBVIOUS
    <2>1. w \in Nat \ {0}
      BY <1>1
    <2>2. ((c * w) + j) \div w = c /\ ((c * w) + j) % w = j
      <3> HIDE DEF w, n
      <3> QED BY <2>1, DivisionUnique
    <2>3. /\ ObjectAt(k, (c * w) + j) = chosen[c + 1] /\ SlotAt(k, (c * w) + j) = j
          /\ Staged(k, (c * w) + j) = (chosen[c + 1] * n) + (n - w) + j
      BY <2>2 DEF ObjectAt, SlotAt, Staged
    <2> QED BY <2>3 DEF MoveOf, BlockOf
  <1>4. Moves(k, isH2D) = {PMove(p) : p \in First .. Last}
    <2>1. l.startBlockPos = start * w /\ l.numBlocks = len * w /\ l.skipBlocks = skipped
      BY DEF LaunchOf, Launch, skipped, len
    <2>2. Moves(k, isH2D) = {PMove(p) : p \in (l.startBlockPos + l.skipBlocks) .. (l.startBlockPos + l.numBlocks - 1)}
      BY DEF Moves
    <2> HIDE DEF l, w
    <2> QED BY <2>1, <2>2
  <1>5. \A p \in First .. Last :
           \E c \in start .. (start + len - 1) : \E j \in 0 .. (w - 1) :
               p = (c * w) + j /\ ((c - start) * w) + j >= skipped
    <2> SUFFICES ASSUME NEW p \in First .. Last
                 PROVE  \E c \in start .. (start + len - 1) : \E j \in 0 .. (w - 1) :
                           p = (c * w) + j /\ ((c - start) * w) + j >= skipped
      OBVIOUS
    <2> HIDE DEF n, w, PMove
    <2> DEFINE c == p \div w
               j == p % w
    <2>1. start * w \in Nat /\ len * w \in Nat /\ (start * w) + (len * w) = (start + len) * w
      BY <1>0, <1>1
    <2>2. p \in Nat /\ p >= (start * w) + skipped /\ p < (start + len) * w
      BY <1>0, <2>1
    <2>3. c \in Nat /\ j \in 0 .. (w - 1) /\ p = (c * w) + j
      BY <1>1, <2>2, Division
    <2> HIDE DEF c, j, First, Last
    <2>4. c >= start
      <3> SUFFICES ASSUME c < start PROVE FALSE
        BY <1>0, <2>3
      <3>1. (c * w) + w <= start * w
        BY <1>1, <2>3, TimesStrict
      <3>2. c * w \in Nat
        BY <1>1, <2>3
      <3> QED BY <1>0, <1>1, <2>1, <2>2, <2>3, <3>1, <3>2
    <2>5. c < start + len
      <3> SUFFICES ASSUME start + len <= c PROVE FALSE
        BY <1>0, <2>3
      <3>1. (start + len) * w <= c * w
        BY <1>0, <1>1, <2>3
      <3>2. c * w \in Nat /\ (start + len) * w \in Nat
        BY <1>0, <1>1, <2>3
      <3> QED BY <1>0, <2>2, <2>3, <3>1, <3>2
    <2>6. ((c - start) * w) = (c * w) - (start * w) /\ c * w \in Nat
      BY <1>1, <2>3
    <2>7. ((c - start) * w) + j >= skipped
      <3> DEFINE x == c * w
                 y == start * w
                 z == (c - start) * w
      <3>1. x \in Nat /\ y \in Nat /\ z = x - y /\ p = x + j /\ p >= y + skipped
        BY <2>1, <2>2, <2>3, <2>6
      <3>2. j \in Int /\ skipped \in Int
        BY <1>0, <2>3
      <3> HIDE DEF x, y, z
      <3>3. z + j >= skipped
        BY <3>1, <3>2
      <3> QED BY <3>3 DEF z
    <2>8. c \in start .. (start + len - 1)
      BY <1>0, <2>3, <2>4, <2>5
    <2> QED BY <2>3, <2>7, <2>8
  <1>6. \A c \in start .. (start + len - 1) : \A j \in 0 .. (w - 1) :
           ((c - start) * w) + j >= skipped => (c * w) + j \in First .. Last
    <2> SUFFICES ASSUME NEW c \in start .. (start + len - 1), NEW j \in 0 .. (w - 1),
                        ((c - start) * w) + j >= skipped
                 PROVE  (c * w) + j \in First .. Last
      OBVIOUS
    <2> HIDE DEF n, w, PMove
    <2>1. start * w \in Nat /\ len * w \in Nat /\ (start * w) + (len * w) = (start + len) * w
      BY <1>0, <1>1
    <2>2. c \in Nat /\ c < start + len /\ c * w \in Nat /\ ((c - start) * w) = (c * w) - (start * w)
      BY <1>0, <1>1
    <2>3. (c * w) + w <= (start + len) * w
      BY <1>0, <1>1, <2>2, TimesStrict
    <2>4. w \in Nat /\ (start + len) * w \in Nat
      BY <1>0, <1>1
    <2>5. First = (start * w) + skipped /\ Last = ((start + len) * w) - 1
      BY <2>1
    <2> DEFINE x == c * w
               y == (start + len) * w
               z == start * w
               d == (c - start) * w
    <2>6. x \in Nat /\ y \in Nat /\ z \in Nat /\ d = x - z /\ d + j >= skipped /\ x + w <= y
      BY <2>1, <2>2, <2>3, <2>4
    <2> HIDE DEF x, y, z, d, First, Last
    <2>7. x + j >= z + skipped /\ x + j <= y - 1
      BY <1>0, <1>1, <2>6
    <2>8. First = z + skipped /\ Last = y - 1
      BY <2>5 DEF y, z
    <2>9. x + j \in First .. Last
      BY <1>0, <1>1, <2>6, <2>7, <2>8
    <2> QED BY <2>9 DEF x
  <1> HIDE DEF PMove, First, Last, n
  <1>7. ASSUME NEW m \in Moves(k, isH2D)
        PROVE  InBatch(k, isH2D, m)
    <2>1. PICK p \in First .. Last : m = PMove(p)
      BY <1>4
    <2>2. PICK c \in start .. (start + len - 1) : \E j \in 0 .. (w - 1) :
               p = (c * w) + j /\ ((c - start) * w) + j >= skipped
      BY <1>5
    <2>3. PICK j \in 0 .. (w - 1) : p = (c * w) + j /\ ((c - start) * w) + j >= skipped
      BY <2>2
    <2>4. c \in Nat
      BY <1>0
    <2> HIDE DEF w
    <2>5. m = MoveOf(k, chosen[c + 1], j)
      BY <1>3, <2>1, <2>3, <2>4
    <2> QED BY <1>2, <2>3, <2>5 DEF InBatch, BatchOf, len, skipped, w
  <1>8. ASSUME NEW m, InBatch(k, isH2D, m)
        PROVE  m \in Moves(k, isH2D)
    <2>1. PICK c \in start .. (start + len - 1), j \in Slots(k) :
             ((c - start) * w) + j >= skipped /\ m = MoveOf(k, chosen[c + 1], j)
      BY <1>8 DEF InBatch, BatchOf, len, skipped, w
    <2>2. c \in Nat /\ j \in 0 .. (w - 1)
      BY <1>0, <1>2
    <2> HIDE DEF w
    <2>3. (c * w) + j \in First .. Last
      BY <1>6, <2>1, <2>2
    <2> QED BY <1>3, <1>4, <2>1, <2>2, <2>3
  <1> QED BY <1>7, <1>8

\* A store skips no block and leaves out no batch of the plan.
LEMMA GatherSkipsNothing ==
  ASSUME Configured, phase # "unregistered", start \in Nat, start < Len(chosen),
         chosen \in Seq(0 .. (chunks - 1))
  PROVE  /\ \A k \in KernelGroup : LaunchOf(k, FALSE).skipBlocks = 0
         /\ ~Dropped(FALSE)
  <1>1. \A k \in KernelGroup : /\ TokensPerChunk(k) \in Nat \ {0} /\ Geometry(k).tokens \in Nat \ {0}
                               /\ BlocksToSkip(Geometry(k), 0) = 0
    <2> SUFFICES ASSUME NEW k \in KernelGroup
                 PROVE  /\ TokensPerChunk(k) \in Nat \ {0} /\ Geometry(k).tokens \in Nat \ {0}
                        /\ BlocksToSkip(Geometry(k), 0) = 0
      OBVIOUS
    <2> DEFINE n == Geometry(k).chunk
               w == Geometry(k).window
               t == Geometry(k).tokens
    <2>1. n \in Nat \ {0} /\ w \in 1 .. n /\ t \in Nat \ {0}
      BY GeometryFits
    <2>2. TokensPerChunk(k) = n * t
      BY DEF TokensPerChunk
    <2>3. BlocksToSkip(Geometry(k), 0) = IF n = w THEN 0 ELSE ((0 \div n) * w) + AtLeastZero((0 % n) - (n - w))
      BY DEF BlocksToSkip
    <2> HIDE DEF n, w, t
    <2>4. n * t \in Nat \ {0}
      BY <2>1
    <2>5. 0 \div n = 0 /\ 0 % n = 0
      BY <2>1
    <2>6. AtLeastZero(0 - (n - w)) = 0 /\ 0 * w = 0
      BY <2>1 DEF AtLeastZero
    <2>7. BlocksToSkip(Geometry(k), 0) = 0
      BY <2>3, <2>5, <2>6
    <2> QED BY <2>1, <2>2, <2>4, <2>7 DEF t
  <1>2. \A T \in Nat : TokensToSkip(start, T, 0) = 0
    BY DEF TokensToSkip, Greater
  <1>3. ASSUME NEW k \in KernelGroup PROVE LaunchOf(k, FALSE).skipBlocks = 0
    <2>1. 0 \div Geometry(k).tokens = 0
      BY <1>1
    <2>2. TokensToSkip(start, TokensPerChunk(k), 0) = 0
      BY <1>1, <1>2
    <2> QED BY <1>1, <2>1, <2>2 DEF LaunchOf, Launch
  <1>4. ~Dropped(FALSE)
    <2> SUFFICES ASSUME NEW k \in ObjectGroups[grp]
                 PROVE  ~BatchDropped(start, ThisBatch(FALSE), TokensPerChunk(k), 0)
      BY DEF Dropped
    <2>1. k \in KernelGroup
      BY GroupsDisjoint DEF Configured
    <2> DEFINE T == TokensPerChunk(k)
               len == ThisBatch(FALSE)
    <2>2. T \in Nat \ {0} /\ len \in Nat \ {0}
      BY <1>1, <2>1, BatchBounds
    <2> HIDE DEF T, len
    <2>3. start * T \in Nat /\ (start + len) * T = (start * T) + (len * T) /\ len * T \in Nat \ {0}
      BY <2>2
    <2>4. Greater(start * T, 0) = start * T
      BY <2>3 DEF Greater
    <2>5. ~(start * T >= (start + len) * T)
      BY <2>3
    <2> QED BY <2>4, <2>5 DEF BatchDropped, T, len
  <1> QED BY <1>3, <1>4
\* Whatever is launched moves blocks between their own objects.
LEMMA LaunchesAreRight ==
  ASSUME Configured, Sized, phase # "unregistered", start < Len(chosen), NEW isH2D \in BOOLEAN
  PROVE  UNION {Moves(k, isH2D) : k \in ObjectGroups[grp]} \in SUBSET RightMoves
  <1> SUFFICES ASSUME NEW k \in ObjectGroups[grp], NEW m \in Moves(k, isH2D)
               PROVE  m \in RightMoves
    OBVIOUS
  <1> DEFINE len == ThisBatch(isH2D)
             n == Geometry(k).chunk
             w == Geometry(k).window
  <1>1. k \in KernelGroup
    BY GroupsDisjoint DEF Configured
  <1>2. chosen \in Seq(0 .. (chunks - 1)) /\ start \in Nat /\ chunks \in Nat
    BY LayoutsAssumption DEF Sized
  <1>3. len \in Nat \ {0} /\ start + len <= Len(chosen)
    BY <1>2, BatchBounds
  <1>4. InBatch(k, isH2D, m)
    BY <1>1, <1>2, MovesOf
  <1>5. PICK c \in start .. (start + len - 1), j \in Slots(k) : m = MoveOf(k, chosen[c + 1], j)
    BY <1>4 DEF InBatch, BatchOf
  <1> HIDE DEF len
  <1>6. n \in Nat \ {0} /\ w \in 1 .. n /\ j \in 0 .. (w - 1)
    BY <1>1, GeometryFits DEF Slots
  <1>7. chosen[c + 1] \in 0 .. (chunks - 1)
    <2>1. c + 1 \in 1 .. Len(chosen)
      BY <1>2, <1>3
    <2> QED BY <1>2, <2>1
  <1> DEFINE o == chosen[c + 1]
  <1>8. BlockOf(k, o, j) \in Nat /\ j \in Nat
    <2>1. BlockOf(k, o, j) = (o * n) + (n - w) + j
      BY DEF BlockOf
    <2>2. o \in Nat
      BY <1>2, <1>7
    <2> HIDE DEF n, w, o
    <2>3. o * n \in Nat
      BY <1>6, <2>2
    <2> QED BY <1>6, <2>1, <2>3
  <1>9. m = [group |-> k, object |-> o, slot |-> j, block |-> BlockOf(k, o, j)]
    BY <1>5 DEF MoveOf
  <1> HIDE DEF o
  <1> QED BY <1>1, <1>5, <1>7, <1>8, <1>9 DEF RightMoves, o

\* Where blocks belong depends on the layout and the chunks.
LEMMA PlacesStay ==
  ASSUME UNCHANGED registered
  PROVE  /\ KernelGroup' = KernelGroup /\ ObjectGroups' = ObjectGroups /\ Content' = Content
         /\ \A k : Slots(k)' = Slots(k) /\ Geometry(k)' = Geometry(k)
         /\ \A k, o, j : BlockOf(k, o, j)' = BlockOf(k, o, j)
         /\ \A k, o : Complete(k, o)' = Complete(k, o)
         /\ chunks' = chunks => RightMoves' = RightMoves
  <1>1. KernelGroup' = KernelGroup /\ ObjectGroups' = ObjectGroups /\ path' = path /\ layout' = layout
    BY DEF registered, ObjectGroups, KernelGroup
  <1>2. \A k : Geometry(k)' = Geometry(k)
    BY <1>1, Zenon DEF Geometry, ServerGeometry, EngineGeometry, WindowTokens, Info
  <1>3. \A k : Slots(k)' = Slots(k)
    BY <1>2 DEF Slots
  <1>4. \A k, o, j : BlockOf(k, o, j)' = BlockOf(k, o, j)
    BY <1>2 DEF BlockOf
  <1>5. \A k, o : Complete(k, o)' = Complete(k, o)
    BY <1>2, <1>3 DEF Complete
  <1>6. chunks' = chunks => RightMoves' = RightMoves
    BY <1>1, <1>3, <1>4 DEF RightMoves
  <1> QED BY <1>1, <1>2, <1>3, <1>4, <1>5, <1>6 DEF Content

\* A complete object has the content of its blocks.
LEMMA CompleteIsGathered ==
  ASSUME Configured, phase # "unregistered", NEW k \in KernelGroup, NEW o \in Nat
  PROVE  /\ Complete(k, o) \in [Slots(k) -> Content]
         /\ \A j \in Slots(k) : Complete(k, o)[j] = <<k, BlockOf(k, o, j)>> /\ BlockOf(k, o, j) \in Nat
  <1> DEFINE n == Geometry(k).chunk
             w == Geometry(k).window
  <1>1. n \in Nat \ {0} /\ w \in 1 .. n
    BY GeometryFits
  <1>2. \A j \in Slots(k) : BlockOf(k, o, j) \in Nat
    <2> SUFFICES ASSUME NEW j \in Slots(k) PROVE BlockOf(k, o, j) \in Nat
      OBVIOUS
    <2>1. BlockOf(k, o, j) = (o * n) + (n - w) + j /\ j \in 0 .. (w - 1)
      BY DEF BlockOf, Slots
    <2> HIDE DEF n, w
    <2>2. o * n \in Nat
      BY <1>1
    <2> QED BY <1>1, <2>1, <2>2
  <1>3. Complete(k, o) = [j \in Slots(k) |-> <<k, BlockOf(k, o, j)>>]
    BY DEF Complete, BlockOf
  <1> QED BY <1>2, <1>3 DEF Content
-----------------------------------------------------------------------------
(* The steps of a store.                                                   *)

\* A store begins with the objects of its chunks complete.
LEMMA StoreBegins ==
  ASSUME Configured, Stores, NEW n \in 1 .. MaxChunks, BeginStore(n)
  PROVE  Stores'
  <1>1. /\ phase = "idle" /\ phase' = "reserve" /\ chunks' = n
        /\ kept' = [k \in KernelGroup |-> [o \in 0 .. (n - 1) |-> Complete(k, o)]]
        /\ UNCHANGED <<registered, chosen, reserved, start, stream>>
    BY Zenon DEF BeginStore
  <1>2. stream = <<>> /\ chosen = <<>> /\ reserved = {} /\ start \in Nat
    BY <1>1 DEF Stores, Sized
  <1>3. Sized'
    <2>1. phase' \in Phase /\ chunks' \in 0 .. MaxChunks
      BY <1>1, LayoutsAssumption DEF Phase
    <2>2. stream' = <<>> /\ chosen' = <<>> /\ reserved' = {} /\ start' \in Nat
      BY <1>1, <1>2
    <2>3. stream' \in Seq(SUBSET RightMoves') /\ chosen' \in Seq(0 .. (chunks' - 1))
      BY <2>2
    <2> QED BY <1>1, <2>1, <2>2, <2>3 DEF Sized
  <1>4. ASSUME NEW k \in KernelGroup
        PROVE  /\ kept'[k] \in [0 .. (n - 1) -> [Slots(k) -> Content]]
               /\ \A o \in 0 .. (n - 1) : \A j \in Slots(k) : kept'[k][o][j] = <<k, BlockOf(k, o, j)>>
    <2>1. kept'[k] = [o \in 0 .. (n - 1) |-> Complete(k, o)]
      BY <1>1
    <2>2. \A o \in 0 .. (n - 1) : /\ Complete(k, o) \in [Slots(k) -> Content]
                                  /\ \A j \in Slots(k) : Complete(k, o)[j] = <<k, BlockOf(k, o, j)>>
      <3>1. \A o \in 0 .. (n - 1) : o \in Nat
        OBVIOUS
      <3> QED BY <1>1, <3>1, CompleteIsGathered
    <2> QED BY <2>1, <2>2
  <1>5. Granted'
    BY <1>1 DEF Granted
  <1>6. Shape'
    BY <1>1, <1>4, PlacesStay DEF Shape
  <1>7. Gathered'
    BY <1>1, <1>4, PlacesStay DEF Gathered
  <1> QED BY <1>3, <1>5, <1>6, <1>7 DEF Stores

\* The objects that are granted are emptied, and each is in a batch to come.
LEMMA StoreReserves ==
  ASSUME Configured, Stores, NEW granted \in SUBSET (0 .. (chunks - 1)), Reserve(granted)
  PROVE  Stores'
  <1>1. /\ phase = "reserve" /\ phase' = "gather" /\ reserved' = granted /\ start' = 0
        /\ chosen' = IF path = "server" THEN [i \in 1 .. chunks |-> i - 1] ELSE InOrder(granted)
        /\ UNCHANGED <<registered, chunks, grp, stream>>
    BY Zenon DEF Reserve
  <1>2. kept' = [k \in KernelGroup |-> [o \in 0 .. (chunks - 1) |->
                   IF k \in ObjectGroups[grp] /\ o \in granted
                     THEN [j \in Slots(k) |-> Nothing]
                     ELSE kept[k][o]]]
    BY Zenon DEF Reserve
  <1>3. chunks \in Nat /\ chunks \in 0 .. MaxChunks /\ stream \in Seq(SUBSET RightMoves)
    BY LayoutsAssumption DEF Stores, Sized
  <1>4. /\ chosen' \in Seq(0 .. (chunks - 1))
        /\ path # "server" => \A i \in DOMAIN chosen' : chosen'[i] \in granted
        /\ \A o \in granted : \E i \in DOMAIN chosen' : i > 0 /\ chosen'[i] = o
    <2>1. CASE path = "server"
      <3> DEFINE all == [i \in 1 .. chunks |-> i - 1]
      <3>1. chosen' = all
        BY <1>1, <2>1
      <3>2. all \in Seq(0 .. (chunks - 1)) /\ DOMAIN all = 1 .. chunks
        <4>1. all \in [1 .. chunks -> 0 .. (chunks - 1)]
          BY <1>3
        <4> QED BY <1>3, <4>1
      <3>3. \A o \in granted : o + 1 \in 1 .. chunks /\ o + 1 > 0 /\ all[o + 1] = o
        BY <1>3
      <3> HIDE DEF all
      <3>4. \A o \in granted : \E i \in DOMAIN all : i > 0 /\ all[i] = o
        <4> SUFFICES ASSUME NEW o \in granted PROVE \E i \in DOMAIN all : i > 0 /\ all[i] = o
          OBVIOUS
        <4>1. o + 1 \in DOMAIN all /\ o + 1 > 0 /\ all[o + 1] = o
          BY <3>2, <3>3
        <4> QED BY <4>1
      <3> QED BY <2>1, <3>1, <3>2, <3>4
    <2>2. CASE path # "server"
      <3>1. chosen' = InOrder(granted)
        BY <1>1, <2>2
      <3>2. /\ InOrder(granted) \in Seq(granted)
            /\ \A o \in granted : \E i \in DOMAIN InOrder(granted) : InOrder(granted)[i] = o
        BY <1>3, InOrderLists
      <3> DEFINE s == InOrder(granted)
      <3> HIDE DEF s
      <3>3. s \in Seq(granted) /\ chosen' = s /\ \A o \in granted : \E i \in DOMAIN s : s[i] = o
        BY <3>1, <3>2 DEF s
      <3>4. DOMAIN s = 1 .. Len(s) /\ Len(s) \in Nat /\ \A i \in 1 .. Len(s) : s[i] \in granted
        BY <3>3
      <3>5. s \in Seq(0 .. (chunks - 1))
        BY <3>3, SeqWidens
      <3>6. \A i \in DOMAIN s : i > 0 /\ s[i] \in granted
        BY <3>4
      <3> QED BY <3>3, <3>5, <3>6
    <2> QED BY <2>1, <2>2
  <1>5. Sized'
    <2>1. phase' \in Phase /\ chunks' = chunks /\ start' \in Nat
      BY <1>1 DEF Phase
    <2>2. stream' \in Seq(SUBSET RightMoves')
      BY <1>1, <1>3, PlacesStay
    <2> QED BY <1>1, <1>3, <1>4, <2>1, <2>2 DEF Sized
  <1>6. Granted'
    BY <1>1, <1>4 DEF Granted, registered
  <1>7. ASSUME NEW k \in KernelGroup, NEW o \in 0 .. (chunks - 1)
        PROVE  kept'[k][o] = IF k \in ObjectGroups[grp] /\ o \in granted
                               THEN [j \in Slots(k) |-> Nothing]
                               ELSE kept[k][o]
    BY <1>2
  <1>8. Shape'
    <2> SUFFICES ASSUME NEW k \in KernelGroup
                 PROVE  kept'[k] \in [0 .. (chunks - 1) -> [Slots(k) -> Content]]
      BY <1>1, PlacesStay DEF Shape
    <2>1. kept[k] \in [0 .. (chunks - 1) -> [Slots(k) -> Content]]
      BY <1>1 DEF Stores, Shape
    <2>2. [j \in Slots(k) |-> Nothing] \in [Slots(k) -> Content]
      BY DEF Content
    <2>3. kept'[k] = [o \in 0 .. (chunks - 1) |->
                       IF k \in ObjectGroups[grp] /\ o \in granted
                         THEN [j \in Slots(k) |-> Nothing]
                         ELSE kept[k][o]]
      BY <1>2
    <2> QED BY <2>1, <2>2, <2>3
  <1>9. Gathered'
    <2> SUFFICES ASSUME NEW k \in KernelGroup, NEW o \in 0 .. (chunks - 1), NEW j \in Slots(k)
                 PROVE  \/ kept'[k][o][j] = <<k, BlockOf(k, o, j)>>
                        \/ phase' \in {"reserve", "gather"} /\ Pending(k, o, j)'
                        \/ ToCome(k, o)'
      BY <1>1, PlacesStay DEF Gathered
    <2>1. CASE k \in ObjectGroups[grp] /\ o \in granted
      <3>1. \E i \in DOMAIN chosen' : i > start' /\ chosen'[i] = o
        BY <1>1, <1>4, <2>1
      <3>2. k \in ObjectGroups'[grp'] /\ o \in reserved' /\ phase' = "gather"
        BY <1>1, <2>1, PlacesStay
      <3> QED BY <3>1, <3>2 DEF ToCome
    <2>2. CASE ~(k \in ObjectGroups[grp] /\ o \in granted)
      <3>1. kept'[k][o][j] = kept[k][o][j]
        BY <1>7, <2>2
      <3>2. kept[k][o][j] = <<k, BlockOf(k, o, j)>> \/ Pending(k, o, j)
        BY <1>1 DEF Stores, Gathered, ToCome
      <3>3. Pending(k, o, j)' <=> Pending(k, o, j)
        BY <1>1 DEF Pending
      <3> QED BY <1>1, <3>1, <3>2, <3>3
    <2> QED BY <2>1, <2>2
  <1> QED BY <1>5, <1>6, <1>8, <1>9 DEF Stores
\* A batch is launched for each of its objects, none of which is declined, or it
\* holds a declined one alone.
LEMMA StoreGathers ==
  ASSUME Configured, Stores, Gather
  PROVE  Stores'
  <1> DEFINE launched == UNION {Moves(k, FALSE) : k \in ObjectGroups[grp]}
             len == ThisBatch(FALSE)
  <1>1. /\ phase = "gather" /\ start < Len(chosen) /\ start' = start + len
        /\ stream' = IF Absent \/ Dropped(FALSE) THEN stream ELSE Append(stream, launched)
        /\ UNCHANGED <<registered, phase, chunks, grp, chosen, reserved, memory>>
    BY Zenon DEF Gather, EnqueueBatch
  <1>2. /\ chunks \in 0 .. MaxChunks /\ start \in Nat /\ chosen \in Seq(0 .. (chunks - 1))
        /\ reserved \subseteq 0 .. (chunks - 1) /\ stream \in Seq(SUBSET RightMoves)
    BY DEF Stores, Sized
  <1>3. launched \in SUBSET RightMoves
    BY <1>1, LaunchesAreRight DEF Stores
  <1>4. /\ len \in Nat \ {0} /\ start + len <= Len(chosen)
        /\ path = "server" => len = 1
    BY <1>1, <1>2, BatchBounds
  <1>5. ~Dropped(FALSE) /\ \A k \in KernelGroup : LaunchOf(k, FALSE).skipBlocks = 0
    BY <1>1, <1>2, GatherSkipsNothing
  <1>6. \A k \in KernelGroup : \A m : m \in Moves(k, FALSE) <=> InBatch(k, FALSE, m)
    BY <1>1, <1>2, MovesOf
  <1>7. \A k \in ObjectGroups[grp] : \A c \in start .. (start + len - 1) : \A j \in Slots(k) :
           MoveOf(k, chosen[c + 1], j) \in launched
    <2> SUFFICES ASSUME NEW k \in ObjectGroups[grp], NEW c \in start .. (start + len - 1),
                        NEW j \in Slots(k)
                 PROVE  MoveOf(k, chosen[c + 1], j) \in launched
      OBVIOUS
    <2>1. k \in KernelGroup
      BY GroupsDisjoint DEF Configured
    <2> DEFINE w == Geometry(k).window
    <2>2. w \in Nat /\ j \in 0 .. (w - 1)
      BY <1>1, <2>1, GeometryFits DEF Slots
    <2>3. ((c - start) * w) + j >= 0
      <3> HIDE DEF w, len
      <3>1. c - start \in Nat
        BY <1>2, <1>4
      <3>2. (c - start) * w \in Nat
        BY <2>2, <3>1
      <3> QED BY <2>2, <3>2
    <2>4. InBatch(k, FALSE, MoveOf(k, chosen[c + 1], j))
      BY <1>5, <2>1, <2>3 DEF InBatch, BatchOf
    <2> QED BY <1>6, <2>1, <2>4
  <1> HIDE DEF launched, len
  <1>8. Append(stream, launched) \in Seq(SUBSET RightMoves) /\ stream' \in Seq(SUBSET RightMoves)
    <2>1. Append(stream, launched) \in Seq(SUBSET RightMoves)
      BY <1>2, <1>3, AppendProperties
    <2> QED BY <1>1, <1>2, <2>1
  <1>9. Sized'
    <2>1. start' \in Nat /\ phase' = "gather" /\ phase' \in Phase
      BY <1>1, <1>2, <1>4 DEF Phase
    <2>2. RightMoves' = RightMoves
      BY <1>1, PlacesStay
    <2> QED BY <1>1, <1>2, <1>8, <2>1, <2>2 DEF Sized
  <1>10. Granted'
    BY <1>1 DEF Stores, Granted, registered
  <1>11. Shape'
    BY <1>1, PlacesStay DEF Stores, Shape, memory
  <1>12. \A k, o, j : Pending(k, o, j) => Pending(k, o, j)'
    <2>1. CASE stream' = stream
      BY <2>1 DEF Pending
    <2>2. CASE stream' = Append(stream, launched)
      <3>1. /\ Len(stream) \in Nat /\ DOMAIN stream = 1 .. Len(stream)
            /\ DOMAIN stream' = 1 .. (Len(stream) + 1)
            /\ \A i \in 1 .. Len(stream) : stream'[i] = stream[i]
        <4>1. stream' \in Seq(SUBSET RightMoves) /\ Len(stream') = Len(stream) + 1
          BY <1>2, <1>3, <2>2, AppendProperties, <1>8
        <4>2. \A i \in 1 .. Len(stream) : Append(stream, launched)[i] = stream[i]
          BY <1>2, <1>3, AppendProperties
        <4>3. Len(stream) \in Nat /\ DOMAIN stream = 1 .. Len(stream)
          BY <1>2
        <4>4. DOMAIN stream' = 1 .. Len(stream')
          BY <4>1
        <4> QED BY <2>2, <4>1, <4>2, <4>3, <4>4
      <3>2. \A i \in DOMAIN stream : i \in DOMAIN stream' /\ stream'[i] = stream[i]
        BY <3>1
      <3> QED BY <3>2 DEF Pending
    <2> QED BY <1>1, <2>1, <2>2
  <1>13. Gathered'
    <2> SUFFICES ASSUME NEW k \in KernelGroup, NEW o \in 0 .. (chunks - 1), NEW j \in Slots(k)
                 PROVE  \/ kept[k][o][j] = <<k, BlockOf(k, o, j)>>
                        \/ Pending(k, o, j)'
                        \/ ToCome(k, o)'
      BY <1>1, PlacesStay DEF Gathered, memory
    <2>1. CASE kept[k][o][j] = <<k, BlockOf(k, o, j)>> \/ Pending(k, o, j)
      BY <1>12, <2>1
    <2>2. CASE ToCome(k, o)
      <3>1. k \in ObjectGroups[grp] /\ o \in reserved
        BY <2>2 DEF ToCome
      <3>2. PICK i \in DOMAIN chosen : i > start /\ chosen[i] = o
        BY <2>2 DEF ToCome
      <3>3. i \in Nat
        BY <1>2
      <3>4. CASE i > start + len
        <4>1. ToCome(k, o)'
          BY <1>1, <3>1, <3>2, <3>4, PlacesStay DEF ToCome
        <4> QED BY <4>1
      <3>5. CASE i <= start + len
        <4>1. (i - 1) + 1 = i /\ i - 1 \in start .. (start + len - 1)
          BY <1>2, <1>4, <3>2, <3>3, <3>5
        <4>2. MoveOf(k, o, j) \in launched
          BY <1>7, <3>1, <3>2, <4>1
        <4>3. ~Absent
          <5> SUFFICES ASSUME NEW c \in start .. (start + len - 1) PROVE chosen[c + 1] \in reserved
            BY DEF Absent, BatchOf, len
          <5>1. CASE path = "server"
            <6>1. len = 1 /\ c = i - 1
              BY <1>2, <1>4, <4>1, <5>1
            <6> QED BY <3>1, <3>2, <4>1, <6>1
          <5>2. CASE path # "server"
            <6>1. c + 1 \in 1 .. Len(chosen)
              BY <1>2, <1>4
            <6>2. c + 1 \in DOMAIN chosen
              BY <1>2, <6>1
            <6> QED BY <1>1, <5>2, <6>2 DEF Stores, Granted
          <5> QED BY <5>1, <5>2
        <4>4. stream' = Append(stream, launched)
          BY <1>1, <1>5, <4>3
        <4>5. /\ Len(stream) + 1 \in DOMAIN Append(stream, launched)
              /\ Append(stream, launched)[Len(stream) + 1] = launched
          <5>1. /\ Len(Append(stream, launched)) = Len(stream) + 1
                /\ Append(stream, launched)[Len(stream) + 1] = launched
            BY <1>2, <1>3, AppendProperties
          <5>2. DOMAIN Append(stream, launched) = 1 .. Len(Append(stream, launched))
            BY <1>8
          <5>3. Len(stream) \in Nat
            BY <1>2
          <5> QED BY <5>1, <5>2, <5>3
        <4>6. Pending(k, o, j)'
          <5>1. MoveOf(k, o, j).group = k /\ MoveOf(k, o, j).object = o /\ MoveOf(k, o, j).slot = j
            BY DEF MoveOf
          <5>2. \E n \in DOMAIN stream' : \E m \in stream'[n] : m.group = k /\ m.object = o /\ m.slot = j
            BY <4>2, <4>4, <4>5, <5>1
          <5> QED BY <5>2 DEF Pending
        <4> QED BY <4>6
      <3> QED BY <1>2, <1>4, <3>3, <3>4, <3>5
    <2> QED BY <1>1, <2>1, <2>2 DEF Stores, Gathered
  <1> QED BY <1>9, <1>10, <1>11, <1>13 DEF Stores
\* A launch of a store fills the slots of its moves with their own blocks.
LEMMA StoreRuns ==
  ASSUME Configured, Stores, RunGather
  PROVE  Stores'
  <1> DEFINE Fills(m, k, o, j) == m.group = k /\ m.object = o /\ m.slot = j
  <1>1. /\ phase \in {"reserve", "gather"} /\ stream # <<>> /\ stream' = Tail(stream)
        /\ UNCHANGED <<registered, phase, chunks, grp, chosen, reserved, start>>
    BY Zenon DEF RunGather
  <1>2. kept' = [k \in KernelGroup |-> [o \in 0 .. (chunks - 1) |-> [j \in Slots(k) |->
                   IF \E m \in Head(stream) : Fills(m, k, o, j)
                     THEN <<k, (CHOOSE m \in Head(stream) : Fills(m, k, o, j)).block>>
                     ELSE kept[k][o][j]]]]
    BY Zenon DEF RunGather
  <1>3. stream \in Seq(SUBSET RightMoves)
    BY DEF Stores, Sized
  <1>4. /\ Head(stream) \in SUBSET RightMoves /\ Tail(stream) \in Seq(SUBSET RightMoves)
        /\ Head(stream) = stream[1]
        /\ Len(stream) \in Nat \ {0} /\ DOMAIN stream = 1 .. Len(stream)
        /\ DOMAIN Tail(stream) = 1 .. (Len(stream) - 1)
        /\ \A i \in 1 .. (Len(stream) - 1) : Tail(stream)[i] = stream[i + 1]
    <2>1. Head(stream) \in SUBSET RightMoves /\ Tail(stream) \in Seq(SUBSET RightMoves)
      BY <1>1, <1>3, HeadTailProperties
    <2>2. /\ Len(Tail(stream)) = Len(stream) - 1
          /\ \A i \in 1 .. Len(Tail(stream)) : Tail(stream)[i] = stream[i + 1]
      BY <1>1, <1>3, HeadTailProperties
    <2>3. /\ Len(stream) \in Nat \ {0} /\ DOMAIN stream = 1 .. Len(stream) /\ Head(stream) = stream[1]
      BY <1>1, <1>3
    <2>4. DOMAIN Tail(stream) = 1 .. Len(Tail(stream))
      BY <2>1
    <2> QED BY <2>1, <2>2, <2>3, <2>4
  <1>5. ASSUME NEW k \in KernelGroup, NEW o \in 0 .. (chunks - 1), NEW j \in Slots(k)
        PROVE  /\ ~(\E m \in Head(stream) : Fills(m, k, o, j)) => kept'[k][o][j] = kept[k][o][j]
               /\ (\E m \in Head(stream) : Fills(m, k, o, j)) =>
                      kept'[k][o][j] = <<k, BlockOf(k, o, j)>> /\ BlockOf(k, o, j) \in Nat
    <2>1. kept'[k][o][j] = IF \E m \in Head(stream) : Fills(m, k, o, j)
                             THEN <<k, (CHOOSE m \in Head(stream) : Fills(m, k, o, j)).block>>
                             ELSE kept[k][o][j]
      <3> HIDE DEF Fills
      <3> QED BY <1>2
    <2>2. ASSUME \E m \in Head(stream) : Fills(m, k, o, j)
          PROVE  kept'[k][o][j] = <<k, BlockOf(k, o, j)>> /\ BlockOf(k, o, j) \in Nat
      <3> DEFINE m == CHOOSE mm \in Head(stream) : Fills(mm, k, o, j)
      <3>1. m \in Head(stream) /\ Fills(m, k, o, j)
        <4> HIDE DEF Fills
        <4> QED BY <2>2
      <3>2. kept'[k][o][j] = <<k, m.block>>
        BY <2>1, <2>2
      <3> HIDE DEF m
      <3>3. m \in RightMoves
        BY <1>4, <3>1
      <3>4. m.block = BlockOf(m.group, m.object, m.slot) /\ m.block \in Nat
        BY <3>3 DEF RightMoves
      <3> QED BY <3>1, <3>2, <3>4
    <2> QED BY <2>1, <2>2
  <1>6. Sized'
    <2>1. RightMoves' = RightMoves
      BY <1>1, PlacesStay
    <2>2. phase' = phase /\ phase \notin {"unregistered", "idle"}
      BY <1>1
    <2> QED BY <1>1, <1>4, <2>1, <2>2 DEF Stores, Sized
  <1>7. Granted'
    BY <1>1 DEF Stores, Granted, registered
  <1>8. Shape'
    <2> SUFFICES ASSUME NEW k \in KernelGroup
                 PROVE  kept'[k] \in [0 .. (chunks - 1) -> [Slots(k) -> Content]]
      BY <1>1, PlacesStay DEF Shape
    <2>1. kept[k] \in [0 .. (chunks - 1) -> [Slots(k) -> Content]]
      BY <1>1 DEF Stores, Shape
    <2> DEFINE G(o, j) == IF \E m \in Head(stream) : Fills(m, k, o, j)
                            THEN <<k, (CHOOSE m \in Head(stream) : Fills(m, k, o, j)).block>>
                            ELSE kept[k][o][j]
    <2>2. kept'[k] = [o \in 0 .. (chunks - 1) |-> [j \in Slots(k) |-> G(o, j)]]
      BY <1>2
    <2>3. \A o \in 0 .. (chunks - 1) : \A j \in Slots(k) : kept'[k][o][j] = G(o, j)
      <3> HIDE DEF G
      <3> QED BY <2>2
    <2>4. \A o \in 0 .. (chunks - 1) : \A j \in Slots(k) : kept'[k][o][j] \in Content
      <3> SUFFICES ASSUME NEW o \in 0 .. (chunks - 1), NEW j \in Slots(k)
                   PROVE  kept'[k][o][j] \in Content
        OBVIOUS
      <3>1. kept[k][o][j] \in Content
        BY <2>1
      <3>2. BlockOf(k, o, j) \in Nat => <<k, BlockOf(k, o, j)>> \in Content
        BY DEF Content
      <3> HIDE DEF Fills, G
      <3> QED BY <1>5, <3>1, <3>2
    <2> HIDE DEF G
    <2>5. \A o \in 0 .. (chunks - 1) : \A j \in Slots(k) : G(o, j) \in Content
      BY <2>3, <2>4
    <2> QED BY <2>2, <2>5
  <1>9. Gathered'
    <2> SUFFICES ASSUME NEW k \in KernelGroup, NEW o \in 0 .. (chunks - 1), NEW j \in Slots(k)
                 PROVE  \/ kept'[k][o][j] = <<k, BlockOf(k, o, j)>>
                        \/ phase \in {"reserve", "gather"} /\ Pending(k, o, j)'
                        \/ ToCome(k, o)'
      BY <1>1, PlacesStay DEF Gathered
    <2>1. \/ kept[k][o][j] = <<k, BlockOf(k, o, j)>>
          \/ Pending(k, o, j)
          \/ ToCome(k, o)
      BY <1>1 DEF Stores, Gathered
    <2>2. CASE \E m \in Head(stream) : Fills(m, k, o, j)
      BY <1>5, <2>2
    <2>3. CASE ~(\E m \in Head(stream) : Fills(m, k, o, j))
      <3>1. kept'[k][o][j] = kept[k][o][j]
        BY <1>5, <2>3
      <3>2. ToCome(k, o) => ToCome(k, o)'
        BY <1>1, PlacesStay DEF ToCome
      <3>3. ASSUME Pending(k, o, j) PROVE Pending(k, o, j)'
        <4>1. PICK i \in DOMAIN stream : \E m \in stream[i] : Fills(m, k, o, j)
          BY <3>3 DEF Pending
        <4>2. i # 1
          BY <1>4, <2>3, <4>1
        <4>3. i - 1 \in DOMAIN Tail(stream) /\ Tail(stream)[i - 1] = stream[i]
          <5>1. i - 1 \in 1 .. (Len(stream) - 1) /\ (i - 1) + 1 = i
            BY <1>4, <4>2
          <5> QED BY <1>4, <5>1
        <4>4. \E n \in DOMAIN stream' : \E m \in stream'[n] : Fills(m, k, o, j)
          BY <1>1, <4>1, <4>3
        <4> QED BY <4>4 DEF Pending
      <3> QED BY <1>1, <2>1, <3>1, <3>2, <3>3
    <2> QED BY <2>2, <2>3
  <1> QED BY <1>6, <1>7, <1>8, <1>9 DEF Stores

\* When the batches of a group are launched none of its objects is to come; at
\* the end of the last group no launch is pending either.
LEMMA StoreGroupEnds ==
  ASSUME Configured, Stores, EndGather
  PROVE  Stores'
  <1>1. /\ phase = "gather" /\ start >= Len(chosen) /\ (LastGroup => stream = <<>>)
        /\ phase' = IF LastGroup THEN "stored" ELSE "reserve"
        /\ UNCHANGED <<registered, chunks, chosen, reserved, start, memory, stream>>
    BY Zenon DEF EndGather, MayGoOn
  <1>2. start \in Nat /\ chosen \in Seq(0 .. (chunks - 1))
    BY DEF Stores, Sized
  <1>3. Sized'
    <2>1. RightMoves' = RightMoves
      BY <1>1, PlacesStay
    <2>2. phase' \in {"stored", "reserve"} /\ phase' \in Phase
      BY <1>1 DEF Phase
    <2> QED BY <1>1, <2>1, <2>2 DEF Stores, Sized
  <1>4. Granted'
    BY <1>1 DEF Granted
  <1>5. Shape'
    BY <1>1, PlacesStay DEF Stores, Shape, memory
  <1>6. Gathered'
    <2> SUFFICES ASSUME NEW k \in KernelGroup, NEW o \in 0 .. (chunks - 1), NEW j \in Slots(k)
                 PROVE  \/ kept[k][o][j] = <<k, BlockOf(k, o, j)>>
                        \/ phase' \in {"reserve", "gather"} /\ Pending(k, o, j)'
      BY <1>1, PlacesStay DEF Gathered, memory
    <2>1. \/ kept[k][o][j] = <<k, BlockOf(k, o, j)>>
          \/ Pending(k, o, j)
          \/ ToCome(k, o)
      BY <1>1 DEF Stores, Gathered
    <2>2. ~ToCome(k, o)
      <3> SUFFICES ASSUME NEW i \in DOMAIN chosen PROVE ~(i > start)
        BY DEF ToCome
      <3>1. i \in 1 .. Len(chosen) /\ Len(chosen) \in Nat
        BY <1>2
      <3> QED BY <1>1, <1>2, <3>1
    <2>3. CASE LastGroup
      <3>1. stream = <<>>
        BY <1>1, <2>3
      <3>2. ~Pending(k, o, j)
        BY <3>1 DEF Pending
      <3> QED BY <2>1, <2>2, <3>2
    <2>4. CASE ~LastGroup
      <3>1. Pending(k, o, j) => Pending(k, o, j)'
        BY <1>1 DEF Pending
      <3> QED BY <1>1, <2>1, <2>2, <2>4, <3>1
    <2> QED BY <2>3, <2>4
  <1> QED BY <1>3, <1>4, <1>5, <1>6 DEF Stores

\* A step of a retrieve leaves the objects as they are.
LEMMA StoredStays ==
  ASSUME Stores, phase \in {"stored", "scatter", "retrieved"},
         phase' \in {"scatter", "retrieved"}, UNCHANGED <<registered, chunks, reserved, kept>>,
         start' \in Nat, chosen' \in Seq(0 .. (chunks - 1)), stream' \in Seq(SUBSET RightMoves)
  PROVE  Stores'
  <1>1. RightMoves' = RightMoves
    BY PlacesStay
  <1>2. Sized'
    BY <1>1 DEF Stores, Sized, Phase
  <1>3. Granted'
    BY DEF Granted
  <1>4. Shape'
    BY PlacesStay DEF Stores, Shape
  <1>5. Gathered'
    <2> SUFFICES ASSUME NEW k \in KernelGroup, NEW o \in 0 .. (chunks - 1), NEW j \in Slots(k)
                 PROVE  kept[k][o][j] = <<k, BlockOf(k, o, j)>>
      BY PlacesStay DEF Gathered
    <2> QED BY DEF Stores, Gathered, ToCome
  <1> QED BY <1>2, <1>3, <1>4, <1>5 DEF Stores
-----------------------------------------------------------------------------
(* A block that is due is loaded.                                          *)

\* A block that does not end in the skipped prefix is none of the blocks a
\* batch skips.
LEMMA BlocksNotSkipped ==
  ASSUME NEW n \in Nat \ {0}, NEW t \in Nat \ {0}, NEW s \in Nat, NEW first \in Nat,
         NEW d \in Nat, ((first * n) + d + 1) * t > s
  PROVE  ~(d < TokensToSkip(first, n * t, s) \div t)
  <1> DEFINE f == first * (n * t)
             rest == TokensToSkip(first, n * t, s)
  <1>1. f \in Nat /\ first * n \in Nat /\ f = (first * n) * t
    <2>1. n * t \in Nat /\ first * n \in Nat
      OBVIOUS
    <2>2. first * (n * t) = (first * n) * t
      OBVIOUS
    <2> QED BY <2>1, <2>2
  <1>2. rest \in Nat /\ (rest = 0 \/ f + rest = s)
    BY <1>1 DEF TokensToSkip, Greater
  <1>3. SUFFICES ASSUME d < rest \div t PROVE FALSE
    OBVIOUS
  <1>4. ((first * n) + d + 1) * t = ((first * n) * t) + ((d + 1) * t)
    BY <1>1
  <1>5. (d + 1) * t \in Nat \ {0}
    OBVIOUS
  <1>6. f + ((d + 1) * t) > s
    BY <1>1, <1>4
  <1> HIDE DEF f, rest
  <1>7. rest \div t \in Nat /\ rest % t \in 0 .. (t - 1) /\ rest = ((rest \div t) * t) + (rest % t)
    BY <1>2, Division
  <1> DEFINE q == rest \div t
             x == (d + 1) * t
             y == (rest \div t) * t
  <1>8. q \in Nat /\ y \in Nat /\ y <= rest
    BY <1>2, <1>7
  <1>9. x <= y
    <2>1. d + 1 \in Nat /\ d + 1 <= rest \div t /\ rest \div t \in Nat
      BY <1>3, <1>7
    <2>2. \A a, b \in Nat : a <= b => a * t <= b * t
      OBVIOUS
    <2> QED BY <2>1, <2>2
  <1>10. x \in Nat \ {0} /\ f + x > s
    BY <1>5, <1>6
  <1> HIDE DEF x, y, q
  <1> QED BY <1>1, <1>2, <1>8, <1>9, <1>10

\* A block that does not end in the skipped prefix, in the scheduler's tokens,
\* does not in this rank's slots (_physical_skip_tokens).
LEMMA TokensToSlots ==
  ASSUME NEW b \in Nat, NEW t \in Nat \ {0}, NEW u \in Nat \ {0}, NEW s \in Nat,
         (b + 1) * u > s
  PROVE  (b + 1) * t > (s \div u) * t
  <1>1. /\ s \div u \in Nat /\ s % u \in 0 .. (u - 1)
        /\ s = ((s \div u) * u) + (s % u)
    BY Division
  <1>2. s \div u < b + 1
    <2> SUFFICES ASSUME b + 1 <= s \div u PROVE FALSE
      BY <1>1
    <2> DEFINE q == s \div u
    <2>1. q \in Nat /\ b + 1 <= q
      BY <1>1
    <2>2. (q * u) + (s % u) = s /\ s % u \in Nat
      BY <1>1
    <2> HIDE DEF q
    <2>3. (b + 1) * u <= q * u
      BY <2>1
    <2>4. q * u \in Nat /\ (b + 1) * u \in Nat
      BY <2>1
    <2> QED BY <2>2, <2>3, <2>4
  <1>3. ((s \div u) * t) + t <= (b + 1) * t
    BY <1>1, <1>2, TimesStrict
  <1>4. (s \div u) * t \in Nat /\ (b + 1) * t \in Nat
    BY <1>1
  <1> QED BY <1>3, <1>4

\* A batch with a block that does not end in the skipped prefix is launched.
LEMMA BatchIsLaunched ==
  ASSUME NEW first \in Nat, NEW len \in Nat \ {0}, NEW n \in Nat \ {0}, NEW t \in Nat \ {0},
         NEW s \in Nat, NEW b \in Nat, b < (first + len) * n, (b + 1) * t > s
  PROVE  ~BatchDropped(first, len, n * t, s)
  <1> DEFINE T == n * t
             z == (first + len) * T
             x == first * T
  <1>1. T \in Nat \ {0}
    OBVIOUS
  <1>2. s < z
    <2>1. z = ((first + len) * n) * t
      OBVIOUS
    <2> DEFINE y == (first + len) * n
    <2>2. y \in Nat /\ b + 1 <= y /\ z = y * t
      BY <2>1
    <2> HIDE DEF y, z
    <2>3. (b + 1) * t <= y * t
      BY <2>2
    <2>4. (b + 1) * t \in Nat /\ y * t \in Nat
      BY <2>2
    <2> QED BY <2>2, <2>3, <2>4
  <1> HIDE DEF T
  <1>3. x \in Nat /\ z \in Nat /\ x < z
    <2>1. z = x + (len * T) /\ len * T \in Nat \ {0} /\ x \in Nat
      BY <1>1
    <2> HIDE DEF x, z
    <2> QED BY <2>1
  <1>4. ~BatchDropped(first, len, T, s) <=> ~(Greater(x, s) >= z)
    BY DEF BatchDropped
  <1> HIDE DEF x, z
  <1>5. ~(Greater(x, s) >= z)
    BY <1>2, <1>3 DEF Greater
  <1> QED BY <1>4, <1>5 DEF T

\* The server counts in scheduler tokens: every kernel group's chunk has as many.
LEMMA ServerChunk ==
  ASSUME Configured, phase # "unregistered", path = "server", NEW k \in KernelGroup
  PROVE  TokensPerChunk(k) = ChunkTokens /\ SkipTokens(k) = skip
  <1> DEFINE u == Info(k).tokensPerBlock
  <1>1. ChunkTokens \in Nat /\ u \in Nat \ {0} /\ ChunkTokens % u = 0
    BY LayoutsAssumption DEF Configured, Divides, Info, KernelGroup
  <1>2. Geometry(k).chunk = ChunkTokens \div u /\ Geometry(k).tokens = u
    BY DEF Geometry, ServerGeometry, EngineGeometry
  <1> HIDE DEF u
  <1>3. ChunkTokens = ((ChunkTokens \div u) * u) + (ChunkTokens % u) /\ ChunkTokens \div u \in Nat
    BY <1>1, Division
  <1>4. ChunkTokens = (ChunkTokens \div u) * u
    BY <1>1, <1>3
  <1>5. TokensPerChunk(k) = ChunkTokens
    BY <1>2, <1>4 DEF TokensPerChunk
  <1> QED BY <1>5 DEF SkipTokens

\* In its launch's units, a block that is due does not end in the skipped prefix.
LEMMA DueBehindSkip ==
  ASSUME Configured, phase # "unregistered", NEW k \in KernelGroup, NEW b \in Nat,
         (b + 1) * Info(k).tokensPerBlock > skip
  PROVE  SkipTokens(k) \in Nat /\ (b + 1) * Geometry(k).tokens > SkipTokens(k)
  <1> DEFINE t == Geometry(k).tokens
             u == Info(k).tokensPerBlock
  <1>1. t \in Nat \ {0} /\ u \in Nat \ {0} /\ skip \in Nat
    BY GeometryFits DEF Configured
  <1>2. CASE path = "server"
    <2>1. t = u /\ SkipTokens(k) = skip
      BY <1>2 DEF Geometry, ServerGeometry, EngineGeometry, SkipTokens
    <2> QED BY <1>1, <2>1
  <1>3. CASE path # "server"
    <2>1. t = Info(k).slots /\ SkipTokens(k) = (skip \div u) * t
      BY <1>3 DEF Geometry, EngineGeometry, SkipTokens
    <2>2. (b + 1) * u > skip
      OBVIOUS
    <2> HIDE DEF t, u
    <2>3. (b + 1) * t > (skip \div u) * t
      BY <1>1, <2>2, TokensToSlots
    <2>4. (skip \div u) * t \in Nat
      <3>1. skip \div u \in Nat
        BY <1>1, Division
      <3> QED BY <1>1, <3>1
    <2> QED BY <2>1, <2>3, <2>4 DEF t
  <1> QED BY <1>2, <1>3

\* The blocks a batch of a retrieve skips, counted from its first block.
LEMMA ScatterSkip ==
  ASSUME Configured, Loading, phase = "scatter", start < Len(chosen), NEW k \in KernelGroup,
         SkipTokens(k) \in Nat
  PROVE  LaunchOf(k, TRUE).skipBlocks =
           BlocksToSkip(Geometry(k), TokensToSkip(start, Geometry(k).chunk * Geometry(k).tokens,
                                                  SkipTokens(k)) \div Geometry(k).tokens)
  <1>1. chunks \in Nat /\ Len(chosen) = chunks
    BY DEF Configured, Loading
  <1>2. CASE path = "tensor"
    <2>1. start = 0
      BY <1>1, <1>2 DEF Loading
    <2> DEFINE T == Geometry(k).chunk * Geometry(k).tokens
    <2>2. T \in Nat
      <3>1. Geometry(k).chunk \in Nat /\ Geometry(k).tokens \in Nat
        BY GeometryFits
      <3> QED BY <3>1
    <2> HIDE DEF T
    <2>3. TokensToSkip(0, T, SkipTokens(k)) = SkipTokens(k)
      BY <2>2 DEF TokensToSkip, Greater
    <2>4. TokensToSkip(start, T, SkipTokens(k)) = SkipTokens(k)
      BY <2>1, <2>3
    <2> QED BY <1>2, <2>4 DEF LaunchOf, Launch, T
  <1>3. CASE path # "tensor"
    BY <1>3 DEF LaunchOf, Launch, TokensPerChunk
  <1> QED BY <1>2, <1>3
\* A batch of a retrieve loads every block of its chunks that is due.
LEMMA DueIsLaunched ==
  ASSUME Configured, Sized, Loading, phase = "scatter", start < Len(chosen),
         NEW k \in ObjectGroups[grp],
         NEW b \in 0 .. ((chunks * Geometry(k).chunk) - 1), Due(grp, k, b),
         b \div Geometry(k).chunk >= start,
         b \div Geometry(k).chunk < start + ThisBatch(TRUE)
  PROVE  /\ ~Dropped(TRUE)
         /\ \E m \in Moves(k, TRUE) : m.group = k /\ m.block = b
  <1> DEFINE n == Geometry(k).chunk
             w == Geometry(k).window
             t == Geometry(k).tokens
             S == SkipTokens(k)
             len == ThisBatch(TRUE)
             c == b \div n
             r == b % n
             j == r - (n - w)
             e == c - start
             B == TokensToSkip(start, n * t, S) \div t
             d == (e * n) + (n - w) + j
  <1>0. k \in KernelGroup
    BY GroupsDisjoint DEF Configured
  <1>1. /\ n \in Nat \ {0} /\ w \in 1 .. n /\ t \in Nat \ {0}
        /\ start \in Nat /\ chosen \in Seq(0 .. (chunks - 1)) /\ chunks \in Nat
    BY <1>0, GeometryFits DEF Sized, Configured
  <1>2. len \in Nat \ {0}
    BY <1>1, BatchBounds
  <1>3. Len(chosen) = chunks /\ \A i \in 1 .. chunks : chosen[i] = i - 1
    BY DEF Configured, Loading
  <1>4. b \in Nat /\ r >= n - w /\ (b + 1) * Info(k).tokensPerBlock > skip
    <2>1. n \in Nat
      BY <1>1
    <2>2. chunks * n \in Nat
      BY <1>1, <2>1
    <2>3. b \in Nat
      BY <2>2
    <2> QED BY <2>3 DEF Due
  <1>5. S \in Nat /\ (b + 1) * t > S
    BY <1>0, <1>4, DueBehindSkip
  <1>6. c >= start /\ c < start + len
    OBVIOUS
  <1>7. LaunchOf(k, TRUE).skipBlocks = BlocksToSkip(Geometry(k), B)
    BY <1>0, <1>5, ScatterSkip
  <1>8. \A k2 \in ObjectGroups[grp] :
           k2 \in KernelGroup /\ (path = "server" => TokensPerChunk(k2) = ChunkTokens /\ SkipTokens(k2) = skip)
                              /\ (path # "server" => k2 = k)
    <2>1. \A k2 \in ObjectGroups[grp] : k2 \in KernelGroup
      BY GroupsDisjoint DEF Configured
    <2>2. path # "server" => ObjectGroups[grp] = {grp}
      BY DEF ObjectGroups, Configured
    <2>3. path = "server" => \A k2 \in ObjectGroups[grp] : TokensPerChunk(k2) = ChunkTokens /\ SkipTokens(k2) = skip
      BY <2>1, ServerChunk
    <2> QED BY <2>1, <2>2, <2>3
  <1>9. TokensPerChunk(k) = n * t
    BY DEF TokensPerChunk
  <1>10. b = (c * n) + r /\ c \in Nat /\ r \in 0 .. (n - 1)
    <2> HIDE DEF n
    <2> QED BY <1>1, <1>4, Division
  <1>11. Slots(k) = 0 .. (w - 1)
    BY DEF Slots
  <1>12. BlockOf(k, c, j) = (c * n) + (n - w) + j
    BY DEF BlockOf
  <1> HIDE DEF n, w, t, S, len, c, r
  <1>13. j \in 0 .. (w - 1) /\ (n - w) + j = r
    BY <1>1, <1>4, <1>10
  <1>14. (start * n) + d = b /\ d \in Nat /\ e \in Nat /\ c = start + e
    <2>1. e \in Nat /\ c = start + e
      BY <1>1, <1>6, <1>10
    <2> HIDE DEF e, j
    <2>2. c * n = (start * n) + (e * n) /\ start * n \in Nat /\ e * n \in Nat
      BY <1>1, <2>1
    <2> DEFINE x == start * n
               y == e * n
    <2>3. x \in Nat /\ y \in Nat /\ b = (x + y) + r
      BY <1>10, <2>2
    <2>4. d = y + (n - w) + j
      OBVIOUS
    <2> HIDE DEF x, y, d
    <2>5. x + d = b /\ d \in Nat
      BY <1>1, <1>13, <2>3, <2>4
    <2> QED BY <2>1, <2>5 DEF x
  <1>15. b < (start + len) * n
    <2>1. (c * n) + n <= (start + len) * n
      BY <1>1, <1>2, <1>6, <1>10, TimesStrict
    <2>2. c * n \in Nat /\ (start + len) * n \in Nat
      BY <1>1, <1>2, <1>10
    <2> QED BY <1>1, <1>10, <2>1, <2>2
  <1>16. ~BatchDropped(start, len, n * t, S)
    BY <1>1, <1>2, <1>4, <1>5, <1>15, BatchIsLaunched
  <1>17. ~Dropped(TRUE)
    <2> SUFFICES ASSUME NEW k2 \in ObjectGroups[grp]
                 PROVE  ~BatchDropped(start, len, TokensPerChunk(k2), SkipTokens(k2))
      BY DEF Dropped, len
    <2>1. TokensPerChunk(k2) = TokensPerChunk(k) /\ SkipTokens(k2) = SkipTokens(k)
      BY <1>8
    <2> QED BY <1>9, <1>16, <2>1 DEF S
  <1>18. B \in Nat
    <2>1. n * t \in Nat /\ start * (n * t) \in Nat
      BY <1>1
    <2>2. TokensToSkip(start, n * t, S) \in Nat
      BY <1>1, <1>5, <2>1 DEF TokensToSkip, Greater
    <2> QED BY <1>1, <2>2, Division
  <1>19. ~(d < B)
    <2>1. ((start * n) + d + 1) * t > S
      BY <1>5, <1>14
    <2>2. d \in Nat
      BY <1>14
    <2> HIDE DEF d
    <2> QED BY <1>1, <1>5, <2>1, <2>2, BlocksNotSkipped
  <1>20. (e * w) + j >= LaunchOf(k, TRUE).skipBlocks
    <2>1. e \in Nat
      BY <1>14
    <2> HIDE DEF e, j, B
    <2>2. ~((e * w) + j < BlocksToSkip(Geometry(k), B))
      <3>1. (e * w) + j < BlocksToSkip(Geometry(k), B) <=> d < B
        BY <1>1, <1>13, <1>18, <2>1, SkipCountsKeptBlocks DEF n, w
      <3> QED BY <1>19, <3>1
    <2>3. BlocksToSkip(Geometry(k), B) \in Nat
      BY <1>1, <1>18, SkipIsNatural DEF n, w
    <2> DEFINE x == e * w
    <2>4. x \in Nat /\ j \in Nat
      BY <1>1, <1>13, <2>1
    <2> HIDE DEF x
    <2>5. x + j \in Nat
      BY <2>4
    <2> DEFINE y == x + j
               z == BlocksToSkip(Geometry(k), B)
    <2>6. y \in Nat /\ z \in Nat /\ ~(y < z)
      BY <2>2, <2>3, <2>5 DEF x
    <2> HIDE DEF y, z
    <2>7. y >= z
      BY <2>6
    <2> QED BY <1>7, <2>7 DEF x, y, z
  <1>21. MoveOf(k, chosen[c + 1], j) \in Moves(k, TRUE)
    <2>1. c \in start .. (start + len - 1)
      BY <1>1, <1>2, <1>6, <1>10
    <2>2. InBatch(k, TRUE, MoveOf(k, chosen[c + 1], j))
      BY <1>11, <1>13, <1>20, <2>1 DEF InBatch, BatchOf, len, w
    <2> QED BY <1>0, <1>1, <2>2, MovesOf
  <1>22. chosen[c + 1] = c
    <2>1. c + 1 \in 1 .. chunks
      <3>1. start + len <= Len(chosen)
        BY <1>1, BatchBounds DEF len
      <3> QED BY <1>1, <1>2, <1>3, <1>6, <1>10, <3>1
    <2>2. (c + 1) - 1 = c
      BY <1>10
    <2> QED BY <1>3, <2>1, <2>2
  <1>23. BlockOf(k, c, j) = b
    <2> DEFINE x == c * n
    <2>1. x \in Nat /\ b = x + r
      BY <1>1, <1>10
    <2> HIDE DEF x, j
    <2>2. BlockOf(k, c, j) = x + (n - w) + j
      BY <1>12 DEF x
    <2> QED BY <1>1, <1>13, <2>1, <2>2
  <1>24. MoveOf(k, chosen[c + 1], j).group = k /\ MoveOf(k, chosen[c + 1], j).block = b
    BY <1>22, <1>23 DEF MoveOf
  <1> QED BY <1>17, <1>21, <1>24
-----------------------------------------------------------------------------
(* The steps of a retrieve.                                                *)

\* Object groups are numbered from one.
LEMMA GroupsNumbered ==
  ASSUME Configured
  PROVE  \E n \in Nat \ {0} : DOMAIN ObjectGroups = 1 .. n
  <1>1. CASE path = "server"
    BY <1>1, LayoutsAssumption DEF Configured, ObjectGroups
  <1>2. CASE path # "server"
    BY <1>2, LayoutsAssumption DEF Configured, ObjectGroups, KernelGroup
  <1> QED BY <1>1, <1>2

\* Once a store is done every slot has the content of its block.
LEMMA KeptIsRight ==
  ASSUME Stores, phase \in {"stored", "scatter", "retrieved"},
         NEW k \in KernelGroup, NEW o \in 0 .. (chunks - 1), NEW j \in Slots(k)
  PROVE  kept[k][o][j] = <<k, BlockOf(k, o, j)>>
  BY DEF Stores, Gathered, ToCome

\* What is not retrieved has nothing to restore.
LEMMA NotRetrieving ==
  ASSUME phase' \notin {"scatter", "retrieved"}
  PROVE  Retrieves'
  BY DEF Retrieves, Buffers, DestShape, Scattered

\* A retrieve begins in front of its first block that is due.
LEMMA RetrieveBegins ==
  ASSUME IInv, Stores, NEW s \in 0 .. (chunks * ChunkTokens), BeginRetrieve(s)
  PROVE  Stores' /\ Retrieves'
  <1>1. /\ phase \in {"stored", "retrieved"} /\ phase' = "scatter" /\ skip' = s
        /\ chosen' = [i \in 1 .. chunks |-> i - 1] /\ dest' = Untouched
        /\ start' = ObjectsToSkip(chunks, ChunksInWindow(1), TRUE)
        /\ pinned' = IF path = "copied" THEN 1 ELSE pinned
        /\ UNCHANGED <<registered, chunks, grp, reserved, kept, stream>>
    BY Zenon DEF BeginRetrieve, EnterGroup
  <1>2. stream = <<>> /\ grp = 1 /\ Configured
    BY <1>1 DEF IInv, AtRest
  <1>3. chunks \in Nat /\ 1 \in DOMAIN ObjectGroups
    BY <1>2 DEF Configured
  <1>4. start' \in Nat
    BY <1>1, <1>2, <1>3, SkippedObjects
  <1>5. Stores'
    <2> DEFINE all == [i \in 1 .. chunks |-> i - 1]
    <2>1. all \in Seq(0 .. (chunks - 1))
      <3>1. all \in [1 .. chunks -> 0 .. (chunks - 1)]
        BY <1>3
      <3> QED BY <1>3, <3>1
    <2>2. stream' \in Seq(SUBSET RightMoves)
      BY <1>1, <1>2
    <2> QED BY <1>1, <1>4, <2>1, <2>2, StoredStays
  <1>6. Buffers'
    BY <1>1, <1>2 DEF Buffers, registered
  <1>7. DestShape'
    <2>1. dest' = [k \in KernelGroup |-> [b \in 0 .. ((chunks * Geometry(k).chunk) - 1) |-> Nothing]]
      BY <1>1 DEF Untouched
    <2>2. DOMAIN dest' = KernelGroup
      BY <2>1
    <2>3. \A k \in KernelGroup : DOMAIN dest'[k] = 0 .. ((chunks * Geometry(k).chunk) - 1)
      BY <2>1
    <2> QED BY <1>1, <2>2, <2>3, PlacesStay DEF DestShape
  <1>8. Scattered'
    <2> SUFFICES ASSUME NEW g \in DOMAIN ObjectGroups, NEW k \in ObjectGroups[g],
                        NEW b, Due(g, k, b)'
                 PROVE  g > grp \/ (g = grp /\ b \div Geometry(k).chunk >= start')
      BY <1>1, PlacesStay DEF Scattered
    <2>1. b \div Geometry(k).chunk >= ObjectsToSkip(chunks, ChunksInWindow(g), TRUE)
      <3>1. /\ Geometry(k)' = Geometry(k)
            /\ ObjectsToSkip(chunks, ChunksInWindow(g), TRUE)' = ObjectsToSkip(chunks, ChunksInWindow(g), TRUE)
        BY <1>1, PlacesStay DEF ChunksInWindow, registered, ObjectsToSkip
      <3> QED BY <3>1 DEF Due
    <2>2. PICK n \in Nat \ {0} : DOMAIN ObjectGroups = 1 .. n
      BY <1>2, GroupsNumbered
    <2>3. g = 1 \/ g > 1
      BY <2>2
    <2> QED BY <1>1, <1>2, <2>1, <2>3
  <1> QED BY <1>5, <1>6, <1>7, <1>8 DEF Retrieves

\* The batch that is launched loads the blocks that are due in its chunks.
LEMMA RetrieveScatters ==
  ASSUME IInv, Stores, Retrieves, Scatter
  PROVE  Stores' /\ Retrieves'
  <1> DEFINE launched == UNION {Moves(k, TRUE) : k \in ObjectGroups[grp]}
             len == ThisBatch(TRUE)
  <1>1. /\ phase = "scatter" /\ start < Len(chosen) /\ start' = start + len
        /\ stream' = IF Dropped(TRUE) THEN stream ELSE Append(stream, launched)
        /\ UNCHANGED <<registered, phase, chunks, skip, grp, chosen, reserved, memory, pinned>>
    BY Zenon DEF Scatter, EnqueueBatch
  <1>2. Configured /\ Loading /\ Sized
    BY DEF IInv, Stores
  <1>3. /\ start \in Nat /\ chosen \in Seq(0 .. (chunks - 1)) /\ stream \in Seq(SUBSET RightMoves)
        /\ chunks \in Nat
    BY <1>2 DEF Sized, Configured
  <1>4. launched \in SUBSET RightMoves
    BY <1>1, <1>2, LaunchesAreRight
  <1>5. len \in Nat \ {0}
    BY <1>1, <1>2, <1>3, BatchBounds
  <1>6. ASSUME NEW k \in ObjectGroups[grp], NEW b \in 0 .. ((chunks * Geometry(k).chunk) - 1),
               Due(grp, k, b), b \div Geometry(k).chunk >= start,
               b \div Geometry(k).chunk < start + len
        PROVE  ~Dropped(TRUE) /\ \E m \in launched : m.group = k /\ m.block = b
    <2>1. ~Dropped(TRUE) /\ \E m \in Moves(k, TRUE) : m.group = k /\ m.block = b
      BY <1>1, <1>2, <1>6, DueIsLaunched
    <2> QED BY <2>1
  <1>7. ASSUME path = "copied", NEW m \in launched PROVE m.group = grp
    <2>1. ObjectGroups[grp] = {grp} /\ grp \in KernelGroup
      BY <1>2, <1>7 DEF ObjectGroups, Configured
    <2>2. m \in Moves(grp, TRUE)
      BY <2>1
    <2>3. InBatch(grp, TRUE, m)
      BY <1>1, <1>2, <1>3, <2>1, <2>2, MovesOf
    <2>4. PICK c, j : m = MoveOf(grp, chosen[c + 1], j)
      BY <2>3 DEF InBatch
    <2>5. m.group = grp
      BY <2>4 DEF MoveOf
    <2> QED BY <2>5
  <1> HIDE DEF launched, len
  <1>8. /\ stream' \in Seq(SUBSET RightMoves)
        /\ \A i \in DOMAIN stream : i \in DOMAIN stream' /\ stream'[i] = stream[i]
        /\ \A i \in DOMAIN stream' : (i \in DOMAIN stream /\ stream'[i] = stream[i]) \/ stream'[i] = launched
        /\ ~Dropped(TRUE) => \E i \in DOMAIN stream' : stream'[i] = launched
    <2>1. CASE Dropped(TRUE)
      BY <1>1, <1>3, <2>1
    <2>2. CASE ~Dropped(TRUE)
      <3> DEFINE z == Append(stream, launched)
      <3>1. /\ z \in Seq(SUBSET RightMoves) /\ Len(z) = Len(stream) + 1
            /\ \A i \in 1 .. Len(stream) : z[i] = stream[i]
            /\ z[Len(stream) + 1] = launched
        BY <1>3, <1>4, AppendProperties
      <3>2. Len(stream) \in Nat /\ DOMAIN stream = 1 .. Len(stream)
        BY <1>3
      <3> HIDE DEF z
      <3>3. DOMAIN z = 1 .. Len(z)
        BY <3>1
      <3>4. \A i \in DOMAIN z : i \in DOMAIN stream \/ i = Len(stream) + 1
        BY <3>1, <3>2, <3>3
      <3>5. Len(stream) + 1 \in DOMAIN z /\ \A i \in DOMAIN stream : i \in DOMAIN z
        BY <3>1, <3>2, <3>3
      <3>6. stream' = z
        BY <1>1, <2>2 DEF z
      <3> QED BY <3>1, <3>2, <3>4, <3>5, <3>6
    <2> QED BY <2>1, <2>2
  <1>9. Stores'
    <2>1. start' \in Nat /\ chosen' \in Seq(0 .. (chunks - 1))
      BY <1>1, <1>3, <1>5
    <2>2. UNCHANGED <<registered, chunks, reserved, kept>> /\ phase' = "scatter"
      BY <1>1 DEF memory
    <2> QED BY <1>1, <1>8, <2>1, <2>2, StoredStays
  <1>10. Buffers'
    <2> SUFFICES ASSUME path = "copied"
                 PROVE  pinned = grp /\ \A i \in DOMAIN stream' : \A m \in stream'[i] : m.group = grp
      BY <1>1 DEF Buffers, registered
    <2> QED BY <1>1, <1>7, <1>8 DEF Retrieves, Buffers
  <1>11. DestShape'
    BY <1>1, PlacesStay DEF Retrieves, DestShape, memory
  <1>12. \A k, b : Loads(k, b) => Loads(k, b)'
    BY <1>8 DEF Loads
  <1>13. Scattered'
    <2> SUFFICES ASSUME NEW g \in DOMAIN ObjectGroups, NEW k \in ObjectGroups[g],
                        NEW b \in DOMAIN dest[k], Due(g, k, b)
                 PROVE  \/ dest[k][b] = <<k, b>>
                        \/ Loads(k, b)'
                        \/ g > grp \/ (g = grp /\ b \div Geometry(k).chunk >= start')
      BY <1>1, PlacesStay, DueStays DEF Scattered, memory
    <2>1. \/ dest[k][b] = <<k, b>>
          \/ Loads(k, b)
          \/ g > grp \/ (g = grp /\ b \div Geometry(k).chunk >= start)
      BY <1>1 DEF Retrieves, Scattered
    <2>2. ASSUME g = grp, b \div Geometry(k).chunk >= start, ~(b \div Geometry(k).chunk >= start')
          PROVE  Loads(k, b)'
      <3>1. k \in KernelGroup
        BY <1>2, GroupsDisjoint
      <3>2. b \in 0 .. ((chunks * Geometry(k).chunk) - 1)
        BY <1>1, <3>1 DEF Retrieves, DestShape
      <3>3. b \div Geometry(k).chunk < start + len
        <4> DEFINE n == Geometry(k).chunk
        <4>1. n \in Nat \ {0}
          BY <1>1, <1>2, <3>1, GeometryFits
        <4>2. b \in Nat
          <5>1. n \in Nat
            BY <4>1
          <5>2. chunks * n \in Nat
            BY <1>3, <5>1
          <5> QED BY <3>2, <5>2
        <4> HIDE DEF n
        <4>3. b \div n \in Nat
          BY <4>1, <4>2, Division
        <4> QED BY <1>1, <1>3, <1>5, <2>2, <4>3 DEF n
      <3>4. ~Dropped(TRUE) /\ \E m \in launched : m.group = k /\ m.block = b
        BY <1>6, <2>2, <3>2, <3>3
      <3> QED BY <1>8, <3>4 DEF Loads
    <2> QED BY <1>12, <2>1, <2>2
  <1> QED BY <1>9, <1>10, <1>11, <1>13 DEF Retrieves
\* A load that runs writes its blocks with what the store read from them.
LEMMA RetrieveRuns ==
  ASSUME IInv, Stores, Retrieves, RunScatter
  PROVE  Stores' /\ Retrieves'
  <1> DEFINE Writes(m, k, b) == m.group = k /\ m.block = b
  <1>1. /\ phase = "scatter" /\ stream # <<>> /\ stream' = Tail(stream)
        /\ UNCHANGED <<registered, phase, chunks, skip, grp, chosen, reserved, start, kept, pinned>>
    BY Zenon DEF RunScatter
  <1>2. dest' = [k \in KernelGroup |-> [b \in DOMAIN dest[k] |->
                   IF \E m \in Head(stream) : Writes(m, k, b)
                     THEN Source(CHOOSE m \in Head(stream) : Writes(m, k, b))
                     ELSE dest[k][b]]]
    BY Zenon DEF RunScatter
  <1>3. Configured /\ Loading /\ Sized
    BY DEF IInv, Stores
  <1>4. /\ start \in Nat /\ chosen \in Seq(0 .. (chunks - 1)) /\ stream \in Seq(SUBSET RightMoves)
    BY <1>3 DEF Sized
  <1>5. /\ Head(stream) \in SUBSET RightMoves /\ Tail(stream) \in Seq(SUBSET RightMoves)
        /\ Head(stream) = stream[1] /\ 1 \in DOMAIN stream
        /\ Len(stream) \in Nat \ {0} /\ DOMAIN stream = 1 .. Len(stream)
        /\ DOMAIN Tail(stream) = 1 .. (Len(stream) - 1)
        /\ \A i \in 1 .. (Len(stream) - 1) : Tail(stream)[i] = stream[i + 1]
    <2>1. Head(stream) \in SUBSET RightMoves /\ Tail(stream) \in Seq(SUBSET RightMoves)
      BY <1>1, <1>4, HeadTailProperties
    <2>2. /\ Len(Tail(stream)) = Len(stream) - 1
          /\ \A i \in 1 .. Len(Tail(stream)) : Tail(stream)[i] = stream[i + 1]
      BY <1>1, <1>4, HeadTailProperties
    <2>3. /\ Len(stream) \in Nat \ {0} /\ DOMAIN stream = 1 .. Len(stream) /\ Head(stream) = stream[1]
      BY <1>1, <1>4
    <2>4. DOMAIN Tail(stream) = 1 .. Len(Tail(stream))
      BY <2>1
    <2>5. 1 \in 1 .. Len(stream)
      BY <2>3
    <2> QED BY <2>1, <2>2, <2>3, <2>4, <2>5
  <1>6. \A i \in DOMAIN stream' : i + 1 \in DOMAIN stream /\ stream'[i] = stream[i + 1]
    <2> SUFFICES ASSUME NEW i \in 1 .. (Len(stream) - 1)
                 PROVE  i + 1 \in 1 .. Len(stream) /\ stream'[i] = stream[i + 1]
      BY <1>1, <1>5
    <2> QED BY <1>1, <1>5
  <1>7. ASSUME NEW m \in Head(stream)
        PROVE  Source(m) = <<m.group, m.block>>
    <2>1. m \in RightMoves
      BY <1>5
    <2>2. /\ m.group \in KernelGroup /\ m.object \in 0 .. (chunks - 1) /\ m.slot \in Slots(m.group)
          /\ m.block = BlockOf(m.group, m.object, m.slot)
      BY <2>1 DEF RightMoves
    <2>3. kept[m.group][m.object][m.slot] = <<m.group, m.block>>
      BY <1>1, <2>2, KeptIsRight
    <2>4. path = "copied" => pinned = m.group
      BY <1>1, <1>5 DEF Retrieves, Buffers
    <2> QED BY <2>2, <2>3, <2>4 DEF Source
  <1>8. Stores'
    BY <1>1, <1>4, <1>5, StoredStays
  <1>9. Buffers'
    <2> SUFFICES ASSUME path = "copied"
                 PROVE  pinned = grp /\ \A i \in DOMAIN stream' : \A m \in stream'[i] : m.group = grp
      BY <1>1 DEF Buffers, registered
    <2> QED BY <1>1, <1>6 DEF Retrieves, Buffers
  <1>10. DOMAIN dest = KernelGroup /\ \A k \in KernelGroup : DOMAIN dest[k] = 0 .. ((chunks * Geometry(k).chunk) - 1)
    BY <1>1 DEF Retrieves, DestShape
  <1>11. DOMAIN dest' = KernelGroup /\ \A k \in KernelGroup : DOMAIN dest'[k] = DOMAIN dest[k]
    BY <1>2
  <1>12. DestShape'
    BY <1>1, <1>10, <1>11, PlacesStay DEF DestShape
  <1>13. Scattered'
    <2> SUFFICES ASSUME NEW g \in DOMAIN ObjectGroups, NEW k \in ObjectGroups[g],
                        NEW b \in DOMAIN dest'[k], Due(g, k, b)
                 PROVE  \/ dest'[k][b] = <<k, b>>
                        \/ Loads(k, b)'
                        \/ g > grp \/ (g = grp /\ b \div Geometry(k).chunk >= start)
      BY <1>1, PlacesStay, DueStays DEF Scattered
    <2>1. k \in KernelGroup /\ b \in DOMAIN dest[k]
      BY <1>3, <1>11, GroupsDisjoint
    <2>2. \/ dest[k][b] = <<k, b>>
          \/ Loads(k, b)
          \/ g > grp \/ (g = grp /\ b \div Geometry(k).chunk >= start)
      BY <1>1, <2>1 DEF Retrieves, Scattered
    <2>3. dest'[k][b] = IF \E m \in Head(stream) : Writes(m, k, b)
                          THEN Source(CHOOSE m \in Head(stream) : Writes(m, k, b))
                          ELSE dest[k][b]
      <3> HIDE DEF Writes
      <3> QED BY <1>2, <2>1
    <2>4. CASE \E m \in Head(stream) : Writes(m, k, b)
      <3> DEFINE m == CHOOSE mm \in Head(stream) : Writes(mm, k, b)
      <3>1. m \in Head(stream) /\ Writes(m, k, b)
        <4> HIDE DEF Writes
        <4> QED BY <2>4
      <3>2. dest'[k][b] = Source(m)
        BY <2>3, <2>4
      <3> HIDE DEF m
      <3> QED BY <1>7, <3>1, <3>2
    <2>5. CASE ~(\E m \in Head(stream) : Writes(m, k, b))
      <3>1. dest'[k][b] = dest[k][b]
        BY <2>3, <2>5
      <3>2. ASSUME Loads(k, b) PROVE Loads(k, b)'
        <4>1. PICK i \in DOMAIN stream : \E m \in stream[i] : Writes(m, k, b)
          BY <3>2 DEF Loads
        <4>2. i # 1
          BY <1>5, <2>5, <4>1
        <4>3. i - 1 \in DOMAIN Tail(stream) /\ Tail(stream)[i - 1] = stream[i]
          <5>1. i - 1 \in 1 .. (Len(stream) - 1) /\ (i - 1) + 1 = i
            BY <1>5, <4>2
          <5> QED BY <1>5, <5>1
        <4>4. \E n \in DOMAIN stream' : \E m \in stream'[n] : Writes(m, k, b)
          BY <1>1, <4>1, <4>3
        <4> QED BY <4>4 DEF Loads
      <3> QED BY <2>2, <3>1, <3>2
    <2> QED BY <2>4, <2>5
  <1> QED BY <1>8, <1>9, <1>12, <1>13 DEF Retrieves

\* The end of a group has launched all its batches: what is due in it waits in
\* the stream, and the end of the last group, or of one whose buffers are given
\* back, waits for the stream.
LEMMA RetrieveGroupEnds ==
  ASSUME IInv, Stores, Retrieves, EndScatter
  PROVE  Stores' /\ Retrieves'
  <1>1. /\ phase = "scatter" /\ start >= Len(chosen) /\ MayGoOn
        /\ phase' = IF LastGroup THEN "retrieved" ELSE "scatter"
        /\ grp' = IF LastGroup THEN 1 ELSE grp + 1
        /\ LastGroup => UNCHANGED <<start, pinned>>
        /\ ~LastGroup => /\ start' = ObjectsToSkip(chunks, ChunksInWindow(grp + 1), TRUE)
                         /\ pinned' = IF path = "copied" THEN grp + 1 ELSE pinned
        /\ UNCHANGED <<registered, chunks, skip, chosen, reserved, memory, stream>>
    BY Zenon DEF EndScatter, EnterGroup
  <1>2. Configured /\ Loading /\ Sized
    BY DEF IInv, Stores
  <1>3. /\ start \in Nat /\ chosen \in Seq(0 .. (chunks - 1)) /\ stream \in Seq(SUBSET RightMoves)
        /\ chunks \in Nat
    BY <1>2 DEF Sized, Configured
  <1>4. start' \in Nat
    <2>1. CASE LastGroup
      BY <1>1, <1>3, <2>1
    <2>2. CASE ~LastGroup
      <3>1. grp + 1 \in DOMAIN ObjectGroups
        BY <2>2 DEF LastGroup
      <3>2. ObjectsToSkip(chunks, ChunksInWindow(grp + 1), TRUE) \in Nat
        BY <1>2, <3>1, SkippedObjects
      <3> QED BY <1>1, <2>2, <3>2
    <2> QED BY <2>1, <2>2
  <1>5. Stores'
    <2>1. phase' \in {"scatter", "retrieved"} /\ UNCHANGED <<registered, chunks, reserved, kept>>
      BY <1>1 DEF memory
    <2>2. chosen' \in Seq(0 .. (chunks - 1)) /\ stream' \in Seq(SUBSET RightMoves)
      BY <1>1, <1>3
    <2> QED BY <1>1, <1>4, <2>1, <2>2, StoredStays
  <1>6. LastGroup \/ path = "copied" => stream = <<>>
    BY <1>1 DEF MayGoOn
  <1>7. Buffers'
    <2> SUFFICES ASSUME path = "copied", phase' = "scatter"
                 PROVE  pinned' = grp' /\ \A i \in DOMAIN stream' : \A m \in stream'[i] : m.group = grp'
      BY <1>1 DEF Buffers, registered
    <2>1. ~LastGroup
      BY <1>1
    <2>2. stream' = <<>>
      BY <1>1, <1>6
    <2> QED BY <1>1, <2>1, <2>2
  <1>8. DestShape'
    BY <1>1, PlacesStay DEF Retrieves, DestShape, memory
  <1>9. Scattered'
    <2> SUFFICES ASSUME NEW g \in DOMAIN ObjectGroups, NEW k \in ObjectGroups[g],
                        NEW b \in DOMAIN dest[k], Due(g, k, b)
                 PROVE  \/ dest[k][b] = <<k, b>>
                        \/ Loads(k, b)'
                        \/ /\ phase' = "scatter"
                           /\ g > grp' \/ (g = grp' /\ b \div Geometry(k).chunk >= start')
      BY <1>1, PlacesStay, DueStays DEF Scattered, memory
    <2>1. \/ dest[k][b] = <<k, b>>
          \/ Loads(k, b)
          \/ g > grp \/ (g = grp /\ b \div Geometry(k).chunk >= start)
      BY <1>1 DEF Retrieves, Scattered
    <2>2. Loads(k, b) => Loads(k, b)'
      BY <1>1 DEF Loads
    <2>3. k \in KernelGroup
      BY <1>2, GroupsDisjoint
    <2>4. b \div Geometry(k).chunk < start
      <3> DEFINE n == Geometry(k).chunk
      <3>1. n \in Nat \ {0}
        BY <1>1, <1>2, <2>3, GeometryFits
      <3>2. b \in 0 .. ((chunks * n) - 1)
        BY <1>1, <2>3 DEF Retrieves, DestShape
      <3>3. Len(chosen) = chunks
        BY <1>1, <1>2, <1>3 DEF Loading
      <3> HIDE DEF n
      <3>4. chunks * n \in Nat
        BY <1>3, <3>1
      <3>5. b \in Nat /\ b < chunks * n
        BY <3>2, <3>4
      <3>6. b \div n \in Nat /\ b % n \in 0 .. (n - 1) /\ b = ((b \div n) * n) + (b % n)
        BY <3>1, <3>5, Division
      <3> DEFINE q == b \div n
      <3>7. q \in Nat /\ q * n <= b
        <4>1. q * n \in Nat
          BY <3>1, <3>6
        <4> QED BY <3>5, <3>6, <4>1
      <3>8. q < chunks
        <4> SUFFICES ASSUME chunks <= q PROVE FALSE
          BY <1>3, <3>7
        <4> HIDE DEF q
        <4>1. chunks * n <= q * n
          BY <1>3, <3>1, <3>7
        <4>2. q * n \in Nat
          BY <3>1, <3>7
        <4> QED BY <3>4, <3>5, <3>7, <4>1, <4>2
      <3> HIDE DEF q
      <3>9. q < start
        BY <1>1, <1>3, <3>3, <3>7, <3>8
      <3> QED BY <3>9 DEF q, n
    <2>5. b \div Geometry(k).chunk \in Nat
      <3> DEFINE n == Geometry(k).chunk
      <3>1. n \in Nat \ {0}
        BY <1>1, <1>2, <2>3, GeometryFits
      <3>2. b \in 0 .. ((chunks * n) - 1)
        BY <1>1, <2>3 DEF Retrieves, DestShape
      <3> HIDE DEF n
      <3>3. chunks * n \in Nat
        BY <1>3, <3>1
      <3>4. b \in Nat
        BY <3>2, <3>3
      <3>5. b \div n \in Nat
        BY <3>1, <3>4, Division
      <3> QED BY <3>5 DEF n
    <2>6. PICK n \in Nat \ {0} : DOMAIN ObjectGroups = 1 .. n
      BY <1>2, GroupsNumbered
    <2>7. g \in 1 .. n /\ grp \in 1 .. n
      BY <1>2, <2>6 DEF Configured
    <2>8. g > grp => ~LastGroup
      BY <2>6, <2>7 DEF LastGroup
    <2>9. g > grp => g > grp + 1 \/ g = grp + 1
      BY <2>7
    <2>10. b \div Geometry(k).chunk >= ObjectsToSkip(chunks, ChunksInWindow(g), TRUE)
      BY DEF Due
    <2>11. ~(g = grp /\ b \div Geometry(k).chunk >= start)
      BY <1>3, <2>4, <2>5
    <2>12. CASE g > grp
      <3>1. phase' = "scatter" /\ grp' = grp + 1
           /\ start' = ObjectsToSkip(chunks, ChunksInWindow(grp + 1), TRUE)
        BY <1>1, <2>8, <2>12
      <3> QED BY <2>9, <2>10, <2>12, <3>1
    <2> QED BY <2>1, <2>2, <2>11, <2>12
  <1> QED BY <1>5, <1>7, <1>8, <1>9 DEF Retrieves
-----------------------------------------------------------------------------
(* The invariant, and what it says.                                        *)

Everything == IInv /\ Stores /\ Retrieves

\* The initial states have no objects and no blocks.
LEMMA EverythingBegins ==
  ASSUME Init
  PROVE  Everything
  <1>1. IInv
    BY IInvBegins
  <1>2. /\ phase = "unregistered" /\ chunks = 0 /\ start = 0 /\ chosen = <<>> /\ reserved = {}
        /\ stream = <<>>
    BY DEF Init
  <1>3. Sized
    <2>1. <<>> \in Seq(SUBSET RightMoves) /\ <<>> \in Seq(0 .. (0 - 1))
      OBVIOUS
    <2>2. 0 \in 0 .. MaxChunks
      BY LayoutsAssumption
    <2> QED BY <1>2, <2>1, <2>2 DEF Sized, Phase
  <1>4. Stores
    BY <1>2, <1>3 DEF Stores, Granted, Shape, Gathered
  <1>5. Retrieves
    BY <1>2 DEF Retrieves, Buffers, DestShape, Scattered
  <1> QED BY <1>1, <1>4, <1>5 DEF Everything

\* A registration has nothing to store.
LEMMA RegisterStores ==
  ASSUME Stores, Register
  PROVE  Stores'
  <1>1. /\ phase = "unregistered" /\ phase' = "idle"
        /\ UNCHANGED <<registered, chunks, chosen, reserved, start, stream>>
    BY DEF Register
  <1>2. Sized'
    BY <1>1, PlacesStay DEF Stores, Sized, Phase
  <1> QED BY <1>1, <1>2 DEF Stores, Granted, Shape, Gathered

\* Every step keeps the invariant.
LEMMA EverythingKept ==
  ASSUME Everything, [Next]_vars
  PROVE  Everything'
  <1>1. IInv /\ Stores /\ Retrieves /\ Configured
    BY DEF Everything, IInv
  <1>2. IInv'
    BY <1>1, IInvKept
  <1>3. CASE Register
    <2>1. phase' \notin {"scatter", "retrieved"}
      BY <1>3 DEF Register
    <2> QED BY <1>1, <1>2, <1>3, <2>1, RegisterStores, NotRetrieving DEF Everything
  <1>4. ASSUME NEW n \in 1 .. MaxChunks, BeginStore(n) PROVE Everything'
    <2>1. phase' \notin {"scatter", "retrieved"}
      BY <1>4 DEF BeginStore
    <2> QED BY <1>1, <1>2, <1>4, <2>1, StoreBegins, NotRetrieving DEF Everything
  <1>5. ASSUME NEW granted \in SUBSET (0 .. (chunks - 1)), Reserve(granted) PROVE Everything'
    <2>1. phase' \notin {"scatter", "retrieved"}
      BY <1>5 DEF Reserve
    <2> QED BY <1>1, <1>2, <1>5, <2>1, StoreReserves, NotRetrieving DEF Everything
  <1>6. CASE Gather
    <2>1. phase' \notin {"scatter", "retrieved"}
      BY <1>6, Zenon DEF Gather, EnqueueBatch
    <2> QED BY <1>1, <1>2, <1>6, <2>1, StoreGathers, NotRetrieving DEF Everything
  <1>7. CASE RunGather
    <2>1. phase \in {"reserve", "gather"} /\ phase' = phase
      BY <1>7, Zenon DEF RunGather
    <2>2. phase' \notin {"scatter", "retrieved"}
      BY <2>1
    <2> QED BY <1>1, <1>2, <1>7, <2>2, StoreRuns, NotRetrieving DEF Everything
  <1>8. CASE EndGather
    <2>1. phase' \notin {"scatter", "retrieved"}
      BY <1>8 DEF EndGather
    <2> QED BY <1>1, <1>2, <1>8, <2>1, StoreGroupEnds, NotRetrieving DEF Everything
  <1>9. ASSUME NEW s \in 0 .. (chunks * ChunkTokens), BeginRetrieve(s) PROVE Everything'
    BY <1>1, <1>2, <1>9, RetrieveBegins DEF Everything
  <1>10. CASE Scatter
    BY <1>1, <1>2, <1>10, RetrieveScatters DEF Everything
  <1>11. CASE RunScatter
    BY <1>1, <1>2, <1>11, RetrieveRuns DEF Everything
  <1>12. CASE EndScatter
    BY <1>1, <1>2, <1>12, RetrieveGroupEnds DEF Everything
  <1>13. CASE UNCHANGED vars
    <2>1. UNCHANGED <<registered, phase, chunks, skip, grp, chosen, reserved, start, memory, stream, pinned>>
      BY <1>13, Zenon DEF vars
    <2>2. Sized' /\ Granted' /\ Shape'
      BY <1>1, <2>1, PlacesStay DEF Stores, Sized, Granted, Shape, memory, registered
    <2>3. \A k, o, j : (Pending(k, o, j)' <=> Pending(k, o, j)) /\ (ToCome(k, o)' <=> ToCome(k, o))
      BY <2>1, PlacesStay DEF Pending, ToCome
    <2>4. Gathered'
      BY <1>1, <2>1, <2>3, PlacesStay DEF Stores, Gathered, memory
    <2>5. \A k, b : Loads(k, b)' <=> Loads(k, b)
      BY <2>1 DEF Loads
    <2>6. Buffers' /\ DestShape'
      BY <1>1, <2>1, PlacesStay DEF Retrieves, Buffers, DestShape, memory, registered
    <2>7. Scattered'
      BY <1>1, <2>1, <2>5, PlacesStay, DueStays DEF Retrieves, Scattered, memory
    <2> QED BY <1>2, <2>2, <2>4, <2>6, <2>7 DEF Everything, Stores, Retrieves
  <1> QED BY <1>3, <1>4, <1>5, <1>6, <1>7, <1>8, <1>9, <1>10, <1>11, <1>12, <1>13, Zenon DEF Next

\* The invariant holds in every reachable state.
LEMMA EverythingHolds == Spec => []Everything
  <1>1. Init => Everything
    BY EverythingBegins
  <1>2. Everything /\ [Next]_vars => Everything'
    BY EverythingKept
  <1> QED BY <1>1, <1>2, PTL DEF Spec

\* Every variable has its type, whatever is registered, stored and retrieved.
THEOREM TypeCorrect == Spec => []TypeOK
  <1>1. Everything => TypeOK
    <2> SUFFICES ASSUME Everything PROVE TypeOK
      OBVIOUS
    <2>1. Configured /\ Sized
      BY DEF Everything, IInv, Stores
    <2>2. \A i \in DOMAIN chosen : chosen[i] \in 0 .. (chunks - 1)
      <3>1. chosen \in Seq(0 .. (chunks - 1))
        BY <2>1 DEF Sized
      <3> QED BY <3>1, SeqMembers
    <2> QED BY <2>1, <2>2 DEF Configured, Sized, TypeOK
  <1> QED BY <1>1, EverythingHolds, PTL

\* A store that is done has filled every object of every kernel group, those it
\* was granted and those the storage had, with the last blocks of its own chunk:
\* on every path, for every layout, whatever objects are declined, however its
\* launches are batched and delayed.
THEOREM ReservedGathered == Spec => []ReservedAreGathered
  <1>1. Everything => ReservedAreGathered
    <2> SUFFICES ASSUME Everything, phase = "stored", NEW k \in KernelGroup
                 PROVE  kept[k] = [o \in 0 .. (chunks - 1) |-> Complete(k, o)]
      BY DEF ReservedAreGathered
    <2>1. Stores /\ Configured
      BY DEF Everything, IInv
    <2>2. kept[k] \in [0 .. (chunks - 1) -> [Slots(k) -> Content]]
      BY <2>1 DEF Stores, Shape
    <2>3. \A o \in 0 .. (chunks - 1) : o \in Nat
      OBVIOUS
    <2>4. \A o \in 0 .. (chunks - 1) : kept[k][o] = Complete(k, o)
      <3> SUFFICES ASSUME NEW o \in 0 .. (chunks - 1) PROVE kept[k][o] = Complete(k, o)
        OBVIOUS
      <3>1. kept[k][o] \in [Slots(k) -> Content]
        BY <2>2
      <3>2. /\ Complete(k, o) \in [Slots(k) -> Content]
            /\ \A j \in Slots(k) : Complete(k, o)[j] = <<k, BlockOf(k, o, j)>>
        BY <2>1, <2>3, CompleteIsGathered
      <3>3. \A j \in Slots(k) : kept[k][o][j] = Complete(k, o)[j]
        BY <2>1, <3>2, KeptIsRight
      <3> QED BY <3>1, <3>2, <3>3
    <2> QED BY <2>2, <2>4
  <1> QED BY <1>1, EverythingHolds, PTL

\* A retrieve that is done has written every block that is due, those behind the
\* skipped prefix in the last chunks of each object group, with what the store
\* read from the same block: on every path, wherever the prefix ends, through
\* the pinned buffers or not, however its launches are batched and delayed.
THEOREM RetrievesRestore == Spec => []RetrieveRestores
  <1>1. Everything => RetrieveRestores
    <2> SUFFICES ASSUME Everything, phase = "retrieved",
                        NEW g \in DOMAIN ObjectGroups, NEW k \in ObjectGroups[g],
                        NEW b \in DOMAIN dest[k], Due(g, k, b)
                 PROVE  dest[k][b] = <<k, b>>
      BY DEF RetrieveRestores
    <2>1. stream = <<>>
      BY DEF Everything, IInv, AtRest
    <2>2. ~Loads(k, b)
      BY <2>1 DEF Loads
    <2> QED BY <2>2 DEF Everything, Retrieves, Scattered
  <1> QED BY <1>1, EverythingHolds, PTL
=============================================================================
