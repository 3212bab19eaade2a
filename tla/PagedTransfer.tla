---------------------------- MODULE PagedTransfer ----------------------------
(***************************************************************************)
(* The blocks a store reads and a retrieve writes, on the three paths that *)
(* move them:                                                              *)
(*   "native"  the engine-driven worker with the compiled kernel, in       *)
(*             batches of the planner (base.py),                           *)
(*   "copied"  the same for chunks in memory that is not pinned, which a   *)
(*             retrieve copies to temporary pinned buffers first,          *)
(*   "tensor"  the kernel that takes tensors, in one launch,               *)
(*   "server"  the LMCache-driven server (lmcache_driven_transfer.py).     *)
(*                                                                         *)
(* A kernel group's blocks are the positions of its list of block ids; the *)
(* content of a block is named by its group and position.  An operation    *)
(* goes through the object groups in order, and through the batches of     *)
(* each; what it launches waits in the stream, and runs in order, while    *)
(* the operation goes on.  The objects a store may write are all but those *)
(* the storage had already or declined.                                    *)
(***************************************************************************)
EXTENDS TransferPlan, Sequences, FiniteSets

CONSTANTS
    Layouts,        \* what workers register: see ASSUME
    ChunkTokens,    \* LMCache chunk size, in scheduler tokens
    MaxChunks,      \* bound: chunks of one operation
    MaxObjects      \* MAX_OBJECTS of a native call, max_batch_size of a server

\* A layout has EngineGroupInfos: the tokens of a block for the scheduler and
\* the slots it has in this rank's tensor (fewer under DCP), and the tokens of
\* a sliding window inside a chunk (negative: none); object groups of one or
\* more kernel groups; and the trailing chunks each object group has to load.
ASSUME LayoutsAssumption ==
    /\ ChunkTokens \in Nat \ {0} /\ MaxChunks \in Nat \ {0} /\ MaxObjects \in Nat \ {0}
    /\ \A l \in Layouts :
        /\ \A i \in DOMAIN l.infos :
            /\ l.infos[i].tokensPerBlock \in Nat \ {0}
            /\ l.infos[i].slots \in Nat \ {0}
            /\ l.infos[i].window \in Int \ {0}
        /\ \A g \in DOMAIN l.objectGroups : l.objectGroups[g] \subseteq DOMAIN l.infos
        /\ \A g, h \in DOMAIN l.objectGroups :
             g # h => l.objectGroups[g] \cap l.objectGroups[h] = {}
        /\ Len(l.infos) \in Nat \ {0} /\ DOMAIN l.infos = 1 .. Len(l.infos)
        /\ Len(l.objectGroups) \in Nat \ {0} /\ DOMAIN l.objectGroups = 1 .. Len(l.objectGroups)
        /\ \A g \in DOMAIN l.objectGroups : l.chunksInWindow[g] \in Int

VARIABLES
    layout, path,   \* what the worker registers, and the path it then takes
    phase,          \* see Phase
    chunks, skip,   \* chunks of the operation, skip_first_n_tokens
    grp,            \* the object group the operation is at
    chosen,         \* the chunks whose blocks are staged, in order
    reserved,       \* the objects of this group the store may write
    start,          \* index in `chosen` of the next batch
    kept,           \* content of the objects, per kernel group
    dest,           \* content of the paged blocks a retrieve loads into
    stream,         \* the launches that have not run
    pinned          \* the kernel group whose chunks the pinned buffers hold

registered == <<layout, path>>
memory == <<kept, dest>>
vars == <<registered, phase, chunks, skip, grp, chosen, reserved, start, memory, stream, pinned>>

Path == {"native", "copied", "tensor", "server"}
Phase == {"unregistered", "idle", "reserve", "gather", "stored", "scatter", "retrieved"}
Info(k) == layout.infos[k]
KernelGroup == DOMAIN layout.infos

\* A window that is none, or as long as the chunk, keeps the whole chunk.
WindowTokens(info) ==
    IF info.window < 0 \/ info.window >= ChunkTokens THEN ChunkTokens ELSE info.window

\* register raises unless chunks and windows are whole blocks.  The server's
\* registration does not look: it is taken to get such layouts alone, as the
\* connector refuses at its start blocks that do not divide a chunk.
Divides(info) ==
    /\ ChunkTokens % info.tokensPerBlock = 0
    /\ WindowTokens(info) % info.tokensPerBlock = 0

\* _GroupState and the engine-driven _object_group_geometry: blocks are chosen
\* in scheduler tokens, and counted in this rank's slots.
EngineGeometry(info) ==
    [chunk  |-> ChunkTokens \div info.tokensPerBlock,
     window |-> WindowTokens(info) \div info.tokensPerBlock,
     tokens |-> info.slots]

\* The LMCache-driven _object_group_geometry: scheduler tokens throughout.
ServerGeometry(info) ==
    [EngineGeometry(info) EXCEPT !.tokens = info.tokensPerBlock]

Geometry(k) == IF path = "server" THEN ServerGeometry(Info(k)) ELSE EngineGeometry(Info(k))

\* An engine-driven worker moves every kernel group on its own.
ObjectGroups ==
    IF path = "server" THEN layout.objectGroups ELSE [k \in KernelGroup |-> {k}]

ChunksInWindow(g) == IF path = "server" THEN layout.chunksInWindow[g] ELSE -1

TokensPerChunk(k) == Geometry(k).chunk * Geometry(k).tokens

\* _physical_skip_tokens: whole blocks of the scheduler, in slots of this rank.
SkipTokens(k) ==
    IF path = "server" THEN skip
    ELSE (skip \div Info(k).tokensPerBlock) * Info(k).slots

\* The staged list of block positions: the last blocks of every chosen chunk.
Staged(k, p) ==
    (chosen[(p \div Geometry(k).window) + 1] * Geometry(k).chunk)
    + (Geometry(k).chunk - Geometry(k).window) + (p % Geometry(k).window)

\* Where a launch puts position p of the staged list: the object and the block in it.
ObjectAt(k, p) == chosen[(p \div Geometry(k).window) + 1]
SlotAt(k, p) == p % Geometry(k).window

Slots(k) == 0 .. (Geometry(k).window - 1)
Nothing == <<>>

\* What an object holds when all its blocks have been gathered.
Complete(k, o) ==
    [j \in Slots(k) |->
        <<k, (o * Geometry(k).chunk) + (Geometry(k).chunk - Geometry(k).window) + j>>]

Untouched == [k \in KernelGroup |-> [b \in 0 .. ((chunks * Geometry(k).chunk) - 1) |-> Nothing]]

Init ==
    /\ layout \in Layouts /\ path \in Path
    /\ phase = "unregistered"
    /\ chunks = 0 /\ skip = 0 /\ grp = 1 /\ start = 0
    /\ chosen = <<>> /\ reserved = {}
    /\ kept = <<>> /\ dest = <<>> /\ stream = <<>> /\ pinned = 0

\* A worker with a single kernel group registers none, and takes another path
\* than those modelled here.
Register ==
    /\ phase = "unregistered"
    /\ path # "server" => Len(layout.infos) > 1
    /\ \A k \in KernelGroup : Divides(Info(k))
    /\ phase' = "idle"
    /\ UNCHANGED <<registered, chunks, skip, grp, chosen, reserved, start, memory, stream, pinned>>

-----------------------------------------------------------------------------
(* Launches.                                                               *)

\* Mutant: the server stores in batches as large as those it retrieves in.
BatchSizeOfRetrieve(isH2D) == IF path = "tensor" THEN Len(chosen) ELSE MaxObjects

\* Batches of a worker have MAX_OBJECTS objects, or all of them in one launch;
\* those of the server one object in a store and max_batch_size in a retrieve.
BatchSize(isH2D) ==
    CASE path \in {"native", "copied"} -> MaxObjects
      [] path = "tensor" -> Len(chosen)
      [] path = "server" -> IF isH2D THEN MaxObjects ELSE 1

ThisBatch(isH2D) == BatchLen(start, Len(chosen), BatchSize(isH2D))

\* The launch of kernel group k.  In one launch the skipped prefix is counted
\* from the first block, in a batch from the batch's own.
LaunchOf(k, isH2D) ==
    LET len == ThisBatch(isH2D)
        skipped == IF isH2D THEN SkipTokens(k) ELSE 0 IN
    IF path = "tensor"
      THEN Launch(Geometry(k), start, len, skipped)
      ELSE Launch(Geometry(k), start, len, TokensToSkip(start, TokensPerChunk(k), skipped))

\* multi_layer_block_kv_transfer: what a launch moves, from the position of
\* the staged list where it starts to write.
Moves(k, isH2D) ==
    LET l == LaunchOf(k, isH2D) IN
    {[group |-> k, object |-> ObjectAt(k, p), slot |-> SlotAt(k, p), block |-> Staged(k, p)] :
        p \in (l.startBlockPos + l.skipBlocks) .. (l.startBlockPos + l.numBlocks - 1)}

\* The planner has no step for a batch that lies before the skipped prefix.
Dropped(isH2D) ==
    /\ path # "tensor"
    /\ \E k \in ObjectGroups[grp] :
        BatchDropped(start, ThisBatch(isH2D), TokensPerChunk(k), IF isH2D THEN SkipTokens(k) ELSE 0)

\* One batch: a launch for every kernel group, unless the batch is left out.
EnqueueBatch(isH2D, leftOut) ==
    /\ stream' = IF leftOut \/ Dropped(isH2D) THEN stream
                 ELSE Append(stream, UNION {Moves(k, isH2D) : k \in ObjectGroups[grp]})
    /\ start' = start + ThisBatch(isH2D)
    /\ UNCHANGED <<registered, phase, chunks, skip, grp, chosen, reserved, memory, pinned>>

-----------------------------------------------------------------------------
(* A store.                                                                *)

\* The objects of n chunks: those that are stored already are complete.
BeginStore(n) ==
    /\ phase = "idle"
    /\ phase' = "reserve" /\ chunks' = n
    /\ kept' = [k \in KernelGroup |-> [o \in 0 .. (n - 1) |-> Complete(k, o)]]
    /\ UNCHANGED <<registered, skip, grp, chosen, reserved, start, dest, stream, pinned>>

\* The chunks of a set, in order.
InOrder(S) ==
    [i \in 1 .. Cardinality(S) |-> CHOOSE o \in S : Cardinality({p \in S : p < o}) = i - 1]

\* The storage grants `granted` of the group's objects.  A worker stages their
\* chunks alone (chunk_indices), the server those of all.
Reserve(granted) ==
    /\ phase = "reserve"
    /\ phase' = "gather" /\ reserved' = granted /\ start' = 0
    /\ chosen' = IF path = "server"
                   THEN [i \in 1 .. chunks |-> i - 1]
                   ELSE InOrder(granted)
    /\ kept' = [k \in KernelGroup |-> [o \in 0 .. (chunks - 1) |->
         IF k \in ObjectGroups[grp] /\ o \in granted
           THEN [j \in Slots(k) |-> Nothing]
           ELSE kept[k][o]]]
    /\ UNCHANGED <<registered, chunks, skip, grp, dest, stream, pinned>>

\* A batch with an object that was not granted is left out.
Absent == \E i \in BatchOf(start, ThisBatch(FALSE)) : chosen[i + 1] \notin reserved

Gather ==
    /\ phase = "gather" /\ start < Len(chosen)
    /\ EnqueueBatch(FALSE, Absent)

\* The first launch in the stream runs: the objects get the blocks' contents.
RunGather ==
    /\ phase \in {"reserve", "gather"} /\ stream # <<>>
    /\ kept' = [k \in KernelGroup |-> [o \in 0 .. (chunks - 1) |-> [j \in Slots(k) |->
         IF \E m \in Head(stream) : m.group = k /\ m.object = o /\ m.slot = j
           THEN <<k, (CHOOSE m \in Head(stream) : m.group = k /\ m.object = o /\ m.slot = j).block>>
           ELSE kept[k][o][j]]]]
    /\ stream' = Tail(stream)
    /\ UNCHANGED <<registered, phase, chunks, skip, grp, chosen, reserved, start, dest, pinned>>

\* Mutant: one group too many.
LastGroupLate == grp \notin DOMAIN ObjectGroups

LastGroup == grp + 1 \notin DOMAIN ObjectGroups

\* Mutant: the pinned buffers are given back while the launches may still run.
LeavesBuffers == LastGroup => stream = <<>>

\* The pinned buffers of a group are given back, and the objects of a store
\* committed or the locks of a retrieve released, once the launches have run.
MayGoOn == LastGroup \/ path = "copied" => stream = <<>>

EndGather ==
    /\ phase = "gather" /\ start >= Len(chosen)
    /\ MayGoOn
    /\ phase' = IF LastGroup THEN "stored" ELSE "reserve"
    /\ grp' = IF LastGroup THEN 1 ELSE grp + 1
    /\ UNCHANGED <<registered, chunks, skip, chosen, reserved, start, memory, stream, pinned>>

-----------------------------------------------------------------------------
(* A retrieve.                                                             *)

\* The first batch of group g: the objects in front of its sliding window are
\* not loaded.  Chunks that are not pinned are copied to buffers that are.
EnterGroup(g) ==
    /\ start' = ObjectsToSkip(chunks, ChunksInWindow(g), TRUE)
    /\ pinned' = IF path = "copied" THEN g ELSE pinned

\* Every object is in the storage: a retrieve of fewer does not get here.
BeginRetrieve(s) ==
    /\ phase \in {"stored", "retrieved"}
    /\ phase' = "scatter" /\ skip' = s
    /\ chosen' = [i \in 1 .. chunks |-> i - 1]
    /\ dest' = Untouched
    /\ EnterGroup(1)
    /\ UNCHANGED <<registered, chunks, grp, reserved, kept, stream>>

Scatter ==
    /\ phase = "scatter" /\ start < Len(chosen)
    /\ EnqueueBatch(TRUE, FALSE)

\* What the device reads for a move: on the path of copied chunks, whatever
\* the pinned buffers hold by then.
Source(m) ==
    IF path # "copied" THEN kept[m.group][m.object][m.slot]
    ELSE IF m.slot \in Slots(pinned) THEN kept[pinned][m.object][m.slot]
    ELSE Nothing

RunScatter ==
    /\ phase = "scatter" /\ stream # <<>>
    /\ dest' = [k \in KernelGroup |-> [b \in DOMAIN dest[k] |->
         IF \E m \in Head(stream) : m.group = k /\ m.block = b
           THEN Source(CHOOSE m \in Head(stream) : m.group = k /\ m.block = b)
           ELSE dest[k][b]]]
    /\ stream' = Tail(stream)
    /\ UNCHANGED <<registered, phase, chunks, skip, grp, chosen, reserved, start, kept, pinned>>

EndScatter ==
    /\ phase = "scatter" /\ start >= Len(chosen)
    /\ MayGoOn
    /\ phase' = IF LastGroup THEN "retrieved" ELSE "scatter"
    /\ grp' = IF LastGroup THEN 1 ELSE grp + 1
    /\ IF LastGroup THEN UNCHANGED <<start, pinned>> ELSE EnterGroup(grp + 1)
    /\ UNCHANGED <<registered, chunks, skip, chosen, reserved, memory, stream>>

Next ==
    \/ Register
    \/ \E n \in 1 .. MaxChunks : BeginStore(n)
    \/ \E granted \in SUBSET (0 .. (chunks - 1)) : Reserve(granted)
    \/ Gather \/ RunGather \/ EndGather
    \/ \E s \in 0 .. (chunks * ChunkTokens) : BeginRetrieve(s)
    \/ Scatter \/ RunScatter \/ EndScatter

Spec == Init /\ [][Next]_vars

-----------------------------------------------------------------------------
(* Properties.                                                             *)

TypeOK ==
    /\ layout \in Layouts /\ path \in Path /\ phase \in Phase
    /\ chunks \in 0 .. MaxChunks /\ skip \in Nat /\ start \in Nat
    /\ grp \in DOMAIN ObjectGroups
    /\ reserved \subseteq 0 .. (chunks - 1)
    /\ \A i \in DOMAIN chosen : chosen[i] \in 0 .. (chunks - 1)

\* The kept blocks of a retrieve that is done: those of the group's last
\* chunks that do not lie before the skipped prefix.
Due(g, k, b) ==
    /\ b \div Geometry(k).chunk >= ObjectsToSkip(chunks, ChunksInWindow(g), TRUE)
    /\ b % Geometry(k).chunk >= Geometry(k).chunk - Geometry(k).window
    /\ (b + 1) * Info(k).tokensPerBlock > skip

\* A store publishes the objects it reserved: by the end of a group each has
\* the last blocks of its own chunk, whatever the storage declined around it.
\* (A batch with a declined object is left out as a whole, so this is why the
\* server's batches must have one object, and why a worker stages the granted
\* chunks alone.)
ReservedAreGathered ==
    phase = "stored" =>
        \A k \in KernelGroup : kept[k] = [o \in 0 .. (chunks - 1) |-> Complete(k, o)]

\* A retrieve writes no block that vLLM's prefix cache shares with running
\* requests (every token of it is skipped), none in front of the sliding
\* window and none a chunk does not keep: at any moment, for every group.
SharedBlocksUntouched ==
    phase \in {"scatter", "retrieved"} =>
        \A g \in DOMAIN ObjectGroups : \A k \in ObjectGroups[g] : \A b \in DOMAIN dest[k] :
            dest[k][b] # Nothing => Due(g, k, b)

\* A retrieve that is done has written every other block with what the store
\* read from the same block, on every path, wherever the prefix ends.
RetrieveRestores ==
    phase = "retrieved" =>
        \A g \in DOMAIN ObjectGroups : \A k \in ObjectGroups[g] : \A b \in DOMAIN dest[k] :
            Due(g, k, b) => dest[k][b] = <<k, b>>
-----------------------------------------------------------------------------
(* The inductive invariant behind SharedBlocksUntouched.                   *)

\* What is registered, and where the operation is.
Configured ==
    /\ layout \in Layouts /\ path \in Path
    /\ grp \in DOMAIN ObjectGroups
    /\ chunks \in Nat /\ skip \in Nat
    /\ phase # "unregistered" => \A k \in KernelGroup : Divides(Info(k))

\* Between operations the stream is empty and the next one begins in front.
AtRest == phase \in {"stored", "retrieved"} => stream = <<>> /\ grp = 1

\* The moves a retrieve may make.
DueMoves ==
    {m \in [group : KernelGroup, object : Nat, slot : Nat, block : Nat] :
        \A g \in DOMAIN ObjectGroups : m.group \in ObjectGroups[g] => Due(g, m.group, m.block)}

\* What a retrieve has launched is due, and its next batch is behind the
\* objects that are left out.
Loading ==
    phase = "scatter" =>
        /\ chosen = [i \in 1 .. chunks |-> i - 1]
        /\ start \in Nat /\ start >= ObjectsToSkip(chunks, ChunksInWindow(grp), TRUE)
        /\ path = "tensor" => start = 0 \/ start >= chunks
        /\ stream \in Seq(SUBSET DueMoves)

IInv == Configured /\ AtRest /\ Loading /\ SharedBlocksUntouched
=============================================================================
