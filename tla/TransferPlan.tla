---------------------------- MODULE TransferPlan ----------------------------
(***************************************************************************)
(* transfer_plan.py: how a transfer of LMCache objects is cut into batches *)
(* of objects, and which blocks of a kernel group a batch moves.           *)
(*                                                                         *)
(* A kernel group is a record [chunk, window, tokens]: the paged blocks of *)
(* one LMCache chunk (blocks_per_chunk), how many of them are kept, which  *)
(* are its last ones (blocks_per_window), and the tokens of one block.     *)
(***************************************************************************)
EXTENDS Integers

AtLeastZero(x) == IF x > 0 THEN x ELSE 0
Lesser(x, y) == IF x < y THEN x ELSE y
Greater(x, y) == IF x > y THEN x ELSE y

\* A retrieve of a sliding-window group leaves out the objects in front of its
\* last numChunksInSW; a negative number stands for full attention.
ObjectsToSkip(numObjects, numChunksInSW, isH2D) ==
    IF isH2D /\ numChunksInSW >= 0
      THEN AtLeastZero(numObjects - numChunksInSW)
      ELSE 0

\* batched_iteration_with_skip: the objects of the batch that begins at `start`.
BatchLen(start, numObjects, size) == Lesser(size, numObjects - start)
BatchOf(start, len) == start .. (start + len - 1)

\* Mutant: the blocks skipped in a chunk that is skipped in part are forgotten.
BlocksToSkipWholeChunks(group, blocks) ==
    IF group.chunk = group.window
      THEN blocks
      ELSE (blocks \div group.chunk) * group.window

\* _recalculate_blocks_to_skip: how many kept blocks are among the first
\* `blocks` blocks of the chunks.
BlocksToSkip(group, blocks) ==
    IF group.chunk = group.window
      THEN blocks
      ELSE ((blocks \div group.chunk) * group.window)
           + AtLeastZero((blocks % group.chunk) - (group.chunk - group.window))

\* The tokens of the batch that must not be written.
TokensToSkip(start, tokensPerChunk, skipFirst) ==
    Greater(start * tokensPerChunk, skipFirst) - (start * tokensPerChunk)

\* The whole batch lies before skipFirst: there is no step for it.
BatchDropped(start, len, tokensPerChunk, skipFirst) ==
    Greater(start * tokensPerChunk, skipFirst) >= (start + len) * tokensPerChunk

\* A KernelGroupLaunch: where the batch's blocks begin in the list of kept
\* blocks, how many there are, and how many of them are not written.
Launch(group, start, len, skipTokens) ==
    [startBlockPos |-> start * group.window,
     numBlocks     |-> len * group.window,
     skipBlocks    |-> BlocksToSkip(group, skipTokens \div group.tokens)]
=============================================================================
