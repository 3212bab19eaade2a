--------------------------- MODULE MCPagedTransfer ---------------------------
(* Small instances of PagedTransfer for TLC: chunks of four tokens.         *)
EXTENDS PagedTransfer, TLC

info(tokens, slots, window) ==
    [tokensPerBlock |-> tokens, slots |-> slots, window |-> window]

layoutOf(infos, objectGroups, chunksInWindow) ==
    [infos |-> infos, objectGroups |-> objectGroups, chunksInWindow |-> chunksInWindow]

Full    == info(2, 2, -1)
Sharded == info(4, 2, -1)      \* under DCP a block has half its tokens here
Window  == info(1, 1, 3)       \* one token blocks, three of four kept
Half    == info(2, 1, 2)       \* sharded, the last of two blocks kept
Bad     == info(3, 3, -1)      \* does not divide the chunk

SmallLayouts ==
    {layoutOf(<<Full, Window>>, <<{1, 2}>>, <<-1>>),
     layoutOf(<<Window, Half>>, <<{1}, {2}>>, <<2, 1>>),
     layoutOf(<<Sharded, Half>>, <<{2}, {1}>>, <<1, -1>>),
     layoutOf(<<Full, Bad>>, <<{1}, {2}>>, <<-1, -1>>)}
=============================================================================
