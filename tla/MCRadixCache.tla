----------------------------- MODULE MCRadixCache -----------------------------
EXTENDS RadixCache

\* A prompt of two blocks and one that leaves its first block in the middle, so
\* that publishing the second splits an edge inside a block.
MCPrompts == {<<1, 1, 1, 1>>, <<1, 2>>}
==============================================================================
