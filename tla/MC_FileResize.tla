--------------------------- MODULE MC_FileResize ---------------------------
EXTENDS FileResize

CONSTANT LastAreaBlock

MCAreaBlocks == 0..LastAreaBlock

\* Sizes around every unit boundary of the small geometry, and one too large.
DenseSizes == (0..10 \ {6}) \cup {MaxFileSize + 1}

\* From one large block to the largest category.
SparseSizes == {2, 5, 9, 24}

SparseWrites == {[pos |-> 5, n |-> 12]}

DenseWrites == {[pos |-> 0, n |-> 1], [pos |-> 1, n |-> 4], [pos |-> 0, n |-> MaxFileSize + 1]}
=============================================================================
