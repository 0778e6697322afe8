--------------------------- MODULE MCTopKTracker ----------------------------
EXTENDS TopKTracker, TLC
Interchangeable == Permutations(Item)
=============================================================================
