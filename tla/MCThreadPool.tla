---------------------------- MODULE MCThreadPool ----------------------------
EXTENDS ThreadPool, TLC
Interchangeable == Permutations(Workers)
=============================================================================
