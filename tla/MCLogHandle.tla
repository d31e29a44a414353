------------------------------ MODULE MCLogHandle ------------------------------
EXTENDS LogHandle, TLC
CONSTANTS h1, h2, file
Lists == {<<file, Console, file>>, <<file, Null>>, <<>>}
Ranges == {<<file, Null>>}
Interchangeable == Permutations(Loggers) \union Permutations(Handles)
=============================================================================
