--------------------------- MODULE MCExecutorTimer ---------------------------
EXTENDS ExecutorTimer

\* A delay of two, and a period of one.
Periods == [c \in Calls |-> IF c = "once" THEN 2 ELSE 1]
=============================================================================
