------------------------------ MODULE MCExecutor ------------------------------
EXTENDS Executor

\* Two clients, and a third, which asks for another tag than they do.
Same == [c \in Clients |-> IF c = "c3" THEN 3 ELSE 1]
=============================================================================
