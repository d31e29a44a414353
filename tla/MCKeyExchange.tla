---------------------------- MODULE MCKeyExchange ----------------------------
EXTENDS KeyExchange
TwoDigits == [c \in {2, 3} |-> c - 2]
Servers == {<<0, 1>>}
OneClient == {<<2, 3>>}
TwoIVs == {<<0>>, <<3>>}
=============================================================================
