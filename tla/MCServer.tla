------------------------------- MODULE MCServer -------------------------------
(* Instances of Server: two connections, one of them with two workers.     *)
EXTENDS Server

CONSTANTS c1, c2, w1, w2

Two == {c1, c2}
TwoOwner == [t \in Two |-> t]
Pooled == {c1, c2, w1, w2}
PooledOwner == [t \in Pooled |-> IF t = c2 THEN c2 ELSE c1]
=============================================================================
