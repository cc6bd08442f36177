------------------------------ MODULE MCSockets ------------------------------
\* Instances of Sockets for TLC: u1 is a thread of t1, any other one of t2.
EXTENDS Sockets

CONSTANTS t1, t2, u1

MCHome == [u \in User |-> IF u = u1 THEN t1 ELSE t2]
=============================================================================
