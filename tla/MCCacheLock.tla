---------------------------- MODULE MCCacheLock ----------------------------
(* Two processes, one of them with two threads that share its in-memory    *)
(* locks.                                                                  *)
EXTENDS CacheLock

CONSTANTS p1, p2, t1, t2, t3

MCProc == {p1, p2}
MCThread == {t1, t2, t3}
MCProcOf == [t \in MCThread |-> IF t = t3 THEN p2 ELSE p1]
=============================================================================
