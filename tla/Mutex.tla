------------------------------- MODULE Mutex -------------------------------
(***************************************************************************)
(* What the cache promises about its mutation lock: "cache mutations are   *)
(* serialized across threads and processes" (docstring of core/cache.py).  *)
(* At any time at most one user owns the lock; a user that stops owning it *)
(* has left its critical section or died.                                  *)
(***************************************************************************)
CONSTANTS User,    \* everything that may ask for the lock
          Nobody   \* the owner of a free lock

VARIABLE owner

Init == owner = Nobody

Acquire(u) == owner = Nobody /\ owner' = u

Release(u) == owner = u /\ owner' = Nobody

Next == \E u \in User : Acquire(u) \/ Release(u)

Spec == Init /\ [][Next]_owner
=============================================================================
