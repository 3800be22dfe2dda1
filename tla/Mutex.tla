-------------------------------- MODULE Mutex --------------------------------
(***************************************************************************)
(* A lock with atomic acquire: whoever holds it runs, nobody else does.   *)
(***************************************************************************)
CONSTANTS Procs, None

VARIABLE owner

Acquire(p) == owner = None /\ owner' = p

Release(p) == owner = p /\ owner' = None

Init == owner = None

Next == \E p \in Procs : Acquire(p) \/ Release(p)

Spec == Init /\ [][Next]_owner

=============================================================================
