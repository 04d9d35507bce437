------------------------------- MODULE Mutex --------------------------------
(***************************************************************************)
(* What the credential lock promises its users, whatever files it is made  *)
(* of: at most one client holds it; a client that dies holding it leaves   *)
(* it abandoned, and an abandoned lock is free again only once somebody    *)
(* retires it.  FileLock implements this specification with a marker file, *)
(* and Credentials takes and releases the lock through these actions.      *)
(***************************************************************************)
CONSTANTS Client,     \* whoever may hold the lock
          Free,       \* nobody holds it; not a client
          Abandoned   \* its holder is gone and did not release it; not a client

VARIABLE holder

Init == holder = Free

Acquire(p) == holder = Free /\ holder' = p

Release(p) == holder = p /\ holder' = Free

\* A holder that crashes, or that cannot remove its marker, leaves it behind.
Abandon(p) == holder = p /\ holder' = Abandoned

\* A person removes the abandoned marker.
Retire == holder = Abandoned /\ holder' = Free

Next == \/ \E p \in Client : Acquire(p) \/ Release(p) \/ Abandon(p)
        \/ Retire

Spec == Init /\ [][Next]_holder
=============================================================================
