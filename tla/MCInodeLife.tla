---------------------------- MODULE MCInodeLife ----------------------------
\* InodeLife for TLC: named sets of calls and faults, and symmetry.
EXTENDS InodeLife, TLC

\* The calls that lock the entry they detach, and never lock upwards.
LockedOps == AllOps \ {"unlink", "link"}

\* Failing callbacks; "trunc" and "handle" also leak a reference.
CallbackFaults == AllFaults \ {"trunc", "handle"}

\* An action constraint: unlink and link are alone in the library.
Alone ==
  \A t, u \in Threads :
    t # u /\ op'[t] \in {"unlink", "link"} => pc'[u] = "idle"

Symm == Permutations(Threads) \cup Permutations(Names)
        \cup Permutations(Inodes) \cup Permutations(Handles)
=============================================================================
