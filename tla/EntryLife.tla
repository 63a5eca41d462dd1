------------------------------ MODULE EntryLife ------------------------------
(***************************************************************************)
(* What the reference protocol promises about each fskit_entry, without    *)
(* locks, counters or threads' positions: an entry has names and holders   *)
(* (open handles, and calls in progress that use it).  It is born with one *)
(* holder, lives as long as it has a name or a holder, and starts to die   *)
(* in the very step that takes the last of them away, after which only its *)
(* destroyer knows it.  InodeLife implements this.                         *)
(***************************************************************************)
CONSTANTS
  Entries,   \* every entry there may ever be
  Names,     \* the names an entry may have
  Holders    \* who may use an entry: handles and threads

VARIABLES
  phase,     \* of each entry: "fresh", "live", "dying" or "dead"
  names,     \* of each entry: the names that lead to it
  holders    \* of each entry: who uses it

vars == <<phase, names, holders>>

TypeOK ==
  /\ phase \in [Entries -> {"fresh", "live", "dying", "dead"}]
  /\ names \in [Entries -> SUBSET Names]
  /\ holders \in [Entries -> SUBSET Holders]

Init ==
  /\ phase = [e \in Entries |-> "fresh"]
  /\ names = [e \in Entries |-> {}]
  /\ holders = [e \in Entries |-> {}]

\* Something keeps the entry alive.
Tied(e) == names[e] # {} \/ holders[e] # {}

\* The entry moves from one phase to another.
Becomes(e, p, q) == phase[e] = p /\ phase'[e] = q

\* Nobody but one destroyer knows the entry.
Alone(e) == names[e] = {} /\ \E x \in Holders : holders[e] = {x}

\* Only one name or one holder is left.
Last(e) == Alone(e) \/ (holders[e] = {} /\ \E n \in Names : names[e] = {n})

\* A creation: the entry has no name yet, and its maker holds it.
Born(e) == Becomes(e, "fresh", "live") /\ Alone(e)'

\* Names and holders come and go, but one of them stays.
Used(e) == Becomes(e, "live", "live") /\ Tied(e)'

\* The creation is refused: the maker frees what it made.
Abandoned(e) == Becomes(e, "live", "dead") /\ Alone(e) /\ ~Tied(e)'

\* The last name or the last holder goes.
Orphaned(e) == Becomes(e, "live", "dying") /\ Last(e) /\ Alone(e)'

\* The destroyer is done.
Freed(e) == Becomes(e, "dying", "dead") /\ ~Tied(e)'

Same(e) ==
  /\ phase'[e] = phase[e] /\ names'[e] = names[e] /\ holders'[e] = holders[e]

\* A call may concern several entries at once (rename moves one and orphans
\* another), and each of them follows its own life.
Next ==
  \A e \in Entries :
    \/ Born(e) \/ Used(e) \/ Abandoned(e) \/ Orphaned(e) \/ Freed(e)
    \/ Same(e)

Spec == Init /\ [][Next]_vars
=============================================================================
