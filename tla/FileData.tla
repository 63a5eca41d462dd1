------------------------------- MODULE FileData -------------------------------
(***************************************************************************)
(* The size of a file that threads write and truncate through routes.  The *)
(* application keeps the data; fskit keeps the size and changes it twice   *)
(* per write: in a continuation of the callback, under whatever lock the   *)
(* route's consistency discipline holds, and once more afterwards, with    *)
(* the entry write-locked.  A truncation only has the continuation.        *)
(*                                                                         *)
(* Handles are read-locked, which excludes nobody, and reads and syncs     *)
(* change no size; both are left out.  The build does not optimize         *)
(* (buildconf.mk:57), so that every mention of the size is a load or a     *)
(* store of its own, between which an unlocked continuation may run.  A    *)
(* size is compared as an unsigned integer narrower than the size itself:  *)
(* modulo Wrap.                                                            *)
(***************************************************************************)
EXTENDS Integers, FiniteSets, FiniteSetsExt

CONSTANTS
  Threads,
  MaxEnd,  \* bounds the end of a write and the size of a truncation
  Wrap,    \* 2^32
  MaxSize  \* bounds the sizes that are explored, since additions of stale values
           \* drive the size up and down

ASSUME FileAssumption ==
  /\ IsFiniteSet(Threads)
  /\ MaxEnd \in Nat /\ Wrap \in Nat \ {0}
  /\ MaxSize \in Nat /\ MaxSize >= MaxEnd

VARIABLES
  discipline,  \* of the route of each kind of call; "none" without a route
  size,        \* fent->size
  extent,      \* where the application's data ends
  claimed,     \* the largest end of the writes that have succeeded since the
               \* last truncation
  call         \* the call of each thread that is in progress

vars == <<discipline, size, extent, claimed, call>>

Kinds == {"write", "trunc"}

Disciplines == {"none", "sequential", "concurrent", "inode_sequential", "inode_concurrent"}

Idle == [pc |-> "idle", kind |-> "write", end |-> 0, got |-> 0, delta |-> 0, base |-> 0]

Init ==
  /\ discipline \in [Kinds -> Disciplines]
  /\ size = 0 /\ extent = 0 /\ claimed = 0
  /\ call = [t \in Threads |-> Idle]

(***************************************************************************)
(* Locks.                                                                  *)
(***************************************************************************)

\* Thread t is in its callback or its continuation.
Inside(t) == call[t].pc \in {"callback", "cont", "grow", "load", "store", "set"}

\* Thread t has the entry write-locked, after the route.
Updating(t) == call[t].pc \in {"decide", "keep", "put"}

Locks(t) == IF Inside(t) THEN discipline[call[t].kind] ELSE "nothing"

\* Thread t may run a route of kind k.
Granted(t, k) ==
  \A u \in Threads \ {t} :
    CASE discipline[k] = "sequential"       -> ~(Inside(u) /\ call[u].kind = k)
      [] discipline[k] = "inode_sequential" ->
           ~Updating(u) /\ Locks(u) \notin {"inode_sequential", "inode_concurrent"}
      [] discipline[k] = "inode_concurrent" -> ~Updating(u) /\ Locks(u) # "inode_sequential"
      [] OTHER                              -> TRUE

\* Faulty: the entry is not locked.
FaultyEntryFree == TRUE

\* The entry can be write-locked.
EntryFree ==
  \A u \in Threads : ~Updating(u) /\ Locks(u) \notin {"inode_sequential", "inode_concurrent"}

(***************************************************************************)
(* Calls.                                                                  *)
(***************************************************************************)

At(t, pc) == call[t].pc = pc
Go(t, c)  == call' = [call EXCEPT ![t] = c]
Goto(t, pc) == Go(t, [call[t] EXCEPT !.pc = pc])

\* A write up to offset e, or a truncation to e.  Without a route, a write has
\* written nothing and goes on; a truncation is done.
Start(t) ==
  /\ At(t, "idle")
  /\ \E k \in Kinds, e \in 0 .. MaxEnd :
       \/ /\ discipline[k] # "none" /\ Granted(t, k)
          /\ Go(t, [Idle EXCEPT !.pc = "callback", !.kind = k, !.end = e])
       \/ /\ discipline[k] = "none" /\ k = "write"
          /\ Go(t, [Idle EXCEPT !.pc = "update", !.end = e])
  /\ UNCHANGED <<discipline, size, extent, claimed>>

\* The callback writes up to g, perhaps less than it was asked to.
WriteCallback(t) ==
  /\ At(t, "callback") /\ call[t].kind = "write"
  /\ \E g \in 0 .. call[t].end :
       /\ extent' = Max({extent, g})
       /\ Go(t, [call[t] EXCEPT !.pc = "cont", !.got = g])
  /\ UNCHANGED <<discipline, size, claimed>>

\* Faulty: the route runs the continuation of write.
FaultyTruncCallback(t) ==
  /\ At(t, "callback") /\ call[t].kind = "trunc"
  /\ extent' = call[t].end
  /\ Goto(t, "cont")
  /\ UNCHANGED <<discipline, size, claimed>>

TruncCallback(t) ==
  /\ At(t, "callback") /\ call[t].kind = "trunc"
  /\ extent' = call[t].end
  /\ Goto(t, "set")
  /\ UNCHANGED <<discipline, size, claimed>>

CallbackFails(t) ==
  /\ At(t, "callback") /\ Go(t, Idle)
  /\ UNCHANGED <<discipline, size, extent, claimed>>

\* fskit_write_cont: does the file grow, by how much, and what is its size?
Continue(t) ==
  /\ \/ At(t, "cont") /\ Goto(t, IF call[t].got > size THEN "grow" ELSE "load")
     \/ At(t, "grow") /\ Go(t, [call[t] EXCEPT !.pc = "load", !.delta = call[t].got - size])
     \/ At(t, "load") /\ Go(t, [call[t] EXCEPT !.pc = "store", !.base = size])
  /\ UNCHANGED <<discipline, size, extent, claimed>>

\* The sum is stored, even if it adds nothing.
ContinueStore(t) ==
  /\ At(t, "store")
  /\ Go(t, [Idle EXCEPT !.pc = "update", !.end = call[t].end])
  /\ size' = call[t].base + call[t].delta
  /\ UNCHANGED <<discipline, extent, claimed>>

\* Faulty: the size is where the last write ends.
FaultyGrows(e) == e # size

\* Whether a write up to e makes the file grow.
Grows(e) == e % Wrap > size

\* fskit_write, after the route, locks the entry ...
Update(t) ==
  /\ At(t, "update") /\ EntryFree
  /\ Goto(t, "decide")
  /\ UNCHANGED <<discipline, size, extent, claimed>>

\* ... and chooses between the end of the write and the size.
Choose(t) ==
  /\ \/ /\ At(t, "decide")
        /\ IF Grows(call[t].end)
           THEN Go(t, [call[t] EXCEPT !.pc = "put", !.base = call[t].end])
           ELSE Goto(t, "keep")
     \/ At(t, "keep") /\ Go(t, [call[t] EXCEPT !.pc = "put", !.base = size])
  /\ UNCHANGED <<discipline, size, extent, claimed>>

Put(t) ==
  /\ At(t, "put") /\ Go(t, Idle)
  /\ size' = call[t].base
  /\ claimed' = Max({claimed, call[t].end})
  /\ UNCHANGED <<discipline, extent>>

\* fskit_trunc_cont.
ContinueTrunc(t) ==
  /\ At(t, "set") /\ Go(t, Idle)
  /\ size' = call[t].end /\ claimed' = call[t].end
  /\ UNCHANGED <<discipline, extent>>

Next ==
  \E t \in Threads :
    \/ Start(t) \/ WriteCallback(t) \/ TruncCallback(t) \/ CallbackFails(t)
    \/ Continue(t) \/ ContinueStore(t) \/ ContinueTrunc(t)
    \/ Update(t) \/ Choose(t) \/ Put(t)

Spec == Init /\ [][Next]_vars

SizeBounded == size \in -MaxSize .. MaxSize

(***************************************************************************)
(* Properties.                                                             *)
(***************************************************************************)

\* Each kind of call runs its own continuation.
Steps(k) == IF k = "trunc" THEN {"callback", "set"}
            ELSE {"idle", "callback", "cont", "grow", "load", "store",
                  "update", "decide", "keep", "put"}

Calls(k) ==
  [pc : Steps(k), kind : {k}, end : 0 .. MaxEnd, got : 0 .. MaxEnd,
   delta : Int, base : Int]

TypeOK ==
  /\ discipline \in [Kinds -> Disciplines]
  /\ size \in Int
  /\ extent \in 0 .. MaxEnd /\ claimed \in 0 .. MaxEnd
  /\ call \in [Threads -> Calls("write") \cup Calls("trunc")]

Quiet == \A t \in Threads : At(t, "idle")

\* The continuation has the entry write-locked, as it expects (write.c:29).
Serialized == \A k \in Kinds : discipline[k] \in {"none", "inode_sequential"}

\* If so, no data lies beyond the size once every call has returned: a size that
\* was computed before another call never comes out on top.
SizeCoversData == Serialized /\ Quiet => size >= extent

\* And the size is never more than a write that succeeded asked for, or where a
\* truncation put it.
NoOvershoot == Serialized /\ Quiet => size <= Max({extent, claimed})
===============================================================================
