-------------------------- MODULE InodeLife_proofs --------------------------
(***************************************************************************)
(* Proofs about InodeLife, for every number of threads, names, entries and *)
(* handles.  As long as entries are only detached under their own lock     *)
(* (LockedRemovals: no unlink), IInv is inductive, and the safety          *)
(* properties of the reference protocol follow from it.                    *)
(***************************************************************************)
EXTENDS InodeLife, FiniteSetTheorems, TLAPS

(***************************************************************************)
(* Counting.                                                               *)
(***************************************************************************)

\* How one element changes the cardinality of a finite set.
LEMMA CardinalityChange ==
  ASSUME NEW S, IsFiniteSet(S)
  PROVE  /\ Cardinality(S) \in Nat
         /\ Cardinality(S) = 0 <=> S = {}
         /\ \A x : IsFiniteSet(S \cup {x}) /\ IsFiniteSet(S \ {x})
         /\ \A x : x \notin S => Cardinality(S \cup {x}) = Cardinality(S) + 1
         /\ \A x : x \in S => Cardinality(S \ {x}) = Cardinality(S) - 1
         /\ \A x : x \in S /\ Cardinality(S) = 1 => S = {x}
  <1>1. Cardinality(S) \in Nat
    BY FS_CardinalityType
  <1>2. Cardinality(S) = 0 <=> S = {}
    BY FS_EmptySet
  <1>3. ASSUME NEW x
        PROVE  /\ IsFiniteSet(S \cup {x}) /\ IsFiniteSet(S \ {x})
               /\ x \notin S => Cardinality(S \cup {x}) = Cardinality(S) + 1
               /\ x \in S => Cardinality(S \ {x}) = Cardinality(S) - 1
    BY FS_AddElement, FS_RemoveElement
  <1>4. ASSUME NEW x \in S, Cardinality(S) = 1
        PROVE  S = {x}
    <2>1. Cardinality(S \ {x}) = 0 /\ IsFiniteSet(S \ {x})
      BY <1>3, <1>4
    <2>2. S \ {x} = {}
      BY <2>1, FS_EmptySet
    <2>3. QED
      BY <2>2
  <1>5. QED
    BY <1>1, <1>2, <1>3, <1>4

\* The references to an entry and its names are finitely many.
LEMMA CountedSetsFinite ==
  ASSUME NEW i
  PROVE  IsFiniteSet(Refs(i)) /\ IsFiniteSet(NamesOf(i))
  <1>1. IsFiniteSet(Handles \cup Threads) /\ IsFiniteSet(Names)
    BY ConstantsAssumption, FS_Union
  <1>2. Refs(i) \subseteq Handles \cup Threads /\ NamesOf(i) \subseteq Names
    BY DEF Refs, NamesOf
  <1>3. QED
    BY <1>1, <1>2, FS_Subset

\* What the counts of a live entry say about who refers to it: what a caller of
\* fskit_entry_try_destroy knows when it finds both counts at zero.
LEMMA CountFacts ==
  ASSUME IInv, NEW i \in Inodes, type[i] \in Live
  PROVE  /\ opens[i] = 0 => Refs(i) = {}
         /\ \A x \in Refs(i) : opens[i] > 0 /\ (opens[i] = 1 => Refs(i) = {x})
         /\ links[i] = 0 => NamesOf(i) = {}
         /\ \A n \in NamesOf(i) : links[i] > 0 /\ (links[i] = 1 => NamesOf(i) = {n})
  <1>1. /\ opens[i] \in Nat /\ links[i] \in Nat
        /\ opens[i] >= Cardinality(Refs(i)) /\ links[i] = Cardinality(NamesOf(i))
    BY DEF IInv, TypeOK, CountsOK, RefCountCovers, LinkCountExact
  <1>2. /\ Cardinality(Refs(i)) \in Nat
        /\ Cardinality(Refs(i)) = 0 <=> Refs(i) = {}
        /\ \A x : x \in Refs(i) /\ Cardinality(Refs(i)) = 1 => Refs(i) = {x}
    BY CountedSetsFinite, CardinalityChange
  <1>3. /\ Cardinality(NamesOf(i)) = 0 <=> NamesOf(i) = {}
        /\ \A n : n \in NamesOf(i) /\ Cardinality(NamesOf(i)) = 1 => NamesOf(i) = {n}
    BY CountedSetsFinite, CardinalityChange
  <1>4. QED
    BY <1>1, <1>2, <1>3

\* A step changes the references to i by at most one coming and one going, and
\* its open_count accordingly (a leaked reference goes but stays counted).
RefsStep(i) ==
  \/ Refs(i)' = Refs(i) /\ opens'[i] = opens[i]
  \/ \E x \in Threads : x \notin Refs(i) /\ Refs(i)' = Refs(i) \cup {x} /\ opens'[i] = opens[i] + 1
  \/ \E x \in Refs(i) :
       /\ Refs(i)' = Refs(i) \ {x}
       /\ opens'[i] = opens[i] - 1 \/ (opens'[i] = opens[i] /\ ~CannotLeak)
  \/ \E x \in Refs(i), y \in Threads \cup Handles :
       y \notin Refs(i) /\ Refs(i)' = (Refs(i) \ {x}) \cup {y} /\ opens'[i] = opens[i]

\* The same of the names of i and its link_count.
NamesStep(i) ==
  \/ NamesOf(i)' = NamesOf(i) /\ links'[i] = links[i]
  \/ \E n \in Names : n \notin NamesOf(i) /\ NamesOf(i)' = NamesOf(i) \cup {n} /\ links'[i] = links[i] + 1
  \/ \E n \in NamesOf(i) : NamesOf(i)' = NamesOf(i) \ {n} /\ links'[i] = links[i] - 1
  \/ \E n \in NamesOf(i), m \in Names :
       m \notin NamesOf(i) /\ NamesOf(i)' = (NamesOf(i) \ {n}) \cup {m} /\ links'[i] = links[i]

CountedStep ==
  \A i \in Inodes : type'[i] \in Live =>
    type[i] \in Live /\ RefsStep(i) /\ NamesStep(i)

\* Such a step of every live entry keeps the counts exact.
LEMMA CountsKept ==
  ASSUME IInv, CountedStep
  PROVE  CountsOK'
  <1> SUFFICES ASSUME NEW i \in Inodes, type'[i] \in Live
               PROVE  /\ links'[i] = Cardinality(NamesOf(i)')
                      /\ opens'[i] >= Cardinality(Refs(i)')
                      /\ CannotLeak => opens'[i] = Cardinality(Refs(i)')
    BY DEF CountsOK, LinkCountExact, RefCountCovers, RefCountExact, CannotLeak
  <1>1. /\ opens[i] \in Nat /\ links[i] = Cardinality(NamesOf(i))
        /\ opens[i] >= Cardinality(Refs(i))
        /\ CannotLeak => opens[i] = Cardinality(Refs(i))
    BY DEF IInv, TypeOK, CountsOK, RefCountCovers, LinkCountExact, RefCountExact,
       CountedStep
  <1>2. IsFiniteSet(Refs(i)) /\ IsFiniteSet(NamesOf(i))
    BY CountedSetsFinite
  <1>3. links'[i] = Cardinality(NamesOf(i)')
    <2>1. CASE NamesOf(i)' = NamesOf(i) /\ links'[i] = links[i]
      BY <2>1, <1>1
    <2>2. ASSUME NEW n, n \notin NamesOf(i), NamesOf(i)' = NamesOf(i) \cup {n},
                 links'[i] = links[i] + 1
          PROVE  links'[i] = Cardinality(NamesOf(i)')
      BY <2>2, <1>1, <1>2, CardinalityChange
    <2>3. ASSUME NEW n \in NamesOf(i), NamesOf(i)' = NamesOf(i) \ {n},
                 links'[i] = links[i] - 1
          PROVE  links'[i] = Cardinality(NamesOf(i)')
      BY <2>3, <1>1, <1>2, CardinalityChange
    <2>4. ASSUME NEW n \in NamesOf(i), NEW m, m \notin NamesOf(i),
                 NamesOf(i)' = (NamesOf(i) \ {n}) \cup {m}, links'[i] = links[i]
          PROVE  links'[i] = Cardinality(NamesOf(i)')
      <3>1. IsFiniteSet(NamesOf(i) \ {n}) /\ m \notin NamesOf(i) \ {n}
            /\ Cardinality(NamesOf(i) \ {n}) = Cardinality(NamesOf(i)) - 1
            /\ Cardinality(NamesOf(i)) \in Nat
        BY <2>4, <1>2, CardinalityChange
      <3>2. Cardinality(NamesOf(i)') = Cardinality(NamesOf(i) \ {n}) + 1
        BY <3>1, <2>4, CardinalityChange
      <3>3. QED
        BY <3>1, <3>2, <2>4, <1>1
    <2>5. QED
      BY <2>1, <2>2, <2>3, <2>4 DEF NamesStep, CountedStep
  <1>4. /\ opens'[i] >= Cardinality(Refs(i)')
        /\ CannotLeak => opens'[i] = Cardinality(Refs(i)')
    <2> DEFINE Goal == /\ opens'[i] >= Cardinality(Refs(i)')
                       /\ CannotLeak => opens'[i] = Cardinality(Refs(i)')
    <2>0. Cardinality(Refs(i)) \in Nat
      BY <1>2, CardinalityChange
    <2>1. CASE Refs(i)' = Refs(i) /\ opens'[i] = opens[i]
      BY <2>1, <1>1
    <2>2. ASSUME NEW x, x \notin Refs(i), Refs(i)' = Refs(i) \cup {x},
                 opens'[i] = opens[i] + 1
          PROVE  Goal
      <3>1. Cardinality(Refs(i)') = Cardinality(Refs(i)) + 1
        BY <2>2, <1>2, CardinalityChange
      <3>2. QED
        BY <3>1, <2>2, <2>0, <1>1
    <2>3. ASSUME NEW x \in Refs(i), Refs(i)' = Refs(i) \ {x},
                 opens'[i] = opens[i] - 1 \/ (opens'[i] = opens[i] /\ ~CannotLeak)
          PROVE  Goal
      <3>1. Cardinality(Refs(i)') = Cardinality(Refs(i)) - 1
        BY <2>3, <1>2, CardinalityChange
      <3>2. QED
        BY <3>1, <2>3, <2>0, <1>1
    <2>4. ASSUME NEW x \in Refs(i), NEW y, y \notin Refs(i),
                 Refs(i)' = (Refs(i) \ {x}) \cup {y}, opens'[i] = opens[i]
          PROVE  Goal
      <3>1. IsFiniteSet(Refs(i) \ {x}) /\ y \notin Refs(i) \ {x}
            /\ Cardinality(Refs(i) \ {x}) = Cardinality(Refs(i)) - 1
        BY <2>4, <1>2, CardinalityChange
      <3>2. Cardinality(Refs(i)') = Cardinality(Refs(i) \ {x}) + 1
        BY <3>1, <2>4, CardinalityChange
      <3>3. QED
        BY <3>1, <3>2, <2>4, <2>0, <1>1
    <2>5. QED
      BY <2>1, <2>2, <2>3, <2>4 DEF RefsStep, CountedStep
  <1>5. QED
    BY <1>3, <1>4

(***************************************************************************)
(* The actions that can destroy or exchange an entry.                      *)
(***************************************************************************)

\* The two outcomes of fskit_entry_try_destroy on i.
Destroyed(t, i, l, o) ==
  /\ l = 0 /\ o = 0
  /\ links' = [links EXCEPT ![i] = 0] /\ opens' = [opens EXCEPT ![i] = 1]
  /\ pc' = [pc EXCEPT ![t] = "destroy"] /\ ent' = [ent EXCEPT ![t] = i]
  /\ UNCHANGED <<op, vic, nm, to, fh, rootW, rootR>>
Survived(t, i, l, o) ==
  /\ l > 0 \/ o > 0
  /\ links' = [links EXCEPT ![i] = l] /\ opens' = [opens EXCEPT ![i] = o]
  /\ Return(t)

\* With counts that are not negative, fskit_entry_try_destroy never exits.
LEMMA TryDestroyCases ==
  ASSUME TypeOK, NEW t \in Threads, NEW i \in Inodes, NEW l \in Nat, NEW o \in Nat,
         TryDestroy(t, i, l, o)
  PROVE  Destroyed(t, i, l, o) \/ Survived(t, i, l, o)
  <1>1. CASE l = 0 /\ o = 0
    BY <1>1 DEF TryDestroy, Destroyed, argVars
  <1>2. CASE ~(l = 0 /\ o = 0)
    BY <1>2 DEF TryDestroy, Survived
  <1>3. QED
    BY <1>1, <1>2

\* An entry without names and references, or with none but the caller's, is in
\* nobody else's hands (with a name: as long as the caller locks the root).
LEMMA Alone ==
  ASSUME IInv, NEW t \in Threads, NEW i \in Inodes, held[i] \in {None, t},
         Refs(i) \subseteq {t, fh[t]}, NamesOf(i) = {} \/ rootW = t
  PROVE  \A u \in Threads \ {t} : ent[u] # i /\ vic[u] # i
  <1> SUFFICES ASSUME NEW u \in Threads \ {t}, ent[u] = i \/ vic[u] = i PROVE FALSE
    OBVIOUS
  <1>1. pc[u] \in Pcs /\ i # None /\ u \notin Refs(i) /\ (pc[u] = "close_cb" => fh[u] \notin Refs(i))
    BY ConstantsAssumption DEF IInv, TypeOK, Shape, HandlesOK
  <1>2. CASE pc[u] \in NamedPcs
    BY <1>1, <1>2, ConstantsAssumption DEF IInv, TypeOK, Shape, FrameOK,
       NamedPcs, RenamePcs, NamesOf, RootLocked, RootPcs
  <1>3. CASE pc[u] \in RefPcs
    BY <1>1, <1>3 DEF IInv, TypeOK, Shape, FrameOK, RefPcs, RenamePcs, Refs,
       PrivateOK
  <1>4. CASE pc[u] = "close_cb"
    BY <1>1, <1>4 DEF IInv, TypeOK, Shape, FrameOK, HandlesOK, Refs, RenamePcs
  <1>5. CASE pc[u] = "link_parent"
    BY <1>1, <1>5, ConstantsAssumption DEF IInv, TypeOK, Shape, FrameOK,
       EntriesLocked, RenamePcs
  <1>6. CASE pc[u] \in {"idle", "alloc", "detach_cb", "unlink_lock"}
    BY <1>1, <1>6 DEF IInv, TypeOK, Shape, FrameOK, RenamePcs
  <1>7. QED
    BY <1>1, <1>2, <1>3, <1>4, <1>5, <1>6 DEF Pcs, CallbackPcs, NamedPcs,
       RefPcs

\* Dropping a reference keeps the invariant, whether or not it is the last.
LEMMA UnrefKept ==
  ASSUME IInv, LockedRemovals, NEW t \in Threads, Unref(t)
  PROVE  TypeOK' /\ Shape' /\ CountedStep
  <1> DEFINE i == ent[t]
             l == links[i]
             o == opens[i] - 1
  <1>1. /\ i \in Inodes /\ type[i] \in Live /\ held[i] = None
        /\ opens[i] \in Nat /\ links[i] \in Nat
        /\ l \in Nat /\ o \in Nat
        /\ pc[t] = "unref" /\ t \in Refs(i)
    BY CountFacts DEF IInv, TypeOK, Shape, Unref, CanLock, FrameOK,
       NoUseAfterFree, Refs, RefPcs, HandlesOK, Detached, NamedPcs, NamesOf
  <1>2. /\ TryDestroy(t, i, l, o)
        /\ UNCHANGED <<slot, type, garbage, held, handle>>
    BY DEF Unref
  <1> HIDE DEF l, o
  <1>3. CASE Destroyed(t, i, l, o)
    <2>1. NamesOf(i) = {} /\ Refs(i) = {t}
      BY <1>1, <1>3, CountFacts DEF Destroyed, l, o, Detached
    <2>2. \A u \in Threads \ {t} : ent[u] # i /\ vic[u] # i
      BY <1>1, <2>1, Alone
    <2>3. TypeOK'
      BY <1>1, <1>2, <1>3, ConstantsAssumption DEF IInv, TypeOK, Destroyed,
         Pcs, CallbackPcs, Live
    <2>4. Shape'
      <3>1. RootLocked' /\ EntriesLocked' /\ UnusedOK' /\ NoUseAfterFree'
        BY <1>1, <1>2, <1>3, <2>1, ConstantsAssumption DEF IInv, TypeOK,
           Destroyed, Shape, RootLocked, RootPcs, EntriesLocked, UnusedOK,
           NoUseAfterFree, FrameOK, RenamePcs
      <3>2. \A u \in Threads : FrameOK(u)'
        BY <1>1, <1>2, <1>3, <2>1, <2>2, ConstantsAssumption DEF IInv, TypeOK,
           Destroyed, Shape, FrameOK, NamedPcs, RenamePcs, NamesOf, Refs, RefPcs,
           NoUseAfterFree, RootLocked, RootPcs, EntriesLocked
      <3>3. HandlesOK'
        BY <1>1, <1>2, <1>3, <2>1, ConstantsAssumption DEF IInv, TypeOK,
           Destroyed, Shape, HandlesOK
      <3>4. PrivateOK'
        BY <1>1, <1>2, <1>3, <2>1, <2>2, ConstantsAssumption DEF IInv, TypeOK,
           Destroyed, Shape, PrivateOK, NamesOf, Refs, RefPcs, FrameOK
      <3>5. QED
        BY <3>1, <3>2, <3>3, <3>4 DEF Shape
    <2>5. CountedStep
      BY <1>1, <1>2, <1>3, <2>1, ConstantsAssumption DEF IInv, TypeOK,
         Destroyed, Shape, CountedStep, l, o, Detached, RefsStep, NamesStep,
         NamesOf, Refs, RefPcs, FrameOK, HandlesOK, RootLocked, RootPcs,
         PrivateOK, NamedPcs, RenamePcs, NoUseAfterFree, Live, CannotLeak
    <2>6. QED
      BY <2>3, <2>4, <2>5
  <1>4. CASE Survived(t, i, l, o)
    <2>1. TypeOK'
      BY <1>1, <1>2, <1>4, ConstantsAssumption DEF IInv, TypeOK, Survived,
         Return, Pcs, CallbackPcs, Live
    <2>2. Shape'
      BY <1>1, <1>2, <1>4, ConstantsAssumption DEF IInv, TypeOK, Survived,
         Return, Shape, RootLocked, EntriesLocked, RootPcs, FrameOK, RenamePcs,
         NamedPcs, NamesOf, HandlesOK, PrivateOK, UnusedOK, NoUseAfterFree, Live,
         Refs, RefPcs
    <2>3. CountedStep
      BY SMTT(40), <1>1, <1>2, <1>4, ConstantsAssumption DEF IInv, TypeOK,
         Survived, Return, Shape, CountedStep, l, o, Detached, RefsStep,
         NamesStep, NamesOf, Refs, RefPcs, FrameOK, HandlesOK, RootLocked,
         RootPcs, PrivateOK, NamedPcs, RenamePcs, NoUseAfterFree, Live,
         CannotLeak
    <2>4. QED
      BY <2>1, <2>2, <2>3
  <1>5. QED
    BY <1>1, <1>2, <1>3, <1>4, TryDestroyCases DEF IInv

\* So does closing a handle.
LEMMA CloseDropKept ==
  ASSUME IInv, LockedRemovals, NEW t \in Threads, CloseDrop(t)
  PROVE  TypeOK' /\ Shape' /\ CountedStep
  <1> DEFINE i == ent[t]
             l == links[i]
             o == opens[i] - 1
  <1>1. /\ i \in Inodes /\ type[i] \in Live /\ held[i] = None
        /\ opens[i] \in Nat /\ links[i] \in Nat
        /\ l \in Nat /\ o \in Nat
        /\ pc[t] = "close_cb" /\ fh[t] \in Refs(i) /\ fh[t] \in Handles /\ handle[fh[t]] = i
    BY CountFacts DEF IInv, TypeOK, Shape, CloseDrop, CanLock, FrameOK,
       NoUseAfterFree, Refs, RefPcs, HandlesOK, Detached, NamedPcs, NamesOf
  <1>2. /\ TryDestroy(t, i, l, o)
        /\ UNCHANGED <<slot, type, garbage, held>>
        /\ handle' = [handle EXCEPT ![fh[t]] = None]
    BY DEF CloseDrop
  <1> HIDE DEF l, o
  <1>3. CASE Destroyed(t, i, l, o)
    <2>1. NamesOf(i) = {} /\ Refs(i) = {fh[t]}
      BY <1>1, <1>3, CountFacts DEF Destroyed, l, o, Detached
    <2>2. \A u \in Threads \ {t} : ent[u] # i /\ vic[u] # i
      BY <1>1, <2>1, Alone
    <2>3. TypeOK'
      BY <1>1, <1>2, <1>3, ConstantsAssumption DEF IInv, TypeOK, Destroyed,
         Pcs, CallbackPcs, Live
    <2>4. Shape'
      <3>1. RootLocked' /\ EntriesLocked' /\ UnusedOK' /\ NoUseAfterFree'
        BY <1>1, <1>2, <1>3, <2>1, ConstantsAssumption DEF IInv, TypeOK,
           Destroyed, Shape, RootLocked, RootPcs, EntriesLocked, UnusedOK,
           NoUseAfterFree, FrameOK, RenamePcs
      <3>2. \A u \in Threads : FrameOK(u)'
        BY <1>1, <1>2, <1>3, <2>1, <2>2, ConstantsAssumption DEF IInv, TypeOK,
           Destroyed, Shape, FrameOK, NamedPcs, RenamePcs, NamesOf, Refs, RefPcs,
           NoUseAfterFree, RootLocked, RootPcs, EntriesLocked
      <3>3. HandlesOK'
        BY <1>1, <1>2, <1>3, <2>1, ConstantsAssumption DEF IInv, TypeOK,
           Destroyed, Shape, HandlesOK
      <3>4. PrivateOK'
        BY <1>1, <1>2, <1>3, <2>1, <2>2, ConstantsAssumption DEF IInv, TypeOK,
           Destroyed, Shape, PrivateOK, NamesOf, Refs, RefPcs, FrameOK
      <3>5. QED
        BY <3>1, <3>2, <3>3, <3>4 DEF Shape
    <2>5. CountedStep
      BY SMTT(30), <1>1, <1>2, <1>3, <2>1, ConstantsAssumption DEF IInv, TypeOK,
         Destroyed, Shape, CountedStep, l, o, Detached, RefsStep, NamesStep,
         NamesOf, Refs, RefPcs, FrameOK, HandlesOK, RootLocked, RootPcs,
         PrivateOK, NamedPcs, RenamePcs, NoUseAfterFree, Live, CannotLeak
    <2>6. QED
      BY <2>3, <2>4, <2>5
  <1>4. CASE Survived(t, i, l, o)
    <2>1. TypeOK'
      BY <1>1, <1>2, <1>4, ConstantsAssumption DEF IInv, TypeOK, Survived,
         Return, Pcs, CallbackPcs, Live
    <2>2. Shape'
      BY <1>1, <1>2, <1>4, ConstantsAssumption DEF IInv, TypeOK, Survived,
         Return, Shape, RootLocked, EntriesLocked, RootPcs, FrameOK, RenamePcs,
         NamedPcs, NamesOf, HandlesOK, PrivateOK, UnusedOK, NoUseAfterFree, Live,
         Refs, RefPcs
    <2>3. CountedStep
      BY SMTT(40), <1>1, <1>2, <1>4, ConstantsAssumption DEF IInv, TypeOK,
         Survived, Return, Shape, CountedStep, l, o, Detached, RefsStep,
         NamesStep, NamesOf, Refs, RefPcs, FrameOK, HandlesOK, RootLocked,
         RootPcs, PrivateOK, NamedPcs, RenamePcs, NoUseAfterFree, Live,
         CannotLeak
    <2>4. QED
      BY <2>1, <2>2, <2>3
  <1>5. QED
    BY <1>1, <1>2, <1>3, <1>4, TryDestroyCases DEF IInv

\* So does removing a directory entry under its lock.
LEMMA RmdirDropKept ==
  ASSUME IInv, LockedRemovals, NEW t \in Threads, RmdirDrop(t)
  PROVE  TypeOK' /\ Shape' /\ CountedStep
  <1> DEFINE i == ent[t]
             l == Detached(links[i])
             o == opens[i]
  <1>1. /\ i \in Inodes /\ type[i] \in Live /\ held[i] = None
        /\ opens[i] \in Nat /\ links[i] \in Nat
        /\ l \in Nat /\ o \in Nat
        /\ pc[t] = "rmdir_lock" /\ nm[t] \in NamesOf(i) /\ nm[t] \in Names /\ slot[nm[t]] = i /\ links[i] > 0 /\ rootW = t
    BY CountFacts DEF IInv, TypeOK, Shape, RmdirDrop, CanLock, FrameOK,
       NoUseAfterFree, Refs, RefPcs, HandlesOK, Detached, NamedPcs, NamesOf,
       RootLocked, RootPcs
  <1>2. /\ TryDestroy(t, i, l, o)
        /\ UNCHANGED <<type, garbage, held, handle>>
        /\ slot' = [slot EXCEPT ![nm[t]] = None]
    BY DEF RmdirDrop
  <1> HIDE DEF l, o
  <1>3. CASE Destroyed(t, i, l, o)
    <2>1. NamesOf(i) = {nm[t]} /\ Refs(i) = {}
      BY <1>1, <1>3, CountFacts DEF Destroyed, l, o, Detached
    <2>2. \A u \in Threads \ {t} : ent[u] # i /\ vic[u] # i
      BY <1>1, <2>1, Alone
    <2>3. TypeOK'
      BY <1>1, <1>2, <1>3, ConstantsAssumption DEF IInv, TypeOK, Destroyed,
         Pcs, CallbackPcs, Live
    <2>4. Shape'
      <3>1. RootLocked' /\ EntriesLocked' /\ UnusedOK' /\ NoUseAfterFree'
        BY <1>1, <1>2, <1>3, <2>1, ConstantsAssumption DEF IInv, TypeOK,
           Destroyed, Shape, RootLocked, RootPcs, EntriesLocked, UnusedOK,
           NoUseAfterFree, FrameOK, RenamePcs
      <3>2. \A u \in Threads : FrameOK(u)'
        BY <1>1, <1>2, <1>3, <2>1, <2>2, ConstantsAssumption DEF IInv, TypeOK,
           Destroyed, Shape, FrameOK, NamedPcs, RenamePcs, NamesOf, Refs, RefPcs,
           NoUseAfterFree, RootLocked, RootPcs, EntriesLocked
      <3>3. HandlesOK'
        BY <1>1, <1>2, <1>3, <2>1, ConstantsAssumption DEF IInv, TypeOK,
           Destroyed, Shape, HandlesOK
      <3>4. PrivateOK'
        BY <1>1, <1>2, <1>3, <2>1, <2>2, ConstantsAssumption DEF IInv, TypeOK,
           Destroyed, Shape, PrivateOK, NamesOf, Refs, RefPcs, FrameOK
      <3>5. QED
        BY <3>1, <3>2, <3>3, <3>4 DEF Shape
    <2>5. CountedStep
      BY <1>1, <1>2, <1>3, <2>1, ConstantsAssumption DEF IInv, TypeOK,
         Destroyed, Shape, CountedStep, l, o, Detached, RefsStep, NamesStep,
         NamesOf, Refs, RefPcs, FrameOK, HandlesOK, RootLocked, RootPcs,
         PrivateOK, NamedPcs, RenamePcs, NoUseAfterFree, Live, CannotLeak
    <2>6. QED
      BY <2>3, <2>4, <2>5
  <1>4. CASE Survived(t, i, l, o)
    <2>1. TypeOK'
      BY <1>1, <1>2, <1>4, ConstantsAssumption DEF IInv, TypeOK, Survived,
         Return, Pcs, CallbackPcs, Live
    <2>2. Shape'
      BY <1>1, <1>2, <1>4, ConstantsAssumption DEF IInv, TypeOK, Survived,
         Return, Shape, RootLocked, EntriesLocked, RootPcs, FrameOK, RenamePcs,
         NamedPcs, NamesOf, HandlesOK, PrivateOK, UnusedOK, NoUseAfterFree, Live,
         Refs, RefPcs
    <2>3. CountedStep
      BY SMTT(40), <1>1, <1>2, <1>4, ConstantsAssumption DEF IInv, TypeOK,
         Survived, Return, Shape, CountedStep, l, o, Detached, RefsStep,
         NamesStep, NamesOf, Refs, RefPcs, FrameOK, HandlesOK, RootLocked,
         RootPcs, PrivateOK, NamedPcs, RenamePcs, NoUseAfterFree, Live,
         CannotLeak
    <2>4. QED
      BY <2>1, <2>2, <2>3
  <1>5. QED
    BY <1>1, <1>2, <1>3, <1>4, TryDestroyCases DEF IInv

\* So does collecting a garbage entry whose name is taken over.
LEMMA GarbageCollectKept ==
  ASSUME IInv, LockedRemovals, NEW t \in Threads, GarbageCollect(t)
  PROVE  TypeOK' /\ Shape' /\ CountedStep
  <1> DEFINE i == ent[t]
  <1>1. /\ i \in Inodes /\ type[i] \in Live /\ held[i] = None /\ rootW = t
        /\ nm[t] \in NamesOf(i) /\ nm[t] \in Names /\ slot[nm[t]] = i /\ opens[i] \in Nat
        /\ links[i] \in Nat \ {0} /\ Detached(links[i]) = links[i] - 1 /\ pc[t] = "gc_lock"
    BY CountFacts DEF IInv, TypeOK, Shape, GarbageCollect, CanLock, FrameOK,
       NoUseAfterFree, NamedPcs, NamesOf, Detached, RootLocked, RootPcs
  <1>2. CASE links[i] = 1 /\ opens[i] = 0
    <2>1. NamesOf(i) = {nm[t]} /\ Refs(i) = {}
      BY <1>1, <1>2, CountFacts
    <2>2. \A u \in Threads \ {t} : ent[u] # i /\ vic[u] # i
      BY <1>1, <2>1, Alone
    <2>3. /\ slot' = [slot EXCEPT ![nm[t]] = None] /\ links' = [links EXCEPT ![i] = 0]
          /\ opens' = [opens EXCEPT ![i] = 1]
          /\ pc' = [pc EXCEPT ![t] = "gc_destroy"]
          /\ UNCHANGED <<type, garbage, held, rootW, rootR, handle, ent, op, vic, nm, to, fh>>
      BY <1>1, <1>2 DEF GarbageCollect, Goto, argVars, lockVars
    <2>4. TypeOK'
      <3>1. /\ slot \in [Names -> Inodes \cup {None}] /\ links \in [Inodes -> Nat]
            /\ opens \in [Inodes -> Nat]
        BY DEF IInv, TypeOK
      <3>2. /\ slot' \in [Names -> Inodes \cup {None}] /\ links' \in [Inodes -> Nat]
            /\ opens' \in [Inodes -> Nat]
        BY <1>1, <2>3, <3>1
      <3>3. QED
        BY <1>1, <2>3, <3>2, ConstantsAssumption DEF IInv, TypeOK, Pcs,
           CallbackPcs
    <2>5. Shape'
      BY <1>1, <2>1, <2>2, <2>3, ConstantsAssumption DEF IInv, TypeOK, Shape,
         RootLocked, EntriesLocked, RootPcs, FrameOK, RenamePcs, NamedPcs,
         NamesOf, HandlesOK, PrivateOK, UnusedOK, NoUseAfterFree, Live, Refs,
         RefPcs
    <2>6. CountedStep
      BY SMTT(60), <1>1, <1>2, <2>1, <2>2, <2>3, ConstantsAssumption DEF IInv,
         TypeOK, Shape, CountedStep, RefsStep, NamesStep, NamesOf, Refs, RefPcs,
         FrameOK, HandlesOK, RootLocked, RootPcs, PrivateOK, NamedPcs, RenamePcs,
         NoUseAfterFree, Live, CannotLeak
    <2>7. QED
      BY <2>4, <2>5, <2>6
  <1>3. CASE ~(links[i] = 1 /\ opens[i] = 0)
    <2>3. /\ slot' = [slot EXCEPT ![nm[t]] = None] /\ links' = [links EXCEPT ![i] = links[i] - 1]
          /\ pc' = [pc EXCEPT ![t] = "alloc"] /\ ent' = [ent EXCEPT ![t] = None]
          /\ UNCHANGED <<opens, type, garbage, held, rootW, rootR, handle, op, vic, nm, to, fh>>
      BY <1>1, <1>3 DEF GarbageCollect, GotoAlloc, argVars, lockVars
    <2>4. TypeOK'
      <3>1. /\ slot \in [Names -> Inodes \cup {None}] /\ links \in [Inodes -> Nat]
            /\ opens \in [Inodes -> Nat]
        BY DEF IInv, TypeOK
      <3>2. /\ slot' \in [Names -> Inodes \cup {None}] /\ links' \in [Inodes -> Nat]
            /\ opens' \in [Inodes -> Nat]
        BY <1>1, <2>3, <3>1
      <3>3. QED
        BY <1>1, <2>3, <3>2, ConstantsAssumption DEF IInv, TypeOK, Pcs,
           CallbackPcs
    <2>5. Shape'
      BY <1>1, <2>3, ConstantsAssumption DEF IInv, TypeOK, Shape, RootLocked,
         EntriesLocked, RootPcs, FrameOK, RenamePcs, NamedPcs, NamesOf,
         HandlesOK, PrivateOK, UnusedOK, NoUseAfterFree, Live, Refs, RefPcs
    <2>6. CountedStep
      BY <1>1, <2>3, ConstantsAssumption DEF IInv, TypeOK, Shape, CountedStep,
         RefsStep, NamesStep, NamesOf, Refs, RefPcs, FrameOK, HandlesOK,
         RootLocked, RootPcs, PrivateOK, NamedPcs, RenamePcs, NoUseAfterFree,
         Live, CannotLeak
    <2>7. QED
      BY <2>4, <2>5, <2>6
  <1>4. QED
    BY <1>2, <1>3

\* So does renaming over another entry, which may be destroyed.
LEMMA RenameOverKept ==
  ASSUME IInv, LockedRemovals, NEW t \in Threads, RenameOver(t)
  PROVE  TypeOK' /\ Shape' /\ CountedStep
  <1> DEFINE old == ent[t]
             new == vic[t]
  <1>1. /\ old \in Inodes /\ type[old] \in Live /\ new \in Inodes /\ type[new] \in Live
        /\ old # new /\ pc[t] = "rename_cb" /\ rootW = t /\ rootR = {}
        /\ nm[t] \in Names /\ slot[nm[t]] = old /\ to[t] \in Names /\ slot[to[t]] = new
        /\ held[old] = t /\ held[new] = t
    BY ConstantsAssumption DEF IInv, TypeOK, Shape, RenameOver, FrameOK,
       NoUseAfterFree, NamedPcs, RenamePcs, RootLocked, RootPcs, EntriesLocked
  <1>2. /\ opens[new] \in Nat
        /\ links[old] \in Nat \ {0} /\ Detached(links[old]) + 1 = links[old]
        /\ links[new] \in Nat \ {0} /\ Detached(links[new]) = links[new] - 1
    BY <1>1, CountFacts DEF IInv, TypeOK, Shape, NamesOf, Detached
  <1>3. /\ slot' = [slot EXCEPT ![nm[t]] = None, ![to[t]] = old]
        /\ links' = [links EXCEPT ![new] = links[new] - 1]
        /\ ReleaseEntries(t)
        /\ UNCHANGED <<type, garbage, handle>>
    BY <1>1, <1>2 DEF RenameOver, IInv, TypeOK, Shape
  <1>4. slot \in [Names -> Inodes \cup {None}] /\ links \in [Inodes -> Nat] /\ nm[t] # to[t]
    BY <1>1 DEF IInv, TypeOK
  <1>5. /\ slot' \in [Names -> Inodes \cup {None}]
        /\ \A n \in Names : slot'[n] = IF n = to[t] THEN old ELSE IF n = nm[t] THEN None ELSE slot[n]
    BY <1>1, <1>3, <1>4
  <1>6. /\ links' \in [Inodes -> Nat]
        /\ \A i \in Inodes : links'[i] = IF i = new THEN links[new] - 1 ELSE links[i]
    BY <1>1, <1>2, <1>3, <1>4
  <1>7. CASE links[new] = 1 /\ opens[new] = 0
    <2>1. NamesOf(new) = {to[t]} /\ Refs(new) = {}
      BY <1>1, <1>7, CountFacts DEF NamesOf
    <2>2. \A u \in Threads \ {t} : ent[u] # new /\ vic[u] # new
      BY <1>1, <2>1, Alone
    <2>3. /\ opens' = [opens EXCEPT ![new] = 1]
          /\ pc' = [pc EXCEPT ![t] = "destroy"] /\ ent' = [ent EXCEPT ![t] = new]
          /\ UNCHANGED <<rootW, rootR, op, vic, nm, to, fh>>
      BY <1>1, <1>2, <1>7 DEF RenameOver, argVars
    <2>4. TypeOK'
      <3>1. held' \in [Inodes -> Threads \cup {None}]
        BY <1>3 DEF IInv, TypeOK, ReleaseEntries
      <3>2. QED
        BY <1>1, <1>2, <1>3, <1>5, <1>6, <2>3, <3>1, ConstantsAssumption DEF
           IInv, TypeOK, Pcs, CallbackPcs
    <2>5. Shape'
      BY <1>1, <1>3, <2>1, <2>2, <2>3, ConstantsAssumption DEF IInv, TypeOK,
         Shape, ReleaseEntries, RootLocked, EntriesLocked, RootPcs, FrameOK,
         RenamePcs, NamedPcs, NamesOf, HandlesOK, PrivateOK, UnusedOK,
         NoUseAfterFree, Live, Refs, RefPcs
    <2>6. CountedStep
      BY SMTT(120), <1>1, <1>2, <1>3, <1>7, <2>1, <2>2, <2>3,
         ConstantsAssumption DEF IInv, TypeOK, Shape, CountedStep,
         ReleaseEntries, RefsStep, NamesStep, NamesOf, Refs, RefPcs, FrameOK,
         HandlesOK, RootLocked, RootPcs, PrivateOK, NamedPcs, RenamePcs,
         NoUseAfterFree, Live, CannotLeak
    <2>7. QED
      BY <2>4, <2>5, <2>6
  <1>8. CASE ~(links[new] = 1 /\ opens[new] = 0)
    <2>1. opens' = opens /\ Return(t)
      BY <1>1, <1>2, <1>8 DEF RenameOver, Return
    <2>2. TypeOK'
      <3>1. held' \in [Inodes -> Threads \cup {None}]
        BY <1>3 DEF IInv, TypeOK, ReleaseEntries
      <3>2. QED
        BY <1>1, <1>2, <1>3, <1>5, <1>6, <2>1, <3>1, ConstantsAssumption DEF
           IInv, TypeOK, Return, Pcs, CallbackPcs
    <2>3. Shape'
      <3>1. EntriesLocked'
        <4>1. \A u \in Threads, i \in Inodes : held'[i] = u <=> u # t /\ held[i] = u
          BY <1>3, ConstantsAssumption DEF IInv, TypeOK, Shape, ReleaseEntries
        <4>2. QED
          BY <1>1, <2>1, <4>1, ConstantsAssumption DEF IInv, TypeOK, Shape,
             Return, EntriesLocked
      <3>2. RootLocked' /\ UnusedOK' /\ NoUseAfterFree'
        BY <1>1, <1>3, <2>1, ConstantsAssumption DEF IInv, TypeOK, Shape,
           Return, RootLocked, RootPcs, UnusedOK, NoUseAfterFree, FrameOK,
           RenamePcs, Live
      <3>3. \A u \in Threads : FrameOK(u)'
        BY <1>1, <1>3, <2>1, ConstantsAssumption DEF IInv, TypeOK, Shape,
           Return, ReleaseEntries, FrameOK, NamedPcs, RenamePcs, NamesOf,
           NoUseAfterFree, RootLocked, RootPcs, EntriesLocked
      <3>4. HandlesOK'
        BY <1>1, <1>3, <2>1, ConstantsAssumption DEF IInv, TypeOK, Shape,
           Return, ReleaseEntries, HandlesOK
      <3>5. PrivateOK'
        BY <1>1, <1>3, <2>1, ConstantsAssumption DEF IInv, TypeOK, Shape,
           Return, ReleaseEntries, PrivateOK, NamesOf, FrameOK
      <3>6. QED
        BY <3>1, <3>3, <3>4, <3>5, <3>2 DEF Shape
    <2>4. CountedStep
      <3>1. \A i \in Inodes : Refs(i)' = Refs(i)
        BY <1>1, <1>3, <2>1, ConstantsAssumption DEF IInv, TypeOK, Shape,
           Return, Refs, RefPcs
      <3>2. \A i \in Inodes : i = old =>
              /\ NamesOf(i)' = (NamesOf(i) \ {nm[t]}) \cup {to[t]}
              /\ nm[t] \in NamesOf(i) /\ to[t] \notin NamesOf(i)
        BY <1>1, <1>4, <1>5, ConstantsAssumption DEF NamesOf
      <3>3. \A i \in Inodes : i = new =>
              NamesOf(i)' = NamesOf(i) \ {to[t]} /\ to[t] \in NamesOf(i)
        BY <1>1, <1>4, <1>5, ConstantsAssumption DEF NamesOf
      <3>4. \A i \in Inodes : i # old /\ i # new => NamesOf(i)' = NamesOf(i)
        BY <1>1, <1>4, <1>5, ConstantsAssumption DEF NamesOf
      <3>5. QED
        BY <1>1, <1>2, <1>3, <1>6, <2>1, <3>1, <3>2, <3>3, <3>4 DEF
           CountedStep, RefsStep, NamesStep
    <2>5. QED
      BY <2>2, <2>3, <2>4
  <1>9. QED
    BY <1>7, <1>8

\* And renaming to a name that is free.
LEMMA RenameMoveKept ==
  ASSUME IInv, LockedRemovals, NEW t \in Threads, RenameMove(t)
  PROVE  TypeOK' /\ Shape' /\ CountedStep
  <1> DEFINE old == ent[t]
  <1>1. /\ old \in Inodes /\ type[old] \in Live /\ pc[t] = "rename_cb" /\ rootW = t /\ rootR = {}
        /\ nm[t] \in Names /\ slot[nm[t]] = old /\ to[t] \in Names /\ slot[to[t]] = None
    BY ConstantsAssumption DEF IInv, TypeOK, Shape, RenameMove, FrameOK,
       NoUseAfterFree, NamedPcs, RenamePcs, RootLocked, RootPcs
  <1>2. links[old] \in Nat \ {0} /\ Detached(links[old]) + 1 = links[old]
    BY <1>1, CountFacts DEF IInv, TypeOK, Shape, NamesOf, Detached
  <1>3. /\ slot' = [slot EXCEPT ![nm[t]] = None, ![to[t]] = old]
        /\ links' = [links EXCEPT ![old] = links[old]]
        /\ ReleaseEntries(t) /\ Return(t)
        /\ UNCHANGED <<type, opens, garbage, handle>>
    BY <1>1, <1>2 DEF RenameMove, IInv, TypeOK, Shape
  <1>4. TypeOK'
      BY <1>1, <1>2, <1>3, ConstantsAssumption DEF IInv, TypeOK, Return,
         ReleaseEntries, Pcs, CallbackPcs
  <1>5. Shape'
      <2>1. EntriesLocked'
        <3>1. \A u \in Threads, i \in Inodes : held'[i] = u <=> u # t /\ held[i] = u
          BY <1>3, ConstantsAssumption DEF IInv, TypeOK, ReleaseEntries
        <3>2. QED
          BY <1>1, <1>3, <3>1, ConstantsAssumption DEF IInv, TypeOK, Shape,
             Return, EntriesLocked
      <2>2. RootLocked' /\ UnusedOK' /\ NoUseAfterFree'
        BY SMTT(30), <1>1, <1>3, ConstantsAssumption DEF IInv, TypeOK, Shape, Return,
           RootLocked, RootPcs, UnusedOK, NoUseAfterFree, FrameOK, RenamePcs,
           Live
      <2>3. \A u \in Threads : FrameOK(u)'
        BY SMTT(30), <1>1, <1>3, ConstantsAssumption DEF IInv, TypeOK, Shape, Return,
           ReleaseEntries, FrameOK, NamedPcs, RenamePcs, NamesOf, NoUseAfterFree,
           RootLocked, RootPcs, EntriesLocked
      <2>4. HandlesOK'
        BY <1>1, <1>3, ConstantsAssumption DEF IInv, TypeOK, Shape, Return,
           ReleaseEntries, HandlesOK
      <2>5. PrivateOK'
        BY <1>1, <1>3, ConstantsAssumption DEF IInv, TypeOK, Shape, Return,
           ReleaseEntries, PrivateOK, NamesOf, FrameOK
      <2>6. QED
        BY <2>1, <2>3, <2>4, <2>5, <2>2 DEF Shape
  <1>6. CountedStep
      BY <1>1, <1>2, <1>3, ConstantsAssumption DEF IInv, TypeOK, Shape,
         CountedStep, Return, ReleaseEntries, RefsStep, NamesStep, NamesOf, Refs,
         RefPcs, FrameOK, HandlesOK, RootLocked, RootPcs, PrivateOK, NamedPcs,
         RenamePcs, NoUseAfterFree, Live, CannotLeak
  <1>7. QED
    BY <1>4, <1>5, <1>6

\* And locking the entry that rename is about to replace.
LEMMA RenameLockNewKept ==
  ASSUME IInv, LockedRemovals, NEW t \in Threads, RenameLockNew(t)
  PROVE  TypeOK' /\ Shape' /\ CountedStep
  <1>1. /\ pc[t] = "rename_new" /\ held[vic[t]] = None /\ vic[t] \in Inodes /\ ent[t] \in Inodes
        /\ UNCHANGED <<slot, type, links, opens, garbage, handle>>
    <2>1. vic[t] # None
      BY ConstantsAssumption DEF IInv, TypeOK, Shape, RenameLockNew, CanLock,
         FrameOK
    <2>2. QED
      BY <2>1, ConstantsAssumption DEF IInv, TypeOK, Shape, RenameLockNew,
         CanLock, entryVars, FrameOK, RenamePcs
  <1>2. CASE type[ent[t]] = type[vic[t]]
    <2>1. /\ held' = [held EXCEPT ![vic[t]] = t] /\ pc' = [pc EXCEPT ![t] = "rename_cb"]
          /\ UNCHANGED <<ent, op, vic, nm, to, fh, rootW, rootR>>
      BY <1>2 DEF RenameLockNew, Goto, argVars
    <2>2. TypeOK'
      BY <1>1, <2>1 DEF IInv, TypeOK, Pcs, CallbackPcs
    <2>3. Shape'
      BY <1>1, <2>1, ConstantsAssumption DEF IInv, TypeOK, Shape, RootLocked,
         EntriesLocked, RootPcs, FrameOK, RenamePcs, NamedPcs, NamesOf,
         HandlesOK, PrivateOK, UnusedOK, NoUseAfterFree, Live, Refs, RefPcs
    <2>4. CountedStep
      BY <1>1, <2>1, ConstantsAssumption DEF IInv, TypeOK, Shape, CountedStep,
         RefsStep, NamesStep, NamesOf, Refs, RefPcs, FrameOK, HandlesOK,
         RootLocked, RootPcs, PrivateOK, NamedPcs, RenamePcs, NoUseAfterFree,
         Live, CannotLeak
    <2>5. QED
      BY <2>2, <2>3, <2>4
  <1>3. CASE type[ent[t]] # type[vic[t]]
    <2>1. /\ held' = [held EXCEPT ![ent[t]] = None] /\ Return(t)
      BY <1>3 DEF RenameLockNew
    <2>2. TypeOK'
      BY <1>1, <2>1 DEF IInv, TypeOK, Return, Pcs, CallbackPcs
    <2>3. Shape'
      BY <1>1, <2>1, ConstantsAssumption DEF IInv, TypeOK, Shape, Return,
         RootLocked, EntriesLocked, RootPcs, FrameOK, RenamePcs, NamedPcs,
         NamesOf, HandlesOK, PrivateOK, UnusedOK, NoUseAfterFree, Live, Refs,
         RefPcs
    <2>4. CountedStep
      BY <1>1, <2>1, ConstantsAssumption DEF IInv, TypeOK, Shape, Return,
         CountedStep, RefsStep, NamesStep, NamesOf, Refs, RefPcs, FrameOK,
         HandlesOK, RootLocked, RootPcs, PrivateOK, NamedPcs, RenamePcs,
         NoUseAfterFree, Live, CannotLeak
    <2>5. QED
      BY <2>2, <2>3, <2>4
  <1>4. QED
    BY <1>2, <1>3

\* And the truncation at the start of open.
LEMMA OpenTruncKept ==
  ASSUME IInv, LockedRemovals, NEW t \in Threads, OpenTrunc(t)
  PROVE  TypeOK' /\ Shape' /\ CountedStep
  <1>2. CASE Goto(t, "open_child") /\ UNCHANGED <<rootW, rootR>>
    <2>2. TypeOK'
      BY <1>2 DEF IInv, TypeOK, Shape, OpenTrunc, Goto, argVars, entryVars,
         Pcs, CallbackPcs
    <2>3. Shape'
      BY <1>2, ConstantsAssumption DEF IInv, TypeOK, Shape, OpenTrunc, Goto,
         argVars, entryVars, RootLocked, EntriesLocked, RootPcs, FrameOK,
         RenamePcs, NamedPcs, NamesOf, HandlesOK, PrivateOK, UnusedOK,
         NoUseAfterFree, Live, Refs, RefPcs
    <2>4. CountedStep
      BY <1>2, ConstantsAssumption DEF IInv, TypeOK, Shape, OpenTrunc, Goto,
         argVars, entryVars, CountedStep, RefsStep, NamesStep, NamesOf, Refs,
         RefPcs, FrameOK, HandlesOK, RootLocked, RootPcs, PrivateOK, NamedPcs,
         RenamePcs, NoUseAfterFree, Live, CannotLeak
    <2>5. QED
      BY <2>2, <2>3, <2>4
  <1>3. CASE Return(t)
    <2>2. TypeOK'
      BY <1>3 DEF IInv, TypeOK, Shape, OpenTrunc, Return, entryVars, Pcs,
         CallbackPcs
    <2>3. Shape'
      BY <1>3, ConstantsAssumption DEF IInv, TypeOK, Shape, OpenTrunc, Return,
         entryVars, RootLocked, EntriesLocked, RootPcs, FrameOK, RenamePcs,
         NamedPcs, NamesOf, HandlesOK, PrivateOK, UnusedOK, NoUseAfterFree, Live,
         Refs, RefPcs
    <2>4. CountedStep
      BY <1>3, ConstantsAssumption DEF IInv, TypeOK, Shape, OpenTrunc, Return,
         entryVars, CountedStep, RefsStep, NamesStep, NamesOf, Refs, RefPcs,
         FrameOK, HandlesOK, RootLocked, RootPcs, PrivateOK, NamedPcs, RenamePcs,
         NoUseAfterFree, Live, CannotLeak
    <2>5. QED
      BY <2>2, <2>3, <2>4
  <1>4. QED
    BY <1>2, <1>3 DEF OpenTrunc

\* Undoing a link takes away exactly the name that link gave.
LEMMA LinkUndoKept ==
  ASSUME IInv, LockedRemovals, NEW t \in Threads, LinkUndo(t)
  PROVE  CountedStep
  <1> DEFINE i == ent[t]
  <1>1. /\ i \in Inodes /\ type[i] \in Live /\ to[t] \in NamesOf(i) /\ to[t] \in Names
        /\ links[i] \in Nat \ {0} /\ Detached(links[i]) = links[i] - 1 /\ pc[t] = "link_undo"
    BY CountFacts DEF IInv, TypeOK, Shape, LinkUndo, FrameOK, NoUseAfterFree,
       NamesOf, Detached
  <1>2. links' = [links EXCEPT ![i] = links[i] - 1]
    BY <1>1 DEF LinkUndo
  <1>3. QED
    BY SMTT(30), <1>1, <1>2, ConstantsAssumption DEF IInv, TypeOK, Shape, LinkUndo,
       Goto, argVars, CountedStep, RefsStep, NamesStep, NamesOf, Refs, RefPcs,
       FrameOK, HandlesOK, RootLocked, RootPcs, PrivateOK, NamedPcs, RenamePcs,
       NoUseAfterFree, Live, CannotLeak

\* A new entry has one reference and no name.
LEMMA AllocKept ==
  ASSUME IInv, LockedRemovals, NEW t \in Threads, Alloc(t)
  PROVE  CountsOK'
  <1>1. PICK i \in Inodes :
          /\ type[i] = "unused"
          /\ type' = [type EXCEPT ![i] = IF op[t] = "creat" THEN "file" ELSE "dir"]
          /\ opens' = [opens EXCEPT ![i] = 1] /\ ent' = [ent EXCEPT ![t] = i]
    BY DEF Alloc
  <1>2. /\ pc[t] = "alloc" /\ ent[t] = None /\ links[i] = 0
        /\ pc' = [pc EXCEPT ![t] = "make_cb"]
        /\ UNCHANGED <<slot, links, handle>>
    BY <1>1 DEF IInv, TypeOK, Shape, Alloc, FrameOK, UnusedOK, lockVars,
       argVars
  <1>3. NamesOf(i)' = {} /\ Refs(i)' = {t}
    BY <1>1, <1>2, ConstantsAssumption DEF IInv, TypeOK, Shape, NamesOf, Refs,
       RefPcs, NoUseAfterFree, Live, FrameOK
  <1>4. \A j \in Inodes \ {i} :
          /\ NamesOf(j)' = NamesOf(j) /\ Refs(j)' = Refs(j)
          /\ opens'[j] = opens[j] /\ links'[j] = links[j] /\ type'[j] = type[j]
    BY <1>1, <1>2, ConstantsAssumption DEF IInv, TypeOK, Shape, NamesOf, Refs,
       RefPcs
  <1>5. links'[i] = 0 /\ opens'[i] = 1
    BY <1>1, <1>2 DEF IInv, TypeOK
  <1>6. Cardinality(NamesOf(i)') = 0 /\ Cardinality(Refs(i)') = 1
    BY <1>3, FS_EmptySet, FS_Singleton
  <1>7. QED
    BY <1>3, <1>4, <1>5, <1>6 DEF IInv, CountsOK, LinkCountExact,
       RefCountCovers, RefCountExact, CannotLeak

(***************************************************************************)
(* Every step keeps the invariant: one lemma for each of its parts, with   *)
(* one step per action.                                                    *)
(***************************************************************************)

\* Every step keeps the types: no count becomes negative, no thread exits.
LEMMA TypesKept ==
  ASSUME IInv, LockedRemovals, NEW t \in Threads, Begin(t) \/ Continue(t)
  PROVE  TypeOK'
  <1> USE ConstantsAssumption DEF IInv, TypeOK, Shape, argVars, entryVars,
        lockVars, Goto, GotoAlloc, Return, Enter, CanLock, RootFree, RootNoWriter,
        FreeHandle, Make, WalkRoot, WalkedTo, Leak, ReleaseEntries, Detached,
        Live, Pcs, CallbackPcs, AllOps, FrameOK, NoUseAfterFree, HandlesOK,
        NamedPcs, RenamePcs
  <1>1. ASSUME NEW n \in Names, NEW h \in Handles, Open(t, n, h)
        PROVE  TypeOK'
    BY <1>1 DEF Open
  <1>2. ASSUME NEW n \in Names, NEW h \in Handles, Creat(t, n, h)
        PROVE  TypeOK'
    BY <1>2 DEF Creat
  <1>3. ASSUME NEW n \in Names, NEW h \in Handles, Opendir(t, n, h)
        PROVE  TypeOK'
    BY <1>3 DEF Opendir
  <1>4. ASSUME NEW n \in Names, Mkdir(t, n)
        PROVE  TypeOK'
    BY <1>4 DEF Mkdir
  <1>5. ASSUME NEW n \in Names, Ref(t, n)
        PROVE  TypeOK'
    BY <1>5 DEF Ref
  <1>6. ASSUME NEW n \in Names, DetachAll(t, n)
        PROVE  TypeOK'
    BY <1>6 DEF DetachAll
  <1>7. ASSUME NEW n \in Names, Rmdir(t, n)
        PROVE  TypeOK'
    BY <1>7 DEF Rmdir
  <1>8. ASSUME NEW n \in Names, NEW m \in Names, Link(t, n, m)
        PROVE  TypeOK'
    BY <1>8 DEF Link
  <1>9. ASSUME NEW n \in Names, NEW m \in Names, Rename(t, n, m)
        PROVE  TypeOK'
    BY <1>9 DEF Rename
  <1>10. ASSUME NEW h \in Handles, Close(t, h)
        PROVE  TypeOK'
    BY <1>10 DEF Close
  <1>11. CASE OpenTrunc(t)
    BY <1>11, OpenTruncKept
  <1>12. CASE OpenRef(t)
    BY <1>12 DEF OpenRef
  <1>13. CASE OpenRefuse(t)
    BY <1>13 DEF OpenRefuse
  <1>14. CASE OpenDone(t)
    BY SMTT(90), <1>14 DEF OpenDone
  <1>15. CASE OpenFail(t)
    BY <1>15 DEF OpenFail
  <1>16. CASE Unref(t)
    BY <1>16, UnrefKept
  <1>17. CASE FinishDestroy(t)
    BY <1>17 DEF FinishDestroy
  <1>18. CASE GcExists(t)
    BY <1>18 DEF GcExists
  <1>19. CASE GarbageCollect(t)
    BY <1>19, GarbageCollectKept
  <1>20. CASE FinishGc(t)
    BY <1>20 DEF FinishGc
  <1>21. CASE Alloc(t)
    BY SMTT(90), <1>21 DEF Alloc
  <1>22. CASE MakeFail(t)
    BY <1>22 DEF MakeFail
  <1>23. CASE CreatAttach(t)
    BY <1>23 DEF CreatAttach
  <1>24. CASE CreatDone(t)
    BY SMTT(90), <1>24 DEF CreatDone
  <1>25. CASE MkdirAttach(t)
    <2>1. ent[t] \in Inodes /\ opens[ent[t]] > 0
      BY <1>25, CountFacts DEF MkdirAttach, Refs, RefPcs
    <2>2. QED
      BY <1>25, <2>1 DEF MkdirAttach
  <1>26. CASE CloseFail(t)
    BY <1>26 DEF CloseFail
  <1>27. CASE CloseDrop(t)
    BY <1>27, CloseDropKept
  <1>28. CASE WalkRefuse(t)
    BY <1>28 DEF WalkRefuse
  <1>29. CASE WalkRef(t)
    BY <1>29 DEF WalkRef
  <1>30. CASE OpendirDone(t)
    BY SMTT(90), <1>30 DEF OpendirDone
  <1>31. CASE OpendirFail(t)
    BY <1>31 DEF OpendirFail
  <1>32. CASE RefDone(t)
    BY <1>32 DEF RefDone
  <1>33. CASE TagGarbage(t)
    BY <1>33 DEF TagGarbage
  <1>34. CASE LinkSource(t)
    BY <1>34 DEF LinkSource
  <1>35. CASE LinkAttach(t)
    BY SMTT(90), <1>35 DEF LinkAttach
  <1>36. CASE LinkRefuse(t)
    BY <1>36 DEF LinkRefuse
  <1>37. CASE LinkCallback(t)
    BY <1>37 DEF LinkCallback
  <1>38. CASE LinkUndo(t)
    BY <1>38 DEF LinkUndo
  <1>39. ~DetachCallback(t)
    BY DEF DetachCallback
  <1>40. ~UnlinkDrop(t)
    BY DEF UnlinkDrop
  <1>41. CASE RmdirDrop(t)
    BY <1>41, RmdirDropKept
  <1>42. CASE RmdirNotDir(t)
    BY <1>42 DEF RmdirNotDir
  <1>43. CASE RenameLockOld(t)
    BY <1>43 DEF RenameLockOld
  <1>44. CASE RenameLockNew(t)
    BY <1>44, RenameLockNewKept
  <1>45. CASE RenameFail(t)
    BY <1>45 DEF RenameFail
  <1>46. CASE RenameMove(t)
    BY <1>46, RenameMoveKept
  <1>47. CASE RenameOver(t)
    BY <1>47, RenameOverKept
  <1>48. ASSUME NEW n \in Names PROVE ~Unlink(t, n)
    BY DEF Unlink, LockedRemovals
  <1>49. QED
    BY ONLY Begin(t) \/ Continue(t), <1>1, <1>2, <1>3, <1>4, <1>5, <1>6, <1>7,
       <1>8, <1>9, <1>10, <1>11, <1>12, <1>13, <1>14, <1>15, <1>16, <1>17, <1>18,
       <1>19, <1>20, <1>21, <1>22, <1>23, <1>24, <1>25, <1>26, <1>27, <1>28,
       <1>29, <1>30, <1>31, <1>32, <1>33, <1>34, <1>35, <1>36, <1>37, <1>38,
       <1>39, <1>40, <1>41, <1>42, <1>43, <1>44, <1>45, <1>46, <1>47, <1>48 DEF
       Begin, Continue

\* Every step keeps who holds which lock, handle and entry.
LEMMA ShapeKept ==
  ASSUME IInv, LockedRemovals, NEW t \in Threads, Begin(t) \/ Continue(t)
  PROVE  Shape'
  <1> USE ConstantsAssumption DEF IInv, TypeOK, Shape, argVars, entryVars,
        lockVars, Goto, GotoAlloc, Return, Enter, CanLock, RootFree, RootNoWriter,
        FreeHandle, Make, WalkRoot, WalkedTo, Leak, ReleaseEntries, Detached,
        RootLocked, EntriesLocked, RootPcs, FrameOK, RenamePcs, NamedPcs, NamesOf,
        HandlesOK, PrivateOK, UnusedOK, NoUseAfterFree, Live
  <1>1. ASSUME NEW n \in Names, NEW h \in Handles, Open(t, n, h)
        PROVE  Shape'
    BY <1>1 DEF Open
  <1>2. ASSUME NEW n \in Names, NEW h \in Handles, Creat(t, n, h)
        PROVE  Shape'
    BY <1>2 DEF Creat
  <1>3. ASSUME NEW n \in Names, NEW h \in Handles, Opendir(t, n, h)
        PROVE  Shape'
    BY <1>3 DEF Opendir
  <1>4. ASSUME NEW n \in Names, Mkdir(t, n)
        PROVE  Shape'
    BY <1>4 DEF Mkdir
  <1>5. ASSUME NEW n \in Names, Ref(t, n)
        PROVE  Shape'
    BY <1>5 DEF Ref
  <1>6. ASSUME NEW n \in Names, DetachAll(t, n)
        PROVE  Shape'
    BY <1>6 DEF DetachAll
  <1>7. ASSUME NEW n \in Names, Rmdir(t, n)
        PROVE  Shape'
    BY <1>7 DEF Rmdir
  <1>8. ASSUME NEW n \in Names, NEW m \in Names, Link(t, n, m)
        PROVE  Shape'
    BY <1>8 DEF Link
  <1>9. ASSUME NEW n \in Names, NEW m \in Names, Rename(t, n, m)
        PROVE  Shape'
    BY <1>9 DEF Rename
  <1>10. ASSUME NEW h \in Handles, Close(t, h)
        PROVE  Shape'
    BY <1>10 DEF Close
  <1>11. CASE OpenTrunc(t)
    BY <1>11, OpenTruncKept
  <1>12. CASE OpenRef(t)
    BY <1>12 DEF OpenRef
  <1>13. CASE OpenRefuse(t)
    BY <1>13 DEF OpenRefuse
  <1>14. CASE OpenDone(t)
    BY SMTT(90), <1>14 DEF OpenDone
  <1>15. CASE OpenFail(t)
    BY <1>15 DEF OpenFail
  <1>16. CASE Unref(t)
    BY <1>16, UnrefKept
  <1>17. CASE FinishDestroy(t)
    BY <1>17 DEF FinishDestroy
  <1>18. CASE GcExists(t)
    BY <1>18 DEF GcExists
  <1>19. CASE GarbageCollect(t)
    BY <1>19, GarbageCollectKept
  <1>20. CASE FinishGc(t)
    BY <1>20 DEF FinishGc
  <1>21. CASE Alloc(t)
    BY SMTT(90), <1>21 DEF Alloc
  <1>22. CASE MakeFail(t)
    BY <1>22 DEF MakeFail
  <1>23. CASE CreatAttach(t)
    BY <1>23 DEF CreatAttach
  <1>24. CASE CreatDone(t)
    BY SMTT(90), <1>24 DEF CreatDone
  <1>25. CASE MkdirAttach(t)
    BY SMTT(90), <1>25 DEF MkdirAttach
  <1>26. CASE CloseFail(t)
    BY <1>26 DEF CloseFail
  <1>27. CASE CloseDrop(t)
    BY <1>27, CloseDropKept
  <1>28. CASE WalkRefuse(t)
    BY <1>28 DEF WalkRefuse
  <1>29. CASE WalkRef(t)
    BY <1>29 DEF WalkRef
  <1>30. CASE OpendirDone(t)
    BY SMTT(90), <1>30 DEF OpendirDone
  <1>31. CASE OpendirFail(t)
    BY <1>31 DEF OpendirFail
  <1>32. CASE RefDone(t)
    BY <1>32 DEF RefDone
  <1>33. CASE TagGarbage(t)
    BY <1>33 DEF TagGarbage
  <1>34. CASE LinkSource(t)
    BY <1>34 DEF LinkSource
  <1>35. CASE LinkAttach(t)
    BY SMTT(90), <1>35 DEF LinkAttach
  <1>36. CASE LinkRefuse(t)
    BY <1>36 DEF LinkRefuse
  <1>37. CASE LinkCallback(t)
    BY <1>37 DEF LinkCallback
  <1>38. CASE LinkUndo(t)
    BY <1>38 DEF LinkUndo
  <1>39. ~DetachCallback(t)
    BY DEF DetachCallback
  <1>40. ~UnlinkDrop(t)
    BY DEF UnlinkDrop
  <1>41. CASE RmdirDrop(t)
    BY <1>41, RmdirDropKept
  <1>42. CASE RmdirNotDir(t)
    BY <1>42 DEF RmdirNotDir
  <1>43. CASE RenameLockOld(t)
    BY <1>43 DEF RenameLockOld
  <1>44. CASE RenameLockNew(t)
    BY <1>44, RenameLockNewKept
  <1>45. CASE RenameFail(t)
    BY <1>45 DEF RenameFail
  <1>46. CASE RenameMove(t)
    BY <1>46, RenameMoveKept
  <1>47. CASE RenameOver(t)
    BY <1>47, RenameOverKept
  <1>48. ASSUME NEW n \in Names PROVE ~Unlink(t, n)
    BY DEF Unlink, LockedRemovals
  <1>49. QED
    BY ONLY Begin(t) \/ Continue(t), <1>1, <1>2, <1>3, <1>4, <1>5, <1>6, <1>7,
       <1>8, <1>9, <1>10, <1>11, <1>12, <1>13, <1>14, <1>15, <1>16, <1>17, <1>18,
       <1>19, <1>20, <1>21, <1>22, <1>23, <1>24, <1>25, <1>26, <1>27, <1>28,
       <1>29, <1>30, <1>31, <1>32, <1>33, <1>34, <1>35, <1>36, <1>37, <1>38,
       <1>39, <1>40, <1>41, <1>42, <1>43, <1>44, <1>45, <1>46, <1>47, <1>48 DEF
       Begin, Continue

\* Every step but an allocation counts the references and names it changes.
LEMMA CountedStepTaken ==
  ASSUME IInv, LockedRemovals, NEW t \in Threads, Begin(t) \/ Continue(t), ~Alloc(t)
  PROVE  CountedStep
  <1> USE ConstantsAssumption DEF IInv, TypeOK, Shape, argVars, entryVars,
        lockVars, Goto, GotoAlloc, Return, Enter, CanLock, RootFree, RootNoWriter,
        FreeHandle, Make, WalkRoot, WalkedTo, Leak, ReleaseEntries, Detached,
        RootLocked, EntriesLocked, RootPcs, FrameOK, RenamePcs, NamedPcs, NamesOf,
        HandlesOK, PrivateOK, UnusedOK, NoUseAfterFree, Live, CountedStep,
        RefsStep, NamesStep, Refs, RefPcs, CannotLeak
  <1>1. ASSUME NEW n \in Names, NEW h \in Handles, Open(t, n, h)
        PROVE  CountedStep
    BY <1>1 DEF Open
  <1>2. ASSUME NEW n \in Names, NEW h \in Handles, Creat(t, n, h)
        PROVE  CountedStep
    BY <1>2 DEF Creat
  <1>3. ASSUME NEW n \in Names, NEW h \in Handles, Opendir(t, n, h)
        PROVE  CountedStep
    BY <1>3 DEF Opendir
  <1>4. ASSUME NEW n \in Names, Mkdir(t, n)
        PROVE  CountedStep
    BY <1>4 DEF Mkdir
  <1>5. ASSUME NEW n \in Names, Ref(t, n)
        PROVE  CountedStep
    BY <1>5 DEF Ref
  <1>6. ASSUME NEW n \in Names, DetachAll(t, n)
        PROVE  CountedStep
    BY <1>6 DEF DetachAll
  <1>7. ASSUME NEW n \in Names, Rmdir(t, n)
        PROVE  CountedStep
    BY <1>7 DEF Rmdir
  <1>8. ASSUME NEW n \in Names, NEW m \in Names, Link(t, n, m)
        PROVE  CountedStep
    BY <1>8 DEF Link
  <1>9. ASSUME NEW n \in Names, NEW m \in Names, Rename(t, n, m)
        PROVE  CountedStep
    BY <1>9 DEF Rename
  <1>10. ASSUME NEW h \in Handles, Close(t, h)
        PROVE  CountedStep
    BY <1>10 DEF Close
  <1>11. CASE OpenTrunc(t)
    BY <1>11, OpenTruncKept
  <1>12. CASE OpenRef(t)
    BY <1>12 DEF OpenRef
  <1>13. CASE OpenRefuse(t)
    BY <1>13 DEF OpenRefuse
  <1>14. CASE OpenDone(t)
    BY SMTT(90), <1>14 DEF OpenDone
  <1>15. CASE OpenFail(t)
    BY <1>15 DEF OpenFail
  <1>16. CASE Unref(t)
    BY <1>16, UnrefKept
  <1>17. CASE FinishDestroy(t)
    BY <1>17 DEF FinishDestroy
  <1>18. CASE GcExists(t)
    BY <1>18 DEF GcExists
  <1>19. CASE GarbageCollect(t)
    BY <1>19, GarbageCollectKept
  <1>20. CASE FinishGc(t)
    BY <1>20 DEF FinishGc
  <1>21. CASE MakeFail(t)
    BY <1>21 DEF MakeFail
  <1>22. CASE CreatAttach(t)
    BY <1>22 DEF CreatAttach
  <1>23. CASE CreatDone(t)
    BY SMTT(90), <1>23 DEF CreatDone
  <1>24. CASE MkdirAttach(t)
    BY SMTT(90), <1>24 DEF MkdirAttach
  <1>25. CASE CloseFail(t)
    BY <1>25 DEF CloseFail
  <1>26. CASE CloseDrop(t)
    BY <1>26, CloseDropKept
  <1>27. CASE WalkRefuse(t)
    BY <1>27 DEF WalkRefuse
  <1>28. CASE WalkRef(t)
    BY <1>28 DEF WalkRef
  <1>29. CASE OpendirDone(t)
    BY SMTT(90), <1>29 DEF OpendirDone
  <1>30. CASE OpendirFail(t)
    BY <1>30 DEF OpendirFail
  <1>31. CASE RefDone(t)
    BY <1>31 DEF RefDone
  <1>32. CASE TagGarbage(t)
    BY <1>32 DEF TagGarbage
  <1>33. CASE LinkSource(t)
    BY <1>33 DEF LinkSource
  <1>34. CASE LinkAttach(t)
    BY SMTT(180), <1>34 DEF LinkAttach
  <1>35. CASE LinkRefuse(t)
    BY <1>35 DEF LinkRefuse
  <1>36. CASE LinkCallback(t)
    BY <1>36 DEF LinkCallback
  <1>37. CASE LinkUndo(t)
    BY <1>37, LinkUndoKept
  <1>38. ~DetachCallback(t)
    BY DEF DetachCallback
  <1>39. ~UnlinkDrop(t)
    BY DEF UnlinkDrop
  <1>40. CASE RmdirDrop(t)
    BY <1>40, RmdirDropKept
  <1>41. CASE RmdirNotDir(t)
    BY <1>41 DEF RmdirNotDir
  <1>42. CASE RenameLockOld(t)
    BY <1>42 DEF RenameLockOld
  <1>43. CASE RenameLockNew(t)
    BY <1>43, RenameLockNewKept
  <1>44. CASE RenameFail(t)
    BY <1>44 DEF RenameFail
  <1>45. CASE RenameMove(t)
    BY <1>45, RenameMoveKept
  <1>46. CASE RenameOver(t)
    BY <1>46, RenameOverKept
  <1>47. ASSUME NEW n \in Names PROVE ~Unlink(t, n)
    BY DEF Unlink, LockedRemovals
  <1>48. QED
    BY ONLY Begin(t) \/ Continue(t), ~Alloc(t), <1>1, <1>2, <1>3, <1>4, <1>5,
       <1>6, <1>7, <1>8, <1>9, <1>10, <1>11, <1>12, <1>13, <1>14, <1>15, <1>16,
       <1>17, <1>18, <1>19, <1>20, <1>21, <1>22, <1>23, <1>24, <1>25, <1>26,
       <1>27, <1>28, <1>29, <1>30, <1>31, <1>32, <1>33, <1>34, <1>35, <1>36,
       <1>37, <1>38, <1>39, <1>40, <1>41, <1>42, <1>43, <1>44, <1>45, <1>46,
       <1>47 DEF Begin, Continue

\* IInv is inductive.
LEMMA Inductive ==
  ASSUME IInv, LockedRemovals, [Next]_vars
  PROVE  IInv'
  <1>1. ASSUME NEW t \in Threads, Begin(t) \/ Continue(t)
        PROVE  IInv'
    <2>1. CountsOK'
      BY <1>1, AllocKept, CountedStepTaken, CountsKept
    <2>2. QED
      BY <1>1, <2>1, TypesKept, ShapeKept DEF IInv
  <1>2. CASE UNCHANGED vars
    BY <1>2 DEF vars, argVars, entryVars, lockVars, IInv, TypeOK, Shape,
       RootLocked, EntriesLocked, FrameOK, HandlesOK, PrivateOK, UnusedOK,
       NoUseAfterFree, CountsOK, LinkCountExact, RefCountCovers,
       RefCountExact, Refs, NamesOf
  <1>3. QED
    BY <1>1, <1>2 DEF Next, Miss

\* It holds before the first call.
LEMMA InitIInv ==
  ASSUME Init
  PROVE  IInv
  <1>1. TypeOK /\ Shape
    BY ConstantsAssumption DEF Init, TypeOK, Shape, Live, Pcs, CallbackPcs,
       RootLocked, EntriesLocked, RootPcs, NamedPcs, RenamePcs, FrameOK,
       HandlesOK, PrivateOK, UnusedOK, NoUseAfterFree
  <1>2. CountsOK
    BY DEF Init, CountsOK, LinkCountExact, RefCountCovers, RefCountExact, Live
  <1>3. QED
    BY <1>1, <1>2 DEF IInv

(***************************************************************************)
(* The theorems.                                                           *)
(***************************************************************************)

\* While entries are only detached under their own lock, IInv always holds.
THEOREM Invariance == LockedRemovals => (Spec => []IInv)
  <1> SUFFICES ASSUME LockedRemovals
               PROVE  Spec => []IInv
    OBVIOUS
  <1>1. Init => IInv
    BY InitIInv
  <1>2. IInv /\ [Next]_vars => IInv'
    BY Inductive
  <1>3. QED
    BY <1>1, <1>2, PTL DEF Spec

\* Types: no link_count or open_count is ever negative, and the exit(1)
\* branches of fskit_entry_try_destroy are never taken.
THEOREM TypeCorrect == LockedRemovals => (Spec => []TypeOK)
  <1>1. IInv => TypeOK
    BY DEF IInv
  <1>2. QED
    BY <1>1, Invariance, PTL

\* No name, handle or local variable of a call refers to a freed entry.
THEOREM NeverUsedAfterFree == LockedRemovals => (Spec => []NoUseAfterFree)
  <1>1. IInv => NoUseAfterFree
    BY DEF IInv, Shape
  <1>2. QED
    BY <1>1, Invariance, PTL

\* link_count is the number of names, whatever calls fail.
THEOREM LinksCounted == LockedRemovals => (Spec => []LinkCountExact)
  <1>1. IInv => LinkCountExact
    BY DEF IInv, CountsOK
  <1>2. QED
    BY <1>1, Invariance, PTL

\* open_count covers every reference, even where failing calls leak some.
THEOREM ReferencesCovered == LockedRemovals => (Spec => []RefCountCovers)
  <1>1. IInv => RefCountCovers
    BY DEF IInv, CountsOK
  <1>2. QED
    BY <1>1, Invariance, PTL

\* open_count is exact where neither truncations nor handle allocations fail.
THEOREM ReferencesCounted ==
  LockedRemovals /\ CannotLeak => (Spec => []RefCountExact)
  <1> SUFFICES ASSUME LockedRemovals, CannotLeak
               PROVE  Spec => []RefCountExact
    OBVIOUS
  <1>1. IInv => RefCountExact
    BY DEF IInv, CountsOK
  <1>2. QED
    BY <1>1, Invariance, PTL

\* The thread that destroys an entry is alone with it.
THEOREM DestroyedAlone == LockedRemovals => (Spec => []DestroyAlone)
  <1>1. IInv => DestroyAlone
    BY DEF IInv, Shape, PrivateOK, DestroyAlone, Destroying, Refs, RefPcs
  <1>2. QED
    BY <1>1, Invariance, PTL

\* Every callback but detach and destroy runs on a linked or referenced entry.
THEOREM CallbacksPinned == LockedRemovals => (Spec => []CallbackPinned)
  <1>1. IInv => CallbackPinned
    <2> SUFFICES ASSUME IInv, NEW t \in Threads,
                        pc[t] \in CallbackPcs \ {"detach_cb", "destroy", "gc_destroy"}
                 PROVE  links[ent[t]] > 0 \/ opens[ent[t]] > 0
      BY DEF CallbackPinned
    <2>1. /\ ent[t] \in Inodes /\ type[ent[t]] \in Live
          /\ ent[t] # None
      BY ConstantsAssumption DEF IInv, TypeOK, Shape, FrameOK, NoUseAfterFree, CallbackPcs
    <2>2. CASE pc[t] \in {"open_trunc", "rename_cb"}
      BY <2>1, <2>2, CountFacts DEF IInv, Shape, FrameOK, NamedPcs, NamesOf
    <2>3. CASE pc[t] = "close_cb"
      BY <2>1, <2>3, CountFacts DEF IInv, Shape, HandlesOK, Refs
    <2>4. CASE pc[t] \in RefPcs
      BY <2>1, <2>4, CountFacts DEF Refs
    <2>5. QED
      BY <2>2, <2>3, <2>4 DEF CallbackPcs, RefPcs
  <1>2. QED
    BY <1>1, Invariance, PTL

\* A thread that is outside the library holds none of its locks.
THEOREM NothingHeldWhenIdle == LockedRemovals => (Spec => []IdleHoldsNothing)
  <1>1. IInv => IdleHoldsNothing
    BY DEF IInv, Shape, RootLocked, RootPcs, EntriesLocked, FrameOK,
       RenamePcs, IdleHoldsNothing
  <1>2. QED
    BY <1>1, Invariance, PTL

(***************************************************************************)
(* Deadlock.                                                               *)
(***************************************************************************)

\* Nobody calls link, the one call that waits for a parent's lock while it
\* holds its child's.
NoUpwardLocks == "link" \notin Ops

NoLinkRuns == \A t \in Threads : op[t] # "link" /\ pc[t] # "link_parent"

\* With the calls of NoUpwardLocks, no thread is ever inside link.
LEMMA NoLinkRunsStep ==
  ASSUME IInv, NoLinkRuns, NoUpwardLocks, [Next]_vars
  PROVE  NoLinkRuns'
  <1> USE DEF IInv, TypeOK, NoLinkRuns, NoUpwardLocks
  <1>1. ASSUME NEW t \in Threads, Begin(t)
        PROVE  NoLinkRuns'
    BY <1>1 DEF Begin, Open, Creat, Opendir, Mkdir, Ref, DetachAll, Unlink,
       Rmdir, Link, Rename, Close, Make, WalkRoot, Enter
  <1>2. ASSUME NEW t \in Threads, Continue(t)
        PROVE  NoLinkRuns'
    <2>1. CASE OpenTrunc(t)
      BY <1>2, <2>1 DEF OpenTrunc, Goto, GotoAlloc, Return, TryDestroy, WalkedTo, argVars
    <2>2. CASE OpenRef(t)
      BY <1>2, <2>2 DEF OpenRef, Goto, GotoAlloc, Return, TryDestroy, WalkedTo, argVars
    <2>3. CASE OpenRefuse(t)
      BY <1>2, <2>3 DEF OpenRefuse, Goto, GotoAlloc, Return, TryDestroy, WalkedTo, argVars
    <2>4. CASE OpenDone(t)
      BY <1>2, <2>4 DEF OpenDone, Goto, GotoAlloc, Return, TryDestroy, WalkedTo, argVars
    <2>5. CASE OpenFail(t)
      BY <1>2, <2>5 DEF OpenFail, Goto, GotoAlloc, Return, TryDestroy, WalkedTo, argVars
    <2>6. CASE Unref(t)
      BY <1>2, <2>6 DEF Unref, Goto, GotoAlloc, Return, TryDestroy, WalkedTo, argVars
    <2>7. CASE FinishDestroy(t)
      BY <1>2, <2>7 DEF FinishDestroy, Goto, GotoAlloc, Return, TryDestroy, WalkedTo, argVars
    <2>8. CASE GcExists(t)
      BY <1>2, <2>8 DEF GcExists, Goto, GotoAlloc, Return, TryDestroy, WalkedTo, argVars
    <2>9. CASE GarbageCollect(t)
      BY <1>2, <2>9 DEF GarbageCollect, Goto, GotoAlloc, Return, TryDestroy, WalkedTo, argVars
    <2>10. CASE FinishGc(t)
      BY <1>2, <2>10 DEF FinishGc, Goto, GotoAlloc, Return, TryDestroy, WalkedTo, argVars
    <2>11. CASE Alloc(t)
      BY <1>2, <2>11 DEF Alloc, Goto, GotoAlloc, Return, TryDestroy, WalkedTo, argVars
    <2>12. CASE MakeFail(t)
      BY <1>2, <2>12 DEF MakeFail, Goto, GotoAlloc, Return, TryDestroy, WalkedTo, argVars
    <2>13. CASE CreatAttach(t)
      BY <1>2, <2>13 DEF CreatAttach, Goto, GotoAlloc, Return, TryDestroy, WalkedTo, argVars
    <2>14. CASE CreatDone(t)
      BY <1>2, <2>14 DEF CreatDone, Goto, GotoAlloc, Return, TryDestroy, WalkedTo, argVars
    <2>15. CASE MkdirAttach(t)
      BY <1>2, <2>15 DEF MkdirAttach, Goto, GotoAlloc, Return, TryDestroy, WalkedTo, argVars
    <2>16. CASE CloseFail(t)
      BY <1>2, <2>16 DEF CloseFail, Goto, GotoAlloc, Return, TryDestroy, WalkedTo, argVars
    <2>17. CASE CloseDrop(t)
      BY <1>2, <2>17 DEF CloseDrop, Goto, GotoAlloc, Return, TryDestroy, WalkedTo, argVars
    <2>18. CASE WalkRefuse(t)
      BY <1>2, <2>18 DEF WalkRefuse, Goto, GotoAlloc, Return, TryDestroy, WalkedTo, argVars
    <2>19. CASE WalkRef(t)
      BY <1>2, <2>19 DEF WalkRef, Goto, GotoAlloc, Return, TryDestroy, WalkedTo, argVars
    <2>20. CASE OpendirDone(t)
      BY <1>2, <2>20 DEF OpendirDone, Goto, GotoAlloc, Return, TryDestroy, WalkedTo, argVars
    <2>21. CASE OpendirFail(t)
      BY <1>2, <2>21 DEF OpendirFail, Goto, GotoAlloc, Return, TryDestroy, WalkedTo, argVars
    <2>22. CASE RefDone(t)
      BY <1>2, <2>22 DEF RefDone, Goto, GotoAlloc, Return, TryDestroy, WalkedTo, argVars
    <2>23. CASE TagGarbage(t)
      BY <1>2, <2>23 DEF TagGarbage, Goto, GotoAlloc, Return, TryDestroy, WalkedTo, argVars
    <2>24. CASE LinkSource(t)
      BY <1>2, <2>24 DEF LinkSource, Goto, GotoAlloc, Return, TryDestroy, WalkedTo, argVars
    <2>25. CASE LinkAttach(t)
      BY <1>2, <2>25 DEF LinkAttach, Goto, GotoAlloc, Return, TryDestroy, WalkedTo, argVars
    <2>26. CASE LinkRefuse(t)
      BY <1>2, <2>26 DEF LinkRefuse, Goto, GotoAlloc, Return, TryDestroy, WalkedTo, argVars
    <2>27. CASE LinkCallback(t)
      BY <1>2, <2>27 DEF LinkCallback, Goto, GotoAlloc, Return, TryDestroy, WalkedTo, argVars
    <2>28. CASE LinkUndo(t)
      BY <1>2, <2>28 DEF LinkUndo, Goto, GotoAlloc, Return, TryDestroy, WalkedTo, argVars
    <2>29. CASE DetachCallback(t)
      BY <1>2, <2>29 DEF DetachCallback, Goto, GotoAlloc, Return, TryDestroy, WalkedTo, argVars
    <2>30. CASE UnlinkDrop(t)
      BY <1>2, <2>30 DEF UnlinkDrop, Goto, GotoAlloc, Return, TryDestroy, WalkedTo, argVars
    <2>31. CASE RmdirDrop(t)
      BY <1>2, <2>31 DEF RmdirDrop, Goto, GotoAlloc, Return, TryDestroy, WalkedTo, argVars
    <2>32. CASE RmdirNotDir(t)
      BY <1>2, <2>32 DEF RmdirNotDir, Goto, GotoAlloc, Return, TryDestroy, WalkedTo, argVars
    <2>33. CASE RenameLockOld(t)
      BY <1>2, <2>33 DEF RenameLockOld, Goto, GotoAlloc, Return, TryDestroy, WalkedTo, argVars
    <2>34. CASE RenameLockNew(t)
      BY <1>2, <2>34 DEF RenameLockNew, Goto, GotoAlloc, Return, TryDestroy, WalkedTo, argVars
    <2>35. CASE RenameFail(t)
      BY <1>2, <2>35 DEF RenameFail, Goto, GotoAlloc, Return, TryDestroy, WalkedTo, argVars
    <2>36. CASE RenameMove(t)
      BY <1>2, <2>36 DEF RenameMove, Goto, GotoAlloc, Return, TryDestroy, WalkedTo, argVars
    <2>37. CASE RenameOver(t)
      BY <1>2, <2>37 DEF RenameOver, Goto, GotoAlloc, Return, TryDestroy, WalkedTo, argVars
    <2>38. QED
      BY <1>2, <2>1, <2>2, <2>3, <2>4, <2>5, <2>6, <2>7, <2>8, <2>9, <2>10, <2>11, <2>12, <2>13, <2>14, <2>15, <2>16, <2>17, <2>18, <2>19, <2>20, <2>21, <2>22, <2>23, <2>24, <2>25, <2>26, <2>27, <2>28, <2>29, <2>30, <2>31, <2>32, <2>33, <2>34, <2>35, <2>36, <2>37 DEF Continue
  <1>3. CASE UNCHANGED vars
    BY <1>3 DEF vars, argVars
  <1>4. QED
    BY <1>1, <1>2, <1>3 DEF Next, Miss

\* A thread that another one waits for waits for nobody itself: waiting chains
\* have length one.  Entries' locks are kept by renames only, which hold the
\* root, and whoever waits for the root has released everything else.
LEMMA WaitChainsShort ==
  ASSUME IInv, NoLinkRuns, NEW t \in Threads, NEW u \in WaitsFor(t)
  PROVE  u \in Threads /\ WaitsFor(u) = {}
  <1> USE DEF IInv, TypeOK, NoLinkRuns, Shape
  <1>1. \A i \in Inodes : held[i] # None =>
          /\ held[i] \in Threads
          /\ rootW = held[i]
          /\ pc[held[i]] \in {"rename_new", "rename_cb"}
    BY ConstantsAssumption DEF EntriesLocked, RootLocked, RootPcs
  <1>2. u \in Threads /\ (rootW = u \/ u \in rootR)
    BY <1>1, ConstantsAssumption DEF WaitsFor, FrameOK
  <1>3. pc[u] \notin {"open_cb", "link_parent", "close_cb"}
    BY <1>2, ConstantsAssumption DEF RootLocked, RootPcs
  <1>4. ASSUME NEW i \in Inodes, held[i] # None, i = ent[u], pc[u] # "rename_cb", pc[u] # "rename_new"
        PROVE  FALSE
    BY <1>1, <1>2, <1>4, ConstantsAssumption DEF RootLocked
  <1>5. CASE pc[u] = "rename_new"
    <2>1. vic[u] \in Inodes /\ vic[u] # ent[u] /\ rootW = u
      BY <1>5, <1>2, ConstantsAssumption DEF FrameOK, RenamePcs, RootLocked, RootPcs
    <2>2. held[vic[u]] = None
      BY <1>1, <1>5, <2>1, ConstantsAssumption DEF EntriesLocked
    <2>3. QED
      BY <1>2, <1>5, <2>2 DEF WaitsFor
  <1>6. CASE pc[u] \in {"open_child", "unref", "gc_lock", "walk_child", "link_undo",
                        "unlink_lock", "rmdir_lock", "rename_old"}
    <2>1. ent[u] \in Inodes
      BY <1>2, <1>6 DEF FrameOK
    <2>2. held[ent[u]] = None
      BY <1>4, <1>6, <2>1
    <2>3. QED
      BY <1>2, <1>6, <2>2 DEF WaitsFor
  <1>7. QED
    BY <1>2, <1>3, <1>5, <1>6 DEF WaitsFor

\* Calls that detach entries under their own lock and never lock upwards cannot
\* deadlock, however many threads make them.
THEOREM NoDeadlock ==
  LockedRemovals /\ NoUpwardLocks => (Spec => []NoCircularWait)
  <1> SUFFICES ASSUME LockedRemovals, NoUpwardLocks
               PROVE  Spec => []NoCircularWait
    OBVIOUS
  <1>1. Init => NoLinkRuns
    BY DEF Init, NoLinkRuns
  <1>2. IInv /\ NoLinkRuns /\ [Next]_vars => NoLinkRuns'
    BY NoLinkRunsStep
  <1>3. ASSUME IInv, NoLinkRuns
        PROVE  NoCircularWait
    <2> SUFFICES ASSUME NEW S \in SUBSET Threads, S # {}
                 PROVE  \E t \in S : WaitsFor(t) \cap S = {}
      BY DEF NoCircularWait
    <2>1. PICK t \in S : TRUE
      OBVIOUS
    <2>2. CASE WaitsFor(t) \cap S = {}
      BY <2>1, <2>2
    <2>3. CASE WaitsFor(t) \cap S # {}
      <3>1. PICK u \in S : u \in WaitsFor(t)
        BY <2>3
      <3>2. WaitsFor(u) = {}
        BY <1>3, <3>1, WaitChainsShort
      <3>3. QED
        BY <3>2
    <2>4. QED
      BY <2>2, <2>3
  <1>4. QED
    BY <1>1, <1>2, <1>3, Invariance, PTL DEF Spec

(***************************************************************************)
(* Garbage.                                                                *)
(***************************************************************************)

\* An entry is not tagged before it exists, nor while link keeps it locked.
TagOK ==
  /\ \A i \in Inodes : type[i] = "unused" => ~garbage[i]
  /\ \A t \in Threads : pc[t] = "link_parent" => ~garbage[ent[t]]

\* A step adds references to untagged entries only, except for the reference
\* that a destroyer gives itself.
RefsGuarded ==
  \A i \in Inodes : garbage[i] =>
    \/ opens'[i] <= opens[i]
    \/ \E t \in Threads : Destroying(t)' /\ ent'[t] = i

LEMMA TaggedStep ==
  ASSUME IInv, TagOK, LockedRemovals, [Next]_vars
  PROVE  TagOK' /\ RefsGuarded
  <1> USE ConstantsAssumption DEF IInv, TypeOK, TagOK, RefsGuarded, Destroying
  <1>1. ASSUME NEW t \in Threads, Begin(t)
        PROVE  TagOK' /\ RefsGuarded
    BY <1>1 DEF Begin, Open, Creat, Opendir, Mkdir, Ref, DetachAll, Unlink,
       Rmdir, Link, Rename, Close, Make, WalkRoot, Enter, entryVars,
       LockedRemovals
  <1>2. ASSUME NEW t \in Threads, Continue(t)
        PROVE  TagOK' /\ RefsGuarded
    <2>1. CASE OpenTrunc(t)
      BY <1>2, <2>1 DEF OpenTrunc, Goto, GotoAlloc, Return, TryDestroy, WalkedTo, Detached, entryVars, argVars
    <2>2. CASE OpenRef(t)
      BY <1>2, <2>2 DEF OpenRef, Goto, GotoAlloc, Return, TryDestroy, WalkedTo, Detached, entryVars, argVars
    <2>3. CASE OpenRefuse(t)
      BY <1>2, <2>3 DEF OpenRefuse, Goto, GotoAlloc, Return, TryDestroy, WalkedTo, Detached, entryVars, argVars
    <2>4. CASE OpenDone(t)
      BY <1>2, <2>4 DEF OpenDone, Goto, GotoAlloc, Return, TryDestroy, WalkedTo, Detached, entryVars, argVars
    <2>5. CASE OpenFail(t)
      BY <1>2, <2>5 DEF OpenFail, Goto, GotoAlloc, Return, TryDestroy, WalkedTo, Detached, entryVars, argVars
    <2>6. CASE Unref(t)
      BY <1>2, <2>6 DEF Unref, Goto, GotoAlloc, Return, TryDestroy, WalkedTo, Detached, entryVars, argVars
    <2>7. CASE FinishDestroy(t)
      BY <1>2, <2>7 DEF FinishDestroy, Goto, GotoAlloc, Return, TryDestroy, WalkedTo, Detached, entryVars, argVars
    <2>8. CASE GcExists(t)
      BY <1>2, <2>8 DEF GcExists, Goto, GotoAlloc, Return, TryDestroy, WalkedTo, Detached, entryVars, argVars
    <2>9. CASE GarbageCollect(t)
      BY <1>2, <2>9 DEF GarbageCollect, Goto, GotoAlloc, Return, TryDestroy, WalkedTo, Detached, entryVars, argVars
    <2>10. CASE FinishGc(t)
      BY <1>2, <2>10 DEF FinishGc, Goto, GotoAlloc, Return, TryDestroy, WalkedTo, Detached, entryVars, argVars
    <2>11. CASE Alloc(t)
      BY <1>2, <2>11 DEF Alloc, Goto, GotoAlloc, Return, TryDestroy, WalkedTo, Detached, entryVars, argVars
    <2>12. CASE MakeFail(t)
      BY <1>2, <2>12 DEF MakeFail, Goto, GotoAlloc, Return, TryDestroy, WalkedTo, Detached, entryVars, argVars
    <2>13. CASE CreatAttach(t)
      BY <1>2, <2>13 DEF CreatAttach, Goto, GotoAlloc, Return, TryDestroy, WalkedTo, Detached, entryVars, argVars
    <2>14. CASE CreatDone(t)
      BY <1>2, <2>14 DEF CreatDone, Goto, GotoAlloc, Return, TryDestroy, WalkedTo, Detached, entryVars, argVars
    <2>15. CASE MkdirAttach(t)
      BY <1>2, <2>15 DEF MkdirAttach, Goto, GotoAlloc, Return, TryDestroy, WalkedTo, Detached, entryVars, argVars
    <2>16. CASE CloseFail(t)
      BY <1>2, <2>16 DEF CloseFail, Goto, GotoAlloc, Return, TryDestroy, WalkedTo, Detached, entryVars, argVars
    <2>17. CASE CloseDrop(t)
      BY <1>2, <2>17 DEF CloseDrop, Goto, GotoAlloc, Return, TryDestroy, WalkedTo, Detached, entryVars, argVars
    <2>18. CASE WalkRefuse(t)
      BY <1>2, <2>18 DEF WalkRefuse, Goto, GotoAlloc, Return, TryDestroy, WalkedTo, Detached, entryVars, argVars
    <2>19. CASE WalkRef(t)
      BY <1>2, <2>19 DEF WalkRef, Goto, GotoAlloc, Return, TryDestroy, WalkedTo, Detached, entryVars, argVars
    <2>20. CASE OpendirDone(t)
      BY <1>2, <2>20 DEF OpendirDone, Goto, GotoAlloc, Return, TryDestroy, WalkedTo, Detached, entryVars, argVars
    <2>21. CASE OpendirFail(t)
      BY <1>2, <2>21 DEF OpendirFail, Goto, GotoAlloc, Return, TryDestroy, WalkedTo, Detached, entryVars, argVars
    <2>22. CASE RefDone(t)
      BY <1>2, <2>22 DEF RefDone, Goto, GotoAlloc, Return, TryDestroy, WalkedTo, Detached, entryVars, argVars
    <2>23. CASE TagGarbage(t)
      BY SMTT(30), <1>2, <2>23 DEF TagGarbage, Goto, Return, WalkedTo, argVars, CanLock, Shape, EntriesLocked, FrameOK, NoUseAfterFree, Live
    <2>24. CASE LinkSource(t)
      BY <1>2, <2>24 DEF LinkSource, Goto, GotoAlloc, Return, TryDestroy, WalkedTo, Detached, entryVars, argVars
    <2>25. CASE LinkAttach(t)
      BY <1>2, <2>25 DEF LinkAttach, Goto, GotoAlloc, Return, TryDestroy, WalkedTo, Detached, entryVars, argVars
    <2>26. CASE LinkRefuse(t)
      BY <1>2, <2>26 DEF LinkRefuse, Goto, GotoAlloc, Return, TryDestroy, WalkedTo, Detached, entryVars, argVars
    <2>27. CASE LinkCallback(t)
      BY <1>2, <2>27 DEF LinkCallback, Goto, GotoAlloc, Return, TryDestroy, WalkedTo, Detached, entryVars, argVars
    <2>28. CASE LinkUndo(t)
      BY <1>2, <2>28 DEF LinkUndo, Goto, GotoAlloc, Return, TryDestroy, WalkedTo, Detached, entryVars, argVars
    <2>29. CASE DetachCallback(t)
      BY <1>2, <2>29 DEF DetachCallback, Goto, GotoAlloc, Return, TryDestroy, WalkedTo, Detached, entryVars, argVars
    <2>30. CASE UnlinkDrop(t)
      BY <1>2, <2>30 DEF UnlinkDrop, Goto, GotoAlloc, Return, TryDestroy, WalkedTo, Detached, entryVars, argVars
    <2>31. CASE RmdirDrop(t)
      BY <1>2, <2>31 DEF RmdirDrop, Goto, GotoAlloc, Return, TryDestroy, WalkedTo, Detached, entryVars, argVars
    <2>32. CASE RmdirNotDir(t)
      BY <1>2, <2>32 DEF RmdirNotDir, Goto, GotoAlloc, Return, TryDestroy, WalkedTo, Detached, entryVars, argVars
    <2>33. CASE RenameLockOld(t)
      BY <1>2, <2>33 DEF RenameLockOld, Goto, GotoAlloc, Return, TryDestroy, WalkedTo, Detached, entryVars, argVars
    <2>34. CASE RenameLockNew(t)
      BY <1>2, <2>34 DEF RenameLockNew, Goto, GotoAlloc, Return, TryDestroy, WalkedTo, Detached, entryVars, argVars
    <2>35. CASE RenameFail(t)
      BY <1>2, <2>35 DEF RenameFail, Goto, GotoAlloc, Return, TryDestroy, WalkedTo, Detached, entryVars, argVars
    <2>36. CASE RenameMove(t)
      BY <1>2, <2>36 DEF RenameMove, Goto, GotoAlloc, Return, TryDestroy, WalkedTo, Detached, entryVars, argVars
    <2>37. CASE RenameOver(t)
      BY <1>2, <2>37 DEF RenameOver, Goto, GotoAlloc, Return, TryDestroy, WalkedTo, Detached, entryVars, argVars
    <2>38. QED
      BY <1>2, <2>1, <2>2, <2>3, <2>4, <2>5, <2>6, <2>7, <2>8, <2>9, <2>10, <2>11, <2>12, <2>13, <2>14, <2>15, <2>16, <2>17, <2>18, <2>19, <2>20, <2>21, <2>22, <2>23, <2>24, <2>25, <2>26, <2>27, <2>28, <2>29, <2>30, <2>31, <2>32, <2>33, <2>34, <2>35, <2>36, <2>37 DEF Continue
  <1>3. CASE UNCHANGED vars
    BY <1>3 DEF vars, argVars, entryVars
  <1>4. QED
    BY <1>1, <1>2, <1>3 DEF Next, Miss

\* Once tagged as garbage an entry gains no reference but its destroyer's: no
\* path resolution, open or link reaches it any more.
THEOREM GarbageGainsNothing == LockedRemovals => (Spec => GarbageUnreachable)
  <1> SUFFICES ASSUME LockedRemovals
               PROVE  Spec => GarbageUnreachable
    OBVIOUS
  <1>1. Init => TagOK
    BY DEF Init, TagOK
  <1>2. IInv /\ TagOK /\ [Next]_vars => TagOK'
    BY TaggedStep
  <1>3. IInv /\ TagOK /\ [Next]_vars => [RefsGuarded]_vars
    BY TaggedStep
  <1>4. QED
    BY <1>1, <1>2, <1>3, Invariance, PTL DEF Spec, GarbageUnreachable, RefsGuarded
=============================================================================
