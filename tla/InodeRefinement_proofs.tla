------------------------ MODULE InodeRefinement_proofs ------------------------
(***************************************************************************)
(* InodeLife implements EntryLife: the counters, the locks and the recheck *)
(* of fskit_entry_try_destroy give every entry the life that EntryLife     *)
(* promises, for any number of threads, names, entries and handles, as     *)
(* long as entries are only detached under their own lock and no failing   *)
(* call leaks a reference.                                                 *)
(***************************************************************************)
EXTENDS InodeLife_proofs

\* An entry that is alive is counted at least once, be it by its destroyer.
LiveUsed == \A i \in Inodes : type[i] \in Live => links[i] + opens[i] > 0

(***************************************************************************)
(* The four kinds of steps.                                                *)
(***************************************************************************)

\* No entry begins or ends its life, or starts to die.
Calm(t) ==
  /\ type' = type
  /\ ~Destroying(t) /\ ~Destroying(t)'
  /\ LiveUsed'

\* The last name or reference of an entry goes, and t destroys it.
Dooms(t) ==
  /\ type' = type
  /\ ~Destroying(t) /\ Destroying(t)'
  /\ ent'[t] \in Inodes /\ type[ent'[t]] \in Live
  /\ links[ent'[t]] + opens[ent'[t]] = 1
  /\ LiveUsed'

\* The entry that t has destroyed, or could not make, is freed.
Frees(t) ==
  /\ pc[t] \in {"destroy", "gc_destroy", "make_cb"}
  /\ type' = [type EXCEPT ![ent[t]] = "freed"]
  /\ ~Destroying(t)'
  /\ LiveUsed'

\* Only t's locals change.
OthersStay(t) == \A u \in Threads \ {t} : pc'[u] = pc[u] /\ ent'[u] = ent[u]

\* A call begins without touching any entry.
LEMMA BeginsCalmly ==
  ASSUME IInv, LiveUsed, LockedRemovals, NEW t \in Threads, Begin(t)
  PROVE  Calm(t) /\ OthersStay(t)
  <1> USE DEF IInv, TypeOK, entryVars, Enter, Make, WalkRoot, Calm, OthersStay,
        Destroying, LiveUsed
  <1>1. ASSUME NEW n \in Names, NEW h \in Handles,
               Open(t, n, h) \/ Creat(t, n, h) \/ Opendir(t, n, h)
        PROVE  Calm(t) /\ OthersStay(t)
    BY <1>1 DEF Open, Creat, Opendir
  <1>2. ASSUME NEW n \in Names,
               Mkdir(t, n) \/ Ref(t, n) \/ DetachAll(t, n) \/ Rmdir(t, n)
        PROVE  Calm(t) /\ OthersStay(t)
    BY <1>2 DEF Mkdir, Ref, DetachAll, Rmdir
  <1>3. ASSUME NEW n \in Names, NEW m \in Names, Link(t, n, m) \/ Rename(t, n, m)
        PROVE  Calm(t) /\ OthersStay(t)
    BY <1>3 DEF Link, Rename
  <1>4. ASSUME NEW h \in Handles, Close(t, h)
        PROVE  Calm(t) /\ OthersStay(t)
    BY <1>4 DEF Close
  <1>5. ASSUME NEW n \in Names PROVE ~Unlink(t, n)
    BY DEF Unlink, LockedRemovals
  <1>6. QED
    BY ONLY Begin(t), <1>1, <1>2, <1>3, <1>4, <1>5 DEF Begin

\* Where the counts stay, or only grow.
LEMMA ContinuesCalmly ==
  ASSUME IInv, LiveUsed, NEW t \in Threads,
         \/ OpenTrunc(t) \/ OpenRefuse(t) \/ OpenDone(t) \/ OpenFail(t) \/ GcExists(t)
         \/ CreatDone(t) \/ CloseFail(t) \/ WalkRefuse(t) \/ OpendirDone(t)
         \/ OpendirFail(t) \/ RefDone(t) \/ TagGarbage(t) \/ LinkSource(t)
         \/ LinkRefuse(t) \/ LinkCallback(t) \/ RmdirNotDir(t) \/ RenameLockOld(t)
         \/ RenameLockNew(t) \/ RenameFail(t)
         \/ OpenRef(t) \/ CreatAttach(t) \/ WalkRef(t) \/ LinkAttach(t)
  PROVE  Calm(t) /\ OthersStay(t)
  <1> USE DEF IInv, TypeOK, entryVars, Goto, Return, Calm, OthersStay, Destroying, LiveUsed
  <1>1. CASE \/ OpenTrunc(t) \/ OpenRefuse(t) \/ OpenDone(t) \/ OpenFail(t) \/ GcExists(t)
             \/ CreatDone(t) \/ CloseFail(t)
    BY <1>1 DEF OpenTrunc, OpenRefuse, OpenDone, OpenFail, GcExists, CreatDone, CloseFail
  <1>2. CASE \/ WalkRefuse(t) \/ OpendirDone(t) \/ OpendirFail(t) \/ RefDone(t)
             \/ TagGarbage(t)
    BY <1>2 DEF WalkRefuse, WalkedTo, OpendirDone, OpendirFail, RefDone, TagGarbage
  <1>3. CASE \/ LinkSource(t) \/ LinkRefuse(t) \/ LinkCallback(t) \/ RmdirNotDir(t)
             \/ RenameLockOld(t) \/ RenameLockNew(t) \/ RenameFail(t)
    BY <1>3 DEF LinkSource, WalkedTo, LinkRefuse, LinkCallback, RmdirNotDir,
       RenameLockOld, RenameLockNew, RenameFail
  <1>4. CASE OpenRef(t)
    BY <1>4 DEF OpenRef
  <1>5. CASE CreatAttach(t)
    BY <1>5 DEF CreatAttach
  <1>6. CASE WalkRef(t)
    BY <1>6 DEF WalkRef, WalkedTo
  <1>7. CASE LinkAttach(t)
    BY <1>7 DEF LinkAttach
  <1>8. QED
    BY <1>1, <1>2, <1>3, <1>4, <1>5, <1>6, <1>7

\* Where one count falls but something else is known to count.
LEMMA CountFallsCalmly ==
  ASSUME IInv, LiveUsed, NEW t \in Threads, MkdirAttach(t) \/ LinkUndo(t) \/ RenameMove(t)
  PROVE  Calm(t) /\ OthersStay(t)
  <1> DEFINE i == ent[t]
  <1>1. i \in Inodes /\ type[i] \in Live /\ links[i] \in Nat /\ opens[i] \in Nat
    BY ConstantsAssumption DEF IInv, TypeOK, Shape, FrameOK, NoUseAfterFree,
       MkdirAttach, LinkUndo, RenameMove
  <1> USE DEF IInv, TypeOK, Goto, Return, Calm, OthersStay, Destroying
  <1>2. CASE MkdirAttach(t)
    <2>1. links'[i] = links[i] + 1 /\ opens'[i] = opens[i] - 1
      BY <1>1, <1>2 DEF MkdirAttach
    <2>2. opens[i] > 0
      BY <1>1, <1>2, CountFacts DEF MkdirAttach, Refs, RefPcs
    <2>3. QED
      BY <1>1, <1>2, <2>1, <2>2 DEF MkdirAttach, LiveUsed
  <1>3. CASE LinkUndo(t)
    <2>1. opens[i] > 0
      BY <1>1, <1>3, CountFacts DEF LinkUndo, Refs, RefPcs
    <2>2. links'[i] \in Nat
      BY <1>1, <1>3 DEF LinkUndo, Detached
    <2>3. QED
      BY <1>1, <1>3, <2>1, <2>2 DEF LinkUndo, LiveUsed
  <1>4. CASE RenameMove(t)
    <2>1. links'[i] > 0 /\ links'[i] \in Nat
      BY <1>1, <1>4 DEF RenameMove, Detached
    <2>2. QED
      BY <1>1, <1>4, <2>1 DEF RenameMove, LiveUsed
  <1>5. QED
    BY <1>2, <1>3, <1>4

\* What both outcomes of fskit_entry_try_destroy on i mean.
LEMMA TryDestroyEffect ==
  ASSUME IInv, LiveUsed, NEW t \in Threads, NEW i \in Inodes, type[i] \in Live,
         NEW l \in Nat, NEW o \in Nat, l + o = links[i] + opens[i] - 1,
         TryDestroy(t, i, l, o), ~Destroying(t), type' = type
  PROVE  (Calm(t) \/ Dooms(t)) /\ OthersStay(t)
  <1>1. \A j \in Inodes \ {i} : links'[j] = links[j] /\ opens'[j] = opens[j]
    BY DEF IInv, TypeOK, TryDestroy
  <1>2. CASE Destroyed(t, i, l, o)
    <2>1. links'[i] = 0 /\ opens'[i] = 1 /\ ent'[t] = i /\ Destroying(t)'
      BY <1>2 DEF IInv, TypeOK, Destroyed, Destroying
    <2>2. links[i] + opens[i] = 1
      BY <1>2 DEF IInv, TypeOK, Destroyed
    <2>3. QED
      BY <1>1, <1>2, <2>1, <2>2 DEF IInv, TypeOK, Destroyed, Dooms, OthersStay, LiveUsed
  <1>3. CASE Survived(t, i, l, o)
    <2>1. links'[i] = l /\ opens'[i] = o /\ l + o > 0 /\ ~Destroying(t)'
      BY <1>3 DEF IInv, TypeOK, Survived, Return, Destroying
    <2>2. QED
      BY <1>1, <1>3, <2>1 DEF IInv, TypeOK, Survived, Return, Calm, OthersStay, LiveUsed
  <1>4. QED
    BY <1>2, <1>3, TryDestroyCases DEF IInv

\* Dropping a reference, by fskit_entry_unref or by close, or a name, by rmdir.
LEMMA DropEffect ==
  ASSUME IInv, LiveUsed, NEW t \in Threads, Unref(t) \/ CloseDrop(t) \/ RmdirDrop(t)
  PROVE  (Calm(t) \/ Dooms(t)) /\ OthersStay(t)
  <1> DEFINE i == ent[t]
  <1>1. /\ i \in Inodes /\ type[i] \in Live /\ links[i] \in Nat /\ opens[i] \in Nat
        /\ ~Destroying(t)
    BY ConstantsAssumption DEF IInv, TypeOK, Shape, FrameOK, NoUseAfterFree,
       Unref, CloseDrop, RmdirDrop, Destroying
  <1>2. CASE Unref(t)
    <2>1. opens[i] > 0
      BY <1>1, <1>2, CountFacts DEF Unref, Refs, RefPcs
    <2>2. /\ TryDestroy(t, i, links[i], opens[i] - 1) /\ type' = type
          /\ opens[i] - 1 \in Nat /\ links[i] + (opens[i] - 1) = links[i] + opens[i] - 1
      BY <1>1, <1>2, <2>1 DEF Unref
    <2>3. QED
      BY <1>1, <2>2, TryDestroyEffect
  <1>3. CASE CloseDrop(t)
    <2>1. opens[i] > 0
      BY <1>1, <1>3, CountFacts DEF CloseDrop, Refs, IInv, Shape, HandlesOK
    <2>2. /\ TryDestroy(t, i, links[i], opens[i] - 1) /\ type' = type
          /\ opens[i] - 1 \in Nat /\ links[i] + (opens[i] - 1) = links[i] + opens[i] - 1
      BY <1>1, <1>3, <2>1 DEF CloseDrop
    <2>3. QED
      BY <1>1, <2>2, TryDestroyEffect
  <1>4. CASE RmdirDrop(t)
    <2>1. links[i] > 0
      BY <1>1, <1>4, CountFacts DEF RmdirDrop, NamesOf, IInv, Shape, FrameOK, NamedPcs
    <2>2. /\ TryDestroy(t, i, links[i] - 1, opens[i]) /\ type' = type
          /\ links[i] - 1 \in Nat /\ (links[i] - 1) + opens[i] = links[i] + opens[i] - 1
      BY <1>1, <1>4, <2>1 DEF RmdirDrop, Detached
    <2>3. QED
      BY <1>1, <2>2, TryDestroyEffect
  <1>5. QED
    BY <1>2, <1>3, <1>4

\* Taking the name of a garbage entry, and renaming over an entry.
LEMMA ReplaceEffect ==
  ASSUME IInv, LiveUsed, NEW t \in Threads, GarbageCollect(t) \/ RenameOver(t)
  PROVE  (Calm(t) \/ Dooms(t)) /\ OthersStay(t)
  <1>1. CASE GarbageCollect(t)
    <2> DEFINE i == ent[t]
    <2>1. /\ i \in Inodes /\ type[i] \in Live /\ links[i] \in Nat /\ opens[i] \in Nat
          /\ ~Destroying(t)
      BY <1>1, ConstantsAssumption DEF IInv, TypeOK, Shape, FrameOK, NoUseAfterFree,
         GarbageCollect, Destroying
    <2>2. links[i] > 0
      BY <1>1, <2>1, CountFacts DEF GarbageCollect, NamesOf, IInv, Shape, FrameOK, NamedPcs
    <2>3. /\ links' = [links EXCEPT ![i] = links[i] - 1] /\ links[i] - 1 \in Nat
          /\ links'[i] = links[i] - 1 /\ type' = type
      <3>1. Detached(links[i]) = links[i] - 1
        BY <2>1, <2>2 DEF Detached
      <3>2. links' = [links EXCEPT ![i] = Detached(links[i])] /\ type' = type
        BY <1>1 DEF GarbageCollect
      <3>3. QED
        BY <2>1, <2>2, <3>1, <3>2 DEF IInv, TypeOK
    <2>4. CASE links[i] - 1 <= 0 /\ opens[i] <= 0
      <3>1. /\ opens' = [opens EXCEPT ![i] = opens[i] + 1]
            /\ pc' = [pc EXCEPT ![t] = "gc_destroy"] /\ UNCHANGED ent
        BY <1>1, <2>1, <2>2, <2>4 DEF GarbageCollect, Detached, Goto
      <3>2. opens'[i] = 1 /\ links[i] + opens[i] = 1
        BY <2>1, <2>2, <2>4, <3>1 DEF IInv, TypeOK
      <3>3. QED
        BY <2>1, <2>3, <3>1, <3>2 DEF IInv, TypeOK, Dooms, OthersStay, Destroying, LiveUsed
    <2>5. CASE ~(links[i] - 1 <= 0 /\ opens[i] <= 0)
      <3>1. opens' = opens /\ GotoAlloc(t)
        BY <1>1, <2>1, <2>2, <2>5 DEF GarbageCollect, Detached
      <3>2. links'[i] + opens'[i] > 0
        BY <2>1, <2>2, <2>3, <2>5, <3>1
      <3>3. QED
        BY <2>1, <2>3, <3>1, <3>2 DEF IInv, TypeOK, GotoAlloc, Calm, OthersStay, Destroying, LiveUsed
    <2>6. QED
      BY <2>4, <2>5
  <1>2. CASE RenameOver(t)
    <2> DEFINE old == ent[t]
               new == vic[t]
               l == Detached(links[new])
    <2>1. /\ old \in Inodes /\ type[old] \in Live /\ new \in Inodes /\ type[new] \in Live
          /\ old # new /\ ~Destroying(t) /\ type' = type
          /\ links[old] \in Nat /\ links[new] \in Nat /\ opens[new] \in Nat
      BY <1>2, ConstantsAssumption DEF IInv, TypeOK, Shape, FrameOK, NoUseAfterFree,
         RenamePcs, RenameOver, Destroying
    <2>2. links[new] > 0
      BY <1>2, <2>1, CountFacts DEF RenameOver, NamesOf, IInv, Shape, FrameOK, RenamePcs
    <2>3. l = links[new] - 1 /\ l \in Nat /\ Detached(links[old]) + 1 \in Nat \ {0}
      BY <2>1, <2>2 DEF Detached
    <2>4. links' = [links EXCEPT ![old] = Detached(links[old]) + 1, ![new] = l]
      BY <1>2 DEF RenameOver
    <2>5. /\ links'[old] \in Nat \ {0} /\ links'[new] = l
          /\ \A j \in Inodes \ {old, new} : links'[j] = links[j]
      BY <2>1, <2>3, <2>4 DEF IInv, TypeOK
    <2>6. CASE l <= 0 /\ opens[new] <= 0
      <3>1. /\ opens' = [opens EXCEPT ![new] = opens[new] + 1]
            /\ pc' = [pc EXCEPT ![t] = "destroy"] /\ ent' = [ent EXCEPT ![t] = new]
        BY <1>2, <2>1, <2>6 DEF RenameOver
      <3>2. opens'[new] = 1 /\ links[new] + opens[new] = 1
        BY <2>1, <2>3, <2>6, <3>1 DEF IInv, TypeOK
      <3>3. LiveUsed'
        <4> SUFFICES ASSUME NEW j \in Inodes, type[j] \in Live
                     PROVE  links'[j] + opens'[j] > 0
          BY <2>1 DEF LiveUsed
        <4>1. CASE j = old
          <5>1. opens'[old] \in Nat
            BY <2>1, <3>1 DEF IInv, TypeOK
          <5>2. QED
            BY <2>5, <4>1, <5>1
        <4>2. CASE j = new
          BY <2>3, <2>5, <3>2, <4>2
        <4>3. CASE j \notin {old, new}
          BY <2>5, <3>1, <4>3 DEF LiveUsed
        <4>4. QED
          BY <4>1, <4>2, <4>3
      <3>4. QED
        BY <2>1, <3>1, <3>2, <3>3 DEF IInv, TypeOK, Dooms, OthersStay, Destroying
    <2>7. CASE ~(l <= 0 /\ opens[new] <= 0)
      <3>1. opens' = opens /\ Return(t)
        BY <1>2, <2>7 DEF RenameOver
      <3>2. links'[new] + opens'[new] > 0
        BY <2>1, <2>3, <2>5, <2>7, <3>1
      <3>3. LiveUsed'
        <4> SUFFICES ASSUME NEW j \in Inodes, type[j] \in Live
                     PROVE  links'[j] + opens'[j] > 0
          BY <2>1 DEF LiveUsed
        <4>1. CASE j = old
          <5>1. opens'[old] \in Nat
            BY <2>1, <3>1 DEF IInv, TypeOK
          <5>2. QED
            BY <2>5, <4>1, <5>1
        <4>2. CASE j = new
          BY <2>3, <2>5, <3>2, <4>2
        <4>3. CASE j \notin {old, new}
          BY <2>5, <3>1, <4>3 DEF LiveUsed
        <4>4. QED
          BY <4>1, <4>2, <4>3
      <3>4. QED
        BY <2>1, <3>1, <3>3 DEF IInv, TypeOK, Return, Calm, OthersStay, Destroying
    <2>8. QED
      BY <2>6, <2>7
  <1>3. QED
    BY <1>1, <1>2

\* Every step is of one of the four kinds.
LEMMA StepKinds ==
  ASSUME IInv, LiveUsed, LockedRemovals, NEW t \in Threads, Begin(t) \/ Continue(t)
  PROVE  (Calm(t) \/ Dooms(t) \/ Frees(t) \/ Alloc(t)) /\ OthersStay(t) /\ LiveUsed'
  <1> DEFINE Goal == (Calm(t) \/ Dooms(t) \/ Frees(t) \/ Alloc(t)) /\ OthersStay(t) /\ LiveUsed'
  <1>1. CASE Begin(t)
    BY <1>1, BeginsCalmly DEF Calm
  <1>2. CASE FinishDestroy(t) \/ FinishGc(t) \/ MakeFail(t)
    <2>1. /\ pc[t] \in {"destroy", "gc_destroy", "make_cb"}
          /\ type' = [type EXCEPT ![ent[t]] = "freed"]
          /\ UNCHANGED <<links, opens>>
      BY <1>2 DEF FinishDestroy, FinishGc, MakeFail
    <2>2. ~Destroying(t)' /\ OthersStay(t)
      BY <1>2 DEF FinishDestroy, FinishGc, MakeFail, Return, GotoAlloc, Destroying,
         OthersStay, IInv, TypeOK
    <2>3. LiveUsed'
      BY <2>1 DEF LiveUsed, IInv, TypeOK, Live
    <2>4. QED
      BY <2>1, <2>2, <2>3 DEF Frees
  <1>3. CASE Alloc(t)
    <2>1. PICK i \in Inodes :
            /\ type' = [type EXCEPT ![i] = IF op[t] = "creat" THEN "file" ELSE "dir"]
            /\ opens' = [opens EXCEPT ![i] = 1] /\ ent' = [ent EXCEPT ![t] = i]
      BY <1>3 DEF Alloc
    <2>2. links' = links /\ pc' = [pc EXCEPT ![t] = "make_cb"]
      BY <1>3 DEF Alloc
    <2>3. QED
      BY <1>3, <2>1, <2>2 DEF LiveUsed, OthersStay, IInv, TypeOK
  <1>4. CASE Unref(t) \/ CloseDrop(t) \/ RmdirDrop(t)
    BY <1>4, DropEffect DEF Calm, Dooms
  <1>5. CASE GarbageCollect(t) \/ RenameOver(t)
    BY <1>5, ReplaceEffect DEF Calm, Dooms
  <1>6. CASE MkdirAttach(t) \/ LinkUndo(t) \/ RenameMove(t)
    BY <1>6, CountFallsCalmly DEF Calm
  <1>7. ~DetachCallback(t) /\ ~UnlinkDrop(t)
    BY DEF DetachCallback, UnlinkDrop, IInv, Shape, FrameOK
  <1>8. CASE
         \/ OpenTrunc(t) \/ OpenRefuse(t) \/ OpenDone(t) \/ OpenFail(t) \/ GcExists(t)
         \/ CreatDone(t) \/ CloseFail(t) \/ WalkRefuse(t) \/ OpendirDone(t)
         \/ OpendirFail(t) \/ RefDone(t) \/ TagGarbage(t) \/ LinkSource(t)
         \/ LinkRefuse(t) \/ LinkCallback(t) \/ RmdirNotDir(t) \/ RenameLockOld(t)
         \/ RenameLockNew(t) \/ RenameFail(t)
         \/ OpenRef(t) \/ CreatAttach(t) \/ WalkRef(t) \/ LinkAttach(t)
    BY <1>8, ContinuesCalmly DEF Calm
  <1>9. QED
    BY ONLY Begin(t) \/ Continue(t), <1>1, <1>2, <1>3, <1>4, <1>5, <1>6, <1>7, <1>8
       DEF Continue

(***************************************************************************)
(* What IInv says about a state in EntryLife's terms.                      *)
(***************************************************************************)

Dying(i) == \E t \in Threads : Destroying(t) /\ ent[t] = i

InLifeTerms ==
  /\ \A i \in Inodes :
       /\ type[i] = "unused" => Phase(i) = "fresh"
       /\ type[i] = "freed" => Phase(i) = "dead"
       /\ type[i] \in Live /\ Dying(i) => Phase(i) = "dying"
       /\ type[i] \in Live /\ ~Dying(i) => Phase(i) = "live"
       /\ type[i] \notin Live => NamesOf(i) = {} /\ Refs(i) = {}
       /\ type[i] \in Live /\ CannotLeak =>
            links[i] + opens[i] = Cardinality(NamesOf(i)) + Cardinality(Refs(i))
  /\ \A t \in Threads : pc[t] \in {"make_cb", "destroy", "gc_destroy"} =>
       /\ ent[t] \in Inodes /\ type[ent[t]] \in Live
       /\ NamesOf(ent[t]) = {} /\ Refs(ent[t]) = {t}
       /\ \A u \in Threads \ {t} : ent[u] # ent[t]

LEMMA LifeTerms == IInv => InLifeTerms
  <1> SUFFICES ASSUME IInv PROVE InLifeTerms
    OBVIOUS
  <1>1. ASSUME NEW i \in Inodes
        PROVE  /\ type[i] = "unused" => Phase(i) = "fresh"
               /\ type[i] = "freed" => Phase(i) = "dead"
               /\ type[i] \in Live /\ Dying(i) => Phase(i) = "dying"
               /\ type[i] \in Live /\ ~Dying(i) => Phase(i) = "live"
    BY DEF Phase, Dying, Live
  <1>2. ASSUME NEW i \in Inodes, type[i] \notin Live
        PROVE  NamesOf(i) = {} /\ Refs(i) = {}
    BY <1>2, ConstantsAssumption DEF IInv, TypeOK, Shape, NoUseAfterFree, NamesOf, Refs
  <1>3. ASSUME NEW i \in Inodes, type[i] \in Live, CannotLeak
        PROVE  links[i] + opens[i] = Cardinality(NamesOf(i)) + Cardinality(Refs(i))
    BY <1>3 DEF IInv, CountsOK, LinkCountExact, RefCountExact
  <1>4. ASSUME NEW t \in Threads, pc[t] \in {"make_cb", "destroy", "gc_destroy"}
        PROVE  /\ ent[t] \in Inodes /\ type[ent[t]] \in Live
               /\ NamesOf(ent[t]) = {} /\ Refs(ent[t]) = {t}
               /\ \A u \in Threads \ {t} : ent[u] # ent[t]
    <2>1. ent[t] \in Inodes /\ type[ent[t]] \in Live
      BY <1>4, ConstantsAssumption DEF IInv, TypeOK, Shape, FrameOK, NoUseAfterFree
    <2>2. /\ NamesOf(ent[t]) = {}
          /\ \A h \in Handles : handle[h] # ent[t]
          /\ \A u \in Threads \ {t} : ent[u] # ent[t]
      BY <1>4 DEF IInv, Shape, PrivateOK
    <2>3. Refs(ent[t]) = {t}
      BY <1>4, <2>2 DEF Refs, RefPcs
    <2>4. QED
      BY <2>1, <2>2, <2>3
  <1>5. QED
    BY <1>1, <1>2, <1>3, <1>4 DEF InLifeTerms

\* A sum of one is one name, or one reference.
LEMMA OneTie ==
  ASSUME NEW i \in Inodes, Cardinality(NamesOf(i)) + Cardinality(Refs(i)) = 1
  PROVE  \/ NamesOf(i) = {} /\ \E x \in Threads \cup Handles : Refs(i) = {x}
         \/ Refs(i) = {} /\ \E n \in Names : NamesOf(i) = {n}
  <1>1. NamesOf(i) \subseteq Names /\ Refs(i) \subseteq Threads \cup Handles
    BY DEF NamesOf, Refs
  <1>2. IsFiniteSet(Threads \cup Handles)
    BY ConstantsAssumption, FS_Union DEF ConstantsAssumption
  <1>3. IsFiniteSet(NamesOf(i)) /\ IsFiniteSet(Refs(i))
    BY <1>1, <1>2, ConstantsAssumption, FS_Subset DEF ConstantsAssumption
  <1>4. Cardinality(NamesOf(i)) \in Nat /\ Cardinality(Refs(i)) \in Nat
    BY <1>3, FS_CardinalityType
  <1>5. CASE Cardinality(NamesOf(i)) = 0
    <2>1. NamesOf(i) = {}
      BY <1>3, <1>5, FS_EmptySet
    <2>2. Cardinality(Refs(i)) = 1
      BY <1>4, <1>5
    <2>3. \E x : Refs(i) = {x}
      BY <1>3, <2>2, FS_Singleton
    <2>4. QED
      BY <1>1, <2>1, <2>3
  <1>6. CASE Cardinality(Refs(i)) = 0
    <2>1. Refs(i) = {} /\ \E x : NamesOf(i) = {x}
      BY <1>3, <1>4, <1>6, FS_EmptySet, FS_Singleton
    <2>2. QED
      BY <1>1, <2>1
  <1>7. QED
    BY <1>4, <1>5, <1>6

(***************************************************************************)
(* The step of one entry.                                                  *)
(***************************************************************************)

LEMMA EntryStep ==
  ASSUME IInv, InLifeTerms, InLifeTerms', LiveUsed, LockedRemovals, CannotLeak,
         NEW t \in Threads, Begin(t) \/ Continue(t), NEW i \in Inodes
  PROVE  \/ Life!Born(i) \/ Life!Used(i) \/ Life!Abandoned(i) \/ Life!Orphaned(i)
         \/ Life!Freed(i) \/ Life!Same(i)
  <1> USE DEF Life!Becomes, Life!Alone, Life!Tied
  <1>1. (Calm(t) \/ Dooms(t) \/ Frees(t) \/ Alloc(t)) /\ OthersStay(t) /\ LiveUsed'
    BY StepKinds
  <1>2. /\ type[i] \in Live \cup {"unused", "freed"} /\ ent[t] \in Inodes \cup {None}
        /\ "unused" \notin Live /\ "freed" \notin Live /\ CannotLeak'
    BY DEF IInv, TypeOK, Live, CannotLeak
  <1>3. t \in Threads \cup Handles
    OBVIOUS
  <1>4. CASE type'[i] = type[i] /\ type[i] \notin Live
    <2>1. /\ NamesOf(i)' = NamesOf(i) /\ Refs(i)' = Refs(i)
          /\ Phase(i)' = Phase(i)
      BY <1>2, <1>4 DEF InLifeTerms
    <2>2. QED
      BY <2>1 DEF Life!Same
  <1>5. CASE type'[i] = type[i] /\ type[i] \in Live /\ Dying(i) /\ Dying(i)'
    <2>1. PICK u \in Threads : Destroying(u) /\ ent[u] = i
      BY <1>5 DEF Dying
    <2>2. PICK v \in Threads : Destroying(v)' /\ ent'[v] = i
      BY <1>5 DEF Dying
    <2>3. u = v
      <3>1. Refs(i) = {u} /\ Refs(i)' = {v} /\ \A w \in Threads \ {u} : ent[w] # i
        BY <2>1, <2>2 DEF InLifeTerms, Destroying
      <3>2. CASE u # t
        <4>1. pc'[u] = pc[u] /\ ent'[u] = ent[u]
          BY <1>1, <3>2 DEF OthersStay
        <4>2. u \in Refs(i)'
          BY <2>1, <4>1 DEF Refs, RefPcs, Destroying
        <4>3. QED
          BY <3>1, <4>2
      <3>3. CASE u = t
        <4>1. Frees(t)
          BY <1>1, <2>1, <3>3 DEF Calm, Dooms, Destroying, Alloc
        <4>2. type'[i] = "freed"
          BY <2>1, <3>3, <4>1 DEF Frees, IInv, TypeOK
        <4>3. QED
          BY <1>2, <1>5, <4>2
      <3>4. QED
        BY <3>2, <3>3
    <2>4. NamesOf(i) = {} /\ Refs(i) = {u} /\ NamesOf(i)' = {} /\ Refs(i)' = {v}
      BY <2>1, <2>2 DEF InLifeTerms, Destroying
    <2>5. Phase(i) = "dying" /\ Phase(i)' = "dying"
      BY <1>5 DEF InLifeTerms
    <2>6. QED
      BY <2>3, <2>4, <2>5 DEF Life!Same
  <1>6. CASE type'[i] = type[i] /\ type[i] \in Live /\ Dying(i) /\ ~Dying(i)'
    <2>1. PICK u \in Threads : Destroying(u) /\ ent[u] = i
      BY <1>6 DEF Dying
    <2>2. u = t
      BY <1>1, <1>6, <2>1 DEF OthersStay, Dying, Destroying
    <2>3. Frees(t)
      BY <1>1, <2>1, <2>2 DEF Calm, Dooms, Destroying, Alloc
    <2>4. type'[i] = "freed"
      BY <2>1, <2>2, <2>3 DEF Frees, IInv, TypeOK
    <2>5. QED
      BY <1>2, <1>6, <2>4
  <1>7. CASE type'[i] = type[i] /\ type[i] \in Live /\ ~Dying(i) /\ Dying(i)'
    <2>1. PICK u \in Threads : Destroying(u)' /\ ent'[u] = i
      BY <1>7 DEF Dying
    <2>2. u = t
      BY <1>1, <1>7, <2>1 DEF OthersStay, Dying, Destroying
    <2>3. Dooms(t)
      BY <1>1, <2>1, <2>2 DEF Calm, Frees, Destroying, Alloc, IInv, TypeOK
    <2>4. Phase(i) = "live" /\ Phase(i)' = "dying"
      BY <1>7 DEF InLifeTerms
    <2>5. NamesOf(i)' = {} /\ Refs(i)' = {t}
      BY <2>1, <2>2 DEF InLifeTerms, Destroying
    <2>6. Cardinality(NamesOf(i)) + Cardinality(Refs(i)) = 1
      BY <1>7, <2>1, <2>2, <2>3 DEF InLifeTerms, Dooms
    <2>7. Life!Last(i)
      BY <2>6, OneTie DEF Life!Last
    <2>8. QED
      BY <1>3, <2>4, <2>5, <2>7 DEF Life!Orphaned
  <1>8. CASE type'[i] = type[i] /\ type[i] \in Live /\ ~Dying(i) /\ ~Dying(i)'
    <2>1. Phase(i) = "live" /\ Phase(i)' = "live"
      BY <1>8 DEF InLifeTerms
    <2>2. links'[i] + opens'[i] > 0
      BY <1>1, <1>8 DEF LiveUsed
    <2>3. Cardinality(NamesOf(i)') + Cardinality(Refs(i)') = links'[i] + opens'[i]
      BY <1>2, <1>8 DEF InLifeTerms
    <2>4. ~(NamesOf(i)' = {} /\ Refs(i)' = {})
      BY <2>2, <2>3, FS_EmptySet
    <2>5. QED
      BY <2>1, <2>4 DEF Life!Used
  <1>9. CASE Frees(t) /\ type'[i] # type[i]
    <2>1. i = ent[t] /\ type'[i] = "freed"
      BY <1>2, <1>9 DEF Frees, IInv, TypeOK
    <2>2. /\ type[i] \in Live /\ NamesOf(i) = {} /\ Refs(i) = {t}
          /\ \A u \in Threads \ {t} : ent[u] # i
      BY <1>9, <2>1 DEF InLifeTerms, Frees
    <2>3. Phase(i)' = "dead" /\ NamesOf(i)' = {} /\ Refs(i)' = {}
      BY <1>2, <2>1 DEF InLifeTerms
    <2>4. CASE Destroying(t)
      <3>1. Phase(i) = "dying"
        BY <2>1, <2>2, <2>4 DEF InLifeTerms, Dying
      <3>2. QED
        BY <1>3, <2>3, <3>1 DEF Life!Freed
    <2>5. CASE ~Destroying(t)
      <3>1. Phase(i) = "live"
        BY <2>1, <2>2, <2>5 DEF InLifeTerms, Dying
      <3>2. QED
        BY <1>3, <2>2, <2>3, <3>1 DEF Life!Abandoned
    <2>6. QED
      BY <2>4, <2>5
  <1>10. CASE Alloc(t) /\ type'[i] # type[i]
    <2>1. /\ type[i] = "unused" /\ type'[i] \in Live
          /\ pc'[t] = "make_cb" /\ ent'[t] = i
      BY <1>10 DEF Alloc, IInv, TypeOK, Live
    <2>2. /\ NamesOf(i)' = {} /\ Refs(i)' = {t}
          /\ \A u \in Threads \ {t} : ent'[u] # i
      BY <2>1 DEF InLifeTerms
    <2>3. Phase(i) = "fresh" /\ Phase(i)' = "live"
      BY <2>1, <2>2 DEF InLifeTerms, Dying, Destroying
    <2>4. QED
      BY <1>3, <2>2, <2>3 DEF Life!Born
  <1>11. type'[i] = type[i] \/ Frees(t) \/ Alloc(t)
    BY <1>1 DEF Calm, Dooms
  <1>12. QED
    BY <1>4, <1>5, <1>6, <1>7, <1>8, <1>9, <1>10, <1>11

(***************************************************************************)
(* The theorem.                                                            *)
(***************************************************************************)

LEMMA InitImplements == Init => Life!Init /\ LiveUsed
  <1> SUFFICES ASSUME Init PROVE Life!Init /\ LiveUsed
    OBVIOUS
  <1>1. \A i \in Inodes : type[i] = "unused" /\ Phase(i) = "fresh"
    BY DEF Init, Phase
  <1>2. \A i \in Inodes : NamesOf(i) = {} /\ Refs(i) = {}
    BY ConstantsAssumption DEF Init, NamesOf, Refs
  <1>3. QED
    BY <1>1, <1>2 DEF Life!Init, LiveUsed, Live

\* Every entry lives as EntryLife promises: it dies in the step that takes its
\* last name or reference, is never left without either, is alone with its
\* destroyer then, and never comes back.
THEOREM Refinement == LockedRemovals /\ CannotLeak => (Spec => ImplementsEntryLife)
  <1> SUFFICES ASSUME LockedRemovals, CannotLeak
               PROVE  Spec => ImplementsEntryLife
    OBVIOUS
  <1>1. IInv /\ LiveUsed /\ [Next]_vars => LiveUsed'
    <2> SUFFICES ASSUME IInv, LiveUsed, [Next]_vars PROVE LiveUsed'
      OBVIOUS
    <2>1. ASSUME NEW t \in Threads, Begin(t) \/ Continue(t) PROVE LiveUsed'
      BY <2>1, StepKinds
    <2>2. CASE UNCHANGED vars
      BY <2>2 DEF vars, entryVars, LiveUsed
    <2>3. QED
      BY <2>1, <2>2 DEF Next, Miss
  <1>2. IInv /\ LiveUsed /\ InLifeTerms /\ InLifeTerms' /\ [Next]_vars
          => [Life!Next]_(Life!vars)
    <2> SUFFICES ASSUME IInv, LiveUsed, InLifeTerms, InLifeTerms', [Next]_vars
                 PROVE  [Life!Next]_(Life!vars)
      OBVIOUS
    <2>1. ASSUME NEW t \in Threads, Begin(t) \/ Continue(t) PROVE Life!Next
      BY <2>1, EntryStep DEF Life!Next
    <2>2. CASE UNCHANGED vars
      BY <2>2 DEF vars, entryVars, Life!vars, Phase, Destroying, NamesOf, Refs
    <2>3. QED
      BY <2>1, <2>2 DEF Next, Miss
  <1>3. Spec => []IInv
    BY Invariance
  <1>4. QED
    BY <1>1, <1>2, <1>3, InitImplements, LifeTerms, PTL DEF Spec, ImplementsEntryLife, Life!Spec
===============================================================================
