--------------------------- MODULE DirCursor_proofs ---------------------------
(***************************************************************************)
(* Proofs about DirCursor, for directories with any number of names and    *)
(* any sizes of reads, failing ones included: names come in ascending      *)
(* order, and a reader that is told that it has reached the end has missed *)
(* nothing that it was not moved past.                                     *)
(***************************************************************************)
EXTENDS DirCursor, FiniteSetTheorems, TLAPS

(***************************************************************************)
(* The least and the greatest name of a set.                               *)
(***************************************************************************)

LEMMA NamesAreFinite ==
  ASSUME NEW S \in SUBSET Names
  PROVE  IsFiniteSet(S) /\ S \subseteq Int
  <1>1. IsFiniteSet(Names)
    BY CursorAssumption, FS_Interval DEF Names
  <1>2. IsFiniteSet(S)
    BY <1>1, FS_Subset
  <1>3. QED
    BY <1>2, CursorAssumption DEF Names

\* In a set of names that is not empty there is one above which the set of
\* greater names is smallest: the greatest.
LEMMA MaxOfNames ==
  ASSUME NEW S \in SUBSET Names, S # {}
  PROVE  Max(S) \in S /\ \A n \in S : n <= Max(S)
  <1> DEFINE Above(n) == {m \in S : m > n}
             T == {Above(n) : n \in S}
             R == StrictSubsetOrdering(S)
  <1>1. S \subseteq Int /\ IsWellFoundedOn(R, SUBSET S)
    BY NamesAreFinite, FS_StrictSubsetOrderingWellFounded, FS_FiniteSubsetsOfFinite
  <1>2. T \subseteq SUBSET S /\ T # {}
    OBVIOUS
  <1> HIDE DEF R
  <1>3. \E X \in T : \A Y \in T : <<Y, X>> \notin R
    BY <1>1, <1>2, WFMin
  <1>4. PICK n \in S : \A m \in S : <<Above(m), Above(n)>> \notin R
    BY <1>3
  <1>5. ASSUME NEW m \in S
        PROVE  m <= n
    <2> SUFFICES ASSUME m > n PROVE FALSE
      BY <1>1
    <2>1. \A k \in S : k > m => k > n
      BY <1>1
    <2>2. Above(m) \subseteq Above(n)
      BY <2>1
    <2>3. m \in Above(n) /\ m \notin Above(m)
      BY <1>1
    <2>4. <<Above(m), Above(n)>> \in R
      BY <2>2, <2>3 DEF R, StrictSubsetOrdering
    <2>5. QED
      BY <2>4, <1>4
  <1>6. QED
    BY <1>1, <1>5 DEF Max

\* Likewise the least.
LEMMA MinOfNames ==
  ASSUME NEW S \in SUBSET Names, S # {}
  PROVE  Min(S) \in S /\ \A n \in S : Min(S) <= n
  <1> DEFINE Lower(n) == {m \in S : m < n}
             T == {Lower(n) : n \in S}
             R == StrictSubsetOrdering(S)
  <1>1. S \subseteq Int /\ IsWellFoundedOn(R, SUBSET S)
    BY NamesAreFinite, FS_StrictSubsetOrderingWellFounded, FS_FiniteSubsetsOfFinite
  <1>2. T \subseteq SUBSET S /\ T # {}
    OBVIOUS
  <1> HIDE DEF R
  <1>3. \E X \in T : \A Y \in T : <<Y, X>> \notin R
    BY <1>1, <1>2, WFMin
  <1>4. PICK n \in S : \A m \in S : <<Lower(m), Lower(n)>> \notin R
    BY <1>3
  <1>5. ASSUME NEW m \in S
        PROVE  n <= m
    <2> SUFFICES ASSUME m < n PROVE FALSE
      BY <1>1
    <2>1. \A k \in S : k < m => k < n
      BY <1>1
    <2>2. Lower(m) \subseteq Lower(n)
      BY <2>1
    <2>3. m \in Lower(n) /\ m \notin Lower(m)
      BY <1>1
    <2>4. <<Lower(m), Lower(n)>> \in R
      BY <2>2, <2>3 DEF R, StrictSubsetOrdering
    <2>5. QED
      BY <2>4, <1>4
  <1>6. QED
    BY <1>1, <1>5 DEF Min

\* The first k names of a set: some, if there are any, and with each of them
\* all that come before it.
LEMMA FirstOfProperties ==
  ASSUME NEW S \in SUBSET Names, NEW k \in Nat \ {0}
  PROVE  /\ FirstOf(S, k) \subseteq S
         /\ S # {} => FirstOf(S, k) # {}
         /\ \A n \in FirstOf(S, k), m \in S : m <= n => m \in FirstOf(S, k)
  <1> DEFINE UpTo(n) == {m \in S : m <= n}
  <1>1. S \subseteq Int /\ IsFiniteSet(S)
    BY NamesAreFinite
  <1>2. FirstOf(S, k) = {n \in S : Cardinality(UpTo(n)) <= k}
    BY DEF FirstOf
  <1>3. ASSUME S # {}
        PROVE  FirstOf(S, k) # {}
    <2>1. Min(S) \in S /\ \A n \in S : Min(S) <= n
      BY <1>3, MinOfNames
    <2>2. UpTo(Min(S)) = {Min(S)}
      <3>1. ASSUME NEW m \in S, m <= Min(S)
            PROVE  m = Min(S)
        <4>1. m \in Int /\ Min(S) \in Int /\ Min(S) <= m
          BY <1>1, <2>1
        <4>2. QED
          BY <3>1, <4>1
      <3>2. Min(S) <= Min(S)
        BY <1>1, <2>1
      <3>3. QED
        BY <2>1, <3>1, <3>2
    <2>3. Cardinality(UpTo(Min(S))) = 1
      BY <2>2, FS_Singleton
    <2>4. QED
      BY <1>2, <2>1, <2>3
  <1>4. ASSUME NEW n \in FirstOf(S, k), NEW m \in S, m <= n
        PROVE  m \in FirstOf(S, k)
    <2>1. n \in S /\ Cardinality(UpTo(n)) <= k
      BY <1>2
    <2>2. \A x \in S : x <= m => x <= n
      BY <1>1, <1>4, <2>1
    <2>3. UpTo(m) \subseteq UpTo(n) /\ UpTo(n) \subseteq S
      BY <2>2
    <2>4. IsFiniteSet(UpTo(n))
      BY <1>1, <2>3, FS_Subset
    <2> HIDE DEF UpTo
    <2>5. /\ Cardinality(UpTo(m)) <= Cardinality(UpTo(n))
          /\ IsFiniteSet(UpTo(m))
      BY <2>3, <2>4, FS_Subset
    <2>6. Cardinality(UpTo(m)) \in Nat /\ Cardinality(UpTo(n)) \in Nat
      BY <2>4, <2>5, FS_CardinalityType
    <2>7. QED
      BY <1>2, <2>1, <2>5, <2>6
  <1>5. QED
    BY <1>2, <1>3, <1>4

\* The cursor never goes back.
LEMMA StartAhead ==
  ASSUME TypeOK
  PROVE  /\ FindStart \in {NoName} \cup Names
         /\ cursor <= FindStart
         /\ Present # {} /\ Present \subseteq Names /\ Live \subseteq Present
  <1>1. Present # {} /\ Present \subseteq Names /\ Live \subseteq Present
    BY CursorAssumption DEF TypeOK, Present, Live
  <1>2. cursor \in Int /\ cursor \in {NoName} \cup Names
    BY CursorAssumption DEF TypeOK, Names, NoName
  <1>3. CASE FindStart = cursor
    BY <1>1, <1>2, <1>3
  <1>4. CASE After(cursor) # {} /\ FindStart = Min(After(cursor))
    <2>1. After(cursor) \in SUBSET Names
      BY <1>1 DEF After
    <2>2. Min(After(cursor)) \in After(cursor)
      BY <1>4, <2>1, MinOfNames
    <2>3. QED
      BY <1>1, <1>2, <1>4, <2>1, <2>2, CursorAssumption DEF After, Names
  <1>5. QED
    BY <1>3, <1>4 DEF FindStart

(***************************************************************************)
(* The inductive invariant.                                                *)
(***************************************************************************)

\* A new handle has read nothing.
NewHandle == cursor = NoName => seen = {} /\ batch = {}

\* What was there all the time and lies behind the cursor was read or skipped.
BehindCursor ==
  \A n \in stable : n <= cursor => n \in seen \cup batch \cup skipped

\* At the end, marked (eof) or just reported, nothing is left.
AtEnd == eof \/ ended => batch = {} /\ stable \subseteq seen \cup skipped

IInv == TypeOK /\ NothingTwice /\ NewHandle /\ BehindCursor /\ AtEnd

LEMMA InitOK == Init => IInv
  <1> SUFFICES ASSUME Init PROVE IInv
    OBVIOUS
  <1>1. TypeOK
    BY DEF Init, TypeOK, Live, NoName
  <1>2. NothingTwice /\ NewHandle /\ AtEnd
    BY DEF Init, NothingTwice, NewHandle, AtEnd
  <1>3. BehindCursor
    BY CursorAssumption DEF Init, BehindCursor, Live, Names, NoName
  <1>4. QED
    BY <1>1, <1>2, <1>3 DEF IInv

\* Reading keeps the invariant: the names that it returns are ahead of the
\* cursor, and it leaves out none up to the last of them.
LEMMA ReadKept ==
  ASSUME IInv, NEW k \in Requests \cup {MaxName}, Read(k)
  PROVE  IInv'
  <1> DEFINE S == Unread \cap Live
             listed == FirstOf(S, k)
  <1>1. k \in Nat \ {0}
    <2>1. PICK d \in Dots : d \in 1 .. MaxName
      BY CursorAssumption DEF Names
    <2>2. MaxName \in Nat \ {0}
      BY <2>1, CursorAssumption
    <2>3. QED
      BY <2>2, CursorAssumption
  <1>2. /\ TypeOK /\ batch = {} /\ stable \subseteq Live
        /\ Names \subseteq Int /\ cursor \in {NoName} \cup Names /\ NoName = 0
    BY CursorAssumption DEF IInv, TypeOK, Read, Names, NoName
  <1>3. /\ FindStart \in {NoName} \cup Names /\ cursor <= FindStart
        /\ Present \subseteq Names /\ Live \subseteq Present
    BY <1>2, StartAhead
  <1>4. S \in SUBSET Names
    BY <1>3
  <1>5. /\ listed \subseteq S /\ (S # {} => listed # {})
        /\ \A n \in listed, m \in S : m <= n => m \in listed
    BY <1>1, <1>4, FirstOfProperties
  <1>6. \A n \in S : cursor < n
    BY <1>2, <1>3 DEF Unread, After, Names
  <1>7. \A n \in stable \ S : n <= cursor \/ n \in skipped'
    BY <1>2, <1>3 DEF Unread, After, Read, Jumped
  <1>8. skipped \subseteq skipped' /\ skipped' \subseteq Names
    BY <1>2, <1>3 DEF Read, Jumped, TypeOK
  <1>9. /\ entry' = entry /\ told' = told /\ seen' = seen /\ stable' = stable
        /\ Live' = Live
    BY DEF Read, Live
  <1> HIDE DEF S, listed
  <1>10. CASE eof \/ listed = {}
    <2>1. /\ eof' \in BOOLEAN /\ ended' = TRUE /\ cursor' = cursor /\ batch' = {}
      BY <1>2, <1>10 DEF Read, listed, S, TypeOK
    <2>2. TypeOK'
      BY <1>8, <1>9, <2>1, <1>2 DEF TypeOK
    <2>3. stable' \subseteq seen' \cup skipped'
      <3>1. CASE eof
        BY <3>1, <1>8, <1>9 DEF IInv, AtEnd
      <3>2. CASE S = {}
        BY <3>2, <1>2, <1>7, <1>8, <1>9 DEF IInv, BehindCursor
      <3>3. QED
        BY <3>1, <3>2, <1>5, <1>10
    <2>4. QED
      BY <2>1, <2>2, <2>3, <1>8, <1>9 DEF IInv, NothingTwice, NewHandle,
         BehindCursor, AtEnd
  <1>11. CASE ~eof /\ listed # {}
    <2>1. /\ eof' = FALSE /\ ended' = FALSE /\ batch' = listed
          /\ cursor' = Max(listed)
      BY <1>11 DEF Read, listed, S, Remember
    <2>2. Max(listed) \in listed /\ \A n \in listed : n <= Max(listed)
      BY <1>4, <1>5, <1>11, MaxOfNames
    <2>3. TypeOK'
      BY <1>2, <1>4, <1>5, <1>8, <1>9, <2>1, <2>2 DEF TypeOK
    <2>4. NothingTwice'
      <3>1. \A m \in seen : m \in Int /\ m <= cursor
        BY <1>2 DEF IInv, NothingTwice, TypeOK
      <3>2. \A n \in listed : n \in Int /\ cursor < n
        BY <1>2, <1>4, <1>5, <1>6
      <3>3. \A n \in listed, m \in seen : m < n
        BY <3>1, <3>2, <1>2
      <3>4. QED
        BY <3>1, <3>2, <3>3, <2>1, <2>2, <1>9 DEF NothingTwice
    <2>5. BehindCursor'
      <3> SUFFICES ASSUME NEW n \in stable, n <= Max(listed)
                   PROVE  n \in seen \cup listed \cup skipped'
        BY <1>9, <2>1 DEF BehindCursor
      <3>1. CASE n \in S
        BY <3>1, <1>5, <2>2
      <3>2. CASE n \notin S
        BY <3>2, <1>2, <1>7, <1>8 DEF IInv, BehindCursor
      <3>3. QED
        BY <3>1, <3>2
    <2>6. NewHandle' /\ AtEnd'
      BY <1>2, <1>4, <1>5, <2>1, <2>2 DEF NewHandle, AtEnd, Names
    <2>7. QED
      BY <2>3, <2>4, <2>5, <2>6 DEF IInv
  <1>12. QED
    BY <1>10, <1>11

\* A seek or a rewind: what is expected from now on lies ahead of the new cursor.
LEMMA MoveKept ==
  ASSUME TypeOK, batch = {}, NEW c \in {NoName} \cup Names, MoveTo(c)
  PROVE  IInv'
  <1>1. /\ UNCHANGED <<entry, eof, told, batch, Live>>
        /\ cursor' = c /\ seen' = {} /\ stable' = Live /\ ended' = FALSE
        /\ skipped' = IF eof THEN Names ELSE {n \in Names : n <= c}
        /\ Live \subseteq Names
    BY DEF MoveTo, Live
  <1>2. TypeOK'
    BY <1>1 DEF TypeOK
  <1>3. NothingTwice' /\ NewHandle' /\ BehindCursor' /\ AtEnd'
    BY <1>1 DEF NothingTwice, NewHandle, BehindCursor, AtEnd
  <1>4. QED
    BY <1>2, <1>3 DEF IInv

LEMMA NextKept ==
  ASSUME IInv, [Next]_vars
  PROVE  IInv'
  <1>1. /\ TypeOK /\ NothingTwice /\ NewHandle /\ BehindCursor /\ AtEnd
        /\ Names \subseteq Int /\ NoName = 0
    BY CursorAssumption DEF IInv, Names, NoName
  <1>2. ASSUME NEW n \in Names, Create(n) \/ Remove(n) \/ TagGarbage(n)
        PROVE  IInv'
    <2>1. UNCHANGED <<handleVars, seen, skipped, ended>> /\ stable' \subseteq stable
      BY <1>2 DEF Create, Remove, TagGarbage, ghostVars
    <2>2. entry' \in [Names -> {"none", "live", "garbage"}] /\ Dots \subseteq Live'
      BY <1>1, <1>2 DEF TypeOK, Create, Remove, TagGarbage, Live, Present
    <2>3. stable' \subseteq Live'
      BY <1>1, <1>2 DEF TypeOK, Create, Remove, TagGarbage, Live, Present, ghostVars
    <2>4. TypeOK'
      BY <1>1, <2>1, <2>2, <2>3 DEF TypeOK, handleVars
    <2>5. QED
      BY <1>1, <2>1, <2>4 DEF IInv, NothingTwice, NewHandle, BehindCursor, AtEnd, handleVars
  <1>3. CASE ReadSome
    BY <1>3, ReadKept DEF ReadSome
  <1>4. CASE Deliver \/ Fail
    <2>1. /\ UNCHANGED <<entry, cursor, eof, told, stable, ended, Live>>
          /\ batch # {} /\ batch' = {}
          /\ \/ seen' = seen \cup batch /\ skipped' = skipped
             \/ seen' = seen /\ skipped' = skipped \cup batch
      BY <1>4 DEF Deliver, Fail, Live
    <2>2. TypeOK'
      BY <1>1, <2>1 DEF TypeOK
    <2>3. QED
      BY <1>1, <2>1, <2>2 DEF IInv, NothingTwice, NewHandle, BehindCursor, AtEnd
  <1>5. CASE Telldir
    BY <1>1, <1>5 DEF IInv, TypeOK, NothingTwice, NewHandle, BehindCursor, AtEnd,
       Telldir, ghostVars, Live
  <1>6. CASE Seekdir
    BY <1>1, <1>6, StartAhead, MoveKept DEF Seekdir
  <1>7. CASE Rewinddir
    <2>1. Min(Present) \in Names
      BY <1>1, StartAhead, MinOfNames
    <2>2. QED
      BY <1>1, <1>7, <2>1, MoveKept DEF Rewinddir
  <1>8. CASE ReadFail
    <2>1. /\ UNCHANGED <<entry, eof, told, batch, seen, stable, Live>>
          /\ batch = {} /\ ~eof /\ ended' = FALSE
      BY <1>8 DEF ReadFail, Live
    <2>2. CASE cursor = NoName
      <3>1. cursor' = Min(Present) /\ skipped' = skipped \cup {Min(Present)}
        BY <1>8, <2>2 DEF ReadFail
      <3>2. /\ Min(Present) \in Names /\ stable \subseteq Present /\ Present \subseteq Names
            /\ \A n \in Present : Min(Present) <= n
        BY <1>1, StartAhead, MinOfNames DEF TypeOK
      <3>3. TypeOK'
        BY <1>1, <2>1, <3>1, <3>2 DEF TypeOK
      <3>4. seen = {}
        BY <1>1, <2>2 DEF NewHandle
      <3>5. NothingTwice' /\ NewHandle' /\ AtEnd'
        BY <2>1, <3>4 DEF NothingTwice, NewHandle, AtEnd
      <3>6. BehindCursor'
        <4>1. ASSUME NEW n \in stable, n <= Min(Present)
              PROVE  n = Min(Present)
          <5>1. n \in Int /\ Min(Present) \in Int /\ Min(Present) <= n
            BY <1>1, <3>2
          <5>2. QED
            BY <4>1, <5>1
        <4>2. QED
          BY <2>1, <3>1, <4>1 DEF BehindCursor
      <3>7. QED
        BY <3>3, <3>5, <3>6 DEF IInv
    <2>3. CASE cursor # NoName
      <3>1. UNCHANGED <<cursor, skipped>>
        BY <1>8, <2>3 DEF ReadFail
      <3>2. QED
        BY <1>1, <2>1, <3>1 DEF IInv, TypeOK, NothingTwice, NewHandle, BehindCursor, AtEnd
    <2>4. QED
      BY <2>2, <2>3
  <1>9. CASE UNCHANGED vars
    BY <1>1, <1>9 DEF vars, handleVars, ghostVars, IInv, TypeOK, NothingTwice,
       NewHandle, BehindCursor, AtEnd, Live
  <1>10. QED
    BY <1>2, <1>3, <1>4, <1>5, <1>6, <1>7, <1>8, <1>9 DEF Next

(***************************************************************************)
(* The theorems.                                                           *)
(***************************************************************************)

\* IInv, the inductive invariant of a handle and its directory, always holds.
THEOREM Invariance == Spec => []IInv
  <1>1. Init => IInv
    BY InitOK
  <1>2. IInv /\ [Next]_vars => IInv'
    BY NextKept
  <1>3. QED
    BY <1>1, <1>2, PTL DEF Spec

\* Every variable keeps its type; in particular the cursor is always a name that
\* fskit_readdir_find_start can search for.
THEOREM TypeCorrect == Spec => []TypeOK
  BY Invariance, PTL DEF IInv

\* Whatever happens to the directory between and during reads, a handle returns
\* names in ascending order, and none twice before a rewind or a seek.
THEOREM ReadsAscend == Spec => []NothingTwice
  BY Invariance, PTL DEF IInv

\* A reader that has reached the end has been given every entry that was there
\* all the time, except for those that the handle was moved past, by the first
\* read of the handle if that ran out of memory, too.
THEOREM ReadsComplete == Spec => []NothingMissed
  <1>1. IInv => NothingMissed
    BY DEF IInv, AtEnd, NothingMissed
  <1>2. QED
    BY <1>1, Invariance, PTL
===============================================================================
