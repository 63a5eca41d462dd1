----------------------------- MODULE Routes_proofs -----------------------------
(***************************************************************************)
(* Proofs about Routes, for any number of threads, paths, entries and      *)
(* routes, any mix of types and calls nested to any depth.  Whatever       *)
(* callbacks do, a call runs the first route that matches.  As long as     *)
(* they keep to the rule (rule), callbacks that exclude each other do   *)
(* not overlap and nobody waits in a circle.                               *)
(***************************************************************************)
EXTENDS Routes, FiniteSetTheorems, SequenceTheorems, WellFoundedInduction, TLAPS

(***************************************************************************)
(* The operators of the model.                                             *)
(***************************************************************************)

\* Every set of slots has a first one.
LEMMA FirstSlot ==
  ASSUME NEW n \in Nat, NEW S \in SUBSET (1 .. n), S # {}
  PROVE  \E s \in S : \A o \in S : s <= o
  <1> DEFINE Lower(s) == {o \in S : o < s}
             T == {Lower(s) : s \in S}
             R == StrictSubsetOrdering(S)
  <1>0. IsFiniteSet(S)
    <2>1. IsFiniteSet(1 .. n)
      BY FS_Interval
    <2>2. QED
      BY <2>1, FS_Subset
  <1>1. S \subseteq Int /\ IsWellFoundedOn(R, SUBSET S)
    BY <1>0, FS_StrictSubsetOrderingWellFounded, FS_FiniteSubsetsOfFinite
  <1>2. T \subseteq SUBSET S /\ T # {}
    OBVIOUS
  <1> HIDE DEF R
  <1>3. \E X \in T : \A Y \in T : <<Y, X>> \notin R
    BY <1>1, <1>2, WFMin
  <1>4. PICK s \in S : \A o \in S : <<Lower(o), Lower(s)>> \notin R
    BY <1>3
  <1>5. ASSUME NEW o \in S
        PROVE  s <= o
    <2> SUFFICES ASSUME o < s PROVE FALSE
      BY <1>1
    <2>1. \A k \in S : k < o => k < s
      BY <1>1
    <2>2. Lower(o) \subseteq Lower(s)
      BY <2>1
    <2>3. o \in Lower(s) /\ o \notin Lower(o)
      BY <1>1
    <2>4. <<Lower(o), Lower(s)>> \in R
      BY <2>2, <2>3 DEF R, StrictSubsetOrdering
    <2>5. QED
      BY <2>4, <1>4
  <1>6. QED
    BY <1>5

Slots == Seq(Route \cup {None})

LEMMA RowFacts ==
  ASSUME TypeOK, NEW y \in DOMAIN table
  PROVE  /\ table[y] \in Slots /\ Len(table[y]) \in Nat /\ Len(table[y]) <= MaxRoutes
         /\ DOMAIN table[y] = 1 .. Len(table[y]) /\ MaxRoutes \in Nat
         /\ \A s \in DOMAIN table[y] : table[y][s] # None => table[y][s] \in Route
  <1>1. table[y] \in Slots /\ Len(table[y]) <= MaxRoutes
    BY DEF TypeOK, Slots
  <1>2. QED
    BY <1>1, RoutesAssumption DEF Slots

\* Slot s of the row of c's type holds the first route that matches.
First(c, s) ==
  LET row == table[c.type] IN
  /\ s \in DOMAIN row /\ row[s] # None
  /\ c.path \in row[s].match
  /\ \A o \in 1 .. s - 1 : row[o] # None /\ c.path \notin row[o].match

LEMMA MatchIsFirst ==
  ASSUME TypeOK, NEW c, c.type \in DOMAIN table, Matches(c)
  PROVE  Match(c) \in 1 .. MaxRoutes /\ First(c, Match(c))
  <1> DEFINE row == table[c.type]
  <1>1. /\ Len(row) \in Nat /\ DOMAIN row = 1 .. Len(row) /\ Len(row) <= MaxRoutes
        /\ MaxRoutes \in Nat
    BY RowFacts
  <1>2. Matching(c) \in SUBSET (1 .. Len(row)) /\ Matching(c) # {}
    BY <1>1 DEF Matching, Holes, Matches
  <1>3. Match(c) \in Matching(c) /\ \A o \in Matching(c) : Match(c) <= o
    BY <1>1, <1>2, FirstSlot DEF Match
  <1>4. /\ Match(c) \in 1 .. MaxRoutes /\ Match(c) \in DOMAIN row
        /\ row[Match(c)] # None /\ c.path \in row[Match(c)].match
    BY <1>1, <1>3 DEF Matching, Holes
  <1>5. ASSUME NEW o \in 1 .. Match(c) - 1
        PROVE  row[o] # None /\ c.path \notin row[o].match
    <2>1. o \in DOMAIN row /\ o < Match(c) /\ ~(Match(c) <= o)
      BY <1>1, <1>4
    <2>2. o \notin Matching(c)
      BY <1>3, <2>1
    <2>3. \A s \in Matching(c) : o < s
      BY <1>1, <1>2, <1>3, <1>4, <2>1
    <2>4. o \notin Holes(c.type)
      BY <2>3 DEF Matches, MeetsHole
    <2>5. QED
      BY <2>1, <2>2, <2>4 DEF Holes, Matching
  <1>6. QED
    BY <1>4, <1>5 DEF First

\* A route that is declared goes into the row; the row stays one.
LEMMA InsertedRow ==
  ASSUME TypeOK, NEW y \in DOMAIN table, NEW r \in Route
  PROVE  /\ Inserted(y, r) \in Slots
         /\ \A s \in DOMAIN Inserted(y, r) :
              \/ Inserted(y, r)[s] = r
              \/ s \in DOMAIN table[y] /\ Inserted(y, r)[s] = table[y][s]
  <1> DEFINE row == table[y]
  <1>1. row \in Slots /\ Len(row) \in Nat /\ DOMAIN row = 1 .. Len(row)
    BY RowFacts
  <1>2. CASE Holes(y) = {}
    <2>1. /\ Append(row, r) \in Slots
          /\ Len(Append(row, r)) = Len(row) + 1
          /\ \A i \in 1 .. Len(row) : Append(row, r)[i] = row[i]
          /\ Append(row, r)[Len(row) + 1] = r
      BY <1>1, AppendProperties DEF Slots
    <2>2. DOMAIN Append(row, r) = 1 .. Len(row) + 1
      BY <2>1 DEF Slots
    <2>3. QED
      BY <1>1, <1>2, <2>1, <2>2 DEF Inserted
  <1>3. CASE Holes(y) # {}
    <2> DEFINE i == CHOOSE s \in Holes(y) : \A h \in Holes(y) : s <= h
    <2>1. i \in Holes(y)
      BY <1>1, <1>3, FirstSlot DEF Holes
    <2>2. i \in 1 .. Len(row)
      BY <1>1, <2>1 DEF Holes
    <2> HIDE DEF i
    <2>3. /\ [row EXCEPT ![i] = r] \in Slots
          /\ DOMAIN [row EXCEPT ![i] = r] = DOMAIN row
          /\ \A j \in DOMAIN row : [row EXCEPT ![i] = r][j] = IF j = i THEN r ELSE row[j]
      BY <1>1, <2>2, ExceptSeq DEF Slots
    <2>4. Inserted(y, r) = [row EXCEPT ![i] = r]
      BY <1>3 DEF Inserted, i
    <2>5. QED
      BY <2>3, <2>4
  <1>4. QED
    BY <1>2, <1>3

\* What remains of the row when a route goes.
LEMMA RemovedRow ==
  ASSUME TypeOK, NEW y \in DOMAIN table, NEW s \in DOMAIN table[y]
  PROVE  /\ Removed(y, s) \in Slots /\ Len(Removed(y, s)) <= MaxRoutes
         /\ \A i \in DOMAIN Removed(y, s) :
              \/ Removed(y, s)[i] = None
              \/ i \in DOMAIN table[y] /\ Removed(y, s)[i] = table[y][i]
  <1> DEFINE row == table[y]
  <1>1. row \in Slots /\ Len(row) \in Nat /\ DOMAIN row = 1 .. Len(row) /\ Len(row) <= MaxRoutes
    BY RowFacts
  <1>2. /\ [row EXCEPT ![s] = None] \in Slots
        /\ Len([row EXCEPT ![s] = None]) = Len(row)
        /\ DOMAIN [row EXCEPT ![s] = None] = DOMAIN row
        /\ \A j \in DOMAIN row : [row EXCEPT ![s] = None][j] = IF j = s THEN None ELSE row[j]
    BY <1>1, ExceptSeq DEF Slots
  <1>3. <<>> \in Slots /\ Len(<<>>) = 0 /\ DOMAIN <<>> = {} /\ MaxRoutes \in Nat
    BY RoutesAssumption DEF Slots
  <1>4. QED
    BY <1>1, <1>2, <1>3 DEF Removed

(***************************************************************************)
(* Locks.                                                                  *)
(***************************************************************************)

\* The lock of the caller.
LEMMA CallerLockShape ==
  ASSUME NEW c \in Frame
  PROVE  /\ CallerLock(c) # None => /\ CallerLock(c) \in LockSet
                                    /\ CallerLock(c).kind = "entry"
                                    /\ CallerLock(c).of = c.ent
                                    /\ c.ent \in Entries
                                    /\ c.type # "sync"
                                    /\ CallerLock(c).mode = IF c.type = "getxattr" THEN "read"
                                                            ELSE "write"
         /\ c.type # "sync" /\ c.ent # None => CallerLock(c) # None
  <1>1. CASE c.type = "sync" \/ c.ent = None
    BY <1>1 DEF CallerLock
  <1>2. CASE c.type # "sync" /\ c.ent # None
    <2>1. c.ent \in Entries /\ c.ent \in Nat
      BY <1>2, RoutesAssumption DEF Frame, Entries
    <2> DEFINE m == IF c.type = "getxattr" THEN "read" ELSE "write"
    <2>2. CallerLock(c) = Lock("entry", c.ent, m)
      BY <1>2 DEF CallerLock
    <2>3. Lock("entry", c.ent, m) \in LockSet
      BY <2>1 DEF Lock, LockSet
    <2>4. None \notin LockSet
      BY RoutesAssumption DEF LockSet
    <2>5. QED
      BY <1>2, <2>1, <2>2, <2>3, <2>4 DEF Lock
  <1>3. QED
    BY <1>1, <1>2

\* The lock of the discipline.
LEMMA WantedShape ==
  ASSUME NEW c \in Frame, NEW d, d = Discipline(c), d \in Disciplines,
         c.slot \in Nat
  PROVE  /\ Wanted(c) # None => /\ Wanted(c) \in LockSet
                                /\ c.type # "setmetadata"
         /\ c.type # "setmetadata" /\ d = "sequential" =>
              Wanted(c) = Lock(c.type, c.slot, "write") /\ Wanted(c) # None
         /\ c.type # "setmetadata" /\ d = "concurrent" =>
              Wanted(c) = Lock(c.type, c.slot, "read") /\ Wanted(c) # None
         /\ c.type # "setmetadata" /\ d = "inode_sequential" /\ c.ent # None =>
              Wanted(c) = Lock("entry", c.ent, "write") /\ Wanted(c) # None
         /\ c.type # "setmetadata" /\ d = "inode_concurrent" /\ c.ent # None =>
              Wanted(c) = Lock("entry", c.ent, "read") /\ Wanted(c) # None
         /\ d \in {"inode_sequential", "inode_concurrent"} /\ c.ent = None =>
              Wanted(c) = None
  <1>1. c.type \in AllTypes /\ (c.ent # None => c.ent \in Nat)
    BY RoutesAssumption DEF Frame, Entries
  <1>2. None \notin LockSet
    BY RoutesAssumption DEF LockSet
  <1>3. \A m \in {"read", "write"} :
          /\ Lock(c.type, c.slot, m) \in LockSet
          /\ c.ent # None => Lock("entry", c.ent, m) \in LockSet
    BY <1>1 DEF Lock, LockSet
  <1>4. CASE c.type = "setmetadata"
    BY <1>4 DEF Wanted
  <1>5. CASE c.type # "setmetadata" /\ d = "sequential"
    BY <1>2, <1>3, <1>5 DEF Wanted
  <1>6. CASE c.type # "setmetadata" /\ d = "concurrent"
    BY <1>2, <1>3, <1>6 DEF Wanted
  <1>7. CASE c.type # "setmetadata" /\ d = "inode_sequential"
    BY <1>2, <1>3, <1>7 DEF Wanted
  <1>8. CASE c.type # "setmetadata" /\ d = "inode_concurrent"
    BY <1>2, <1>3, <1>8 DEF Wanted
  <1>9. QED
    BY <1>4, <1>5, <1>6, <1>7, <1>8 DEF Disciplines

\* What a thread holds is what its calls hold.
LEMMA HeldFacts ==
  ASSUME NEW t
  PROVE  \A l : l \in Held(t) <=> \E k \in DOMAIN stack[t] : l \in stack[t][k].locks
  BY DEF Held, CallsOf

(***************************************************************************)
(* The calls in progress.                                                  *)
(***************************************************************************)

LEMMA StackFacts ==
  ASSUME TypeOK, NEW t \in Threads
  PROVE  /\ stack[t] \in Seq(Frame) /\ Len(stack[t]) \in Nat /\ Len(stack[t]) <= MaxDepth
         /\ DOMAIN stack[t] = 1 .. Len(stack[t])
         /\ \A k \in DOMAIN stack[t] : stack[t][k] \in Frame
         /\ stack[t] # <<>> <=> Len(stack[t]) > 0
         /\ stack[t] # <<>> => /\ Top(t) \in Frame /\ Len(stack[t]) \in DOMAIN stack[t]
                               /\ Top(t) = stack[t][Len(stack[t])]
  <1>1. stack[t] \in Seq(Frame) /\ Len(stack[t]) <= MaxDepth
    BY DEF TypeOK
  <1>2. /\ Len(stack[t]) \in Nat
        /\ DOMAIN stack[t] = 1 .. Len(stack[t])
        /\ \A k \in DOMAIN stack[t] : stack[t][k] \in Frame
    BY <1>1
  <1>3. stack[t] # <<>> <=> Len(stack[t]) > 0
    BY <1>1, EmptySeq
  <1>4. QED
    BY <1>1, <1>2, <1>3 DEF Top

\* Sequence s of calls is t's without the innermost one; the calls may have lost locks.
Inside(s, t) ==
  /\ s \in Seq(Frame) /\ Len(s) = Len(stack[t]) - 1
  /\ DOMAIN s = 1 .. Len(stack[t]) - 1
  /\ \A k \in DOMAIN s :
       /\ k \in DOMAIN stack[t]
       /\ s[k].type = stack[t][k].type /\ s[k].path = stack[t][k].path
       /\ s[k].ent = stack[t][k].ent /\ s[k].slot = stack[t][k].slot
       /\ s[k].at = stack[t][k].at /\ s[k].locks \subseteq stack[t][k].locks

LEMMA OuterFacts ==
  ASSUME TypeOK, NEW t \in Threads, stack[t] # <<>>
  PROVE  /\ Inside(Outer(t), t)
         /\ \A k \in DOMAIN Outer(t) : Outer(t)[k] = stack[t][k]
  <1>1. /\ stack[t] \in Seq(Frame) /\ Len(stack[t]) \in Nat /\ Len(stack[t]) > 0
        /\ DOMAIN stack[t] = 1 .. Len(stack[t])
        /\ \A k \in 1 .. Len(stack[t]) - 1 : stack[t][k] \in Frame
    BY StackFacts
  <1>2. /\ Outer(t) \in Seq(Frame)
        /\ Len(Outer(t)) = IF 1 <= Len(stack[t]) - 1 THEN Len(stack[t]) - 1 - 1 + 1 ELSE 0
        /\ \A k \in 1 .. Len(stack[t]) - 1 - 1 + 1 : Outer(t)[k] = stack[t][1 + k - 1]
    BY <1>1, SubSeqProperties, 1 \in Int DEF Outer
  <1>3. Len(Outer(t)) = Len(stack[t]) - 1
    BY <1>1, <1>2
  <1>4. DOMAIN Outer(t) = 1 .. Len(stack[t]) - 1
    BY <1>2, <1>3, LenProperties
  <1>5. \A k \in DOMAIN Outer(t) : k \in DOMAIN stack[t] /\ Outer(t)[k] = stack[t][k]
    BY <1>1, <1>2, <1>4
  <1>6. QED
    BY <1>2, <1>3, <1>4, <1>5 DEF Inside

\* An unlock takes locks away from calls, nothing else.
LEMMA StrippedFacts ==
  ASSUME NEW s \in Seq(Frame), NEW e
  PROVE  /\ Stripped(s, e) \in Seq(Frame)
         /\ Len(Stripped(s, e)) = Len(s) /\ DOMAIN Stripped(s, e) = DOMAIN s
         /\ \A k \in DOMAIN s :
              /\ Stripped(s, e)[k] = [s[k] EXCEPT !.locks = Stripped(s, e)[k].locks]
              /\ Stripped(s, e)[k].locks \subseteq s[k].locks
              /\ \A l \in s[k].locks :
                   l.kind # "entry" => l \in Stripped(s, e)[k].locks
  <1>1. DOMAIN Stripped(s, e) = DOMAIN s /\ DOMAIN s = 1 .. Len(s) /\ Len(s) \in Nat
    BY LenProperties DEF Stripped
  <1>2. ASSUME NEW k \in DOMAIN s
        PROVE  /\ s[k] \in Frame
               /\ Stripped(s, e)[k] \in Frame
               /\ Stripped(s, e)[k] = [s[k] EXCEPT !.locks = Stripped(s, e)[k].locks]
               /\ Stripped(s, e)[k].locks \subseteq s[k].locks
               /\ \A l \in s[k].locks : l.kind # "entry" => l \in Stripped(s, e)[k].locks
    <2> DEFINE rest == {l \in s[k].locks : ~Same(l, Lock("entry", e, "write")) \/ l.mode = "read"}
    <2>1. s[k] \in Frame
      BY <1>1
    <2>2. Stripped(s, e)[k] = [s[k] EXCEPT !.locks = rest]
      BY DEF Stripped
    <2>3. rest \subseteq s[k].locks
      OBVIOUS
    <2>4. \A l \in s[k].locks : l.kind # "entry" => l \in rest
      BY DEF Same, Lock
    <2> HIDE DEF rest
    <2>5. Stripped(s, e)[k].locks = rest /\ Stripped(s, e)[k] \in Frame
      BY <2>1, <2>2, <2>3 DEF Frame
    <2>6. QED
      BY <2>1, <2>2, <2>3, <2>4, <2>5
  <1>3. Stripped(s, e) \in [1 .. Len(s) -> Frame]
    BY <1>1, <1>2 DEF Stripped
  <1>4. Stripped(s, e) \in Seq(Frame) /\ Len(Stripped(s, e)) = Len(s)
    BY <1>1, <1>3, SeqDef, LenProperties
  <1>5. QED
    BY <1>1, <1>2, <1>4

LEMMA UnlockedFacts ==
  ASSUME TypeOK, NEW t \in Threads, stack[t] # <<>>
  PROVE  Inside(Unlocked(t), t)
  <1>1. Inside(Outer(t), t)
    BY OuterFacts
  <1>2. CASE CallerLock(Top(t)) = None
    BY <1>1, <1>2 DEF Unlocked
  <1>3. CASE CallerLock(Top(t)) # None
    <2> DEFINE o == Outer(t)
               s == Stripped(o, Top(t).ent)
    <2>1. Unlocked(t) = s
      BY <1>3 DEF Unlocked
    <2>2. /\ s \in Seq(Frame) /\ Len(s) = Len(o) /\ DOMAIN s = DOMAIN o
          /\ \A k \in DOMAIN o : /\ s[k] = [o[k] EXCEPT !.locks = s[k].locks]
                                 /\ s[k].locks \subseteq o[k].locks
                                 /\ o[k] \in Frame
      <3>1. o \in Seq(Frame)
        BY <1>1 DEF Inside
      <3>2. QED
        BY <3>1, StrippedFacts
    <2> HIDE DEF s, o
    <2>3. \A k \in DOMAIN o : /\ s[k].type = o[k].type /\ s[k].path = o[k].path
                              /\ s[k].ent = o[k].ent /\ s[k].slot = o[k].slot
                              /\ s[k].at = o[k].at
      BY <2>2 DEF Frame
    <2>4. Inside(s, t)
      BY <1>1, <2>2, <2>3 DEF Inside, o
    <2>5. QED
      BY <2>1, <2>4
  <1>4. QED
    BY <1>2, <1>3

LEMMA AppendFacts ==
  ASSUME NEW s \in Seq(Frame), NEW c \in Frame
  PROVE  /\ Append(s, c) \in Seq(Frame) /\ Len(Append(s, c)) = Len(s) + 1
         /\ Len(s) \in Nat
         /\ DOMAIN Append(s, c) = 1 .. Len(s) + 1 /\ DOMAIN s = 1 .. Len(s)
         /\ \A k \in DOMAIN s : Append(s, c)[k] = s[k]
         /\ Append(s, c)[Len(s) + 1] = c
  <1>1. /\ Append(s, c) \in Seq(Frame) /\ Len(Append(s, c)) = Len(s) + 1
        /\ \A k \in 1 .. Len(s) : Append(s, c)[k] = s[k]
        /\ Append(s, c)[Len(s) + 1] = c
    BY AppendProperties
  <1>2. DOMAIN Append(s, c) = 1 .. Len(s) + 1 /\ DOMAIN s = 1 .. Len(s) /\ Len(s) \in Nat
    BY <1>1, LenProperties
  <1>3. QED
    BY <1>1, <1>2

(***************************************************************************)
(* What holds whatever callbacks do.                                       *)
(***************************************************************************)

\* Disciplines of the routes of type y.
Allowed(y) == {d \in Accepted(y) : rule = "kept" => ~WaitsForItself(y, d)}

RowsAllowed ==
  \A y \in DOMAIN table : \A s \in DOMAIN table[y] :
    table[y][s] # None => table[y][s].disc \in Allowed(y)

\* Call c by itself: its row is there, only a stat has no entry, and a call that
\* is matched has the first route.
CallOK(c) ==
  /\ c.type \in DOMAIN table
  /\ c.type # "stat" => c.ent \in Entries
  /\ c.at \in {"enter", "run"} => First(c, c.slot)

CallsOK == \A t \in Threads : \A k \in DOMAIN stack[t] : CallOK(stack[t][k])

TableInv == TypeOK /\ RowsAllowed /\ CallsOK

\* The discipline of a matched call is one that may be declared.
LEMMA DisciplineFacts ==
  ASSUME TypeOK, RowsAllowed, NEW c \in Frame, c.type \in DOMAIN table, NEW s, First(c, s)
  PROVE  /\ s \in Nat
         /\ table[c.type][s].disc \in Disciplines
         /\ table[c.type][s].disc \in Allowed(c.type)
  <1>1. s \in DOMAIN table[c.type] /\ table[c.type][s] # None
    BY DEF First
  <1>2. s \in Nat /\ table[c.type][s] \in Route
    BY <1>1, RowFacts
  <1>3. QED
    BY <1>1, <1>2 DEF Route, RowsAllowed

\* Thread t's calls become s; each is a good call by itself.
LEMMA CallsChange ==
  ASSUME TableInv, NEW t \in Threads, NEW s \in Seq(Frame), Len(s) <= MaxDepth,
         Becomes(t, s), UNCHANGED table, rule' \in {rule, "broken"},
         \A k \in DOMAIN s : CallOK(s[k])
  PROVE  TableInv'
  <1>1. /\ stack' \in [Threads -> Seq(Frame)] /\ stack'[t] = s
        /\ \A u \in Threads : u # t => stack'[u] = stack[u]
    BY DEF Becomes, TableInv, TypeOK
  <1>2. TypeOK' /\ RowsAllowed'
    BY <1>1 DEF TableInv, TypeOK, RowsAllowed, Allowed
  <1>3. \A c : CallOK(c)' <=> CallOK(c)
    BY DEF CallOK, First
  <1>4. CallsOK'
    BY <1>1, <1>3 DEF TableInv, CallsOK
  <1>5. QED
    BY <1>2, <1>4 DEF TableInv

\* The innermost call ends.
LEMMA PopTable ==
  ASSUME TableInv, NEW t \in Threads, stack[t] # <<>>, NEW s, Inside(s, t),
         Becomes(t, s), UNCHANGED <<table, rule>>
  PROVE  TableInv'
  <1>1. /\ Len(stack[t]) \in Nat /\ Len(stack[t]) <= MaxDepth /\ MaxDepth \in Nat
        /\ s \in Seq(Frame) /\ Len(s) = Len(stack[t]) - 1
    BY StackFacts, RoutesAssumption DEF TableInv, Inside
  <1>2. \A k \in DOMAIN s : CallOK(s[k])
    BY DEF Inside, TableInv, CallsOK, CallOK, First
  <1>3. Len(s) <= MaxDepth
    BY <1>1
  <1>4. table' = table /\ rule' = rule
    OBVIOUS
  <1>5. QED
    BY <1>1, <1>2, <1>3, <1>4, CallsChange

\* The innermost call goes on.
LEMMA GoOnTable ==
  ASSUME TableInv, NEW t \in Threads, stack[t] # <<>>, NEW s, Inside(s, t),
         NEW c \in Frame, CallOK(c), Becomes(t, Append(s, c)), UNCHANGED <<table, rule>>
  PROVE  TableInv'
  <1>1. /\ Len(stack[t]) \in Nat /\ Len(stack[t]) <= MaxDepth
        /\ s \in Seq(Frame) /\ Len(s) = Len(stack[t]) - 1
    BY StackFacts DEF TableInv, Inside
  <1>2. \A k \in DOMAIN s : CallOK(s[k])
    BY DEF Inside, TableInv, CallsOK, CallOK, First
  <1>3. /\ Append(s, c) \in Seq(Frame) /\ Len(Append(s, c)) <= MaxDepth
        /\ \A k \in DOMAIN Append(s, c) : CallOK(Append(s, c)[k])
    BY <1>1, <1>2, AppendFacts
  <1>4. table' = table /\ rule' = rule
    OBVIOUS
  <1>5. QED
    BY <1>3, <1>4, CallsChange

\* A call ends, or a stat goes on to unreference its entry.
LEMMA EndsTable ==
  ASSUME TableInv, NEW t \in Threads, stack[t] # <<>>, Ends(t), UNCHANGED <<table, rule>>
  PROVE  TableInv'
  <1> DEFINE c == [Top(t) EXCEPT !.slot = 0, !.at = "unref", !.locks = {}]
  <1>1. Inside(Outer(t), t) /\ Inside(Unlocked(t), t)
    BY OuterFacts, UnlockedFacts DEF TableInv
  <1>2. CASE Top(t).type = "stat" /\ Top(t).ent # None
    <2>1. Top(t) \in Frame /\ CallOK(Top(t))
      BY StackFacts DEF TableInv, CallsOK
    <2>2. c \in Frame /\ c.type = Top(t).type /\ c.ent = Top(t).ent /\ c.at = "unref"
      <3>1. 0 \in 0 .. MaxRoutes
        BY RoutesAssumption
      <3> DEFINE b == Top(t)
      <3>2. b \in Frame
        BY <2>1
      <3> HIDE DEF b
      <3>3. LET d == [b EXCEPT !.slot = 0, !.at = "unref", !.locks = {}] IN
            d \in Frame /\ d.type = b.type /\ d.ent = b.ent /\ d.at = "unref"
        BY <3>1, <3>2 DEF Frame, Stages
      <3>4. QED
        BY <3>3 DEF b
    <2>3. CallOK(c)
      BY <2>1, <2>2 DEF CallOK
    <2>4. Becomes(t, Append(Outer(t), c))
      BY <1>2 DEF Ends
    <2>5. QED
      BY <1>1, <2>2, <2>3, <2>4, GoOnTable
  <1>3. CASE ~(Top(t).type = "stat" /\ Top(t).ent # None)
    <2>1. Becomes(t, Unlocked(t))
      BY <1>3 DEF Ends
    <2>2. QED
      BY <1>1, <2>1, PopTable
  <1>4. QED
    BY <1>2, <1>3

\* The table changes only while no call is matched.
LEMMA TableChange ==
  ASSUME TableInv, NEW t \in Threads, Declare(t) \/ Undeclare(t) \/ UndeclareAll(t)
  PROVE  /\ TableInv' /\ stack' = stack /\ rule' \in {rule, "broken"}
         /\ \A u \in Threads : \A k \in DOMAIN stack[u] : stack[u][k].at \notin {"enter", "run"}
  <1>1. /\ stack' = stack /\ rule' \in {rule, "broken"}
        /\ \A u \in Threads : \A k \in DOMAIN stack[u] : stack[u][k].at \notin {"enter", "run"}
    BY DEF TableInv, TypeOK, Declare, Undeclare, UndeclareAll, TableLocked, CallsOf
  <1>2. /\ DOMAIN table' = DOMAIN table
        /\ \A y \in DOMAIN table :
             /\ table'[y] \in Slots /\ Len(table'[y]) <= MaxRoutes
             /\ \A s \in DOMAIN table'[y] :
                  \/ table'[y][s] = None
                  \/ s \in DOMAIN table[y] /\ table'[y][s] = table[y][s]
                  \/ table'[y][s].disc \in Allowed(y)'
    <2>0. /\ TypeOK
          /\ \A y \in DOMAIN table : table[y] \in Slots /\ Len(table[y]) <= MaxRoutes
      BY RowFacts DEF TableInv
    <2>1. CASE Declare(t)
      <3>1. PICK y \in DOMAIN table, r \in Route :
              /\ r.disc \in Allowed(y)' /\ Len(Inserted(y, r)) <= MaxRoutes
              /\ table' = [table EXCEPT ![y] = Inserted(y, r)]
        BY <2>1 DEF Declare, Allowed, Accepted
      <3>2. /\ Inserted(y, r) \in Slots
            /\ \A s \in DOMAIN Inserted(y, r) :
                 \/ Inserted(y, r)[s] = r
                 \/ s \in DOMAIN table[y] /\ Inserted(y, r)[s] = table[y][s]
        BY <2>0, InsertedRow
      <3>3. /\ table'[y] = Inserted(y, r)
            /\ DOMAIN table' = DOMAIN table
            /\ \A x \in DOMAIN table : x # y => table'[x] = table[x]
        BY <3>1
      <3>4. QED
        BY <2>0, <3>1, <3>2, <3>3
    <2>2. CASE Undeclare(t)
      <3>0. PICK y \in DOMAIN table : \E s \in DOMAIN table[y] :
              table' = [table EXCEPT ![y] = Removed(y, s)]
        BY <2>2 DEF Undeclare
      <3>1. PICK s \in DOMAIN table[y] : table' = [table EXCEPT ![y] = Removed(y, s)]
        BY <3>0
      <3>2. /\ Removed(y, s) \in Slots /\ Len(Removed(y, s)) <= MaxRoutes
            /\ \A i \in DOMAIN Removed(y, s) :
                 \/ Removed(y, s)[i] = None
                 \/ i \in DOMAIN table[y] /\ Removed(y, s)[i] = table[y][i]
        BY <2>0, RemovedRow
      <3>3. /\ table'[y] = Removed(y, s)
            /\ DOMAIN table' = DOMAIN table
            /\ \A x \in DOMAIN table : x # y => table'[x] = table[x]
        BY <3>1
      <3>4. QED
        BY <2>0, <3>2, <3>3
    <2>3. CASE UndeclareAll(t)
      <3>1. /\ DOMAIN table' = DOMAIN table
            /\ \A y \in DOMAIN table : table'[y] = <<>>
        BY <2>3 DEF UndeclareAll, NoRoutes
      <3>2. <<>> \in Slots /\ Len(<<>>) = 0 /\ DOMAIN <<>> = {} /\ MaxRoutes \in Nat
        BY RoutesAssumption DEF Slots
      <3>3. QED
        BY <3>1, <3>2
    <2>4. QED
      BY <2>1, <2>2, <2>3
  <1>3. TypeOK'
    BY <1>1, <1>2 DEF TableInv, TypeOK, Slots
  <1>4. RowsAllowed'
    BY <1>1, <1>2 DEF TableInv, RowsAllowed, Allowed
  <1>5. CallsOK'
    BY <1>1, <1>2 DEF TableInv, CallsOK, CallOK
  <1>6. QED
    BY <1>1, <1>3, <1>4, <1>5 DEF TableInv

\* No call is in progress and no route is declared.
LEMMA AnewTable ==
  ASSUME DOMAIN table' \in Mixes, \A y \in DOMAIN table' : table'[y] = <<>>, stack' = Idle,
         rule' = "kept"
  PROVE  TableInv'
  <1>1. /\ <<>> \in Slots /\ Len(<<>>) = 0 /\ DOMAIN <<>> = {} /\ <<>> \in Seq(Frame)
        /\ MaxRoutes \in Nat /\ MaxDepth \in Nat /\ 0 <= MaxRoutes /\ 0 <= MaxDepth
    BY RoutesAssumption DEF Slots
  <1>2. \A t \in Threads : stack'[t] = <<>>
    BY DEF Idle
  <1>3. TypeOK'
    BY <1>1, <1>2 DEF TypeOK, Slots, Idle
  <1>4. RowsAllowed' /\ CallsOK'
    BY <1>1, <1>2 DEF RowsAllowed, CallsOK
  <1>5. QED
    BY <1>3, <1>4 DEF TableInv

LEMMA NullRouteTable ==
  ASSUME TypeOK, NEW t \in Threads, NullRoute(t)
  PROVE  TableInv'
  <1>1. /\ DOMAIN table' \in Mixes /\ (\A y \in DOMAIN table' : table'[y] = <<>>) /\ stack' = Idle
        /\ rule' = "kept"
    BY DEF NullRoute, NoRoutes, TypeOK
  <1>2. QED
    BY <1>1, AnewTable

\* A new call.
LEMMA CallTable ==
  ASSUME TableInv, NEW t \in Threads, NEW y \in DOMAIN table, NEW p \in Paths,
         NEW e \in Callees(y), stack[t] # <<>> => Len(stack[t]) < MaxDepth,
         stack' = [stack EXCEPT ![t] = Append(@, Begun(y, p, e))], UNCHANGED table,
         rule' \in {rule, "broken"}
  PROVE  TableInv' /\ Begun(y, p, e) \in Frame /\ Becomes(t, Append(stack[t], Begun(y, p, e)))
  <1> DEFINE c == Begun(y, p, e)
  <1>1. /\ stack[t] \in Seq(Frame) /\ Len(stack[t]) \in Nat
        /\ stack[t] # <<>> <=> Len(stack[t]) > 0
        /\ MaxDepth \in Nat \ {0} /\ MaxRoutes \in Nat
    BY StackFacts, RoutesAssumption DEF TableInv
  <1>2. y \in AllTypes
    BY RoutesAssumption DEF TableInv, TypeOK
  <1>3. e \in Entries \cup {None} /\ (y # "stat" => e \in Entries)
    BY DEF Callees
  <1>4. c \in Frame
    BY <1>1, <1>2, <1>3 DEF Begun, Frame, Stages
  <1>5. CallOK(c)
    BY <1>3 DEF CallOK, Begun
  <1>6. Becomes(t, Append(stack[t], c))
    BY DEF Becomes
  <1>7. \A k \in DOMAIN stack[t] : CallOK(stack[t][k])
    BY DEF TableInv, CallsOK
  <1> HIDE DEF c
  <1>8. /\ Append(stack[t], c) \in Seq(Frame) /\ Len(Append(stack[t], c)) <= MaxDepth
        /\ \A k \in DOMAIN Append(stack[t], c) : CallOK(Append(stack[t], c)[k])
    BY <1>1, <1>4, <1>5, <1>7, AppendFacts
  <1>9. TableInv'
    BY <1>6, <1>8, CallsChange
  <1>10. QED
    BY <1>4, <1>6, <1>9 DEF c

\* What the innermost call becomes when its route is matched.
LEMMA ResolvedCall ==
  ASSUME TableInv, NEW t \in Threads, Resolve(t)
  PROVE  LET c == [Matched(Top(t)) EXCEPT !.at = "enter"]
             l == CallerLock(Top(t))
             d == [c EXCEPT !.locks = IF Refused(t, l) THEN {} ELSE Taken(l)]
         IN  /\ c \in Frame /\ CallOK(c) /\ d \in Frame /\ CallOK(d)
             /\ c.locks = Top(t).locks
             /\ Wanted(c) = Wanted(Matched(Top(t))) /\ Wanted(d) = Wanted(c)
             /\ \A x \in {c, d} : /\ x.type = Top(t).type /\ x.path = Top(t).path
                                  /\ x.ent = Top(t).ent /\ x.at = "enter"
             /\ d.locks = IF Refused(t, l) THEN {} ELSE Taken(l)
  <1> DEFINE b == Top(t)
             m == Match(b)
             c == [Matched(b) EXCEPT !.at = "enter"]
             l == CallerLock(b)
             ls == IF Refused(t, l) THEN {} ELSE Taken(l)
             d == [c EXCEPT !.locks = ls]
  <1>1. b \in Frame /\ CallOK(b) /\ Matches(b) /\ TypeOK
    BY StackFacts DEF TableInv, CallsOK, Resolve, Locks
  <1>2. m \in 1 .. MaxRoutes /\ First(b, m) /\ MaxRoutes \in Nat
    BY <1>1, MatchIsFirst, RoutesAssumption DEF CallOK
  <1>3. ls \subseteq LockSet
    BY <1>1, CallerLockShape DEF Taken
  <1> HIDE DEF m, b, ls
  <1>4. /\ c \in Frame /\ c.type = b.type /\ c.path = b.path /\ c.ent = b.ent
        /\ c.slot = m /\ c.at = "enter" /\ c.locks = b.locks
        /\ Matched(b).type = b.type /\ Matched(b).slot = m /\ Matched(b).ent = b.ent
    <2>1. Matched(b) = [b EXCEPT !.slot = m]
      BY DEF Matched, m
    <2>2. m \in 0 .. MaxRoutes
      BY <1>2
    <2>3. /\ Matched(b) \in Frame /\ Matched(b).type = b.type /\ Matched(b).path = b.path
          /\ Matched(b).ent = b.ent /\ Matched(b).slot = m /\ Matched(b).locks = b.locks
      BY <1>1, <2>1, <2>2 DEF Frame
    <2>4. QED
      BY <2>3 DEF Frame, Stages
  <1> HIDE DEF c
  <1>5. /\ d \in Frame /\ d.type = b.type /\ d.path = b.path /\ d.ent = b.ent
        /\ d.slot = m /\ d.at = "enter" /\ d.locks = ls
    BY <1>3, <1>4 DEF Frame
  <1> HIDE DEF d
  <1>6. \A x \in {c, d} : CallOK(x)
    BY <1>1, <1>2, <1>4, <1>5 DEF CallOK, First
  <1>7. Wanted(c) = Wanted(Matched(b)) /\ Wanted(d) = Wanted(c)
    BY <1>4, <1>5 DEF Wanted, Discipline
  <1>8. QED
    BY <1>4, <1>5, <1>6, <1>7 DEF b, c, d, ls

LEMMA ResolveTable ==
  ASSUME TableInv, NEW t \in Threads, Resolve(t)
  PROVE  TableInv'
  <1> DEFINE c == [Matched(Top(t)) EXCEPT !.at = "enter"]
             l == CallerLock(Top(t))
             d == [c EXCEPT !.locks = IF Refused(t, l) THEN {} ELSE Taken(l)]
  <1>1. c \in Frame /\ CallOK(c) /\ d \in Frame /\ CallOK(d)
    BY ResolvedCall
  <1>2. /\ stack[t] # <<>> /\ Inside(Outer(t), t) /\ Inside(Unlocked(t), t)
        /\ UNCHANGED <<table, rule>>
    BY OuterFacts, UnlockedFacts DEF TableInv, Resolve, Locks
  <1>3. Becomes(t, Append(Unlocked(t), c)) \/ Becomes(t, Append(Outer(t), d))
    BY DEF Resolve
  <1> HIDE DEF c, d
  <1>4. QED
    BY <1>1, <1>2, <1>3, GoOnTable

\* What it becomes when its callback starts.
LEMMA EnteredCall ==
  ASSUME TableInv, NEW t \in Threads, Enter(t)
  PROVE  LET l == Wanted(Top(t))
             c == [Top(t) EXCEPT !.at = "run", !.locks = @ \cup Taken(l)]
         IN  /\ c \in Frame /\ CallOK(c) /\ Wanted(c) = l
             /\ c.type = Top(t).type /\ c.path = Top(t).path /\ c.ent = Top(t).ent
             /\ c.at = "run" /\ c.locks = Top(t).locks \cup Taken(l)
  <1> DEFINE b == Top(t)
             l == Wanted(b)
             c == [b EXCEPT !.at = "run", !.locks = @ \cup Taken(l)]
  <1>1. b \in Frame /\ CallOK(b) /\ b.at = "enter"
    BY StackFacts DEF TableInv, CallsOK, Enter
  <1>2. First(b, b.slot) /\ b.type \in DOMAIN table
    BY <1>1 DEF CallOK
  <1>3. b.slot \in Nat /\ Discipline(b) \in Disciplines
    BY <1>1, <1>2, DisciplineFacts DEF TableInv, Discipline
  <1>4. Taken(l) \subseteq LockSet
    BY <1>1, <1>3, WantedShape DEF Taken
  <1> HIDE DEF b, l
  <1>5. /\ c \in Frame /\ c.type = b.type /\ c.path = b.path /\ c.ent = b.ent
        /\ c.slot = b.slot /\ c.at = "run" /\ c.locks = b.locks \cup Taken(l)
    BY <1>1, <1>4 DEF Frame, Stages
  <1> HIDE DEF c
  <1>6. CallOK(c) /\ Wanted(c) = l
    BY <1>1, <1>2, <1>5 DEF CallOK, First, Wanted, Discipline, l
  <1>7. QED
    BY <1>5, <1>6 DEF b, c, l

LEMMA EnterTable ==
  ASSUME TableInv, NEW t \in Threads, Enter(t)
  PROVE  TableInv'
  <1> DEFINE c == [Top(t) EXCEPT !.at = "run", !.locks = @ \cup Taken(Wanted(Top(t)))]
  <1>1. c \in Frame /\ CallOK(c)
    BY EnteredCall
  <1>2. /\ stack[t] # <<>> /\ Inside(Outer(t), t) /\ UNCHANGED <<table, rule>>
        /\ Becomes(t, Append(Outer(t), c))
    BY OuterFacts DEF TableInv, Enter
  <1> HIDE DEF c
  <1>3. QED
    BY <1>1, <1>2, GoOnTable

LEMMA TableNext ==
  ASSUME TableInv, NEW t \in Threads,
         \/ Declare(t) \/ Undeclare(t) \/ UndeclareAll(t)
         \/ Call(t) \/ Resolve(t) \/ Miss(t) \/ NullRoute(t)
         \/ Enter(t) \/ Skip(t) \/ Leave(t) \/ Unref(t)
  PROVE  TableInv'
  <1>1. CASE Declare(t) \/ Undeclare(t) \/ UndeclareAll(t)
    BY <1>1, TableChange
  <1>2. CASE Call(t)
    BY <1>2, CallTable DEF Call, TableInv, TypeOK
  <1>3. CASE Resolve(t)
    BY <1>3, ResolveTable
  <1>4. CASE Miss(t)
    BY <1>4, EndsTable DEF Miss, Locks
  <1>5. CASE NullRoute(t)
    BY <1>5, NullRouteTable DEF TableInv
  <1>6. CASE Enter(t)
    BY <1>6, EnterTable
  <1>7. CASE Skip(t) \/ Leave(t)
    BY <1>7, EndsTable DEF Skip, Leave
  <1>8. CASE Unref(t)
    BY <1>8, PopTable, UnlockedFacts DEF Unref, TableInv
  <1>9. QED
    BY <1>1, <1>2, <1>3, <1>4, <1>5, <1>6, <1>7, <1>8

LEMMA InitTable == Init => TableInv
  <1> SUFFICES ASSUME Init PROVE TableInv
    OBVIOUS
  <1>1. /\ <<>> \in Slots /\ Len(<<>>) = 0 /\ DOMAIN <<>> = {} /\ <<>> \in Seq(Frame)
        /\ MaxRoutes \in Nat /\ MaxDepth \in Nat /\ 0 <= MaxRoutes /\ 0 <= MaxDepth
    BY RoutesAssumption DEF Slots
  <1>2. /\ \A t \in Threads : stack[t] = <<>>
        /\ DOMAIN table \in Mixes /\ \A y \in DOMAIN table : table[y] = <<>>
    BY DEF Init, Idle
  <1>3. TypeOK
    BY <1>1, <1>2 DEF Init, TypeOK, Slots, Idle
  <1>4. RowsAllowed /\ CallsOK
    BY <1>1, <1>2 DEF RowsAllowed, CallsOK
  <1>5. QED
    BY <1>3, <1>4 DEF TableInv

\* Every reachable state satisfies the invariant of the table.
THEOREM TableInvariance == Spec => []TableInv
  <1>1. TableInv /\ [Next]_vars => TableInv'
    <2> SUFFICES ASSUME TableInv, [Next]_vars PROVE TableInv'
      OBVIOUS
    <2>1. CASE Next
      BY <2>1, TableNext DEF Next
    <2>2. CASE UNCHANGED vars
      <3>1. table' = table /\ stack' = stack /\ rule' = rule
        BY <2>2 DEF vars
      <3>2. TypeOK' /\ RowsAllowed'
        BY <3>1 DEF TableInv, TypeOK, RowsAllowed, Allowed
      <3>3. \A c : CallOK(c)' <=> CallOK(c)
        BY <3>1 DEF CallOK, First
      <3>4. CallsOK'
        BY <3>1, <3>3 DEF TableInv, CallsOK
      <3>5. QED
        BY <3>2, <3>4 DEF TableInv
    <2>3. QED
      BY <2>1, <2>2
  <1>2. QED
    BY InitTable, <1>1, PTL DEF Spec

\* The variables keep their types: the rows and the calls in progress never grow
\* beyond their bounds, whatever callbacks do.
THEOREM TypeCorrect == Spec => []TypeOK
  <1>1. TableInv => TypeOK
    BY DEF TableInv
  <1>2. QED
    BY <1>1, TableInvariance, PTL

\* A call in progress runs the first route that matches its path, whatever
\* callbacks do.
THEOREM FirstMatchRuns == Spec => []RunsFirstMatch
  <1>1. TableInv => RunsFirstMatch
    BY DEF TableInv, CallsOK, CallOK, First, RunsFirstMatch, CallsOf
  <1>2. QED
    BY <1>1, TableInvariance, PTL

(***************************************************************************)
(* What holds as long as callbacks keep to the rule.                       *)
(***************************************************************************)

\* The locks of a call, by its stage.
Expected(c) ==
  ( IF c.at \in {"enter", "run"} /\ Keeps(c.type) THEN Taken(CallerLock(c)) ELSE {} )
  \cup ( IF c.at = "run" THEN Taken(Wanted(c)) ELSE {} )

\* No call has lost a lock or gone on without it.
LocksExact ==
  \A t \in Threads : \A k \in DOMAIN stack[t] : stack[t][k].locks = Expected(stack[t][k])

\* Locks of different calls do not conflict, even in one thread.
LocksApart ==
  \A t, u \in Threads : \A j \in DOMAIN stack[t], k \in DOMAIN stack[u] :
    <<t, j>> # <<u, k>> =>
      \A l \in stack[t][j].locks, h \in stack[u][k].locks : ~Conflict(l, h)

\* Only callbacks that run have called again.
OuterRun ==
  \A t \in Threads : \A k \in 1 .. Len(stack[t]) - 1 : stack[t][k].at = "run"

\* What the calls around c, which hold h, leave c to ask for.
InOrder(c, h) ==
  /\ c.type # "sync" => h.kind # "entry"
  /\ CallerLock(c) # None => Before(h, CallerLock(c))

Ordered ==
  \A t \in Threads : \A k \in DOMAIN stack[t], j \in DOMAIN stack[t] :
    j < k => \A h \in stack[t][j].locks : InOrder(stack[t][k], h)

\* The discipline's lock of t's innermost call is in order, or will be refused.
AskedInOrder(t) ==
  LET c == Top(t) IN
  /\ c.at = "lock" /\ Matches(c) => Settled(t, Wanted(Matched(c)))
  /\ c.at = "enter" => Settled(t, Wanted(c))

Asked == \A t \in Threads : stack[t] # <<>> => AskedInOrder(t)

RuleInv == LocksExact /\ LocksApart /\ OuterRun /\ Ordered /\ Asked

LEMMA WantedKept ==
  ASSUME UNCHANGED table
  PROVE  \A c : /\ Wanted(c)' = Wanted(c) /\ Expected(c)' = Expected(c)
                /\ Matches(c)' = Matches(c) /\ Matched(c)' = Matched(c)
  <1>1. \A c : Wanted(c)' = Wanted(c)
    BY DEF Wanted, Discipline
  <1>2. \A c : Expected(c)' = Expected(c)
    BY <1>1 DEF Expected
  <1>3. \A c : Matching(c)' = Matching(c)
    BY DEF Matching, Holes
  <1>4. \A c : Matches(c)' = Matches(c)
    BY <1>3 DEF Matches, MeetsHole, Holes
  <1>5. \A c : Matched(c)' = Matched(c)
    BY <1>3 DEF Matched, Match
  <1>6. QED
    BY <1>1, <1>2, <1>4, <1>5

\* A thread whose calls stay holds and asks for what it did.
LEMMA AskedKept ==
  ASSUME UNCHANGED table, NEW t, stack'[t] = stack[t], AskedInOrder(t)
  PROVE  AskedInOrder(t)'
  <1>1. Held(t)' = Held(t) /\ Top(t)' = Top(t)
    BY DEF Held, CallsOf, Top
  <1>2. \A l : Settled(t, l) => Settled(t, l)'
    BY <1>1 DEF Settled, Refused
  <1>3. QED
    BY <1>1, <1>2, WantedKept DEF AskedInOrder

\* An unlock takes no lock from an outer call.
LEMMA NothingStripped ==
  ASSUME TableInv, RuleInv, NEW t \in Threads, stack[t] # <<>>
  PROVE  Unlocked(t) = Outer(t)
  <1>1. CASE CallerLock(Top(t)) = None
    BY <1>1 DEF Unlocked
  <1>2. CASE CallerLock(Top(t)) # None
    <2> DEFINE o == Outer(t)
               n == Len(stack[t])
               s == Stripped(o, Top(t).ent)
    <2>1. /\ o \in Seq(Frame) /\ DOMAIN o = 1 .. n - 1 /\ n \in Nat /\ n \in DOMAIN stack[t]
          /\ \A k \in DOMAIN o : k \in DOMAIN stack[t] /\ o[k] = stack[t][k] /\ k < n
          /\ Top(t) = stack[t][n] /\ Top(t) \in Frame
      BY OuterFacts, StackFacts DEF Inside, TableInv
    <2>2. Top(t).type # "sync"
      BY <1>2, <2>1, CallerLockShape
    <2>3. \A k \in DOMAIN o : \A l \in o[k].locks : l.kind # "entry"
      BY <2>1, <2>2 DEF RuleInv, Ordered, InOrder
    <2>4. Unlocked(t) = s
      BY <1>2 DEF Unlocked
    <2> HIDE DEF o
    <2>6. s = [k \in DOMAIN o |-> s[k]]
      BY DEF Stripped
    <2>5. \A k \in DOMAIN o : /\ s[k] = [o[k] EXCEPT !.locks = s[k].locks]
                              /\ s[k].locks = o[k].locks
      <3>1. \A k \in DOMAIN o :
              /\ s[k] = [o[k] EXCEPT !.locks = s[k].locks]
              /\ s[k].locks \subseteq o[k].locks
              /\ \A l \in o[k].locks : l.kind # "entry" => l \in s[k].locks
        BY <2>1, StrippedFacts
      <3> HIDE DEF s
      <3>2. QED
        BY <2>3, <3>1
    <2> HIDE DEF s
    <2>7. \A k \in DOMAIN o : s[k] = o[k]
      <3>1. \A k \in DOMAIN o : o[k] \in Frame
        BY <2>1
      <3>2. \A c \in Frame : [c EXCEPT !.locks = c.locks] = c
        BY DEF Frame
      <3>3. QED
        BY <2>5, <3>1, <3>2
    <2>8. o = [k \in DOMAIN o |-> o[k]]
      BY <2>1
    <2>9. s = o
      BY <2>6, <2>7, <2>8
    <2>10. QED
      BY <2>4, <2>9 DEF o
  <1>3. QED
    BY <1>1, <1>2

\* The innermost call ends.
LEMMA PopRule ==
  ASSUME TableInv, RuleInv, NEW t \in Threads, stack[t] # <<>>,
         Becomes(t, Outer(t)), UNCHANGED table
  PROVE  RuleInv'
  <1> USE DEF RuleInv
  <1> DEFINE n == Len(stack[t])
  <1>1. /\ n \in Nat /\ n > 0 /\ DOMAIN stack[t] = 1 .. n
        /\ stack'[t] = Outer(t) /\ Len(stack'[t]) = n - 1 /\ DOMAIN stack'[t] = 1 .. n - 1
        /\ \A k \in 1 .. n - 1 : stack'[t][k] = stack[t][k]
        /\ \A u \in Threads : u # t => stack'[u] = stack[u]
    BY OuterFacts, StackFacts DEF Inside, Becomes, TableInv, TypeOK
  <1>2. \A u \in Threads : \A k \in DOMAIN stack'[u] :
          k \in DOMAIN stack[u] /\ stack'[u][k] = stack[u][k]
    BY <1>1
  <1>3. LocksExact'
    BY <1>2, WantedKept DEF LocksExact
  <1>4. LocksApart'
    BY <1>2 DEF LocksApart
  <1>5. OuterRun'
    BY <1>1 DEF OuterRun
  <1>6. Ordered'
    BY <1>2 DEF Ordered
  <1>7. Asked'
    <2>1. ASSUME NEW u \in Threads, stack'[u] # <<>>
          PROVE  AskedInOrder(u)'
      <3>1. CASE u # t
        BY <1>1, <2>1, <3>1, AskedKept DEF Asked
      <3>2. CASE u = t
        <4>1. n - 1 > 0
          <5>1. stack'[t] \in Seq(Frame)
            BY <1>1, OuterFacts DEF Inside, TableInv
          <5>2. Len(stack'[t]) # 0
            BY <2>1, <3>2, <5>1, EmptySeq
          <5>3. Len(stack'[t]) = n - 1 /\ n \in Nat /\ n > 0
            BY <1>1
          <5> HIDE DEF n
          <5>4. n - 1 # 0
            BY <5>2, <5>3
          <5>5. QED
            BY <5>3, <5>4
        <4>2. stack'[t][Len(stack'[t])].at = "run"
          BY <1>1, <4>1 DEF OuterRun
        <4>3. QED
          BY <3>2, <4>2 DEF AskedInOrder, Top
      <3>3. QED
        BY <3>1, <3>2
    <2>2. QED
      BY <2>1 DEF Asked
  <1>8. QED
    BY <1>3, <1>4, <1>5, <1>6, <1>7

\* A lock that is free conflicts with none that is held.
LEMMA FreeFacts ==
  ASSUME NEW l, l # None, Free(l)
  PROVE  \A u \in Threads : \A k \in DOMAIN stack[u] : \A h \in stack[u][k].locks :
           ~Conflict(l, h) /\ ~Conflict(h, l)
  BY HeldFacts DEF Free, Conflict, Same

\* The innermost call becomes c, which holds what it held or what was free.
LEMMA GoOnRule ==
  ASSUME TableInv, RuleInv, NEW t \in Threads, stack[t] # <<>>,
         NEW c \in Frame, Becomes(t, Append(Outer(t), c)), UNCHANGED table,
         c.type = Top(t).type, c.ent = Top(t).ent,
         c.locks = Expected(c),
         \A l \in c.locks : l \in Top(t).locks \/ (l # None /\ Free(l)),
         c.at # "lock", c.at = "enter" => Settled(t, Wanted(c))'
  PROVE  RuleInv'
  <1> USE DEF RuleInv
  <1> DEFINE n == Len(stack[t])
  <1>1. /\ n \in Nat /\ n > 0 /\ DOMAIN stack[t] = 1 .. n /\ n \in DOMAIN stack[t]
        /\ Top(t) = stack[t][n]
        /\ Len(stack'[t]) = n /\ DOMAIN stack'[t] = 1 .. n
        /\ \A k \in 1 .. n - 1 : stack'[t][k] = stack[t][k]
        /\ stack'[t][n] = c
        /\ \A u \in Threads : u # t => stack'[u] = stack[u]
    <2>1. /\ Outer(t) \in Seq(Frame) /\ Len(Outer(t)) = n - 1 /\ DOMAIN Outer(t) = 1 .. n - 1
          /\ \A k \in 1 .. n - 1 : Outer(t)[k] = stack[t][k]
          /\ n \in Nat /\ n > 0 /\ DOMAIN stack[t] = 1 .. n /\ Top(t) = stack[t][n]
      BY OuterFacts, StackFacts DEF Inside, TableInv
    <2>2. stack'[t] = Append(Outer(t), c) /\ \A u \in Threads : u # t => stack'[u] = stack[u]
      BY DEF Becomes, TableInv, TypeOK
    <2>3. /\ Len(stack'[t]) = Len(Outer(t)) + 1
          /\ DOMAIN stack'[t] = 1 .. Len(Outer(t)) + 1
          /\ \A k \in DOMAIN Outer(t) : stack'[t][k] = Outer(t)[k]
          /\ stack'[t][Len(Outer(t)) + 1] = c
      BY <2>1, <2>2, AppendFacts
    <2>4. QED
      BY <2>1, <2>2, <2>3
  <1>2. \A u \in Threads : \A k \in DOMAIN stack'[u] :
          /\ k \in DOMAIN stack[u]
          /\ IF u = t /\ k = n THEN stack'[u][k] = c ELSE stack'[u][k] = stack[u][k]
    BY <1>1
  <1>3. LocksExact'
    BY <1>2, WantedKept DEF LocksExact
  <1>4. LocksApart'
    <2>1. ASSUME NEW u \in Threads, NEW k \in DOMAIN stack[u], <<u, k>> # <<t, n>>,
                 NEW l \in c.locks, NEW h \in stack[u][k].locks
          PROVE  ~Conflict(l, h) /\ ~Conflict(h, l)
      BY <1>1, <2>1, FreeFacts DEF LocksApart
    <2>2. ASSUME NEW u \in Threads, NEW v \in Threads,
                 NEW j \in DOMAIN stack'[u], NEW k \in DOMAIN stack'[v], <<u, j>> # <<v, k>>,
                 NEW l \in stack'[u][j].locks, NEW h \in stack'[v][k].locks
          PROVE  ~Conflict(l, h)
      <3>1. CASE u = t /\ j = n
        BY <1>2, <2>1, <2>2, <3>1
      <3>2. CASE v = t /\ k = n
        BY <1>2, <2>1, <2>2, <3>2
      <3>3. CASE ~(u = t /\ j = n) /\ ~(v = t /\ k = n)
        BY <1>2, <2>2, <3>3 DEF LocksApart
      <3>4. QED
        BY <3>1, <3>2, <3>3
    <2>3. QED
      BY <2>2 DEF LocksApart
  <1>5. OuterRun'
    BY <1>1 DEF OuterRun
  <1>6. Ordered'
    <2>1. \A h : InOrder(c, h) <=> InOrder(Top(t), h)
      BY DEF InOrder, CallerLock
    <2>2. ASSUME NEW u \in Threads, NEW k \in DOMAIN stack'[u], NEW j \in DOMAIN stack'[u], j < k,
                 NEW h \in stack'[u][j].locks
          PROVE  InOrder(stack'[u][k], h)
      <3>1. ~(u = t /\ j = n)
        BY <1>1, <2>2
      <3>2. h \in stack[u][j].locks
        BY <1>2, <2>2, <3>1
      <3>3. QED
        BY <1>1, <1>2, <2>1, <2>2, <3>2 DEF Ordered
    <2>3. QED
      BY <2>2 DEF Ordered
  <1>7. Asked'
    <2>1. ASSUME NEW u \in Threads, stack'[u] # <<>>
          PROVE  AskedInOrder(u)'
      <3>1. CASE u # t
        BY <1>1, <2>1, <3>1, AskedKept DEF Asked
      <3>2. CASE u = t
        <4>1. Top(t)' = c
          BY <1>1 DEF Top
        <4>2. QED
          BY <3>2, <4>1 DEF AskedInOrder
      <3>3. QED
        BY <3>1, <3>2
    <2>2. QED
      BY <2>1 DEF Asked
  <1>8. QED
    BY <1>3, <1>4, <1>5, <1>6, <1>7

\* A call ends, or a stat goes on to unreference its entry.
LEMMA EndsRule ==
  ASSUME TableInv, RuleInv, NEW t \in Threads, stack[t] # <<>>, Ends(t), UNCHANGED table
  PROVE  RuleInv'
  <1> DEFINE c == [Top(t) EXCEPT !.slot = 0, !.at = "unref", !.locks = {}]
  <1>1. CASE Top(t).type = "stat" /\ Top(t).ent # None
    <2>1. /\ c \in Frame /\ c.type = Top(t).type /\ c.ent = Top(t).ent
          /\ c.at = "unref" /\ c.locks = {}
      <3> DEFINE b == Top(t)
      <3>1. 0 \in 0 .. MaxRoutes /\ b \in Frame
        BY StackFacts, RoutesAssumption DEF TableInv
      <3> HIDE DEF b
      <3>2. LET d == [b EXCEPT !.slot = 0, !.at = "unref", !.locks = {}] IN
            d \in Frame /\ d.type = b.type /\ d.ent = b.ent /\ d.at = "unref" /\ d.locks = {}
        BY <3>1 DEF Frame, Stages
      <3>3. QED
        BY <3>2 DEF b
    <2>2. Becomes(t, Append(Outer(t), c))
      BY <1>1 DEF Ends
    <2> HIDE DEF c
    <2>3. c.locks = Expected(c)
      BY <2>1 DEF Expected
    <2>4. QED
      BY <2>1, <2>2, <2>3, GoOnRule
  <1>2. CASE ~(Top(t).type = "stat" /\ Top(t).ent # None)
    BY <1>2, NothingStripped, PopRule DEF Ends
  <1>3. QED
    BY <1>1, <1>2

\* No call is in progress.
LEMMA AnewRule ==
  ASSUME stack' = Idle
  PROVE  RuleInv'
  <1>1. \A t \in Threads : stack'[t] = <<>>
    BY DEF Idle
  <1>2. DOMAIN <<>> = {} /\ Len(<<>>) = 0
    OBVIOUS
  <1>3. LocksExact' /\ LocksApart' /\ Ordered' /\ Asked'
    BY <1>1, <1>2 DEF LocksExact, LocksApart, Ordered, Asked
  <1>4. OuterRun'
    BY <1>1, <1>2 DEF OuterRun
  <1>5. QED
    BY <1>3, <1>4 DEF RuleInv

\* The table changes: the calls in progress hold nothing.
LEMMA TableRule ==
  ASSUME TableInv, RuleInv, NEW t \in Threads, Declare(t) \/ Undeclare(t) \/ UndeclareAll(t)
  PROVE  RuleInv'
  <1>1. /\ stack' = stack
        /\ \A u \in Threads : \A k \in DOMAIN stack[u] :
             stack[u][k].at \notin {"enter", "run"} /\ stack[u][k].locks = {}
    BY TableChange DEF RuleInv, LocksExact, Expected
  <1>2. \A u \in Threads : Held(u)' = {}
    BY <1>1 DEF Held, CallsOf
  <1>3. LocksExact'
    BY <1>1 DEF LocksExact, Expected
  <1>4. LocksApart' /\ OuterRun'
    BY <1>1 DEF RuleInv, LocksApart, OuterRun
  <1>5. Ordered'
    BY <1>1 DEF Ordered
  <1>6. Asked'
    BY <1>2 DEF Asked, AskedInOrder, Settled
  <1>7. QED
    BY <1>3, <1>4, <1>5, <1>6 DEF RuleInv

LEMMA EnterRule ==
  ASSUME TableInv, RuleInv, NEW t \in Threads, Enter(t)
  PROVE  RuleInv'
  <1> DEFINE l == Wanted(Top(t))
             c == [Top(t) EXCEPT !.at = "run", !.locks = @ \cup Taken(l)]
  <1>1. /\ c \in Frame /\ Wanted(c) = l
        /\ c.type = Top(t).type /\ c.ent = Top(t).ent
        /\ c.at = "run" /\ c.locks = Top(t).locks \cup Taken(l)
    BY EnteredCall
  <1>2. /\ stack[t] # <<>> /\ Top(t).at = "enter" /\ Free(l)
        /\ Becomes(t, Append(Outer(t), c)) /\ UNCHANGED table
    BY DEF Enter
  <1>3. Top(t).locks = Expected(Top(t))
    BY <1>2, StackFacts DEF TableInv, RuleInv, LocksExact
  <1> HIDE DEF c, l
  <1>4. CallerLock(c) = CallerLock(Top(t))
    BY <1>1 DEF CallerLock
  <1>5. c.locks = Expected(c)
    BY <1>1, <1>2, <1>3, <1>4 DEF Expected
  <1>6. \A h \in c.locks : h \in Top(t).locks \/ (h # None /\ Free(h))
    BY <1>1, <1>2 DEF Taken
  <1>7. QED
    BY <1>1, <1>2, <1>5, <1>6, GoOnRule

\* What a thread holds when its innermost call, which holds nothing, becomes c.
LEMMA HeldAfter ==
  ASSUME TableInv, NEW t \in Threads, stack[t] # <<>>, Top(t).locks = {},
         NEW c \in Frame, Becomes(t, Append(Outer(t), c))
  PROVE  Held(t)' = Held(t) \cup c.locks
  <1> DEFINE n == Len(stack[t])
  <1>1. /\ Outer(t) \in Seq(Frame) /\ Len(Outer(t)) = n - 1 /\ DOMAIN Outer(t) = 1 .. n - 1
        /\ \A k \in 1 .. n - 1 : Outer(t)[k] = stack[t][k]
        /\ n \in Nat /\ n > 0 /\ DOMAIN stack[t] = 1 .. n /\ stack[t][n].locks = {}
    BY OuterFacts, StackFacts DEF Inside, TableInv
  <1>2. stack'[t] = Append(Outer(t), c)
    BY DEF Becomes, TableInv, TypeOK
  <1>3. /\ DOMAIN stack'[t] = 1 .. n
        /\ \A k \in 1 .. n - 1 : stack'[t][k] = stack[t][k]
        /\ stack'[t][n] = c
    BY <1>1, <1>2, AppendFacts
  <1> HIDE DEF n
  <1>4. \A l : l \in Held(t)' <=> \E k \in 1 .. n : l \in stack'[t][k].locks
    BY <1>3 DEF Held, CallsOf
  <1>5. \A l : l \in Held(t) <=> \E k \in 1 .. n : l \in stack[t][k].locks
    BY <1>1, HeldFacts
  <1>6. n \in 1 .. n /\ \A k \in 1 .. n : k = n \/ k \in 1 .. n - 1
    BY <1>1
  <1>7. \A l : l \in Held(t)' <=> l \in c.locks \/ \E k \in 1 .. n - 1 : l \in stack[t][k].locks
    BY <1>1, <1>3, <1>4, <1>6
  <1>8. \A l : l \in Held(t) <=> \E k \in 1 .. n - 1 : l \in stack[t][k].locks
    BY <1>1, <1>5, <1>6
  <1>9. QED
    BY <1>7, <1>8

LEMMA ResolveRule ==
  ASSUME rule = "kept", TableInv, RuleInv, NEW t \in Threads, Resolve(t)
  PROVE  RuleInv'
  <1>a. PICK b : b = Top(t)
    OBVIOUS
  <1>b. PICK l : l = CallerLock(b)
    OBVIOUS
  <1>c. PICK c : c = [Matched(b) EXCEPT !.at = "enter"]
    OBVIOUS
  <1>d. PICK d : d = [c EXCEPT !.locks = IF Refused(t, l) THEN {} ELSE Taken(l)]
    OBVIOUS
  <1>e. PICK w : w = Wanted(c)
    OBVIOUS
  <1> DEFINE n == Len(stack[t])
  <1>1. /\ c \in Frame /\ CallOK(c) /\ d \in Frame
        /\ c.locks = b.locks /\ w = Wanted(Matched(b)) /\ Wanted(d) = w
        /\ \A x \in {c, d} : x.type = b.type /\ x.ent = b.ent /\ x.at = "enter"
        /\ d.locks = IF Refused(t, l) THEN {} ELSE Taken(l)
    <2>1. /\ c = [Matched(Top(t)) EXCEPT !.at = "enter"]
          /\ l = CallerLock(Top(t)) /\ b = Top(t)
      BY <1>a, <1>b, <1>c
    <2>2. /\ c \in Frame /\ CallOK(c) /\ d \in Frame
          /\ d.locks = IF Refused(t, l) THEN {} ELSE Taken(l)
      BY <2>1, <1>d, ResolvedCall
    <2>3. c.locks = b.locks /\ Wanted(c) = Wanted(Matched(b)) /\ Wanted(d) = Wanted(c)
      BY <2>1, <1>d, ResolvedCall
    <2>4. \A x \in {c, d} : x.type = b.type /\ x.ent = b.ent /\ x.at = "enter"
      BY <2>1, <1>d, ResolvedCall
    <2>5. QED
      BY <2>2, <2>3, <2>4, <1>e
  <1>2. /\ stack[t] # <<>> /\ b.at = "lock" /\ Matches(b) /\ (Refused(t, l) \/ Free(l))
        /\ UNCHANGED table
        /\ n \in Nat /\ DOMAIN stack[t] = 1 .. n /\ n \in DOMAIN stack[t]
        /\ b = stack[t][n] /\ b \in Frame /\ b.type \in DOMAIN table
        /\ b.type # "stat" => b.ent \in Entries
    BY <1>a, <1>b, StackFacts DEF TableInv, CallsOK, CallOK, Resolve, Locks
  <1>3. IF ~Keeps(b.type) THEN Becomes(t, Append(Outer(t), c)) ELSE Becomes(t, Append(Outer(t), d))
    BY <1>a, <1>b, <1>c, <1>d, <1>1, <1>2, NothingStripped DEF Resolve
  <1>4. b.locks = {}
    BY <1>2 DEF RuleInv, LocksExact, Expected
  <1>5. Settled(t, w)
    BY <1>a, <1>1, <1>2 DEF RuleInv, Asked, AskedInOrder
  <1>6. CASE ~Keeps(b.type)
    <2>1. Becomes(t, Append(Outer(t), c)) /\ c.locks = {}
      BY <1>1, <1>3, <1>4, <1>6
    <2>2. c.type = b.type /\ c.ent = b.ent /\ c.at = "enter"
      BY <1>1
    <2>3. c.locks = Expected(c)
      BY <1>6, <2>1, <2>2 DEF Expected
    <2>4. Held(t)' = Held(t)
      BY <1>1, <1>2, <1>4, <2>1, <1>a, HeldAfter
    <2>5. Settled(t, Wanted(c))'
      BY <1>2, <1>5, <1>e, <2>4, WantedKept DEF Settled, Refused
    <2>6. QED
      BY <1>1, <1>2, <2>1, <2>2, <2>3, <2>5, <1>a, GoOnRule
  <1>7. CASE Keeps(b.type)
    <2>1. Becomes(t, Append(Outer(t), d))
      BY <1>3, <1>7
    <2>2. d.type = b.type /\ d.ent = b.ent /\ d.at = "enter"
      BY <1>1
    <2>3. b.type # "sync" /\ b.ent \in Entries /\ b.ent # None
      BY <1>2, <1>7, RoutesAssumption DEF Keeps
    <2>4. /\ l # None /\ l \in LockSet /\ l.kind = "entry" /\ l.of = b.ent
          /\ l.mode = IF b.type = "getxattr" THEN "read" ELSE "write"
      BY <1>2, <1>b, <2>3, CallerLockShape
    <2>5. ~Refused(t, l)
      <3>1. ASSUME NEW h \in Held(t) PROVE h.kind # "entry"
        <4>1. PICK k \in DOMAIN stack[t] : h \in stack[t][k].locks
          BY HeldFacts
        <4>2. k < n
          BY <1>2, <1>4, <4>1
        <4>3. InOrder(b, h)
          BY <1>2, <4>1, <4>2 DEF RuleInv, Ordered
        <4>4. QED
          BY <2>3, <4>3 DEF InOrder
      <3>2. QED
        BY <2>4, <3>1 DEF Refused, Same
    <2>6. d.locks = {l} /\ Free(l)
      BY <1>1, <1>2, <2>4, <2>5 DEF Taken
    <2>7. d.locks = Expected(d)
      <3>1. CallerLock(d) = l
        BY <1>b, <2>2 DEF CallerLock
      <3>2. QED
        BY <1>7, <2>2, <2>4, <2>6, <3>1 DEF Expected, Taken
    <2>8. Held(t)' = Held(t) \cup {l}
      BY <1>1, <1>2, <1>4, <2>1, <2>6, <1>a, HeldAfter
    <2>9. Settled(t, w)'
      <3> SUFFICES ASSUME w # None, ~Refused(t, w)', NEW h \in Held(t)'
                   PROVE  Before(h, w)
        BY DEF Settled
      <3>1. ~Refused(t, w) /\ ~(Same(w, l) /\ l.mode = "write")
        BY <2>8 DEF Refused
      <3>2. CASE h \in Held(t)
        BY <1>5, <3>1, <3>2 DEF Settled
      <3>3. CASE h = l
        <4>1. c.type \in DOMAIN table /\ First(c, c.slot) /\ c.type = b.type /\ c.ent = b.ent
          BY <1>1 DEF CallOK
        <4>2. /\ c.slot \in Nat
              /\ Discipline(c) \in Disciplines /\ Discipline(c) \in Allowed(c.type)
          BY <1>1, <4>1, DisciplineFacts DEF TableInv, Discipline
        <4>3. c.slot \in DOMAIN table[c.type] /\ c.slot > 0
          <5>1. c.slot \in DOMAIN table[c.type]
            BY <4>1 DEF First
          <5>2. QED
            BY <4>1, <5>1, RowFacts DEF TableInv
        <4>4. c.type # "setmetadata"
          BY <1>1, <4>1, <4>2, <1>e, WantedShape
        <4>5. CASE Discipline(c) \in {"sequential", "concurrent"}
          <5>1. w.kind = b.type /\ w.of = c.slot
            BY <1>1, <4>1, <4>2, <4>4, <4>5, <1>e, WantedShape DEF Lock
          <5>2. b.type # "entry"
            BY <1>2 DEF Frame, AllTypes
          <5>3. /\ Rank(l) = MaxRoutes + b.ent
                /\ Rank(w) = MaxRoutes + MaxEntries + c.slot
            BY <1>7, <2>4, <5>1, <5>2 DEF Rank
          <5>4. b.ent \in Nat /\ b.ent <= MaxEntries /\ MaxEntries \in Nat /\ MaxRoutes \in Nat
            BY <2>3, RoutesAssumption DEF Entries
          <5>5. QED
            BY <3>3, <4>2, <4>3, <5>3, <5>4 DEF Before
        <4>6. CASE Discipline(c) = "inode_sequential"
          <5>1. Same(w, l)
            BY <1>1, <2>3, <2>4, <4>1, <4>2, <4>4, <4>6, <1>e, WantedShape DEF Lock, Same
          <5>2. b.type = "getxattr"
            BY <2>4, <3>1, <5>1
          <5>3. QED
            BY <4>1, <4>2, <4>6, <5>2 DEF Allowed, WaitsForItself
        <4>7. CASE Discipline(c) = "inode_concurrent"
          <5>1. Same(w, l) /\ w.mode = "read"
            BY <1>1, <2>3, <2>4, <4>1, <4>2, <4>4, <4>7, <1>e, WantedShape DEF Lock, Same
          <5>2. l.mode = "read"
            BY <2>4, <3>1, <5>1
          <5>3. QED
            BY <3>3, <5>1, <5>2 DEF Before, Same, Conflict
        <4>8. QED
          BY <4>2, <4>5, <4>6, <4>7 DEF Disciplines
      <3>4. QED
        BY <2>8, <3>2, <3>3
    <2>10. Settled(t, Wanted(d))'
      BY <1>1, <1>2, <1>e, <2>9, WantedKept
    <2>11. \A h \in d.locks : h # None /\ Free(h)
      BY <2>4, <2>6
    <2>12. QED
      BY <1>1, <1>2, <2>1, <2>2, <2>7, <2>10, <2>11, <1>a, GoOnRule
  <1>8. QED
    BY <1>6, <1>7


LEMMA CallRule ==
  ASSUME rule' = "kept", TableInv, RuleInv, NEW t \in Threads, Call(t)
  PROVE  RuleInv'
  <1> USE DEF RuleInv
  <1> DEFINE n == Len(stack[t])
  <1>1. PICK y \in DOMAIN table, p \in Paths : \E e \in Callees(y) :
          /\ Nestable(t, Begun(y, p, e))
          /\ stack' = [stack EXCEPT ![t] = Append(@, Begun(y, p, e))]
    BY DEF Call
  <1>2. PICK e \in Callees(y) :
          /\ Nestable(t, Begun(y, p, e))
          /\ stack' = [stack EXCEPT ![t] = Append(@, Begun(y, p, e))]
    BY <1>1
  <1>3. PICK c : c = Begun(y, p, e)
    OBVIOUS
  <1>4. /\ c \in Frame /\ Becomes(t, Append(stack[t], c)) /\ UNCHANGED table
        /\ stack[t] # <<>> => Top(t).at = "run"
        /\ Nestable(t, c) /\ c.at = "lock" /\ c.locks = {}
    BY <1>2, <1>3, CallTable DEF Call, Begun, TableInv, TypeOK
  <1>5. /\ n \in Nat /\ DOMAIN stack[t] = 1 .. n /\ stack[t] \in Seq(Frame)
        /\ stack[t] # <<>> <=> n > 0
        /\ stack[t] # <<>> => Top(t) = stack[t][n]
    BY StackFacts DEF TableInv
  <1>6. /\ Len(stack'[t]) = n + 1 /\ DOMAIN stack'[t] = 1 .. n + 1
        /\ \A k \in 1 .. n : stack'[t][k] = stack[t][k]
        /\ stack'[t][n + 1] = c
        /\ \A u \in Threads : u # t => stack'[u] = stack[u]
    <2>1. stack'[t] = Append(stack[t], c) /\ \A u \in Threads : u # t => stack'[u] = stack[u]
      BY <1>4 DEF Becomes, TableInv, TypeOK
    <2>2. QED
      BY <1>4, <1>5, <2>1, AppendFacts
  <1> HIDE DEF n
  <1>7. \A u \in Threads : \A k \in DOMAIN stack'[u] :
          IF u = t /\ k = n + 1 THEN stack'[u][k] = c
          ELSE k \in DOMAIN stack[u] /\ stack'[u][k] = stack[u][k]
    <2>1. ASSUME NEW k \in DOMAIN stack'[t], k # n + 1
          PROVE  k \in DOMAIN stack[t] /\ stack'[t][k] = stack[t][k]
      <3>1. k \in 1 .. n
        BY <1>5, <1>6, <2>1
      <3>2. QED
        BY <1>5, <1>6, <3>1
    <2>2. QED
      BY <1>6, <2>1
  <1>8. LocksExact'
    <2>1. c.locks = Expected(c)
      BY <1>4 DEF Expected
    <2>2. QED
      BY <1>4, <1>7, <2>1, WantedKept DEF LocksExact
  <1>9. LocksApart'
    BY <1>4, <1>7 DEF LocksApart
  <1>10. OuterRun'
    <2>1. ASSUME NEW u \in Threads, NEW k \in 1 .. Len(stack'[u]) - 1
          PROVE  stack'[u][k].at = "run"
      <3>1. CASE u # t
        BY <1>6, <2>1, <3>1 DEF OuterRun
      <3>2. CASE u = t
        <4>1. k \in 1 .. n /\ stack'[u][k] = stack[t][k]
          BY <1>5, <1>6, <2>1, <3>2
        <4>2. CASE k = n
          BY <1>4, <1>5, <4>1, <4>2
        <4>3. CASE k # n
          <5>1. k \in 1 .. Len(stack[t]) - 1
            BY <1>5, <4>1, <4>3 DEF n
          <5>2. QED
            BY <4>1, <5>1 DEF OuterRun
        <4>4. QED
          BY <4>2, <4>3
      <3>3. QED
        BY <3>1, <3>2
    <2>2. QED
      BY <2>1 DEF OuterRun
  <1>11. Ordered'
    <2>1. ASSUME NEW u \in Threads, NEW k \in DOMAIN stack'[u], NEW j \in DOMAIN stack'[u], j < k,
                 NEW h \in stack'[u][j].locks
          PROVE  InOrder(stack'[u][k], h)
      <3>1. CASE u = t /\ k = n + 1
        <4>1. stack'[u][k] = c /\ h \in Held(t)
          BY <1>5, <1>6, <1>7, <2>1, <3>1, HeldFacts
        <4>2. QED
          BY <1>4, <4>1 DEF Nestable, InOrder
      <3>2. CASE ~(u = t /\ k = n + 1)
        <4>1. ~(u = t /\ j = n + 1)
          BY <1>5, <1>6, <2>1, <3>2
        <4>2. QED
          BY <1>7, <2>1, <3>2, <4>1 DEF Ordered
      <3>3. QED
        BY <3>1, <3>2
    <2>2. QED
      BY <2>1 DEF Ordered
  <1>12. Asked'
    <2>1. ASSUME NEW u \in Threads, stack'[u] # <<>>
          PROVE  AskedInOrder(u)'
      <3>1. CASE u # t
        BY <1>4, <1>6, <2>1, <3>1, AskedKept DEF Asked
      <3>2. CASE u = t
        <4>1. Top(t)' = c
          BY <1>6 DEF Top
        <4>2. \A l : l \in Held(t)' <=> l \in Held(t)
          <5>1. \A l : l \in Held(t)' <=> \E k \in 1 .. n + 1 : l \in stack'[t][k].locks
            BY <1>6 DEF Held, CallsOf
          <5>2. \A l : l \in Held(t) <=> \E k \in 1 .. n : l \in stack[t][k].locks
            BY <1>5, HeldFacts
          <5>3. \A k : k \in 1 .. n + 1 <=> k = n + 1 \/ k \in 1 .. n
            BY <1>5
          <5>4. \A l : l \notin stack'[t][n + 1].locks
            BY <1>4, <1>6
          <5>5. \A l : l \in Held(t)' <=> \E k \in 1 .. n : l \in stack'[t][k].locks
            BY <5>1, <5>3, <5>4
          <5>6. QED
            BY <1>6, <5>2, <5>5
        <4>3. Held(t)' = Held(t)
          BY <4>2
        <4>4. \A l : Settled(t, l)' <=> Settled(t, l)
          BY <4>3 DEF Settled, Refused
        <4>5. Matches(c) => Settled(t, Wanted(Matched(c)))
          BY <1>4 DEF Nestable
        <4>6. QED
          BY <1>4, <3>2, <4>1, <4>4, <4>5, WantedKept DEF AskedInOrder
      <3>3. QED
        BY <3>1, <3>2
    <2>2. QED
      BY <2>1 DEF Asked
  <1>13. QED
    BY <1>8, <1>9, <1>10, <1>11, <1>12

LEMMA RuleNext ==
  ASSUME TableInv, rule = "kept" => RuleInv, NEW t \in Threads, rule' = "kept",
         \/ Declare(t) \/ Undeclare(t) \/ UndeclareAll(t)
         \/ Call(t) \/ Resolve(t) \/ Miss(t) \/ NullRoute(t)
         \/ Enter(t) \/ Skip(t) \/ Leave(t) \/ Unref(t)
  PROVE  RuleInv'
  <1>1. CASE Declare(t) \/ Undeclare(t) \/ UndeclareAll(t)
    BY <1>1, TableChange, TableRule
  <1>2. CASE Call(t)
    BY <1>2, CallRule DEF Call
  <1>3. CASE Resolve(t)
    BY <1>3, ResolveRule DEF Resolve
  <1>4. CASE Miss(t)
    BY <1>4, EndsRule DEF Miss, Locks
  <1>5. CASE NullRoute(t)
    BY <1>5, AnewRule DEF NullRoute
  <1>6. CASE Enter(t)
    BY <1>6, EnterRule DEF Enter
  <1>7. CASE Skip(t) \/ Leave(t)
    BY <1>7, EndsRule DEF Skip, Leave
  <1>8. CASE Unref(t)
    BY <1>8, PopRule, NothingStripped DEF Unref
  <1>9. QED
    BY <1>1, <1>2, <1>3, <1>4, <1>5, <1>6, <1>7, <1>8

\* As long as callbacks have kept to the rule, each call holds the locks of its
\* stage, none of them lost, locks of different calls do not conflict, and whatever
\* is asked for comes after what is held; the table's invariant holds in any case.
THEOREM Invariance == Spec => [](TableInv /\ (rule = "kept" => RuleInv))
  <1>1. Init => RuleInv
    <2> SUFFICES ASSUME Init PROVE RuleInv
      OBVIOUS
    <2>1. \A t \in Threads : stack[t] = <<>>
      BY DEF Init, Idle
    <2>2. DOMAIN <<>> = {} /\ Len(<<>>) = 0
      OBVIOUS
    <2>3. LocksExact /\ LocksApart /\ Ordered /\ Asked
      BY <2>1, <2>2 DEF LocksExact, LocksApart, Ordered, Asked
    <2>4. OuterRun
      BY <2>1, <2>2 DEF OuterRun
    <2>5. QED
      BY <2>3, <2>4 DEF RuleInv
  <1>2. TableInv /\ (rule = "kept" => RuleInv) /\ [Next]_vars => (rule = "kept" => RuleInv)'
    <2> SUFFICES ASSUME TableInv, rule = "kept" => RuleInv, rule' = "kept", [Next]_vars PROVE RuleInv'
      OBVIOUS
    <2>1. CASE Next
      BY <2>1, RuleNext DEF Next
    <2>2. CASE UNCHANGED vars
      <3>1. UNCHANGED table /\ stack' = stack /\ RuleInv
        BY <2>2 DEF vars
      <3>2. LocksExact' /\ LocksApart' /\ OuterRun' /\ Ordered'
        BY <3>1, WantedKept DEF RuleInv, LocksExact, LocksApart, OuterRun, Ordered
      <3>3. Asked'
        BY <3>1, AskedKept DEF RuleInv, Asked
      <3>4. QED
        BY <3>2, <3>3 DEF RuleInv
    <2>3. QED
      BY <2>1, <2>2
  <1>3. QED
    BY <1>1, <1>2, TableInvariance, PTL DEF Spec

\* The discipline's lock of a call that is matched.
LEMMA WantedKinds ==
  ASSUME TableInv, NEW t \in Threads, NEW k \in DOMAIN stack[t],
         NEW c, c = stack[t][k], c.at \in {"enter", "run"}
  PROVE  /\ c \in Frame /\ c.slot \in 1 .. MaxRoutes
         /\ Discipline(c) \in Disciplines /\ Discipline(c) \in Allowed(c.type)
         /\ Wanted(c) # None =>
              /\ Wanted(c) \in LockSet
              /\ \/ Wanted(c).kind = "entry" /\ Wanted(c).of = c.ent /\ c.ent \in Entries
                 \/ /\ Wanted(c).kind = c.type /\ Wanted(c).of = c.slot
                    /\ Wanted(c).mode = IF Discipline(c) = "sequential" THEN "write" ELSE "read"
  <1>1. c \in Frame /\ c.type \in DOMAIN table /\ First(c, c.slot)
    BY StackFacts DEF TableInv, CallsOK, CallOK
  <1>2. /\ c.slot \in Nat
        /\ Discipline(c) \in Disciplines /\ Discipline(c) \in Allowed(c.type)
    BY <1>1, DisciplineFacts DEF TableInv, Discipline
  <1>3. c.slot \in 1 .. MaxRoutes
    <2>1. c.slot \in DOMAIN table[c.type]
      BY <1>1 DEF First
    <2>2. QED
      BY <1>1, <2>1, RowFacts DEF TableInv
  <1>4. c.ent # None => c.ent \in Entries
    BY <1>1 DEF Frame
  <1>5. ASSUME Wanted(c) # None
        PROVE  /\ Wanted(c) \in LockSet
               /\ \/ Wanted(c).kind = "entry" /\ Wanted(c).of = c.ent /\ c.ent \in Entries
                  \/ /\ Wanted(c).kind = c.type /\ Wanted(c).of = c.slot
                     /\ Wanted(c).mode = IF Discipline(c) = "sequential" THEN "write" ELSE "read"
    <2>1. Wanted(c) \in LockSet /\ c.type # "setmetadata"
      BY <1>1, <1>2, <1>5, WantedShape
    <2>2. CASE Discipline(c) \in {"sequential", "concurrent"}
      BY <1>1, <1>2, <2>1, <2>2, WantedShape DEF Lock
    <2>3. CASE Discipline(c) \in {"inode_sequential", "inode_concurrent"}
      BY <1>1, <1>2, <1>4, <1>5, <2>1, <2>3, WantedShape DEF Lock
    <2>4. QED
      BY <1>2, <2>1, <2>2, <2>3 DEF Disciplines
  <1>6. QED
    BY <1>1, <1>2, <1>3, <1>5

\* A callback that relies on its entry has it locked.
LEMMA UseLocks ==
  ASSUME rule = "kept", TableInv, RuleInv, NEW t \in Threads, NEW k \in Running(t),
         NEW c, c = stack[t][k], c.ent # None, Use(c) # "none"
  PROVE  \E l \in c.locks : /\ l.kind = "entry" /\ l.of = c.ent
                            /\ Use(c) = "write" => l.mode = "write"
  <1>1. /\ k \in DOMAIN stack[t] /\ c.at = "run" /\ c \in Frame
        /\ Discipline(c) \in Disciplines /\ Discipline(c) \in Allowed(c.type)
        /\ c.slot \in Nat
    BY WantedKinds DEF Running
  <1>2. c.locks = Expected(c)
    BY <1>1 DEF RuleInv, LocksExact
  <1>3. CASE c.type \in {"rename", "setmetadata", "setxattr", "getxattr"}
    <2>1. /\ Keeps(c.type) /\ CallerLock(c) # None /\ CallerLock(c).kind = "entry"
          /\ CallerLock(c).of = c.ent
          /\ CallerLock(c).mode = IF c.type = "getxattr" THEN "read" ELSE "write"
      BY <1>1, <1>3, CallerLockShape DEF Keeps
    <2>2. CallerLock(c) \in c.locks
      BY <1>1, <1>2, <2>1 DEF Expected, Taken
    <2>3. Use(c) = "write" => c.type # "getxattr"
      BY <1>1 DEF Use, Allowed, WaitsForItself
    <2>4. QED
      BY <2>1, <2>2, <2>3
  <1>4. CASE c.type \notin {"rename", "setmetadata", "setxattr", "getxattr"}
    <2>1. CASE Discipline(c) = "inode_sequential"
      <3>1. Wanted(c) = Lock("entry", c.ent, "write") /\ Wanted(c) # None
        BY <1>1, <1>4, <2>1, WantedShape
      <3>2. QED
        BY <1>1, <1>2, <3>1 DEF Expected, Taken, Lock
    <2>2. CASE Discipline(c) = "inode_concurrent"
      <3>1. Wanted(c) = Lock("entry", c.ent, "read") /\ Wanted(c) # None
        BY <1>1, <1>4, <2>2, WantedShape
      <3>2. Use(c) = "read"
        BY <1>4, <2>2 DEF Use
      <3>3. QED
        BY <1>1, <1>2, <3>1, <3>2 DEF Expected, Taken, Lock
    <2>3. QED
      BY <1>4, <2>1, <2>2 DEF Use
  <1>5. QED
    BY <1>3, <1>4

\* Callbacks that exclude each other do not overlap, nested calls and calls of
\* other types included, as long as every call has kept to the rule.
THEOREM CallbacksSerialized == Spec => []Serialized
  <1>1. TableInv /\ (rule = "kept" => RuleInv) => Serialized
    <2> SUFFICES ASSUME rule = "kept", TableInv, RuleInv,
                        NEW t \in Threads, NEW u \in Threads,
                        NEW j \in Running(t), NEW k \in Running(u), <<t, j>> # <<u, k>>,
                        Exclude(stack[t][j], stack[u][k])
                 PROVE  FALSE
      BY DEF Serialized
    <2>1. PICK c : c = stack[t][j]
      OBVIOUS
    <2>2. PICK d : d = stack[u][k]
      OBVIOUS
    <2>3. /\ j \in DOMAIN stack[t] /\ k \in DOMAIN stack[u] /\ c.at = "run" /\ d.at = "run"
          /\ c.locks = Expected(c) /\ d.locks = Expected(d)
          /\ \A l \in c.locks, h \in d.locks : ~Conflict(l, h)
      BY <2>1, <2>2 DEF Running, RuleInv, LocksExact, LocksApart
    <2>4. CASE c.type = d.type /\ c.slot = d.slot /\ Discipline(c) = "sequential"
      <3>1. c \in Frame /\ d \in Frame /\ c.slot \in Nat /\ Discipline(c) \in Allowed(c.type)
        BY <2>1, <2>2, <2>3, WantedKinds
      <3>2. c.type # "setmetadata" /\ Discipline(d) = "sequential"
        BY <2>4, <3>1 DEF Allowed, Accepted, Discipline
      <3>3. "sequential" \in Disciplines
        BY DEF Disciplines
      <3>4. /\ Wanted(c) = Lock(c.type, c.slot, "write") /\ Wanted(c) # None
            /\ Wanted(d) = Lock(c.type, c.slot, "write") /\ Wanted(d) # None
        BY <2>4, <3>1, <3>2, <3>3, WantedShape
      <3>5. Wanted(c) \in c.locks /\ Wanted(d) \in d.locks
        BY <2>3, <3>4 DEF Expected, Taken
      <3>6. QED
        BY <2>3, <3>4, <3>5 DEF Conflict, Same, Lock
    <2>5. CASE c.ent = d.ent /\ c.ent # None /\ Use(c) = "write" /\ Use(d) # "none"
      <3>1. PICK l \in c.locks : l.kind = "entry" /\ l.of = c.ent /\ l.mode = "write"
        BY <2>1, <2>5, UseLocks
      <3>2. PICK h \in d.locks : h.kind = "entry" /\ h.of = d.ent
        BY <2>2, <2>5, UseLocks
      <3>3. QED
        BY <2>3, <2>5, <3>1, <3>2 DEF Conflict, Same
    <2>6. QED
      BY <2>1, <2>2, <2>4, <2>5 DEF Exclude
  <1>2. QED
    BY <1>1, Invariance, PTL

(***************************************************************************)
(* Who waits for whom.                                                     *)
(***************************************************************************)

LastRank == 2 * MaxRoutes + MaxEntries

\* A lock of a route is held, or asked for, by calls of that route.
OfRoute(l, c) ==
  l.kind # "entry" =>
    /\ l.kind = c.type /\ l.of = c.slot
    /\ l.mode = IF Discipline(c) = "sequential" THEN "write" ELSE "read"

LEMMA HeldLock ==
  ASSUME TableInv, RuleInv, NEW t \in Threads, NEW k \in DOMAIN stack[t],
         NEW h \in stack[t][k].locks
  PROVE  h \in LockSet /\ OfRoute(h, stack[t][k])
  <1>1. PICK c : c = stack[t][k]
    OBVIOUS
  <1>2. c \in Frame /\ c.locks = Expected(c)
    BY <1>1, StackFacts DEF TableInv, RuleInv, LocksExact
  <1>3. c.at \in {"enter", "run"}
    BY <1>1, <1>2 DEF Expected
  <1>4. CASE h = CallerLock(c) /\ h # None
    BY <1>1, <1>2, <1>4, CallerLockShape DEF OfRoute
  <1>5. CASE h = Wanted(c) /\ h # None
    BY <1>1, <1>3, <1>5, WantedKinds DEF OfRoute
  <1>6. QED
    BY <1>1, <1>2, <1>4, <1>5 DEF Expected, Taken

\* The lock that a thread asks for: its place in the order, and that it comes after
\* every lock that the thread holds.
LEMMA PendingLock ==
  ASSUME TableInv, RuleInv, NEW t \in Threads, stack[t] # <<>>,
         NEW l, l = Pending(Top(t)), l # None, ~Refused(t, l)
  PROVE  /\ l \in LockSet /\ OfRoute(l, Top(t))
         /\ Rank(l) \in 0 .. LastRank
         /\ \A h \in Held(t) : Before(h, l)
  <1> DEFINE n == Len(stack[t])
  <1>1. PICK c : c = Top(t)
    OBVIOUS
  <1>2. c \in Frame /\ n \in DOMAIN stack[t] /\ c = stack[t][n] /\ DOMAIN stack[t] = 1 .. n /\ n \in Nat
    BY <1>1, StackFacts DEF TableInv
  <1>3. MaxRoutes \in Nat /\ MaxEntries \in Nat /\ LastRank = 2 * MaxRoutes + MaxEntries
    BY RoutesAssumption DEF LastRank
  <1>4. CASE c.at = "enter"
    <2>1. l = Wanted(c)
      BY <1>1, <1>4 DEF Pending
    <2>2. /\ c.slot \in 1 .. MaxRoutes /\ l \in LockSet
          /\ \/ l.kind = "entry" /\ l.of = c.ent /\ c.ent \in Entries
             \/ /\ l.kind = c.type /\ l.of = c.slot
                /\ l.mode = IF Discipline(c) = "sequential" THEN "write" ELSE "read"
      BY <1>2, <1>4, <2>1, WantedKinds
    <2>3. OfRoute(l, c)
      BY <2>2 DEF OfRoute
    <2>4. Rank(l) \in 0 .. LastRank
      BY <1>3, <2>2 DEF Rank, Entries
    <2>5. \A h \in Held(t) : Before(h, l)
      BY <1>1, <1>4, <2>1 DEF RuleInv, Asked, AskedInOrder, Settled
    <2>6. QED
      BY <1>1, <2>2, <2>3, <2>4, <2>5
  <1>5. CASE c.at \in {"lock", "unref"}
    <2>1. l = CallerLock(c)
      BY <1>1, <1>5 DEF Pending
    <2>2. l \in LockSet /\ l.kind = "entry" /\ l.of = c.ent /\ c.ent \in Entries
      BY <1>2, <2>1, CallerLockShape
    <2>3. OfRoute(l, c)
      BY <2>2 DEF OfRoute
    <2>4. Rank(l) \in 0 .. LastRank
      BY <1>3, <2>2 DEF Rank, Entries
    <2>5. ASSUME NEW h \in Held(t) PROVE Before(h, l)
      <3>1. PICK k \in DOMAIN stack[t] : h \in stack[t][k].locks
        BY HeldFacts
      <3>2. c.locks = {}
        BY <1>2, <1>5 DEF RuleInv, LocksExact, Expected
      <3>3. k < n
        BY <1>2, <3>1, <3>2
      <3>4. InOrder(c, h)
        BY <1>2, <3>1, <3>3 DEF RuleInv, Ordered
      <3>5. QED
        BY <2>1, <3>4 DEF InOrder
    <2>6. QED
      BY <1>1, <2>2, <2>3, <2>4, <2>5
  <1>6. QED
    BY <1>1, <1>2, <1>4, <1>5 DEF Pending, Frame, Stages

\* Whoever waits for a waiting thread asks for a lower lock than it.
LEMMA Blocking ==
  ASSUME TableInv, RuleInv, NEW t \in Threads, NEW u \in Threads, NEW v \in Threads,
         WaitsFor(t, u), WaitsFor(u, v)
  PROVE  Rank(Pending(Top(t))) < Rank(Pending(Top(u)))
  <1>1. PICK l : l = Pending(Top(t))
    OBVIOUS
  <1>2. PICK m : m = Pending(Top(u))
    OBVIOUS
  <1>3. /\ stack[t] # <<>> /\ l # None /\ ~Refused(t, l)
        /\ stack[u] # <<>> /\ m # None /\ ~Refused(u, m)
    BY <1>1, <1>2 DEF WaitsFor
  <1>4. PICK h \in Held(u) : Conflict(l, h)
    BY <1>1 DEF WaitsFor
  <1>5. PICK g \in Held(v) : Conflict(m, g)
    BY <1>2 DEF WaitsFor
  <1>6. PICK j \in DOMAIN stack[u] : h \in stack[u][j].locks
    BY HeldFacts
  <1>7. PICK k \in DOMAIN stack[v] : g \in stack[v][k].locks
    BY HeldFacts
  <1>8. /\ l \in LockSet /\ OfRoute(l, Top(t)) /\ m \in LockSet
        /\ Before(h, m)
        /\ h \in LockSet /\ OfRoute(h, stack[u][j]) /\ g \in LockSet
    BY <1>1, <1>2, <1>3, <1>6, <1>7, PendingLock, HeldLock
  <1>9. Rank(h) = Rank(l)
    BY <1>4 DEF Conflict, Same, Rank
  <1>10. CASE Rank(h) < Rank(m)
    BY <1>1, <1>2, <1>9, <1>10
  <1>11. CASE h.kind # "entry" /\ h.mode = "read"
    <2>1. /\ l.kind = h.kind /\ l.of = h.of /\ l.mode = "write"
      BY <1>4, <1>11 DEF Conflict, Same
    <2>2. Top(t).type = stack[u][j].type /\ Top(t).slot = stack[u][j].slot
      BY <1>8, <1>11, <2>1 DEF OfRoute
    <2>3. Discipline(Top(t)) = Discipline(stack[u][j])
      BY <2>2 DEF Discipline
    <2>4. QED
      BY <1>8, <1>11, <2>1, <2>3 DEF OfRoute
  <1>12. CASE Same(h, m) /\ ~Conflict(h, m)
    <2>1. h.mode = "read" /\ m.mode = "read"
      BY <1>8, <1>12 DEF Conflict, LockSet
    <2>2. g.mode = "write" /\ Same(h, g) /\ Same(m, g)
      BY <1>5, <1>12, <2>1 DEF Conflict, Same
    <2>3. CASE u = v /\ j = k
      BY <1>3, <1>5, <2>2, <2>3 DEF Refused
    <2>4. CASE ~(u = v /\ j = k)
      <3>1. <<u, j>> # <<v, k>>
        BY <2>4
      <3>2. ~Conflict(h, g)
        BY <1>6, <1>7, <3>1 DEF RuleInv, LocksApart
      <3>3. QED
        BY <2>2, <3>2 DEF Conflict
    <2>5. QED
      BY <2>3, <2>4
  <1>13. QED
    BY <1>8, <1>10, <1>11, <1>12 DEF Before

\* Nobody waits for itself or in a circle, as long as every call has kept to the
\* rule: of those who wait, the one that asks for the highest lock waits for somebody
\* who does not.
THEOREM NobodyWaitsInCircles == Spec => []NoCircularWait
  <1>1. TableInv /\ (rule = "kept" => RuleInv) => NoCircularWait
    <2> SUFFICES ASSUME rule = "kept", TableInv, RuleInv,
                        NEW S \in (SUBSET Threads) \ {{}},
                        \A t \in S : \E u \in S : WaitsFor(t, u)
                 PROVE  FALSE
      BY DEF NoCircularWait
    <2> DEFINE rank(t) == Rank(Pending(Top(t)))
               R == {LastRank + 1 - rank(t) : t \in S}
    <2>1. LastRank \in Nat /\ LastRank + 1 \in Nat
      BY RoutesAssumption DEF LastRank
    <2>2. \A t \in S : rank(t) \in 0 .. LastRank
      BY PendingLock DEF WaitsFor
    <2>3. R \in SUBSET (1 .. LastRank + 1) /\ R # {}
      BY <2>1, <2>2
    <2>4. \E s \in R : \A o \in R : s <= o
      BY <2>1, <2>3, FirstSlot
    <2>5. PICK t \in S : \A u \in S : LastRank + 1 - rank(t) <= LastRank + 1 - rank(u)
      BY <2>4
    <2>6. PICK u \in S : WaitsFor(t, u)
      OBVIOUS
    <2>7. PICK v \in S : WaitsFor(u, v)
      OBVIOUS
    <2>8. rank(t) < rank(u)
      BY <2>6, <2>7, Blocking
    <2>9. QED
      BY <2>1, <2>2, <2>5, <2>8
  <1>2. QED
    BY <1>1, Invariance, PTL
===============================================================================
