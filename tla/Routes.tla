-------------------------------- MODULE Routes --------------------------------
(***************************************************************************)
(* The route table: its rows, the matching of a path against the row of a  *)
(* call's type, and the consistency disciplines, which are locks held      *)
(* while a route's callback runs.  Threads call routes, callbacks call     *)
(* again, and routes are declared and undeclared meanwhile.                *)
(*                                                                         *)
(* The table's lock is read-locked from the match to the end of the        *)
(* callback.  Readers never wait for a waiting writer, and a thread that   *)
(* asks for a lock that it holds exclusively gets EDEADLK; one that it     *)
(* shares and wants exclusively, it waits for, for ever.                   *)
(*                                                                         *)
(* The code accepts every call of a callback, whatever locks its thread    *)
(* holds, and some of these calls overlap or never return.  They are steps *)
(* here too: rule is "kept" as long as nobody has made one.  The rule      *)
(* (Nestable, WaitsForItself) is one that the code neither states nor      *)
(* enforces.                                                               *)
(*                                                                         *)
(* Left out: locks that a call takes besides the entry's (its ancestors',  *)
(* one after the other; the parents and the replaced entry of a rename),   *)
(* callbacks that declare or undeclare a route, which wait for themselves, *)
(* and what follows when a call unlocks a lock that its thread has lost,   *)
(* which is undefined: that call stops.                                    *)
(***************************************************************************)
EXTENDS Integers, FiniteSets, Sequences

CONSTANTS
  Threads,
  Paths,      \* paths that calls name
  MaxEntries, \* bounds the entries that calls are about; ancestors come first
  MaxRoutes,  \* bounds the slots of a row, and of two rows together
  MaxDepth,   \* bounds the calls of one thread in progress
  Mixes,      \* sets of types whose rows are looked at together
  None        \* no entry, no route, no lock

\* "sync" is called by handle with nothing locked; "stat" by path, with the
\* entry referenced but not locked, or with no entry; the others by path with
\* the entry locked.  "rename" and "setmetadata" restrict the disciplines.
AllTypes == {"sync", "stat", "rename", "setmetadata", "setxattr", "getxattr"}

Entries == 1 .. MaxEntries

ASSUME RoutesAssumption ==
  /\ IsFiniteSet(Threads) /\ IsFiniteSet(Paths)
  /\ MaxEntries \in Nat \ {0} /\ MaxRoutes \in Nat \ {0} /\ MaxDepth \in Nat \ {0}
  /\ Mixes \subseteq SUBSET AllTypes
  /\ None \notin Entries
  /\ None \notin [kind : AllTypes \cup {"entry"}, of : Nat, mode : {"read", "write"}]

VARIABLES
  table, \* the row of each type, a sequence of slots
  stack, \* the calls of each thread that are in progress, innermost last
  rule   \* history: whether the rule is "kept" or "broken"

vars == <<table, stack, rule>>

Disciplines == {"sequential", "concurrent", "inode_sequential", "inode_concurrent"}

\* Disciplines that a route of type y may be declared with.
Accepted(y) ==
  CASE y = "rename"      -> {"sequential", "concurrent"}
    [] y = "setmetadata" -> {"inode_sequential"}
    [] OTHER             -> Disciplines

\* Attributes are read with the entry read-locked: locking it exclusively then
\* waits for itself.
WaitsForItself(y, d) == y = "getxattr" /\ d = "inode_sequential"

Route == [match : (SUBSET Paths) \ {{}}, disc : Disciplines]

NoRoutes == [y \in DOMAIN table |-> <<>>]

Idle == [t \in Threads |-> <<>>]

Init ==
  /\ \E mix \in Mixes : table = [y \in mix |-> <<>>]
  /\ stack = Idle
  /\ rule = "kept"

(***************************************************************************)
(* Locks.                                                                  *)
(***************************************************************************)

\* Lock of an entry, or of a route by its type and slot.
Lock(k, x, m) == [kind |-> k, of |-> x, mode |-> m]

\* Callers that keep the entry locked while the route is called.
Keeps(y) == y \notin {"sync", "stat"}

\* How the caller of the route locks the entry of call c.
CallerLock(c) ==
  IF c.type = "sync" \/ c.ent = None THEN None
  ELSE Lock("entry", c.ent, IF c.type = "getxattr" THEN "read" ELSE "write")

Discipline(c) == table[c.type][c.slot].disc

\* Faulty: routes are locked in the same way by both disciplines.
FaultyWanted(c) ==
  IF c.type = "setmetadata" THEN None
  ELSE IF Discipline(c) \in {"sequential", "concurrent"} THEN Lock(c.type, c.slot, "read")
  ELSE IF c.ent = None THEN None
  ELSE Lock("entry", c.ent, IF Discipline(c) = "inode_sequential" THEN "write" ELSE "read")

\* The lock that the discipline asks for around the callback of call c.
Wanted(c) ==
  LET mode == IF Discipline(c) \in {"sequential", "inode_sequential"} THEN "write" ELSE "read"
  IN  IF c.type = "setmetadata" THEN None
      ELSE IF Discipline(c) \in {"sequential", "concurrent"} THEN Lock(c.type, c.slot, mode)
      ELSE IF c.ent = None THEN None
      ELSE Lock("entry", c.ent, mode)

CallsOf(t) == {stack[t][k] : k \in DOMAIN stack[t]}

Top(t) == stack[t][Len(stack[t])]

\* Locks that thread t holds.
Held(t) == UNION {c.locks : c \in CallsOf(t)}

Same(l, h) == l.kind = h.kind /\ l.of = h.of

Conflict(l, h) == Same(l, h) /\ "write" \in {l.mode, h.mode}

Free(l) == l # None => \A u \in Threads : \A h \in Held(u) : ~Conflict(l, h)

\* Faulty: locks that do not detect their owner.
FaultyRefused(t, l) == FALSE

\* EDEADLK: the thread has locked it exclusively.
Refused(t, l) == l # None /\ \E h \in Held(t) : Same(l, h) /\ h.mode = "write"

\* Faulty: an entry that is not there is locked too.
FaultyTaken(l) == {l}

Taken(l) == {l} \ {None}

(***************************************************************************)
(* The table.                                                              *)
(***************************************************************************)

\* Thread t write-locks the table.
TableLocked(t) == \A u \in Threads : \A c \in CallsOf(u) : c.at \notin {"enter", "run"}

Holes(y) == {s \in DOMAIN table[y] : table[y][s] = None}

\* fskit_route_table_insert: the first hole is filled, or the row grows.
Inserted(y, r) ==
  IF Holes(y) = {} THEN Append(table[y], r)
  ELSE [table[y] EXCEPT ![CHOOSE s \in Holes(y) : \A h \in Holes(y) : s <= h] = r]

\* fskit_route_table_remove: leaves a hole; a row of holes is freed.
Removed(y, s) ==
  IF DOMAIN table[y] \ Holes(y) = {s} THEN <<>> ELSE [table[y] EXCEPT ![s] = None]

Declare(t) ==
  /\ TableLocked(t)
  /\ \E y \in DOMAIN table, r \in Route :
       /\ r.disc \in Accepted(y)
       /\ Len(Inserted(y, r)) <= MaxRoutes
       /\ \A z \in DOMAIN table \ {y} : Len(table[z]) + Len(Inserted(y, r)) <= MaxRoutes
       /\ table' = [table EXCEPT ![y] = Inserted(y, r)]
       /\ rule' = IF WaitsForItself(y, r.disc) THEN "broken" ELSE rule
  /\ UNCHANGED stack

Undeclare(t) ==
  /\ TableLocked(t)
  /\ \E y \in DOMAIN table : \E s \in DOMAIN table[y] \ Holes(y) :
       table' = [table EXCEPT ![y] = Removed(y, s)]
  /\ UNCHANGED <<stack, rule>>

UndeclareAll(t) ==
  /\ TableLocked(t)
  /\ table # NoRoutes /\ table' = NoRoutes
  /\ UNCHANGED <<stack, rule>>

Matching(c) == {s \in DOMAIN table[c.type] \ Holes(c.type) : c.path \in table[c.type][s].match}

\* Faulty: the last route that matches.
FaultyMatch(c) == CHOOSE s \in Matching(c) : \A o \in Matching(c) : o <= s

\* fskit_route_match.
Match(c) == CHOOSE s \in Matching(c) : \A o \in Matching(c) : s <= o

\* The match walks over a hole, whose null pointer it follows.
MeetsHole(c) == \E h \in Holes(c.type) : \A s \in Matching(c) : h < s

Matches(c) == Matching(c) # {} /\ ~MeetsHole(c)

(***************************************************************************)
(* Calls.                                                                  *)
(***************************************************************************)

\* A call is about to resolve and lock its entry, then to enter its route; its
\* callback runs; a stat finally drops its reference.
Stages == {"lock", "enter", "run", "unref"}

Begun(y, p, e) ==
  [type |-> y, path |-> p, ent |-> e, slot |-> 0, at |-> "lock", locks |-> {}]

\* Call c with the route it matches.
Matched(c) == [c EXCEPT !.slot = Match(c)]

Callees(y) == IF y = "stat" THEN Entries \cup {None} ELSE Entries

\* The order in which callbacks should take locks: routes of types whose callers
\* keep nothing locked, entries, and the other routes.
Rank(l) ==
  IF l.kind = "entry" THEN MaxRoutes + l.of
  ELSE IF Keeps(l.kind) THEN MaxRoutes + MaxEntries + l.of
  ELSE l.of

\* While holding h a thread may ask for l.  A route that is shared is never
\* locked exclusively, so nobody waits for h then.
Before(h, l) ==
  \/ Rank(h) < Rank(l)
  \/ h.kind # "entry" /\ h.mode = "read"
  \/ Same(h, l) /\ ~Conflict(h, l)

Settled(t, l) == l # None /\ ~Refused(t, l) => \A h \in Held(t) : Before(h, l)

\* The rule for calls by callbacks: no path is resolved while an entry is locked,
\* and locks are asked for in order, or refused by the route.
Nestable(t, c) ==
  /\ c.type # "sync" => \A h \in Held(t) : h.kind # "entry"
  /\ CallerLock(c) # None => \A h \in Held(t) : Before(h, CallerLock(c))
  /\ Matches(c) => Settled(t, Wanted(Matched(c)))

Call(t) ==
  /\ stack[t] # <<>> => Len(stack[t]) < MaxDepth /\ Top(t).at = "run"
  /\ \E y \in DOMAIN table, p \in Paths : \E e \in Callees(y) :
       /\ stack' = [stack EXCEPT ![t] = Append(@, Begun(y, p, e))]
       /\ rule' = IF Nestable(t, Begun(y, p, e)) THEN rule ELSE "broken"
  /\ UNCHANGED table

\* The calls around the innermost one.
Outer(t) == SubSeq(stack[t], 1, Len(stack[t]) - 1)

\* Outer calls s after an unlock of entry e, which they may have locked.
Stripped(s, e) ==
  [k \in DOMAIN s |-> [s[k] EXCEPT !.locks = {l \in @ : ~Same(l, Lock("entry", e, "write"))
                                                        \/ l.mode = "read"}]]

\* The caller of the innermost call unlocks its entry.  If EDEADLK was what it
\* got for a lock (path.c:431 ignores it), this unlocks it for an outer call.
Unlocked(t) ==
  IF CallerLock(Top(t)) = None THEN Outer(t) ELSE Stripped(Outer(t), Top(t).ent)

Becomes(t, s) == stack' = [stack EXCEPT ![t] = s]

\* The call ends, or a stat whose entry is referenced goes on to unreference it.
Ends(t) ==
  Becomes(t, IF Top(t).type = "stat" /\ Top(t).ent # None
             THEN Append(Outer(t), [Top(t) EXCEPT !.slot = 0, !.at = "unref", !.locks = {}])
             ELSE Unlocked(t))

\* The caller gets its lock, or EDEADLK, which it ignores.
Locks(t) ==
  /\ stack[t] # <<>> /\ Top(t).at = "lock"
  /\ Refused(t, CallerLock(Top(t))) \/ Free(CallerLock(Top(t)))

\* The caller has locked the entry, a stat has referenced and unlocked it; the
\* table is read-locked and matched.
Resolve(t) ==
  /\ Locks(t) /\ Matches(Top(t))
  /\ LET c == [Matched(Top(t)) EXCEPT !.at = "enter"]
         l == CallerLock(Top(t))
     IN  IF ~Keeps(c.type) THEN Becomes(t, Append(Unlocked(t), c))
         ELSE Becomes(t, Append(Outer(t),
                [c EXCEPT !.locks = IF Refused(t, l) THEN {} ELSE Taken(l)]))
  /\ UNCHANGED <<table, rule>>

\* No route matches: the call goes on without a callback.
Miss(t) ==
  /\ Locks(t) /\ Matching(Top(t)) = {} /\ Holes(Top(t).type) = {}
  /\ Ends(t)
  /\ UNCHANGED <<table, rule>>

\* The process dies; what starts next begins anew.
NullRoute(t) ==
  /\ Locks(t) /\ MeetsHole(Top(t))
  /\ table' = NoRoutes /\ stack' = Idle /\ rule' = "kept"

\* fskit_route_enter has the discipline's lock: the callback runs.
Enter(t) ==
  /\ stack[t] # <<>> /\ Top(t).at = "enter"
  /\ LET l == Wanted(Top(t)) IN
       /\ ~Refused(t, l) /\ Free(l)
       /\ Becomes(t, Append(Outer(t), [Top(t) EXCEPT !.at = "run", !.locks = @ \cup Taken(l)]))
  /\ UNCHANGED <<table, rule>>

\* Faulty: tries again.
FaultySkip(t) ==
  /\ stack[t] # <<>> /\ Top(t).at = "enter"
  /\ Refused(t, Wanted(Top(t)))
  /\ UNCHANGED vars

\* The lock is the thread's own: the call returns without its callback.
Skip(t) ==
  /\ stack[t] # <<>> /\ Top(t).at = "enter"
  /\ Refused(t, Wanted(Top(t)))
  /\ Ends(t)
  /\ UNCHANGED <<table, rule>>

\* The callback returns and everything is unlocked.
Leave(t) ==
  /\ stack[t] # <<>> /\ Top(t).at = "run"
  /\ Taken(Wanted(Top(t))) \subseteq Held(t)
  /\ Keeps(Top(t).type) => CallerLock(Top(t)) \in Held(t)
  /\ Ends(t)
  /\ UNCHANGED <<table, rule>>

\* fskit_entry_unref.
Unref(t) ==
  /\ stack[t] # <<>> /\ Top(t).at = "unref"
  /\ Refused(t, CallerLock(Top(t))) \/ Free(CallerLock(Top(t)))
  /\ Becomes(t, Unlocked(t))
  /\ UNCHANGED <<table, rule>>

\* The library's part of a call.
Proceed(t) ==
  Resolve(t) \/ Miss(t) \/ NullRoute(t) \/ Enter(t) \/ Skip(t) \/ Unref(t)

Next ==
  \E t \in Threads :
    \/ Declare(t) \/ Undeclare(t) \/ UndeclareAll(t)
    \/ Call(t) \/ Resolve(t) \/ Miss(t) \/ NullRoute(t)
    \/ Enter(t) \/ Skip(t) \/ Leave(t) \/ Unref(t)

\* A callback returns after a finite number of calls of its own, and a lock that
\* is free again and again is granted.
Fairness ==
  \A t \in Threads :
    /\ SF_vars(Proceed(t))
    /\ \A k \in 1 .. MaxDepth - 1 : SF_vars(Len(stack[t]) = k /\ Leave(t))
    /\ WF_vars(Len(stack[t]) = MaxDepth /\ Leave(t))

Spec == Init /\ [][Next]_vars /\ Fairness

(***************************************************************************)
(* Properties.                                                             *)
(***************************************************************************)

LockSet == [kind : AllTypes \cup {"entry"}, of : Nat, mode : {"read", "write"}]

Frame ==
  [type : AllTypes, path : Paths, ent : Entries \cup {None}, slot : 0 .. MaxRoutes,
   at : Stages, locks : SUBSET LockSet]

TypeOK ==
  /\ DOMAIN table \in Mixes
  /\ \A y \in DOMAIN table :
       table[y] \in Seq(Route \cup {None}) /\ Len(table[y]) <= MaxRoutes
  /\ stack \in [Threads -> Seq(Frame)]
  /\ \A t \in Threads : Len(stack[t]) <= MaxDepth
  /\ rule \in {"kept", "broken"}

\* A call runs the first route of the table that matches its path (route.c:646),
\* and that route stays declared, and the first, for as long as the call is in
\* progress: nothing is freed or put before it under a callback.
RunsFirstMatch ==
  \A t \in Threads : \A c \in CallsOf(t) :
    c.at \in {"enter", "run"} =>
      LET row == table[c.type] IN
      /\ c.slot \in DOMAIN row /\ row[c.slot] # None
      /\ c.path \in row[c.slot].match
      /\ \A s \in 1 .. c.slot - 1 : row[s] # None /\ c.path \notin row[s].match

Running(t) == {k \in DOMAIN stack[t] : stack[t][k].at = "run"}

\* How the callback of call c relies on its entry: as the only one, or among
\* others that only read it.
Use(c) ==
  IF c.type \in {"rename", "setmetadata", "setxattr"} \/ Discipline(c) = "inode_sequential"
  THEN "write"
  ELSE IF c.type = "getxattr" \/ Discipline(c) = "inode_concurrent" THEN "read" ELSE "none"

\* Two callbacks that may not overlap (route.h:59-62), by their calls c and d.
Exclude(c, d) ==
  \/ c.type = d.type /\ c.slot = d.slot /\ Discipline(c) = "sequential"
  \/ c.ent = d.ent /\ c.ent # None /\ Use(c) = "write" /\ Use(d) # "none"

\* As long as the rule is kept, serialized callbacks never overlap, not even in
\* one thread: those of a sequential route, and those on one entry of which one
\* has it for itself, of whatever types: by its discipline, or because its caller
\* has locked it (the callbacks that set metadata take no lock of their own).
\* Without the rule they do overlap: a setmetadata callback that sets metadata of
\* its entry runs inside itself.
Serialized ==
  rule = "kept" => \A t, u \in Threads : \A j \in Running(t), k \in Running(u) :
    <<t, j>> # <<u, k>> => ~Exclude(stack[t][j], stack[u][k])

\* The lock that call c asks for next.
Pending(c) ==
  CASE c.at = "enter" -> Wanted(c)
    [] c.at = "run"   -> None
    [] OTHER          -> CallerLock(c)

\* Thread t waits for a lock that thread u holds; t may be u.
WaitsFor(t, u) ==
  /\ stack[t] # <<>>
  /\ LET l == Pending(Top(t)) IN
       /\ l # None /\ ~Refused(t, l)
       /\ \E h \in Held(u) : Conflict(l, h)

\* As long as the rule is kept, nobody waits for itself or in a circle, among
\* callers' locks, the disciplines' locks and those of nested calls.  Without it
\* threads do: one alone, whose callback shares an entry and wants to set one of
\* its attributes.
NoCircularWait ==
  rule = "kept" =>
    ~\E S \in (SUBSET Threads) \ {{}} : \A t \in S : \E u \in S : WaitsFor(t, u)

\* Every call returns, with its callback run, skipped or refused, if callbacks
\* return and until one breaks the rule (or the process dies, NullRoute).
CallsReturn == \A t \in Threads : stack[t] # <<>> ~> (stack[t] = <<>> \/ rule = "broken")
===============================================================================
