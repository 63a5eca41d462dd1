------------------------------ MODULE DirCursor ------------------------------
(***************************************************************************)
(* Reading a directory through a handle: the handle remembers the last     *)
(* name it has read, and the directory changes between two reads and while *)
(* a read's callback runs.  Names are numbers in the order of strcmp, in   *)
(* which the directory keeps its children.                                 *)
(*                                                                         *)
(* The directory is read-locked from finding the start to remembering the  *)
(* last name, so that this is one step; the callback runs afterwards.  The *)
(* handle is used by one thread, because fskit_readdir changes it with a   *)
(* read lock only.  Reads ask for at least one entry: a read of none marks *)
(* the handle as at its end.  The directory and its parent are never       *)
(* garbage: "." and ".." are always listed.                                *)
(*                                                                         *)
(* fskit_seekdir and fskit_rewinddir walk the children with the handle's   *)
(* lock only: that others change the directory's tree meanwhile is a data  *)
(* race in the code.  Here each of them is one step, as if the directory   *)
(* were locked, and so is left out what the race does.                     *)
(***************************************************************************)
EXTENDS Integers, FiniteSets, FiniteSetsExt

CONSTANTS
  MaxName,  \* names are 1 .. MaxName
  Dots,     \* the names that are always there: "." and ".."
  Requests  \* numbers of entries that reads ask for

Names == 1 .. MaxName

ASSUME CursorAssumption ==
  /\ MaxName \in Nat
  /\ Dots \subseteq Names /\ Dots # {}
  /\ Requests \subseteq Nat \ {0}

NoName == 0

VARIABLES
  entry,    \* "none", "live" or "garbage" (deletion_in_progress) by name
  cursor,   \* curr_name
  eof,      \* eof
  told,     \* the name in telldir_list's head; {} when the list is empty
  batch,    \* what the call in progress has read; {} when there is none
  seen,     \* the names that reads have returned since the handle was
            \* opened, rewound or sought
  stable,   \* the names that have been there since then
  skipped,  \* the names that the handle has been moved past unread
  ended     \* the last read returned NULL: the end

handleVars == <<cursor, eof, told, batch>>
ghostVars  == <<seen, stable, skipped, ended>>
vars == <<entry, handleVars, ghostVars>>

Present == {n \in Names : entry[n] # "none"}
Live    == {n \in Names : entry[n] = "live"}

Init ==
  /\ entry \in [Names -> {"none", "live", "garbage"}]
  /\ Dots \subseteq Live
  /\ cursor = NoName /\ eof = FALSE /\ told = {} /\ batch = {}
  /\ seen = {} /\ stable = Live /\ skipped = {} /\ ended = FALSE

(***************************************************************************)
(* The directory, changed by others whenever it is not being read.         *)
(***************************************************************************)

Create(n) ==
  /\ entry[n] = "none"
  /\ entry' = [entry EXCEPT ![n] = "live"]
  /\ UNCHANGED <<handleVars, ghostVars>>

\* Faulty: "." and ".." can be removed.
FaultyRemove(n) ==
  /\ n \in Present
  /\ entry' = [entry EXCEPT ![n] = "none"]
  /\ stable' = stable \ {n}
  /\ UNCHANGED <<handleVars, seen, skipped, ended>>

\* Removed, or garbage collected.
Remove(n) ==
  /\ n \in Present \ Dots
  /\ entry' = [entry EXCEPT ![n] = "none"]
  /\ stable' = stable \ {n}
  /\ UNCHANGED <<handleVars, seen, skipped, ended>>

TagGarbage(n) ==
  /\ n \in Live \ Dots
  /\ entry' = [entry EXCEPT ![n] = "garbage"]
  /\ stable' = stable \ {n}
  /\ UNCHANGED <<handleVars, seen, skipped, ended>>

(***************************************************************************)
(* The handle.                                                             *)
(***************************************************************************)

After(c) == {n \in Present : n > c}

\* Faulty: a cursor whose entry is gone starts from the beginning.
FaultyFindStart ==
  IF cursor \in Present \/ After(cursor) = {} THEN cursor ELSE Min(Present)

\* fskit_readdir_find_start: the cursor's entry or, when that is gone, the
\* first one after it (the cursor stays if there is none).
FindStart ==
  IF cursor \in Present \/ After(cursor) = {} THEN cursor ELSE Min(After(cursor))

\* Faulty: also skips the first entry of a new handle.
FaultyUnread == After(FindStart)

\* What is left to read: the entries after that one, even when it is not the
\* one that was read last.
Unread == IF cursor = NoName THEN Present ELSE After(FindStart)

\* Moved past without being read, when the cursor moves from c to d.
Jumped(c, d) == {n \in Present : c < n /\ n <= d}

FirstOf(S, k) == {n \in S : Cardinality({m \in S : m <= n}) <= k}

\* Faulty: the last name is not remembered.
FaultyRemember(b) == FindStart

\* The name to resume after.
Remember(b) == Max(b)

\* fskit_readdir_lowlevel.  The call is over when there is nothing to return;
\* if that is because all that is left is garbage, all later calls are, too.
Read(k) ==
  LET listed == FirstOf(Unread \cap Live, k) IN
  /\ batch = {}
  /\ IF eof \/ listed = {}
     THEN /\ eof' = (eof \/ Unread # {})
          /\ ended' = TRUE
          /\ UNCHANGED <<cursor, batch>>
     ELSE /\ batch' = listed
          /\ cursor' = Remember(listed)
          /\ ended' = FALSE
          /\ UNCHANGED eof
  /\ skipped' = skipped \cup IF cursor = NoName THEN {} ELSE Jumped(cursor, FindStart)
  /\ UNCHANGED <<entry, told, seen, stable>>

\* fskit_readdir_itr runs out of memory: the call returns -ENOMEM, but the first
\* read of a handle has already made the first entry the last one read.
ReadFail ==
  /\ batch = {} /\ ~eof /\ Unread # {}
  /\ ended' = FALSE
  /\ IF cursor = NoName
     THEN cursor' = Min(Present) /\ skipped' = skipped \cup {Min(Present)}
     ELSE UNCHANGED <<cursor, skipped>>
  /\ UNCHANGED <<entry, eof, told, batch, seen, stable>>

\* The callback accepts what was read, perhaps leaving some of it out.
Deliver ==
  /\ batch # {} /\ batch' = {}
  /\ seen' = seen \cup batch
  /\ UNCHANGED <<entry, cursor, eof, told, stable, skipped, ended>>

\* The callback fails: the call returns its error, but the handle has moved on.
Fail ==
  /\ batch # {} /\ batch' = {}
  /\ skipped' = skipped \cup batch
  /\ UNCHANGED <<entry, cursor, eof, told, seen, stable, ended>>

Telldir ==
  /\ batch = {} /\ told' = {cursor}
  /\ UNCHANGED <<entry, cursor, eof, batch, ghostVars>>

\* The cursor is moved to c, and what is before it is not to be read; eof stays.
MoveTo(c) ==
  /\ cursor' = c
  /\ seen' = {} /\ stable' = Live /\ ended' = FALSE
  /\ skipped' = IF eof THEN Names ELSE {n \in Names : n <= c}
  /\ UNCHANGED <<entry, eof, told, batch>>

\* fskit_seekdir looks for the cursor, not for the name that was told.
Seekdir == batch = {} /\ told # {} /\ MoveTo(FindStart)

\* The first entry becomes the last one read.
Rewinddir == batch = {} /\ MoveTo(Min(Present))

ReadSome == \E k \in Requests \cup {MaxName} : Read(k)

Next ==
  \/ \E n \in Names : Create(n) \/ Remove(n) \/ TagGarbage(n)
  \/ Telldir \/ Seekdir \/ Rewinddir
  \/ ReadSome \/ ReadFail \/ Deliver \/ Fail

\* The reader reads on, memory is there again and again, and callbacks return.
Spec == Init /\ [][Next]_vars /\ SF_vars(ReadSome) /\ WF_vars(Deliver \/ Fail)

(***************************************************************************)
(* Properties.                                                             *)
(***************************************************************************)

TypeOK ==
  /\ entry \in [Names -> {"none", "live", "garbage"}] /\ Dots \subseteq Live
  /\ cursor \in {NoName} \cup Names
  /\ told \in {{}} \cup {{n} : n \in {NoName} \cup Names}
  /\ eof \in BOOLEAN /\ ended \in BOOLEAN
  /\ batch \subseteq Names /\ seen \subseteq Names
  /\ stable \subseteq Live /\ skipped \subseteq Names

\* Names come in ascending order, none twice: whatever happens to the directory
\* and to the entry at the cursor, no read returns again what an earlier one
\* returned since the handle was opened, rewound or sought.
NothingTwice ==
  /\ \A n \in batch : \A m \in seen : m < n
  /\ \A n \in seen \cup batch : n <= cursor

\* When a read says that it has reached the end, every entry that was there all
\* the time has been returned, except for the ones that the code jumps over: the
\* one after a cursor whose entry was removed; those that a failing callback was
\* given; the first one, when the first read of the handle ran out of memory; and
\* after a rewind or a seek, whatever lies behind the new cursor, and everything
\* if the handle was marked as at its end.
NothingMissed == ended => stable \subseteq seen \cup skipped

\* Reading ends, even if the directory never stops changing, unless the handle
\* is rewound again and again.
ReadingEnds == []<><<Rewinddir>>_vars \/ <>ended

\* A seek goes back to where the handle was when telldir stored the position: all
\* that was to be read then, after the name that was told, is to be read again
\* (readdir.c:393 and 419).
SeekReturns == [][Seekdir => \A n \in told \ {NoName} : After(n)' \subseteq Unread']_vars
===============================================================================
