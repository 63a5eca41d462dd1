----------------------------- MODULE DetachQueue -----------------------------
(***************************************************************************)
(* fskit_detach_all: one thread empties a directory, breadth first,        *)
(* through a queue of entries that have lost their name but are still      *)
(* counted, while a second thread that was already below the directory     *)
(* goes on working there and handles are closed.  Memory may run out at    *)
(* several places, a bounded number of times, after which the caller tries *)
(* again.  Nobody opens an entry that exists: only handles of files that   *)
(* are created come to the ones that are open at the start.                *)
(*                                                                         *)
(* A step of the detaching thread handles one entry, whose lock it holds   *)
(* throughout; a directory's children are a set, since names do not        *)
(* matter here, taken in any order.                                        *)
(***************************************************************************)
EXTENDS Integers, FiniteSets, Sequences

CONSTANTS
  Dirs, Files,  \* the entries of the subtree
  Top,          \* the directory to empty
  Spare,        \* the files that the other thread may create
  None,         \* no directory
  Faults,       \* "tag", "queue": where memory may run out;
                \* "callback": FSKIT_DETACH_CTX_CB_FAIL and a failing callback
  MaxFaults,    \* bounds how often
  RetryWith     \* after -ENOMEM: "null" as documented, "same" as detach_all

Entries == Dirs \cup Files

ASSUME DetachAssumption ==
  /\ IsFiniteSet(Entries) /\ Dirs \cap Files = {}
  /\ Top \in Dirs /\ Spare \subseteq Files /\ None \notin Entries
  /\ Faults \subseteq {"tag", "queue", "callback"} /\ MaxFaults \in Nat
  /\ RetryWith \in {"null", "same"}

VARIABLES
  child,     \* children of each directory
  outside,   \* names of each entry outside the subtree
  links,     \* link_count
  opens,     \* open_count: open handles
  garbage,   \* deletion_in_progress
  gone,      \* the entries that have been freed
  fresh,     \* the entries that have not been created
  queue,     \* ctx: head ... tail
  set,       \* *dir_children, the detached children of Top
  lost,      \* children (and of whom) that nobody will queue any more,
             \* because memory ran out
  faults,    \* how often something failed
  pc,        \* where fskit_detach_all is
  walker     \* the directory that the other thread has write-locked

treeVars == <<child, outside, links, opens, garbage, gone, fresh>>
ctxVars  == <<queue, set, lost, faults, pc>>
vars == <<treeVars, ctxVars, walker>>

Occurrences(e) == Cardinality({k \in DOMAIN queue : queue[k] = e})

\* Any tree below Top, with files that have names in several directories or
\* outside, open entries, and the other thread anywhere.
Init ==
  /\ \E up \in [Dirs \ {Top} -> Dirs], in \in [Files \ Spare -> SUBSET Dirs] :
       /\ \A B \in (SUBSET (Dirs \ {Top})) \ {{}} : \E d \in B : up[d] \notin B
       /\ child = [d \in Dirs |-> {c \in Dirs \ {Top} : up[c] = d}
                                  \cup {f \in Files \ Spare : d \in in[f]}]
  /\ outside \in [Entries -> {0, 1}]
  /\ \A d \in Dirs : outside[d] = IF d = Top THEN 1 ELSE 0
  /\ \A f \in Spare : outside[f] = 0
  /\ links = [e \in Entries |-> outside[e] + Cardinality({d \in Dirs : e \in child[d]})]
  /\ \A f \in Files \ Spare : links[f] > 0
  /\ opens \in [Entries -> {0, 1}] /\ \A f \in Spare : opens[f] = 0
  /\ garbage = [e \in Entries |-> FALSE]
  /\ gone = {} /\ fresh = Spare
  /\ queue = <<>> /\ set = {} /\ lost = {} /\ faults = 0 /\ pc = "start"
  /\ walker \in Dirs \cup {None}

(***************************************************************************)
(* The detaching thread.                                                   *)
(***************************************************************************)

\* The orders in which the tree of a set may be traversed.
Orders(S) ==
  {s \in [1 .. Cardinality(S) -> S] : \A e \in S : \E k \in DOMAIN s : s[k] = e}

\* All of S is queued, or memory runs out and only a part is.
Queued(S) == {queue \o s : s \in Orders(S)}

QueuedInPart(S) ==
  {queue \o SubSeq(s, 1, k) : s \in Orders(S), k \in 0 .. Cardinality(S) - 1}

\* The children S of d that did not make it from queue into q.
Dropped(d, S, q) ==
  {d} \X {e \in S : \A k \in Len(queue) + 1 .. Len(q) : q[k] # e}

Fault(f) == f \in Faults /\ faults < MaxFaults /\ faults' = faults + 1

\* Faulty: nobody else's count keeps an entry alive.
FaultyCounts(e, l, o) ==
  /\ links' = [links EXCEPT ![e] = l]
  /\ opens' = [opens EXCEPT ![e] = o]
  /\ gone' = IF o <= 0 THEN gone \cup {e} ELSE gone

\* fskit_entry_try_destroy on e, whose counts have become l and o.
Counts(e, l, o) ==
  /\ links' = [links EXCEPT ![e] = l]
  /\ opens' = [opens EXCEPT ![e] = o]
  /\ gone' = IF l <= 0 /\ o <= 0 THEN gone \cup {e} ELSE gone

\* The directory is resolved, tagged and emptied.
Tag ==
  /\ pc = "start" /\ walker # Top
  /\ set' = child[Top]
  /\ child' = [child EXCEPT ![Top] = {}]
  /\ garbage' = [garbage EXCEPT ![Top] = TRUE]
  /\ pc' = "queue"
  /\ UNCHANGED <<outside, links, opens, gone, fresh, queue, lost, faults, walker>>

\* fskit_detach_queue_children on the caller's set, from which nothing is
\* consumed: the loop that should do so starts at the old tail and looks for
\* the names of parents.
QueueSet ==
  /\ pc = "queue"
  /\ \/ queue' \in Queued(set) /\ pc' = "loop" /\ faults' = faults
        /\ lost' = lost
     \/ /\ queue' \in QueuedInPart(set) /\ pc' = "nomem" /\ Fault("queue")
        /\ lost' = IF RetryWith = "null" THEN lost \cup Dropped(Top, set, queue') ELSE lost
  /\ UNCHANGED <<treeVars, set, walker>>

\* Faulty: calls again with the set it has queued already.
FaultyRetry ==
  /\ pc = "nomem"
  /\ pc' = "queue"
  /\ UNCHANGED <<treeVars, queue, set, lost, faults, walker>>

\* -ENOMEM: the caller calls again.
Retry ==
  /\ pc = "nomem"
  /\ pc' = IF RetryWith = "same" THEN "queue" ELSE "loop"
  /\ UNCHANGED <<treeVars, queue, set, lost, faults, walker>>

TagNoMem ==
  /\ pc = "loop" /\ queue # <<>> /\ Head(queue) # walker
  /\ Head(queue) \in Dirs
  /\ Fault("tag") /\ pc' = "nomem"
  /\ UNCHANGED <<treeVars, queue, set, lost, walker>>

\* The directory has been emptied, but some of its children are not queued.
ChildrenNoMem ==
  LET x == Head(queue) IN
  /\ pc = "loop" /\ queue # <<>> /\ x # walker
  /\ x \in Dirs /\ child[x] # {}
  /\ queue' \in QueuedInPart(child[x])
  /\ lost' = lost \cup Dropped(x, child[x], queue')
  /\ child' = [child EXCEPT ![x] = {}]
  /\ garbage' = [garbage EXCEPT ![x] = TRUE]
  /\ Fault("queue") /\ pc' = "nomem"
  /\ UNCHANGED <<outside, links, opens, gone, fresh, set, walker>>

\* Faulty: drops a second link for a file that still has another name.
FaultyDetachHead ==
  LET x == Head(queue)
      l == IF x \in Files /\ links[x] > 1 THEN links[x] - 2 ELSE links[x] - 1
  IN
  /\ pc = "loop" /\ queue # <<>> /\ x # walker
  /\ IF x \in Dirs
     THEN /\ \E q \in Queued(child[x]) : queue' = Tail(q)
          /\ child' = [child EXCEPT ![x] = {}]
          /\ garbage' = [garbage EXCEPT ![x] = TRUE]
     ELSE queue' = Tail(queue) /\ UNCHANGED <<child, garbage>>
  /\ Counts(x, l, opens[x])
  /\ UNCHANGED <<outside, fresh, set, lost, faults, pc, walker>>

\* Faulty: does not wait for the directory's lock.
FaultyDetachUnlocked ==
  LET x == Head(queue) IN
  /\ pc = "loop" /\ queue # <<>>
  /\ IF x \in Dirs
     THEN /\ \E q \in Queued(child[x]) : queue' = Tail(q)
          /\ child' = [child EXCEPT ![x] = {}]
          /\ garbage' = [garbage EXCEPT ![x] = TRUE]
     ELSE queue' = Tail(queue) /\ UNCHANGED <<child, garbage>>
  /\ Counts(x, links[x] - 1, opens[x])
  /\ UNCHANGED <<outside, fresh, set, lost, faults, pc, walker>>

\* Faulty: the children of a directory are not queued.
FaultyDetachLeaves ==
  LET x == Head(queue) IN
  /\ pc = "loop" /\ queue # <<>> /\ x # walker
  /\ queue' = Tail(queue)
  /\ IF x \in Dirs
     THEN /\ child' = [child EXCEPT ![x] = {}]
          /\ garbage' = [garbage EXCEPT ![x] = TRUE]
     ELSE UNCHANGED <<child, garbage>>
  /\ Counts(x, links[x] - 1, opens[x])
  /\ UNCHANGED <<outside, fresh, set, lost, faults, pc, walker>>

\* The head of the queue loses its link; a directory is tagged, and its
\* children follow it in the queue.
DetachHead ==
  LET x == Head(queue) IN
  /\ pc = "loop" /\ queue # <<>> /\ x # walker
  /\ IF x \in Dirs
     THEN /\ \E q \in Queued(child[x]) : queue' = Tail(q)
          /\ child' = [child EXCEPT ![x] = {}]
          /\ garbage' = [garbage EXCEPT ![x] = TRUE]
     ELSE queue' = Tail(queue) /\ UNCHANGED <<child, garbage>>
  /\ Counts(x, links[x] - 1, opens[x])
  /\ UNCHANGED <<outside, fresh, set, lost, faults, pc, walker>>

\* The destroy callback fails under FSKIT_DETACH_CTX_CB_FAIL: the entry has
\* been freed but stays at the head, and the call gives up (-EFAULT).
CallbackFails ==
  LET x == Head(queue) IN
  /\ pc = "loop" /\ queue # <<>> /\ x # walker
  /\ links[x] <= 1 /\ opens[x] = 0
  /\ IF x \in Dirs
     THEN /\ queue' \in Queued(child[x])
          /\ child' = [child EXCEPT ![x] = {}]
          /\ garbage' = [garbage EXCEPT ![x] = TRUE]
     ELSE UNCHANGED <<queue, child, garbage>>
  /\ Counts(x, links[x] - 1, opens[x])
  /\ Fault("callback") /\ pc' = "efault"
  /\ UNCHANGED <<outside, fresh, set, lost, walker>>

\* Faulty: waits for the set to be consumed.
FaultyReturn ==
  /\ pc = "loop" /\ queue = <<>> /\ set = {}
  /\ pc' = "done"
  /\ UNCHANGED <<treeVars, queue, set, lost, faults, walker>>

Return ==
  /\ pc = "loop" /\ queue = <<>>
  /\ pc' = "done"
  /\ UNCHANGED <<treeVars, queue, set, lost, faults, walker>>

Detacher ==
  Tag \/ QueueSet \/ Retry \/ TagNoMem \/ ChildrenNoMem \/ DetachHead
  \/ CallbackFails \/ Return

(***************************************************************************)
(* The rest of the program: a thread below Top that holds one directory's  *)
(* lock at a time, the closing of handles, and names outside.              *)
(***************************************************************************)

\* One step of path resolution, lock by lock.
WalkDown ==
  /\ \E d \in Dirs :
       /\ IF walker = None THEN d = Top ELSE d \in child[walker]
       /\ ~garbage[d] /\ d \notin gone
       /\ walker' = d
  /\ UNCHANGED <<treeVars, ctxVars>>

WalkLeave ==
  /\ walker # None /\ walker' = None
  /\ UNCHANGED <<treeVars, ctxVars>>

\* create, which leaves the file open, or mknod: the directory's lock is held
\* from the lookup to the attach.
WalkCreate ==
  /\ walker # None /\ walker' = None
  /\ \E f \in fresh, o \in {0, 1} :
       /\ fresh' = fresh \ {f}
       /\ child' = [child EXCEPT ![walker] = @ \cup {f}]
       /\ links' = [links EXCEPT ![f] = 1]
       /\ opens' = [opens EXCEPT ![f] = o]
  /\ UNCHANGED <<outside, garbage, gone, ctxVars>>

\* unlink or rmdir.
WalkRemove ==
  /\ walker # None /\ walker' = None
  /\ \E e \in child[walker] :
       /\ e \in Dirs => child[e] = {}
       /\ child' = [child EXCEPT ![walker] = @ \ {e}]
       /\ Counts(e, links[e] - 1, opens[e])
  /\ UNCHANGED <<outside, garbage, fresh, ctxVars>>

Close(e) ==
  /\ opens[e] > 0
  /\ Counts(e, links[e], opens[e] - 1)
  /\ UNCHANGED <<child, outside, garbage, fresh, ctxVars, walker>>

UnlinkOutside(f) ==
  /\ f \in Files /\ outside[f] > 0
  /\ outside' = [outside EXCEPT ![f] = @ - 1]
  /\ Counts(f, links[f] - 1, opens[f])
  /\ UNCHANGED <<child, garbage, fresh, ctxVars, walker>>

Others ==
  \/ WalkDown \/ WalkLeave \/ WalkCreate \/ WalkRemove
  \/ \E e \in Entries : Close(e) \/ UnlinkOutside(e)

Next == Detacher \/ Others

\* The call that holds a directory returns, and a lock that is free again and
\* again is granted.
FairSpec == Init /\ [][Next]_vars /\ SF_vars(Detacher) /\ WF_vars(WalkLeave)

(***************************************************************************)
(* Properties.                                                             *)
(***************************************************************************)

TypeOK ==
  /\ child \in [Dirs -> SUBSET Entries]
  /\ outside \in [Entries -> {0, 1}]
  /\ links \in [Entries -> Nat] /\ opens \in [Entries -> {0, 1}]
  /\ garbage \in [Entries -> BOOLEAN]
  /\ gone \subseteq Entries /\ fresh \subseteq Spare
  /\ queue \in Seq(Entries) /\ set \subseteq Entries /\ lost \subseteq Dirs \X Entries
  /\ faults \in 0 .. MaxFaults
  /\ pc \in {"start", "queue", "loop", "nomem", "efault", "done"}
  /\ walker \in Dirs \cup {None}

\* What has been detached but not yet queued, before the first call.
Pending(e) == IF pc = "queue" /\ faults = 0 /\ e \in set THEN 1 ELSE 0

\* Each place in the queue accounts for exactly one link (entry.c:664, "it was
\* detached from exactly one parent by this method"): link_count is the names
\* left plus the detaches still to be done, or never done for lack of memory.
EachLinkDetachedOnce ==
  \A e \in Entries \ gone :
    links[e] = outside[e] + Cardinality({d \in Dirs : e \in child[d]})
               + Occurrences(e) + Pending(e) + Cardinality({d \in Dirs : <<d, e>> \in lost})

\* The queue and the sets never hold an entry that was freed meanwhile, by a
\* close, by a removal of another name, or by its first place in the queue
\* (but after -EFAULT the head of the queue does).
QueueAlive ==
  /\ pc # "efault" => \A k \in DOMAIN queue : queue[k] \notin gone
  /\ pc = "queue" => set \cap gone = {}
  /\ \A d \in Dirs : child[d] \cap gone = {}

\* Garbage stays empty: the thread below cannot put anything into a directory
\* whose children have been taken away.
GarbageEmpty == \A d \in Dirs : garbage[d] => child[d] = {}

\* When the call has returned, only what is open or has a name outside is left,
\* unless children were dropped.
NothingLeft ==
  pc = "done" /\ lost = {} =>
    \A e \in Entries \ (gone \cup fresh \cup {Top}) : opens[e] > 0 \/ outside[e] > 0

\* The call returns, if memory runs out no more than MaxFaults times and the caller
\* passes NULL for dir_children whenever it calls again.  If every call runs out
\* of memory, the loop of entry.c:793 never ends.
Terminates == <>(pc \in {"done", "efault"})
=============================================================================
