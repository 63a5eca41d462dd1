------------------------------ MODULE Namespace ------------------------------
(***************************************************************************)
(* The tree of an fskit filesystem under one caller at a time: creation,   *)
(* removal, links, renames between directories, recursive detach with the  *)
(* garbage it leaves behind, and the counters that decide when an entry is *)
(* freed and when a directory is empty.  InodeLife has the interleavings   *)
(* of one directory; here a call is one step and directories nest.         *)
(*                                                                         *)
(* Calls that fail without changing anything are not steps.  Special       *)
(* files and symlinks are "file".                                          *)
(*                                                                         *)
(* Hazardous names calls that the code accepts although it cannot cope     *)
(* with them; runs without them show that the rest is sound, and a run     *)
(* with one of them shows what it does.                                    *)
(***************************************************************************)
EXTENDS Integers, FiniteSets

CONSTANTS
  Entries,   \* every entry allocated at a time
  Root,      \* core->root
  Names,     \* path components
  None,      \* NULL
  MaxOpens,  \* bounds the open handles of one entry
  MaxSlip,   \* bounds how far num_children falls behind the children
  Hazardous  \* the calls of AllHazards that callers make

AllHazards ==
  {"subtree",    \* rename a directory to a place below itself
   "unlinkdir",  \* unlink a directory
   "bigdir",     \* rename a directory that counts more than two children
   "miscounted", \* rename over a directory whose num_children is wrong
   "replacein"}  \* fskit_entry_rename_in_directory to a name that is taken

ASSUME NamespaceAssumption ==
  /\ IsFiniteSet(Entries) /\ IsFiniteSet(Names)
  /\ Root \in Entries /\ None \notin Entries
  /\ MaxOpens \in Nat /\ MaxSlip \in Nat
  /\ Hazardous \subseteq AllHazards

\* struct fskit_entry: type, children, the ".." of children, num_children,
\* link_count, open_count, deletion_in_progress.
VARIABLE node

NoChildren == [n \in Names |-> None]

\* Memory that holds no entry.
Unallocated ==
  [kind |-> "none", child |-> NoChildren, up |-> None, nchild |-> 0,
   links |-> 0, opens |-> 0, garbage |-> FALSE]

Made(k, d) == [Unallocated EXCEPT !.kind = k, !.up = IF k = "dir" THEN d ELSE None]

NewRoot == [Made("dir", Root) EXCEPT !.links = 1]

Empty == [e \in Entries |-> IF e = Root THEN NewRoot ELSE Unallocated]

Init == node = Empty

(***************************************************************************)
(* The tree in a table of entries N.                                       *)
(***************************************************************************)

Children(N, d) == {N[d].child[n] : n \in Names} \ {None}

NamesOf(N, e) == {dn \in Entries \X Names : N[dn[1]].child[dn[2]] = e}

\* Everything that succ leads to from r, r included.
Closure(r, succ) ==
  LET within[k \in 0 .. Cardinality(Entries)] ==
        IF k = 0 THEN {r}
        ELSE LET S == within[k - 1] IN S \cup UNION {succ[d] : d \in S}
  IN  within[Cardinality(Entries)]

Below(N, r) == Closure(r, [d \in Entries |-> Children(N, d)])

\* What a path leads to: the walk refuses garbage, and does not survive a root
\* that is garbage (NullRoot).
Resolvable(N) ==
  IF N[Root].garbage THEN {}
  ELSE Closure(Root,
         [d \in Entries |-> {e \in Children(N, d) : ~N[e].garbage}])

Named(N, d) == Cardinality({n \in Names : N[d].child[n] # None})

\* The bound on the slips of num_children (see Collect).
Bounded(N) == \A d \in Entries : Named(N, d) - N[d].nchild <= MaxSlip

IsDir(d) == d \in Resolvable(node) /\ node[d].kind = "dir"

(***************************************************************************)
(* The pieces of entry.c that the calls are made of, as changes of N.      *)
(***************************************************************************)

\* Faulty: ".." still leads to where the directory was.
FaultyAttach(N, d, n, e) ==
  [N EXCEPT ![d].child[n] = e,
            ![d].nchild = @ + 1,
            ![e].links = IF d = e THEN @ ELSE @ + 1]

\* fskit_entry_attach_lowlevel.
Attach(N, d, n, e) ==
  [N EXCEPT ![d].child[n] = e,
            ![d].nchild = @ + 1,
            ![e].links = IF d = e THEN @ ELSE @ + 1,
            ![e].up = IF N[e].kind = "dir" THEN d ELSE @]

\* Faulty: the name goes but the entry's link count stays.
FaultyDetach(N, d, n) ==
  [N EXCEPT ![d].child[n] = None, ![d].nchild = @ - 1]

\* Faulty: the name goes but is still counted.
FaultyDetachCounted(N, d, n) ==
  LET x == N[d].child[n] IN
  [N EXCEPT ![d].child[n] = None, ![x].links = @ - 1]

\* fskit_entry_detach_lowlevel_ex.  -ENOTEMPTY leaves everything as it is;
\* num_children counts neither "." nor "..", so that the test lets a directory
\* with two children through.
Detach(N, d, n) ==
  LET x == N[d].child[n] IN
  IF x = d \/ (N[x].kind = "dir" /\ N[x].nchild > 2)
  THEN N
  ELSE [N EXCEPT ![d].child[n] = None,
                 ![d].nchild = @ - 1,
                 ![x].links = IF @ - 1 < 0 THEN 0 ELSE @ - 1]

\* fskit_entry_try_destroy_and_free.
TryDestroy(N, e) ==
  IF N[e].links <= 0 /\ N[e].opens <= 0
  THEN [N EXCEPT ![e] = Unallocated]
  ELSE N

\* fskit_entry_try_garbage_collect: when the entry is destroyed the parent's
\* num_children is decremented a second time.
Collect(N, d, n) ==
  LET x == N[d].child[n]
      D == TryDestroy(Detach(N, d, n), x)
  IN  IF D[x].kind = "none" THEN [D EXCEPT ![d].nchild = @ - 1] ELSE D

(***************************************************************************)
(* The calls.                                                              *)
(***************************************************************************)

\* What a creation under this name starts from: the name is free, or frees
\* itself because it is garbage; any other is -EEXIST.
NameFreed(d, n) ==
  IF node[d].child[n] = None THEN {node}
  ELSE IF node[node[d].child[n]].garbage THEN {Collect(node, d, n)}
  ELSE {}

\* mkdir, mknod, and creat without its handle.
Make(d, n, k) ==
  /\ IsDir(d)
  /\ \E N \in NameFreed(d, n), e \in Entries :
       /\ node[e].kind = "none"
       /\ node' = Attach([N EXCEPT ![e] = Made(k, d)], d, n, e)
  /\ Bounded(node')

\* symlink: a garbage name is taken.
Symlink(d, n) ==
  /\ IsDir(d) /\ node[d].child[n] = None
  /\ \E e \in Entries :
       /\ node[e].kind = "none"
       /\ node' = Attach([node EXCEPT ![e] = Made("file", d)], d, n, e)

\* The user's callback refuses: a garbage name is gone all the same.
MakeRefused(d, n) ==
  /\ IsDir(d) /\ node[d].child[n] # None
  /\ \E N \in NameFreed(d, n) : Bounded(N) /\ node' = N

\* link: refused for directories, which would make a cycle.
Link(e, d, n) ==
  /\ e \in Resolvable(node) /\ node[e].kind # "dir"
  /\ IsDir(d) /\ node[d].child[n] = None
  /\ node' = Attach(node, d, n, e)

\* unlink does not ask for the type of the entry.
Unlink(d, n) ==
  LET x == node[d].child[n]
      D == Detach(node, d, n)
  IN  /\ IsDir(d) /\ x # None
      /\ node[x].kind = "dir" => "unlinkdir" \in Hazardous
      /\ D # node
      /\ node' = TryDestroy(D, x)

\* Faulty: trusts num_children as unlink and rename do.
FaultyRmdir(d, n) ==
  LET x == node[d].child[n]
      D == Detach(node, d, n)
  IN  /\ IsDir(d) /\ x # None
      /\ node[x].kind = "dir"
      /\ D # node
      /\ node' = TryDestroy(D, x)

\* rmdir looks at the set of children itself.
Rmdir(d, n) ==
  LET x == node[d].child[n]
      D == Detach(node, d, n)
  IN  /\ IsDir(d) /\ x # None
      /\ node[x].kind = "dir" /\ Children(node, x) = {}
      /\ D # node
      /\ node' = TryDestroy(D, x)

\* Faulty: replaces files by directories and directories by files.
FaultyMayReplace(e, x, sameDir) ==
  x # None =>
    /\ x # e
    /\ node[x].kind = "dir" => node[x].nchild <= 0
    /\ sameDir

\* The checks of rename once both parents are locked: source e, target x.
\* Between different directories the loop check refuses every existing
\* target: no file_id is put in the set nor looked for, all are 0.
MayReplace(e, x, sameDir) ==
  x # None =>
    /\ x # e /\ node[x].kind = node[e].kind
    /\ node[x].kind = "dir" => node[x].nchild <= 0
    /\ sameDir

\* No part of the code: the renames that callers do not ask for unless Hazardous
\* says otherwise.
RenameAvoided(e, x, to) ==
  \/ "subtree" \notin Hazardous /\ to \in Below(node, e)
  \/ "bigdir" \notin Hazardous /\ node[e].kind = "dir" /\ node[e].nchild > 2
  \/ "miscounted" \notin Hazardous /\ x # None /\ node[x].nchild # Named(node, x)

\* Faulty: the entry that is replaced is never destroyed.
FaultyRename(d, n, to, m) ==
  LET e == node[d].child[n]
      x == node[to].child[m]
      D == Detach(node, d, n)
      R == IF x = None THEN D ELSE Detach(D, to, m)
  IN  /\ IsDir(d) /\ IsDir(to) /\ e # None
      /\ MayReplace(e, x, d = to)
      /\ ~RenameAvoided(e, x, to)
      /\ node' = Attach(R, to, m, e)

\* rename: detach the source, detach the target, attach the source.  That a
\* detach may refuse is not looked at.
Rename(d, n, to, m) ==
  LET e == node[d].child[n]
      x == node[to].child[m]
      D == Detach(node, d, n)
      R == IF x = None THEN D ELSE Detach(D, to, m)
      A == Attach(R, to, m, e)
  IN  /\ IsDir(d) /\ IsDir(to) /\ e # None
      /\ MayReplace(e, x, d = to)
      /\ ~RenameAvoided(e, x, to)
      /\ node' = IF x = None THEN A ELSE TryDestroy(A, x)

\* fskit_entry_rename_in_directory: no counter changes, not even that of an
\* entry that loses its name.
RenameInDirectory(d, n, m) ==
  LET e == node[d].child[n] IN
  /\ IsDir(d) /\ e # None
  /\ node[d].child[m] # None /\ m # n => "replacein" \in Hazardous
  /\ node' = [node EXCEPT ![d].child = [@ EXCEPT ![n] = None, ![m] = e]]

\* How many names e loses with the directories of the set dirs.
LosesNames(e, dirs) == Cardinality({dn \in NamesOf(node, e) : dn[1] \in dirs})

\* detach_all: e keeps its names but is garbage and empty; everything below
\* loses its names there, is garbage if it is a directory, and is destroyed
\* unless it is open or, being a file, has names elsewhere.
DetachAll(e) ==
  LET dirs == Below(node, e)
      after(x) ==
        IF x \notin dirs THEN node[x]
        ELSE [node[x] EXCEPT
                !.links = @ - LosesNames(x, dirs),
                !.child = NoChildren, !.nchild = 0,
                !.garbage = @ \/ x = e \/ node[x].kind = "dir"]
      N == [x \in Entries |-> after(x)]
  IN  /\ e \in Resolvable(node)
      /\ node' = [x \in Entries |->
           IF x \in dirs \ {e} THEN TryDestroy(N, x)[x] ELSE N[x]]

\* open and opendir, by path; and creat after Make.
Open(e) ==
  /\ e \in Resolvable(node) /\ node[e].opens < MaxOpens
  /\ node' = [node EXCEPT ![e].opens = @ + 1]

\* Faulty: a close that fails drops the reference twice.
FaultyClose(e) ==
  /\ node[e].opens > 0
  /\ node' = TryDestroy([node EXCEPT ![e].opens = @ - 2], e)

\* close and closedir: the last one destroys an entry without names.
Close(e) ==
  /\ node[e].opens > 0
  /\ node' = TryDestroy([node EXCEPT ![e].opens = @ - 1], e)

\* Shutdown: after a recursive detach of the root and the last close, the core
\* is destroyed, and may be initialized again.
Restart ==
  /\ node[Root].garbage /\ \A e \in Entries : node[e].opens = 0
  /\ node' = [node EXCEPT ![Root] = NewRoot]

\* A path is resolved when the root is garbage: fskit_core_resolve_root returns
\* NULL, which the walk dereferences.  The process dies; the next one starts anew.
NullRoot == node[Root].garbage /\ node' = Empty

Next ==
  \/ Restart \/ NullRoot
  \/ \E d \in Entries, n \in Names :
       \/ \E k \in {"file", "dir"} : Make(d, n, k)
       \/ MakeRefused(d, n) \/ Symlink(d, n)
       \/ \E e \in Entries : Link(e, d, n)
       \/ Unlink(d, n)
       \/ Rmdir(d, n)
       \/ \E m \in Names : RenameInDirectory(d, n, m)
       \/ \E to \in Entries, m \in Names : Rename(d, n, to, m)
  \/ \E e \in Entries : DetachAll(e) \/ Open(e) \/ Close(e)

Spec == Init /\ [][Next]_node

(***************************************************************************)
(* Properties.                                                             *)
(***************************************************************************)

Allocated == {e \in Entries : node[e].kind # "none"}

TypeOK ==
  node \in [Entries ->
    [kind : {"none", "file", "dir"},
     child : [Names -> Entries \cup {None}], up : Entries \cup {None},
     nchild : Int, links : Nat, opens : 0 .. MaxOpens, garbage : BOOLEAN]]

\* link_count is the number of names, in whatever directories they are, through
\* renames between directories and detached subtrees (the root counts one).
LinkCountExact ==
  \A e \in Allocated :
    node[e].links = Cardinality(NamesOf(node, e)) + (IF e = Root THEN 1 ELSE 0)

\* Directories form a tree: each has one name, ".." (fskit_entry_attach_lowlevel)
\* leads to where that name is, and going down never leads back.
TreeShape ==
  \A e \in Allocated : node[e].kind = "dir" =>
    /\ Cardinality(NamesOf(node, e)) <= 1
    /\ \A dn \in NamesOf(node, e) : node[e].up = dn[1]
    /\ \A d \in Below(node, e) : e \notin Children(node, d)

\* Nothing is lost: every entry that is still allocated can be reached from
\* the root by names or is open, so that a later call frees it.
NothingLost ==
  \A e \in Allocated : e \in Below(node, Root) \/ node[e].opens > 0

\* num_children never exceeds the children, so that a directory that is empty
\* is never refused by unlink, rename or a detach (-ENOTEMPTY).
NeverOvercounted ==
  \A d \in Allocated :
    node[d].nchild <= Named(node, d)

\* Only a recursive detach takes away a directory with something in it: after
\* any other call it is still reachable.
FullDirectoriesStay ==
  [][\A d \in Allocated :
       d \in Below(node, Root) /\ Children(node, d) # {} =>
         \/ d \in Below(node, Root)'
         \/ \E a \in Entries : d \in Below(node, a) /\ node'[a].garbage]_node

\* The application's view: entries that have names and are not garbage.
Visible(e) == node[e].kind # "none" /\ node[e].links > 0 /\ ~node[e].garbage

VisibleChild(d) ==
  [n \in Names |->
     LET e == node[d].child[n] IN
     IF Visible(d) /\ e # None /\ ~node[e].garbage THEN e ELSE None]

Seen ==
  INSTANCE FileTree WITH
    kind <- [e \in Entries |-> IF Visible(e) THEN node[e].kind ELSE "none"],
    tree <- [d \in Entries |-> VisibleChild(d)]

\* Every call changes the visible tree as a plain tree of names would change,
\* at one place, or not at all: garbage, counters and handles do not show.
ImplementsFileTree == Seen!Spec
=============================================================================
