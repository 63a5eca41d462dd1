------------------------------- MODULE FileTree -------------------------------
(***************************************************************************)
(* What an application sees of an fskit filesystem: a tree of named        *)
(* entries that calls change one at a time.  No counters, no handles, no   *)
(* garbage: an entry is there as long as a path leads to it.  Namespace    *)
(* implements this.                                                        *)
(***************************************************************************)
EXTENDS FiniteSets, Naturals

CONSTANTS
  Entries,   \* everything that may ever be in the tree
  Root,      \* the root directory
  Names,     \* path components
  None       \* no entry

VARIABLES
  kind,      \* of each entry: "file", "dir", or "none" when it is not there
  tree       \* of each directory: which entry each name leads to

vars == <<kind, tree>>

NoChildren == [n \in Names |-> None]

ChildrenIn(t, d) == {t[d][n] : n \in Names} \ {None}

\* What can be reached from r in t, r included.
From(t, r) ==
  LET within[k \in 0 .. Cardinality(Entries)] ==
        IF k = 0 THEN {r}
        ELSE LET S == within[k - 1] IN S \cup UNION {ChildrenIn(t, d) : d \in S}
  IN  within[Cardinality(Entries)]

\* The tree becomes what can still be reached in t; k tells what is what.
BecomeWithout(k, t, gone) ==
  LET left == From(t, Root) \ gone IN
  /\ kind' = [e \in Entries |-> IF e \in left THEN k[e] ELSE "none"]
  /\ tree' = [d \in Entries |-> IF d \in left THEN t[d] ELSE NoChildren]

Become(k, t) == BecomeWithout(k, t, {})

Init ==
  /\ kind = [e \in Entries |-> IF e = Root THEN "dir" ELSE "none"]
  /\ tree = [d \in Entries |-> NoChildren]

Free(d, n) == kind[d] = "dir" /\ tree[d][n] = None

\* Files, and directories that hold nothing.
Removable(e) == e # None /\ ChildrenIn(tree, e) = {}

Add(d, n, e, k) ==
  /\ Free(d, n) /\ kind[e] = "none"
  /\ Become([kind EXCEPT ![e] = k], [tree EXCEPT ![d][n] = e])

Link(e, d, n) ==
  /\ Free(d, n) /\ kind[e] = "file"
  /\ Become(kind, [tree EXCEPT ![d][n] = e])

Remove(d, n) ==
  /\ Removable(tree[d][n])
  /\ Become(kind, [tree EXCEPT ![d][n] = None])

\* rename: never below itself, and only over an entry of its own kind that
\* holds nothing.
Move(d, n, to, m) ==
  LET e == tree[d][n] IN
  /\ e # None /\ kind[to] = "dir" /\ to \notin From(tree, e)
  /\ Free(to, m) \/ (Removable(tree[to][m]) /\ kind[tree[to][m]] = kind[e])
  /\ Become(kind, [tree EXCEPT ![d][n] = None, ![to][m] = e])

\* Takes away an entry, whatever names it has, and what is only below it.
Prune(e) ==
  /\ kind[e] # "none"
  /\ BecomeWithout(kind,
       [d \in Entries |->
          IF d = e THEN NoChildren
          ELSE [n \in Names |-> IF tree[d][n] = e THEN None ELSE tree[d][n]]],
       {e})

\* A new filesystem, once the old one is gone.
Renew ==
  /\ kind[Root] = "none"
  /\ kind' = [kind EXCEPT ![Root] = "dir"]
  /\ tree' = tree

Next ==
  \/ Renew
  \/ \E d \in Entries, n \in Names :
       \/ \E e \in Entries, k \in {"file", "dir"} : Add(d, n, e, k)
       \/ \E e \in Entries : Link(e, d, n)
       \/ Remove(d, n)
       \/ \E to \in Entries, m \in Names : Move(d, n, to, m)
  \/ \E e \in Entries : Prune(e)

Spec == Init /\ [][Next]_vars
=============================================================================
