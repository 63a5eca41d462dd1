------------------------- MODULE NamespaceView_proofs -------------------------
(***************************************************************************)
(* Proof that Namespace implements FileTree: through calls, garbage and    *)
(* destruction the application sees a plain tree of names that changes at  *)
(* one place at a time, or not at all.                                     *)
(***************************************************************************)
EXTENDS Namespace_proofs

(***************************************************************************)
(* What From computes in a tree t of FileTree.                             *)
(***************************************************************************)

IsTree(t) == t \in [Entries -> [Names -> Entries \cup {None}]]

Into(t) == [d \in Entries |-> Seen!ChildrenIn(t, d)]

\* w is the sequence of sets that From(t, r) computes.
Descends(w, t, r, n) ==
  w = [k \in 0 .. n |->
         IF k = 0 THEN {r}
         ELSE LET S == w[k - 1] IN S \cup UNION {Seen!ChildrenIn(t, d) : d \in S}]

\* The map of children of a tree has entries only.
LEMMA IntoFacts ==
  ASSUME NEW t, IsTree(t)
  PROVE  /\ Into(t) \in [Entries -> SUBSET Entries]
         /\ \A d \in Entries : Into(t)[d] = Seen!ChildrenIn(t, d)
         /\ \A d, e \in Entries :
              e \in Seen!ChildrenIn(t, d) <=> \E n \in Names : t[d][n] = e
  <1>1. None \notin Entries /\ \A d \in Entries, n \in Names : t[d][n] \in Entries \cup {None}
    BY NamespaceAssumption DEF IsTree
  <1>2. QED
    BY <1>1 DEF Into, Seen!ChildrenIn

\* Walking along Into(t) and descending in t are the same.
LEMMA WalkDescends ==
  ASSUME NEW n \in Nat, NEW t, NEW r, NEW w, \A k \in 0 .. n : w[k] \subseteq Entries
  PROVE  Walks(w, r, Into(t), n) <=> Descends(w, t, r, n)
  <1>1. ASSUME NEW k \in 0 .. n, k # 0
        PROVE  UNION {Into(t)[d] : d \in w[k - 1]}
                 = UNION {Seen!ChildrenIn(t, d) : d \in w[k - 1]}
    <2>1. k - 1 \in 0 .. n
      BY <1>1
    <2>2. \A d \in w[k - 1] : Into(t)[d] = Seen!ChildrenIn(t, d)
      BY <2>1 DEF Into
    <2>3. {Into(t)[d] : d \in w[k - 1]} = {Seen!ChildrenIn(t, d) : d \in w[k - 1]}
      BY <2>2
    <2>4. QED
      BY <2>3
  <1> DEFINE a == [k \in 0 .. n |-> IF k = 0 THEN {r}
                     ELSE LET S == w[k - 1] IN S \cup UNION {Into(t)[d] : d \in S}]
             b == [k \in 0 .. n |-> IF k = 0 THEN {r}
                     ELSE LET S == w[k - 1] IN S \cup UNION {Seen!ChildrenIn(t, d) : d \in S}]
  <1>2. \A k \in 0 .. n : a[k] = b[k]
    BY <1>1
  <1>3. a = b
    BY <1>2
  <1>4. QED
    BY <1>3 DEF Walks, Descends

\* A descent from an entry meets entries only.
LEMMA DescentStays ==
  ASSUME NEW n \in Nat, NEW t, IsTree(t), NEW r \in Entries, NEW w, Descends(w, t, r, n)
  PROVE  \A k \in 0 .. n : w[k] \subseteq Entries
  <1> DEFINE T == {k \in 0 .. n : w[k] \subseteq Entries}
  <1>1. 0 \in T
    <2>1. 0 \in 0 .. n
      OBVIOUS
    <2>2. w[0] = {r}
      BY <2>1 DEF Descends
    <2>3. QED
      BY <2>1, <2>2
  <1>2. ASSUME NEW k \in T, k < n
        PROVE  k + 1 \in T
    <2>1. k + 1 \in 0 .. n /\ k + 1 # 0 /\ (k + 1) - 1 = k
      BY <1>2
    <2>2. w[k + 1] = w[k] \cup UNION {Seen!ChildrenIn(t, d) : d \in w[k]}
      <3>1. w[k + 1] = LET S == w[(k + 1) - 1]
                       IN  S \cup UNION {Seen!ChildrenIn(t, d) : d \in S}
        BY <2>1 DEF Descends
      <3>2. QED
        BY <2>1, <3>1
    <2>3. \A d \in w[k] : Seen!ChildrenIn(t, d) \subseteq Entries
      BY IntoFacts
    <2>4. QED
      BY <2>1, <2>2, <2>3
  <1>3. T = 0 .. n
    <2>1. T \in SUBSET (0 .. n)
      OBVIOUS
    <2> HIDE DEF T
    <2>2. QED
      BY <1>1, <1>2, <2>1, CountUp
  <1>4. QED
    BY <1>3

\* From(t, r) is the least set that has r and the children of its members.
LEMMA FromLeast ==
  ASSUME NEW t, IsTree(t), NEW r \in Entries
  PROVE  LET C == Seen!From(t, r) IN
         /\ r \in C /\ C \subseteq Entries
         /\ \A d \in C : Seen!ChildrenIn(t, d) \subseteq C
         /\ \A S : r \in S /\ (\A d \in S \cap Entries : Seen!ChildrenIn(t, d) \subseteq S)
                     => C \subseteq S
  <1> DEFINE n == Cardinality(Entries)
             w == CHOOSE w : Descends(w, t, r, n)
  <1>1. IsFiniteSet(Entries) /\ n \in Nat
    BY NamespaceAssumption, FS_CardinalityType
  <1>2. /\ Into(t) \in [Entries -> SUBSET Entries]
        /\ \A d \in Entries : Into(t)[d] = Seen!ChildrenIn(t, d)
    BY IntoFacts
  <1>3. \E v : Descends(v, t, r, n)
    <2>1. PICK v : Walks(v, r, Into(t), n)
      BY <1>1, WalkExists
    <2>2. \A k \in 0 .. n : v[k] \subseteq Entries
      BY <1>1, <1>2, <2>1, WalkEnds
    <2> HIDE DEF n
    <2>3. Descends(v, t, r, n)
      BY <1>1, <2>1, <2>2, WalkDescends
    <2>4. QED
      BY <2>3
  <1>4. Descends(w, t, r, n)
    BY <1>3, Zenon
  <1>5. Seen!From(t, r) = w[n]
    <2>1. Seen!Cardinality(Entries) = Cardinality(Entries)
      BY Zenon DEF Seen!Cardinality, Cardinality
    <2>2. QED
      BY <2>1, Zenon DEF Seen!From, Descends
  <1> HIDE DEF w
  <1>6. Walks(w, r, Into(t), n)
    <2> HIDE DEF n
    <2>1. \A k \in 0 .. n : w[k] \subseteq Entries
      BY <1>1, <1>4, DescentStays
    <2>2. QED
      BY <1>1, <1>4, <2>1, WalkDescends
  <1> DEFINE C == w[n]
  <1>7. /\ r \in C /\ C \subseteq Entries
        /\ \A d \in C : Into(t)[d] \subseteq C
        /\ \A S : r \in S /\ (\A d \in S \cap Entries : Into(t)[d] \subseteq S) => C \subseteq S
    BY <1>1, <1>2, <1>6, WalkEnds
  <1> HIDE DEF C, n
  <1>8. C = Seen!From(t, r)
    BY <1>5 DEF C
  <1>9. \A d \in C : Seen!ChildrenIn(t, d) \subseteq C
    BY <1>2, <1>7
  <1>10. ASSUME NEW S, r \in S, \A d \in S \cap Entries : Seen!ChildrenIn(t, d) \subseteq S
         PROVE  C \subseteq S
    <2>1. \A d \in S \cap Entries : Into(t)[d] \subseteq S
      BY <1>2, <1>10
    <2>2. QED
      BY <1>7, <1>10, <2>1
  <1>11. QED
    BY <1>7, <1>8, <1>9, <1>10

(***************************************************************************)
(* What the application sees of a table N of entries.                      *)
(***************************************************************************)

Shown(N, e) == N[e].kind # "none" /\ N[e].links > 0 /\ ~N[e].garbage

Leads(N, d, n) ==
  IF N[d].child[n] # None /\ ~N[N[d].child[n]].garbage THEN N[d].child[n] ELSE None

ShownKind(N) == [e \in Entries |-> IF Shown(N, e) THEN N[e].kind ELSE "none"]

ShownTree(N) ==
  [d \in Entries |-> [n \in Names |-> IF Shown(N, d) THEN Leads(N, d, n) ELSE None]]

\* The view of the refinement mapping is that of the table node ...
LEMMA SeenView ==
  /\ [e \in Entries |-> IF Visible(e) THEN node[e].kind ELSE "none"] = ShownKind(node)
  /\ [d \in Entries |-> VisibleChild(d)] = ShownTree(node)
  <1>1. \A e : Visible(e) <=> Shown(node, e)
    BY DEF Visible, Shown
  <1>2. \A e : (IF Visible(e) THEN node[e].kind ELSE "none")
                 = (IF Shown(node, e) THEN node[e].kind ELSE "none")
    BY <1>1
  <1>3. ASSUME NEW d
        PROVE  VisibleChild(d) = [n \in Names |-> IF Shown(node, d) THEN Leads(node, d, n) ELSE None]
    BY <1>1 DEF VisibleChild, Leads
  <1>4. QED
    BY <1>2, <1>3 DEF ShownKind, ShownTree

\* ... and after a step that of its next value.
LEMMA SeenNext ==
  /\ [e \in Entries |-> IF Visible(e) THEN node[e].kind ELSE "none"]' = ShownKind(node')
  /\ [d \in Entries |-> VisibleChild(d)]' = ShownTree(node')
  <1>1. \A e : Visible(e)' <=> Shown(node', e)
    BY DEF Visible, Shown
  <1>2. \A e : (IF Visible(e)' THEN node'[e].kind ELSE "none")
                 = (IF Shown(node', e) THEN node'[e].kind ELSE "none")
    BY <1>1
  <1>3. ASSUME NEW d
        PROVE  VisibleChild(d)' = [n \in Names |-> IF Shown(node', d) THEN Leads(node', d, n) ELSE None]
    BY <1>1 DEF VisibleChild, Leads
  <1>4. QED
    BY <1>2, <1>3 DEF ShownKind, ShownTree

\* An entry shows if it is not garbage and has a name or is the root; what has
\* children shows.
LEMMA ShownFacts ==
  ASSUME NEW N, Good(N, {})
  PROVE  /\ \A e \in Entries :
              Shown(N, e) <=> ~N[e].garbage /\ (e = Root \/ NamesOf(N, e) # {})
         /\ \A d \in Entries, n \in Names :
              N[d].child[n] # None => Shown(N, d) /\ N[d].kind = "dir"
         /\ \A d \in Entries, n \in Names :
              Leads(N, d, n) # None => Leads(N, d, n) \in Entries /\ Shown(N, Leads(N, d, n))
  <1>1. /\ Typed(N) /\ Blank(N) /\ Proper(N) /\ LinksExact(N) /\ Orphans(N, {})
        /\ Root \in Entries /\ None \notin Entries
    BY NamespaceAssumption DEF Good
  <1>2. ASSUME NEW e \in Entries
        PROVE  Shown(N, e) <=> ~N[e].garbage /\ (e = Root \/ NamesOf(N, e) # {})
    <2>1. Cardinality(NamesOf(N, e)) \in Nat /\ IsFiniteSet(NamesOf(N, e))
      BY NamesFinite
    <2>2. Cardinality(NamesOf(N, e)) = 0 <=> NamesOf(N, e) = {}
      BY <2>1, FS_EmptySet
    <2>3. N[e].kind # "none" =>
            N[e].links = Cardinality(NamesOf(N, e)) + (IF e = Root THEN 1 ELSE 0)
      BY <1>1 DEF LinksExact
    <2>4. N[e].kind = "none" => e # Root /\ NamesOf(N, e) = {}
      BY BlankTrees
    <2>5. QED
      BY <2>1, <2>2, <2>3, <2>4 DEF Shown
  <1>3. ASSUME NEW d \in Entries, NEW n \in Names, N[d].child[n] # None
        PROVE  Shown(N, d) /\ N[d].kind = "dir"
    <2>1. N[d].kind = "dir" /\ ~N[d].garbage
      BY <1>1, <1>3 DEF Proper
    <2>2. Children(N, d) # {}
      BY <1>3 DEF Children
    <2>3. d = Root \/ NamesOf(N, d) # {}
      BY <1>1, <2>2 DEF Orphans
    <2>4. QED
      BY <1>2, <2>1, <2>3
  <1>4. ASSUME NEW d \in Entries, NEW n \in Names, Leads(N, d, n) # None
        PROVE  Leads(N, d, n) \in Entries /\ Shown(N, Leads(N, d, n))
    <2>1. /\ Leads(N, d, n) = N[d].child[n] /\ N[d].child[n] # None
          /\ ~N[N[d].child[n]].garbage
      BY <1>4 DEF Leads
    <2>2. N[d].child[n] \in Entries
      BY <1>1, <2>1, ChildFacts
    <2>3. NamesOf(N, N[d].child[n]) # {}
      BY <1>1, <2>2, ChildFacts
    <2>4. QED
      BY <1>2, <2>1, <2>2, <2>3
  <1>5. QED
    BY <1>2, <1>3, <1>4

\* What the view says of each entry and each name.
LEMMA ViewFacts ==
  ASSUME NEW N, Good(N, {})
  PROVE  /\ IsTree(ShownTree(N))
         /\ \A d \in Entries, n \in Names : ShownTree(N)[d][n] = Leads(N, d, n)
         /\ \A e \in Entries : ShownKind(N)[e] = IF Shown(N, e) THEN N[e].kind ELSE "none"
         /\ \A e \in Entries : ShownKind(N)[e] # "none" <=> Shown(N, e)
         /\ \A e \in Entries : Children(N, e) = {} => Seen!ChildrenIn(ShownTree(N), e) = {}
  <1>1. Typed(N)
    BY DEF Good
  <1>2. \A d \in Entries, n \in Names : Leads(N, d, n) \in Entries \cup {None}
    BY ShownFacts
  <1>3. IsTree(ShownTree(N))
    BY <1>2 DEF IsTree, ShownTree
  <1>4. ASSUME NEW d \in Entries, NEW n \in Names
        PROVE  ShownTree(N)[d][n] = Leads(N, d, n)
    <2>1. ~Shown(N, d) => N[d].child[n] = None
      BY ShownFacts
    <2>2. ~Shown(N, d) => Leads(N, d, n) = None
      BY <2>1 DEF Leads
    <2>3. ShownTree(N)[d] = [k \in Names |-> IF Shown(N, d) THEN Leads(N, d, k) ELSE None]
      BY DEF ShownTree
    <2>4. QED
      BY <2>2, <2>3
  <1>5. \A e \in Entries : ShownKind(N)[e] = IF Shown(N, e) THEN N[e].kind ELSE "none"
    BY DEF ShownKind
  <1>6. \A e \in Entries : ShownKind(N)[e] # "none" <=> Shown(N, e)
    BY <1>5 DEF Shown
  <1>7. ASSUME NEW e \in Entries, Children(N, e) = {}
        PROVE  Seen!ChildrenIn(ShownTree(N), e) = {}
    <2>1. \A n \in Names : N[e].child[n] = None
      BY <1>7 DEF Children
    <2>2. \A n \in Names : ShownTree(N)[e][n] = None
      BY <1>4, <2>1 DEF Leads
    <2>3. QED
      BY <2>2 DEF Seen!ChildrenIn
  <1>8. QED
    BY <1>3, <1>4, <1>5, <1>6, <1>7

\* What a path leads to is also below in N.
LEMMA FromBelow ==
  ASSUME NEW N, Good(N, {}), NEW e \in Entries
  PROVE  Seen!From(ShownTree(N), e) \subseteq Below(N, e)
  <1> DEFINE S == Below(N, e)
             t == ShownTree(N)
  <1>1. Typed(N) /\ IsTree(t)
    BY ViewFacts DEF Good
  <1>2. e \in S
    BY <1>1, BelowLeast
  <1>3. ASSUME NEW d \in S \cap Entries
        PROVE  Seen!ChildrenIn(t, d) \subseteq S
    <2> SUFFICES ASSUME NEW c \in Seen!ChildrenIn(t, d)
                 PROVE  c \in S
      OBVIOUS
    <2>1. PICK n \in Names : t[d][n] = c /\ c # None
      BY DEF Seen!ChildrenIn
    <2>2. Leads(N, d, n) = c
      BY <2>1, ViewFacts
    <2>3. N[d].child[n] = c
      BY <2>1, <2>2 DEF Leads
    <2>4. c \in Children(N, d)
      BY <2>1, <2>3 DEF Children
    <2>5. QED
      BY <1>1, <2>4, BelowLeast
  <1> HIDE DEF S, t
  <1>4. Seen!From(t, e) \subseteq S
    BY <1>1, <1>2, <1>3, FromLeast
  <1>5. QED
    BY <1>4 DEF S, t

(***************************************************************************)
(* When the view is what can be reached in a tree t.                       *)
(***************************************************************************)

\* On what shows in M, k and t say what M says.
Agrees(k, t, M) ==
  \A a \in Entries : Shown(M, a) =>
    k[a] = M[a].kind /\ \A n \in Names : t[a][n] = Leads(M, a, n)

\* The view of M is k and t on the set left, and blank elsewhere.
Leaves(M, k, t, left) ==
  /\ ShownKind(M) = [e \in Entries |-> IF e \in left THEN k[e] ELSE "none"]
  /\ ShownTree(M) = [d \in Entries |-> IF d \in left THEN t[d] ELSE Seen!NoChildren]

\* A view that agrees with M is that of M once cut down to what shows.
LEMMA LeavesShown ==
  ASSUME NEW M, NEW t, IsTree(t), NEW k, Agrees(k, t, M), NEW left,
         \A e \in Entries : e \in left <=> Shown(M, e)
  PROVE  Leaves(M, k, t, left)
  <1>1. \A e \in Entries : (IF Shown(M, e) THEN M[e].kind ELSE "none")
                             = (IF e \in left THEN k[e] ELSE "none")
    BY DEF Agrees
  <1>2. ASSUME NEW d \in Entries
        PROVE  [n \in Names |-> IF Shown(M, d) THEN Leads(M, d, n) ELSE None]
                 = IF d \in left THEN t[d] ELSE Seen!NoChildren
    <2>1. CASE d \in left
      <3>1. t[d] = [n \in Names |-> t[d][n]] /\ Shown(M, d)
        BY <2>1 DEF IsTree
      <3>2. \A n \in Names : t[d][n] = Leads(M, d, n)
        BY <3>1 DEF Agrees
      <3>3. QED
        BY <2>1, <3>1, <3>2
    <2>2. CASE d \notin left
      BY <2>2 DEF Seen!NoChildren
    <2>3. QED
      BY <2>1, <2>2
  <1>3. QED
    BY <1>1, <1>2 DEF Leaves, ShownKind, ShownTree

\* What shows is what can be reached: of what shows and cannot be reached, one
\* would be in nothing else of that kind, nor in anything else.
LEMMA ShownReached ==
  ASSUME NEW M, Good(M, {}), ~M[Root].garbage, NEW t, IsTree(t), NEW k, Agrees(k, t, M)
  PROVE  Seen!From(t, Root) = {e \in Entries : Shown(M, e)}
  <1> DEFINE F == Seen!From(t, Root)
             V == {e \in Entries : Shown(M, e)}
             B == V \ F
  <1>1. Root \in Entries /\ Typed(M) /\ Acyclic(M) /\ Shown(M, Root)
    BY NamespaceAssumption, ShownFacts DEF Good
  <1>2. /\ Root \in F /\ F \subseteq Entries
        /\ \A d \in F : Seen!ChildrenIn(t, d) \subseteq F
    BY <1>1, FromLeast
  <1>3. F \subseteq V
    <2>1. ASSUME NEW d \in V \cap Entries
          PROVE  Seen!ChildrenIn(t, d) \subseteq V
      <3> SUFFICES ASSUME NEW c \in Seen!ChildrenIn(t, d)
                   PROVE  c \in V
        OBVIOUS
      <3>1. PICK n \in Names : t[d][n] = c /\ c # None
        BY DEF Seen!ChildrenIn
      <3>2. Leads(M, d, n) = c
        BY <3>1 DEF Agrees
      <3>3. QED
        BY <3>1, <3>2, ShownFacts
    <2>2. Root \in V
      BY <1>1
    <2> HIDE DEF V
    <2>3. QED
      BY <1>1, <2>1, <2>2, FromLeast
  <1>4. ASSUME B # {}
        PROVE  FALSE
    <2>1. B \in (SUBSET Entries) \ {{}}
      BY <1>4
    <2>2. PICK s \in B : \A d \in B : s \notin Children(M, d)
      BY <1>1, <2>1 DEF Acyclic
    <2>3. s \in Entries /\ s # Root /\ Shown(M, s)
      BY <1>2
    <2>4. ~M[s].garbage /\ NamesOf(M, s) # {}
      BY <2>3, ShownFacts
    <2>5. PICK p : p \in NamesOf(M, s)
      BY <2>4
    <2>6. /\ p[1] \in Entries /\ p[2] \in Names /\ M[p[1]].child[p[2]] = s
          /\ s # None
      BY <2>3, <2>5, NamespaceAssumption DEF NamesOf
    <2>7. s \in Children(M, p[1]) /\ Shown(M, p[1]) /\ Leads(M, p[1], p[2]) = s
      BY <2>4, <2>6, ShownFacts DEF Children, Leads
    <2>8. p[1] \in F
      BY <2>2, <2>6, <2>7
    <2>9. t[p[1]][p[2]] = s
      BY <2>6, <2>7 DEF Agrees
    <2>10. s \in Seen!ChildrenIn(t, p[1])
      BY <2>6, <2>9 DEF Seen!ChildrenIn
    <2>11. QED
      BY <1>2, <2>8, <2>10
  <1>5. QED
    BY <1>3, <1>4

\* A tree that agrees with M becomes M's view when FileTree drops what cannot be
\* reached.
LEMMA Becomes ==
  ASSUME NEW M, Good(M, {}), ~M[Root].garbage, NEW t, IsTree(t), NEW k, Agrees(k, t, M)
  PROVE  /\ Leaves(M, k, t, Seen!From(t, Root))
         /\ \A e \in Entries : e \in Seen!From(t, Root) <=> Shown(M, e)
  <1>1. \A e \in Entries : e \in Seen!From(t, Root) <=> Shown(M, e)
    BY ShownReached
  <1>2. QED
    BY <1>1, LeavesShown

\* Nothing that shows has changed.
Looks(M, N) == ShownKind(M) = ShownKind(N) /\ ShownTree(M) = ShownTree(N)

\* Tables that show the same entries under the same names look alike.
LEMMA LooksSame ==
  ASSUME NEW M, Good(M, {}), NEW N, Good(N, {}),
         \A a \in Entries : Shown(M, a) <=> Shown(N, a),
         \A a \in Entries : Shown(M, a) => M[a].kind = N[a].kind,
         \A a \in Entries, n \in Names : Leads(M, a, n) = Leads(N, a, n)
  PROVE  Looks(M, N)
  BY DEF Looks, ShownKind, ShownTree

\* The name n in d of the tree t leads to v.
With(t, d, n, v) == [t EXCEPT ![d][n] = v]

Redirected(s, t, d, n, v) ==
  \A a \in Entries, k \in Names : s[a][k] = IF a = d /\ k = n THEN v ELSE t[a][k]

\* Redirecting one name keeps a tree a tree.
LEMMA TreeExcept ==
  ASSUME NEW t, IsTree(t), NEW d \in Entries, NEW n \in Names, NEW v \in Entries \cup {None},
         NEW s, s = With(t, d, n, v)
  PROVE  IsTree(s) /\ Redirected(s, t, d, n, v)
  <1>1. t[d] \in [Names -> Entries \cup {None}]
    BY DEF IsTree
  <1>2. s = [t EXCEPT ![d] = [t[d] EXCEPT ![n] = v]]
    BY DEF IsTree, With
  <1>3. /\ [t[d] EXCEPT ![n] = v] \in [Names -> Entries \cup {None}]
        /\ \A k \in Names : [t[d] EXCEPT ![n] = v][k] = IF k = n THEN v ELSE t[d][k]
    BY <1>1
  <1>4. QED
    BY <1>2, <1>3 DEF IsTree, Redirected

(***************************************************************************)
(* What a change of names shows.                                           *)
(***************************************************************************)

\* In N, c is what shows under a name that leads to c.
Show(N, c) == IF c # None /\ ~N[c].garbage THEN c ELSE None

\* How names show when no entry gains or loses its mark: what shows in one table
\* and has a name in the other shows there too.
LEMMA MarkedView ==
  ASSUME NEW M, Good(M, {}), NEW N, Good(N, {}), SameMarks(M, N)
  PROVE  /\ \A a \in Entries, k \in Names : Leads(M, a, k) = Show(N, M[a].child[k])
         /\ \A a \in Entries : Shown(M, a) => M[a].kind = N[a].kind /\ ~N[a].garbage
         /\ \A a \in Entries :
              Shown(M, a) /\ (a = Root \/ NamesOf(N, a) # {}) => Shown(N, a)
         /\ \A a \in Entries :
              Shown(N, a) /\ (a = Root \/ NamesOf(M, a) # {}) => Shown(M, a)
  <1>1. Typed(M) /\ None \notin Entries
    BY NamespaceAssumption DEF Good
  <1>2. ASSUME NEW a \in Entries, NEW k \in Names
        PROVE  Leads(M, a, k) = Show(N, M[a].child[k])
    <2>1. CASE M[a].child[k] = None
      BY <2>1 DEF Leads, Show
    <2>2. CASE M[a].child[k] # None
      <3>1. M[a].child[k] \in Entries /\ NamesOf(M, M[a].child[k]) # {}
        <4>1. M[a].child[k] \in Entries
          BY <1>1, <2>2, ChildFacts
        <4>2. <<a, k>> \in NamesOf(M, M[a].child[k])
          BY DEF NamesOf
        <4>3. QED
          BY <4>1, <4>2
      <3>2. M[M[a].child[k]].garbage = N[M[a].child[k]].garbage
        BY <3>1 DEF SameMarks
      <3>3. QED
        BY <3>2 DEF Leads, Show
    <2>3. QED
      BY <2>1, <2>2
  <1>3. ASSUME NEW a \in Entries, Shown(M, a)
        PROVE  M[a].kind = N[a].kind /\ ~N[a].garbage
    <2>1. ~M[a].garbage /\ (a = Root \/ NamesOf(M, a) # {})
      BY <1>3, ShownFacts
    <2>2. QED
      BY <2>1 DEF SameMarks
  <1>4. ASSUME NEW a \in Entries, Shown(M, a), a = Root \/ NamesOf(N, a) # {}
        PROVE  Shown(N, a)
    BY <1>3, <1>4, ShownFacts
  <1>5. ASSUME NEW a \in Entries, Shown(N, a), a = Root \/ NamesOf(M, a) # {}
        PROVE  Shown(M, a)
    <2>1. ~N[a].garbage
      BY <1>5, ShownFacts
    <2>2. ~M[a].garbage
      BY <1>5, <2>1 DEF SameMarks
    <2>3. QED
      BY <1>5, <2>2, ShownFacts
  <1>6. QED
    BY <1>2, <1>3, <1>4, <1>5

\* Handles and counters do not show.
LEMMA SameNamesLook ==
  ASSUME NEW M, Good(M, {}), NEW N, Good(N, {}), SameMarks(M, N), SameChildren(M, N)
  PROVE  Looks(M, N)
  <1>1. \A a \in Entries : NamesOf(M, a) = NamesOf(N, a)
    BY SameTrees
  <1>2. \A a \in Entries : Shown(M, a) <=> Shown(N, a)
    BY <1>1, MarkedView, ShownFacts
  <1>3. \A a \in Entries : Shown(M, a) => M[a].kind = N[a].kind
    BY MarkedView
  <1>4. \A a \in Entries, n \in Names : Leads(M, a, n) = Leads(N, a, n)
    BY MarkedView DEF SameChildren, Show, Leads
  <1>5. QED
    BY <1>2, <1>3, <1>4, LooksSame

\* Only garbage gets or loses a name.
LEMMA GarbageLooks ==
  ASSUME NEW M, Good(M, {}), NEW N, Good(N, {}), SameMarks(M, N),
         \A a \in Entries : ~N[a].garbage => NamesOf(M, a) = NamesOf(N, a),
         \A a \in Entries, k \in Names : Show(N, M[a].child[k]) = Show(N, N[a].child[k])
  PROVE  Looks(M, N)
  <1>1. \A a \in Entries : Shown(M, a) <=> Shown(N, a)
    BY MarkedView, ShownFacts
  <1>2. \A a \in Entries : Shown(M, a) => M[a].kind = N[a].kind
    BY MarkedView
  <1>3. \A a \in Entries, n \in Names : Leads(M, a, n) = Leads(N, a, n)
    <2>1. \A a \in Entries, n \in Names : Leads(N, a, n) = Show(N, N[a].child[n])
      BY DEF Leads, Show
    <2>2. QED
      BY <2>1, MarkedView
  <1>4. QED
    BY <1>1, <1>2, <1>3, LooksSame

\* An entry that has a name in M has one in N: the kinds agree.
LEMMA KindsAgree ==
  ASSUME NEW M, Good(M, {}), NEW N, Good(N, {}), SameMarks(M, N),
         \A a \in Entries : Shown(M, a) => a = Root \/ NamesOf(N, a) # {}
  PROVE  \A a \in Entries : Shown(M, a) => ShownKind(N)[a] = M[a].kind
  BY MarkedView, ViewFacts

\* Nor does a name of garbage that goes away.
LEMMA DroppedLooks ==
  ASSUME NEW M, Good(M, {}), NEW N, Good(N, {}), NEW d \in Entries, NEW n \in Names,
         GarbageDropped(M, N, d, n)
  PROVE  Looks(M, N)
  <1>1. /\ Typed(M) /\ Typed(N) /\ None \notin Entries /\ None \in Entries \cup {None}
        /\ SameMarks(M, N) /\ Renamed(M, N, d, n, None)
        /\ N[d].child[n] # None /\ N[N[d].child[n]].garbage
    BY NamespaceAssumption DEF Good, GarbageDropped
  <1>2. ASSUME NEW a \in Entries, ~N[a].garbage
        PROVE  NamesOf(M, a) = NamesOf(N, a)
    <2>1. NamesOf(M, a) = NamesOf(N, a) \ {<<d, n>>}
      BY <1>1, RenamedTrees
    <2>2. <<d, n>> \notin NamesOf(N, a)
      BY <1>1, <1>2 DEF NamesOf
    <2>3. QED
      BY <2>1, <2>2
  <1>3. \A a \in Entries, k \in Names : Show(N, M[a].child[k]) = Show(N, N[a].child[k])
    BY <1>1 DEF Renamed, Show
  <1>4. QED
    BY <1>1, <1>2, <1>3, GarbageLooks

(***************************************************************************)
(* Names given and taken away.                                             *)
(***************************************************************************)

\* A name is taken away, or given to what shows already.
LEMMA RenamedView ==
  ASSUME NEW M, Good(M, {}), NEW N, Good(N, {}), NEW d \in Entries, NEW n \in Names,
         NEW v \in Entries \cup {None}, v # None => Shown(N, v),
         SameMarks(M, N), Renamed(M, N, d, n, v),
         NEW t, t = With(ShownTree(N), d, n, v)
  PROVE  IsTree(t) /\ Agrees(ShownKind(N), t, M)
  <1>1. Typed(M) /\ Typed(N) /\ None \notin Entries
    BY NamespaceAssumption DEF Good
  <1>2. /\ IsTree(t)
        /\ \A a \in Entries, k \in Names :
             t[a][k] = IF a = d /\ k = n THEN v ELSE Leads(N, a, k)
    <2> DEFINE T == ShownTree(N)
    <2>1. IsTree(T) /\ \A a \in Entries, k \in Names : T[a][k] = Leads(N, a, k)
      BY ViewFacts
    <2>2. t = With(T, d, n, v)
      OBVIOUS
    <2> HIDE DEF T
    <2>3. IsTree(t) /\ Redirected(t, T, d, n, v)
      BY <1>1, <2>1, <2>2, TreeExcept
    <2>4. QED
      BY <2>1, <2>3 DEF Redirected
  <1>3. \A a \in Entries, k \in Names : Leads(M, a, k) = Show(N, M[a].child[k])
    BY MarkedView
  <1>4. Show(N, v) = v
    BY DEF Show, Shown
  <1>5. \A a \in Entries, k \in Names : t[a][k] = Leads(M, a, k)
    BY <1>2, <1>3, <1>4 DEF Renamed, Show, Leads
  <1>6. ASSUME NEW a \in Entries, Shown(M, a)
        PROVE  a = Root \/ NamesOf(N, a) # {}
    <2>1. CASE a = v
      BY <1>1, <2>1, ShownFacts
    <2>2. CASE a # v
      <3>1. NamesOf(M, a) = NamesOf(N, a) \ {<<d, n>>}
        BY <1>1, <2>2, RenamedTrees
      <3>2. QED
        BY <1>6, <3>1, ShownFacts
    <2>3. QED
      BY <2>1, <2>2
  <1>7. \A a \in Entries : Shown(M, a) => ShownKind(N)[a] = M[a].kind
    BY <1>6, KindsAgree
  <1>8. QED
    BY <1>2, <1>5, <1>7 DEF Agrees

\* Outside DetachAll the root stays what it is.
LEMMA RootStays ==
  ASSUME NEW M, NEW N, SameMarks(M, N), ~N[Root].garbage
  PROVE  ~M[Root].garbage
  BY NamespaceAssumption DEF SameMarks

\* Tables that look alike are a stutter of FileTree.
LEMMA SeenStays ==
  ASSUME Looks(node', node)
  PROVE  UNCHANGED Seen!vars
  BY SeenView, SeenNext DEF Looks, Seen!vars

\* Taking a name away from what is empty.
LEMMA SeenRemove ==
  ASSUME Good(node', {}), Good(node, {}), NEW d \in Entries, NEW n \in Names,
         NEW t, t = With(ShownTree(node), d, n, None), IsTree(t),
         Agrees(ShownKind(node), t, node'),
         ~node'[Root].garbage, node[d].child[n] # None, ~node[node[d].child[n]].garbage,
         Children(node, node[d].child[n]) = {}
  PROVE  Seen!Remove(d, n)
  <1> DEFINE K == ShownKind(node)
             T == ShownTree(node)
             x == node[d].child[n]
  <1>1. Leaves(node', K, t, Seen!From(t, Root))
    <2> HIDE DEF K
    <2>1. QED
      BY Becomes DEF K
  <1>2. T[d][n] = x /\ x \in Entries /\ x # None
    <2>1. Leads(node, d, n) = x
      BY DEF Leads
    <2>2. T[d][n] = x
      BY <2>1, ViewFacts
    <2>3. x \in Entries
      BY LinkedChild
    <2>4. QED
      BY <2>2, <2>3
  <1>3. Seen!ChildrenIn(T, x) = {}
    BY <1>2, ViewFacts
  <1>4. T[d][n] # None /\ Seen!ChildrenIn(T, T[d][n]) = {}
    BY <1>2, <1>3
  <1> HIDE DEF x
  <1>5. QED
    BY <1>1, <1>4, SeenView, SeenNext
    DEF Leaves, With, Seen!Remove, Seen!Removable, Seen!Become, Seen!BecomeWithout

\* Where a name can be given.
LEMMA SeenFree ==
  ASSUME NEW N, Good(N, {}), NEW d \in Entries, NEW n \in Names, Takes(N, d)
  PROVE  /\ ShownKind(N)[d] = "dir"
         /\ N[d].child[n] = None \/ N[N[d].child[n]].garbage => ShownTree(N)[d][n] = None
  <1>1. Shown(N, d) /\ N[d].kind = "dir"
    BY ShownFacts DEF Takes
  <1>2. ShownTree(N)[d][n] = Leads(N, d, n)
    BY ViewFacts
  <1>3. QED
    BY <1>1, <1>2, ViewFacts DEF Leads

\* A further name for a file that shows.
LEMMA SeenLink ==
  ASSUME Good(node', {}), Good(node, {}), NEW e \in Entries, NEW d \in Entries, NEW n \in Names,
         Takes(node, d), node[d].child[n] = None, Shown(node, e), node[e].kind # "dir",
         SameMarks(node', node), Renamed(node', node, d, n, e), ~node[Root].garbage
  PROVE  Seen!Link(e, d, n)
  <1> DEFINE K == ShownKind(node)
             T == ShownTree(node)
             t == With(T, d, n, e)
  <1>1. IsTree(t) /\ Agrees(K, t, node')
    BY RenamedView
  <1>2. ~node'[Root].garbage
    BY RootStays
  <1>3. Leaves(node', K, t, Seen!From(t, Root))
    <2> HIDE DEF K, t
    <2>1. QED
      BY <1>1, <1>2, Becomes
  <1>4. K[d] = "dir" /\ T[d][n] = None
    BY SeenFree
  <1>5. K[e] = "file"
    <2>1. node[e].kind \in {"none", "file", "dir"}
      BY DEF Good, Typed, Nodes
    <2>2. QED
      BY <2>1, ViewFacts DEF Shown
  <1>6. QED
    BY <1>3, <1>4, <1>5, SeenView, SeenNext
    DEF Leaves, With, Seen!Link, Seen!Free, Seen!Become, Seen!BecomeWithout

\* A new entry.
LEMMA AddedView ==
  ASSUME NEW M, Good(M, {}), NEW N, Good(N, {}), NEW d \in Entries, NEW n \in Names,
         NEW e \in Entries, N[e].kind = "none", NEW k, IsCreated(M, N, d, n, e, k),
         NEW t, t = With(ShownTree(N), d, n, e),
         NEW h, h = [ShownKind(N) EXCEPT ![e] = k]
  PROVE  IsTree(t) /\ Agrees(h, t, M)
  <1>1. /\ Typed(M) /\ Typed(N) /\ None \notin Entries
        /\ Renamed(M, N, d, n, e) /\ M[e].kind = k /\ ~M[e].garbage
        /\ \A a \in Entries \ {e} : M[a].kind = N[a].kind /\ M[a].garbage = N[a].garbage
    BY NamespaceAssumption DEF Good, IsCreated
  <1>2. /\ IsTree(t)
        /\ \A a \in Entries, j \in Names :
             t[a][j] = IF a = d /\ j = n THEN e ELSE Leads(N, a, j)
    <2> DEFINE T == ShownTree(N)
    <2>1. IsTree(T) /\ \A a \in Entries, j \in Names : T[a][j] = Leads(N, a, j)
      BY ViewFacts
    <2>2. t = With(T, d, n, e)
      OBVIOUS
    <2> HIDE DEF T
    <2>3. IsTree(t) /\ Redirected(t, T, d, n, e)
      BY <1>1, <2>1, <2>2, TreeExcept
    <2>4. QED
      BY <2>1, <2>3 DEF Redirected
  <1>3. ASSUME NEW a \in Entries, NEW j \in Names
        PROVE  t[a][j] = Leads(M, a, j)
    <2>1. CASE a = d /\ j = n
      <3>1. M[a].child[j] = e /\ e # None
        BY <1>1, <2>1 DEF Renamed
      <3>2. QED
        BY <1>1, <1>2, <2>1, <3>1 DEF Leads
    <2>2. CASE ~(a = d /\ j = n)
      <3>1. M[a].child[j] = N[a].child[j] /\ t[a][j] = Leads(N, a, j)
        BY <1>1, <1>2, <2>2 DEF Renamed
      <3>2. CASE N[a].child[j] = None
        BY <3>1, <3>2 DEF Leads
      <3>3. CASE N[a].child[j] # None
        <4>1. N[a].child[j] \in Entries \ {e}
          <5>1. N[a].child[j] \in Entries
            BY <1>1, <3>3, ChildFacts
          <5>2. N[N[a].child[j]].kind # "none"
            BY <3>3 DEF Good, Proper
          <5>3. QED
            BY <5>1, <5>2
        <4>2. QED
          BY <1>1, <3>1, <4>1 DEF Leads
      <3>4. QED
        BY <3>2, <3>3
    <2>3. QED
      BY <2>1, <2>2
  <1>4. ASSUME NEW a \in Entries, Shown(M, a)
        PROVE  h[a] = M[a].kind
    <2>1. CASE a = e
      BY <1>1, <2>1 DEF ShownKind
    <2>2. CASE a # e
      <3>1. NamesOf(M, a) = NamesOf(N, a) \ {<<d, n>>}
        BY <1>1, <2>2, RenamedTrees
      <3>2. Shown(N, a)
        BY <1>1, <1>4, <2>2, <3>1, ShownFacts
      <3>3. h[a] = ShownKind(N)[a]
        BY <2>2 DEF ShownKind
      <3>4. QED
        BY <1>1, <2>2, <3>2, <3>3, ViewFacts
    <2>3. QED
      BY <2>1, <2>2
  <1>5. QED
    BY <1>2, <1>3, <1>4 DEF Agrees

\* What a creation starts from looks like what was there.
LEMMA SeenAdd ==
  ASSUME Good(node', {}), Good(node, {}), NEW N, Good(N, {}), Looks(N, node),
         NEW d \in Entries, NEW n \in Names, NEW e \in Entries, NEW k,
         Takes(N, d), N[d].child[n] = None, N[e].kind = "none",
         IsCreated(node', N, d, n, e, k), ~node[Root].garbage
  PROVE  Seen!Add(d, n, e, k)
  <1> DEFINE K == ShownKind(N)
             T == ShownTree(N)
             t == With(T, d, n, e)
             h == [K EXCEPT ![e] = k]
  <1>1. IsTree(t) /\ Agrees(h, t, node')
    BY AddedView
  <1>2. ~node'[Root].garbage
    <2>1. Root \in Entries /\ Root # e
      BY NamespaceAssumption, BlankTrees
    <2>2. Shown(N, Root)
      <3>1. Shown(node, Root)
        BY <2>1, ShownFacts
      <3>2. ShownKind(node)[Root] # "none"
        BY <2>1, <3>1, ViewFacts
      <3>3. QED
        BY <2>1, <3>2, ViewFacts DEF Looks
    <2>3. QED
      BY <2>1, <2>2 DEF IsCreated, Shown
  <1>3. Leaves(node', h, t, Seen!From(t, Root))
    <2> HIDE DEF h, t
    <2>1. QED
      BY <1>1, <1>2, Becomes
  <1>4. K[d] = "dir" /\ T[d][n] = None
    BY SeenFree
  <1>5. K[e] = "none"
    BY ViewFacts
  <1>6. K = ShownKind(node) /\ T = ShownTree(node)
    BY DEF Looks
  <1> DEFINE P == ShownKind(node)
             Q == ShownTree(node)
             q == With(Q, d, n, e)
  <1>7. Leaves(node', [P EXCEPT ![e] = k], q, Seen!From(q, Root))
    BY <1>3, <1>6, Zenon
  <1>8. P[d] = "dir" /\ Q[d][n] = None /\ P[e] = "none"
    BY <1>4, <1>5, <1>6
  <1> HIDE DEF K, T, t, h
  <1>9. QED
    BY <1>7, <1>8, SeenView, SeenNext
    DEF Leaves, With, Seen!Add, Seen!Free, Seen!Become, Seen!BecomeWithout

(***************************************************************************)
(* Renames.                                                                *)
(***************************************************************************)

\* The entry e of d goes to a place that is not below it; what is there holds
\* nothing and is of its kind.
MayMove(N, d, n, to, m) ==
  LET e == N[d].child[n]
      x == N[to].child[m]
  IN  /\ <<d, n>> # <<to, m>> /\ e # None /\ Takes(N, to) /\ to \notin Below(N, e)
      /\ x # None => x # e /\ N[x].kind = N[e].kind /\ Children(N, x) = {}

\* A move takes a name from nothing but what it moves and what it moves onto.
LEMMA MovedNames ==
  ASSUME NEW M, Good(M, {}), NEW N, Good(N, {}), NEW d \in Entries, NEW n \in Names,
         NEW to \in Entries, NEW m \in Names, Moved(M, N, d, n, to, m)
  PROVE  /\ \A a \in Entries : NamesOf(M, a) # {} => NamesOf(N, a) # {}
         /\ \A a \in Entries : a # N[d].child[n] /\ a # N[to].child[m] =>
              NamesOf(M, a) = NamesOf(N, a)
  <1>1. None \notin Entries
    BY NamespaceAssumption
  <1>2. ASSUME NEW a \in Entries, NEW p \in NamesOf(M, a)
        PROVE  NamesOf(N, a) # {}
    <2>1. /\ p[1] \in Entries /\ p[2] \in Names /\ M[p[1]].child[p[2]] = a
          /\ p = <<p[1], p[2]>>
      BY DEF NamesOf
    <2>2. CASE a = N[d].child[n]
      <3>1. <<d, n>> \in NamesOf(N, a)
        BY <2>2 DEF NamesOf
      <3>2. QED
        BY <3>1
    <2>3. CASE a # N[d].child[n]
      <3>1. N[p[1]].child[p[2]] = a
        BY <1>1, <2>1, <2>3 DEF Moved
      <3>2. p \in NamesOf(N, a)
        BY <2>1, <3>1 DEF NamesOf
      <3>3. QED
        BY <3>2
    <2>4. QED
      BY <2>2, <2>3
  <1>3. ASSUME NEW a \in Entries, a # N[d].child[n], a # N[to].child[m]
        PROVE  NamesOf(M, a) = NamesOf(N, a)
    <2>1. \A b \in Entries, k \in Names : M[b].child[k] = a <=> N[b].child[k] = a
      BY <1>1, <1>3 DEF Moved
    <2>2. \A p \in Entries \X Names : p \in NamesOf(M, a) <=> p \in NamesOf(N, a)
      BY <2>1 DEF NamesOf
    <2>3. NamesOf(M, a) \subseteq Entries \X Names /\ NamesOf(N, a) \subseteq Entries \X Names
      BY DEF NamesOf
    <2>4. QED
      BY <2>2, <2>3
  <1>4. QED
    BY <1>2, <1>3

\* Garbage moves onto nothing, or onto garbage.
LEMMA GarbageMoves ==
  ASSUME NEW M, Good(M, {}), NEW N, Good(N, {}), NEW d \in Entries, NEW n \in Names,
         NEW to \in Entries, NEW m \in Names, Moved(M, N, d, n, to, m),
         Show(N, N[d].child[n]) = None, Show(N, N[to].child[m]) = None
  PROVE  Looks(M, N)
  <1>1. None \notin Entries /\ SameMarks(M, N)
    BY NamespaceAssumption DEF Moved
  <1>2. \A a \in Entries : ~N[a].garbage => NamesOf(M, a) = NamesOf(N, a)
    <2>1. \A a \in Entries : ~N[a].garbage => a # N[d].child[n] /\ a # N[to].child[m]
      BY <1>1 DEF Show
    <2>2. QED
      BY <2>1, MovedNames
  <1>3. \A a \in Entries, k \in Names : Show(N, M[a].child[k]) = Show(N, N[a].child[k])
    <2>1. Show(N, None) = None
      BY DEF Show
    <2>2. QED
      BY <2>1 DEF Moved
  <1>4. QED
    BY <1>1, <1>2, <1>3, GarbageLooks

\* Garbage moves onto what shows: that disappears.
LEMMA MovedAway ==
  ASSUME NEW M, Good(M, {}), NEW N, Good(N, {}), NEW d \in Entries, NEW n \in Names,
         NEW to \in Entries, NEW m \in Names, Moved(M, N, d, n, to, m),
         Show(N, N[d].child[n]) = None,
         NEW t, t = With(ShownTree(N), to, m, None)
  PROVE  IsTree(t) /\ Agrees(ShownKind(N), t, M)
  <1>1. None \in Entries \cup {None} /\ SameMarks(M, N)
    BY DEF Moved
  <1>2. /\ IsTree(t)
        /\ \A a \in Entries, k \in Names :
             t[a][k] = IF a = to /\ k = m THEN None ELSE Leads(N, a, k)
    <2> DEFINE T == ShownTree(N)
    <2>1. IsTree(T) /\ \A a \in Entries, k \in Names : T[a][k] = Leads(N, a, k)
      BY ViewFacts
    <2>2. t = With(T, to, m, None)
      OBVIOUS
    <2> HIDE DEF T
    <2>3. IsTree(t) /\ Redirected(t, T, to, m, None)
      BY <1>1, <2>1, <2>2, TreeExcept
    <2>4. QED
      BY <2>1, <2>3 DEF Redirected
  <1>3. \A a \in Entries, k \in Names : t[a][k] = Leads(M, a, k)
    <2>1. \A a \in Entries, k \in Names : Leads(M, a, k) = Show(N, M[a].child[k])
      BY <1>1, MarkedView
    <2>2. Show(N, None) = None /\ \A a, k : Leads(N, a, k) = Show(N, N[a].child[k])
      BY DEF Show, Leads
    <2>3. QED
      BY <1>2, <2>1, <2>2 DEF Moved
  <1>4. \A a \in Entries : Shown(M, a) => ShownKind(N)[a] = M[a].kind
    <2>1. \A a \in Entries : Shown(M, a) => a = Root \/ NamesOf(N, a) # {}
      <3>1. \A a \in Entries : Shown(M, a) => a = Root \/ NamesOf(M, a) # {}
        BY ShownFacts
      <3>2. \A a \in Entries : NamesOf(M, a) # {} => NamesOf(N, a) # {}
        BY MovedNames
      <3>3. QED
        BY <3>1, <3>2
    <2>2. QED
      BY <1>1, <2>1, KindsAgree
  <1>5. QED
    BY <1>2, <1>3, <1>4 DEF Agrees

\* What shows moves onto anything: one name goes and another leads to it.
LEMMA MovedView ==
  ASSUME NEW M, Good(M, {}), NEW N, Good(N, {}), NEW d \in Entries, NEW n \in Names,
         NEW to \in Entries, NEW m \in Names, Moved(M, N, d, n, to, m),
         NEW e \in Entries, N[d].child[n] = e, ~N[e].garbage,
         NEW t, t = With(With(ShownTree(N), d, n, None), to, m, e)
  PROVE  IsTree(t) /\ Agrees(ShownKind(N), t, M)
  <1>1. None \in Entries \cup {None} /\ None \notin Entries /\ SameMarks(M, N)
    BY NamespaceAssumption DEF Moved
  <1>2. /\ IsTree(t)
        /\ \A a \in Entries, k \in Names :
             t[a][k] = IF a = to /\ k = m THEN e
                       ELSE IF a = d /\ k = n THEN None ELSE Leads(N, a, k)
    <2> DEFINE T == ShownTree(N)
               s == With(T, d, n, None)
    <2>1. IsTree(T) /\ \A a \in Entries, k \in Names : T[a][k] = Leads(N, a, k)
      BY ViewFacts
    <2>2. t = With(s, to, m, e)
      OBVIOUS
    <2> HIDE DEF T
    <2>3. IsTree(s) /\ Redirected(s, T, d, n, None)
      BY <1>1, <2>1, TreeExcept
    <2> HIDE DEF s
    <2>4. IsTree(t) /\ Redirected(t, s, to, m, e)
      BY <1>1, <2>2, <2>3, TreeExcept
    <2>5. QED
      BY <2>1, <2>3, <2>4 DEF Redirected
  <1>3. \A a \in Entries, k \in Names : t[a][k] = Leads(M, a, k)
    <2>1. \A a \in Entries, k \in Names : Leads(M, a, k) = Show(N, M[a].child[k])
      BY <1>1, MarkedView
    <2>2. /\ Show(N, None) = None /\ Show(N, e) = e
          /\ \A a, k : Leads(N, a, k) = Show(N, N[a].child[k])
      BY <1>1 DEF Show, Leads
    <2>3. QED
      BY <1>2, <2>1, <2>2 DEF Moved
  <1>4. \A a \in Entries : Shown(M, a) => ShownKind(N)[a] = M[a].kind
    <2>1. \A a \in Entries : Shown(M, a) => a = Root \/ NamesOf(N, a) # {}
      <3>1. \A a \in Entries : Shown(M, a) => a = Root \/ NamesOf(M, a) # {}
        BY ShownFacts
      <3>2. \A a \in Entries : NamesOf(M, a) # {} => NamesOf(N, a) # {}
        BY MovedNames
      <3>3. QED
        BY <3>1, <3>2
    <2>2. QED
      BY <1>1, <2>1, KindsAgree
  <1>5. QED
    BY <1>2, <1>3, <1>4 DEF Agrees

\* Whatever a rename moves and moves onto.
LEMMA SeenMove ==
  ASSUME Good(node', {}), Good(node, {}), NEW d \in Entries, NEW n \in Names,
         NEW to \in Entries, NEW m \in Names, MayMove(node, d, n, to, m),
         Moved(node', node, d, n, to, m), ~node[Root].garbage
  PROVE  UNCHANGED Seen!vars \/ Seen!Remove(to, m) \/ Seen!Move(d, n, to, m)
  <1> DEFINE K == ShownKind(node)
             T == ShownTree(node)
             e == node[d].child[n]
             x == node[to].child[m]
  <1>1. /\ e # None /\ Takes(node, to) /\ to \notin Below(node, e)
        /\ x # None => x # e /\ node[x].kind = node[e].kind /\ Children(node, x) = {}
    BY DEF MayMove
  <1>2. e \in Entries /\ (x # None => x \in Entries)
    BY <1>1, LinkedChild
  <1>3. ~node'[Root].garbage
    BY RootStays DEF Moved
  <1>4. CASE node[e].garbage /\ (x = None \/ node[x].garbage)
    <2>1. Show(node, e) = None /\ Show(node, x) = None
      BY <1>4 DEF Show
    <2>2. Looks(node', node)
      BY <2>1, GarbageMoves
    <2>3. QED
      BY <2>2, SeenStays
  <1>5. CASE node[e].garbage /\ x # None /\ ~node[x].garbage
    <2> DEFINE t == With(T, to, m, None)
    <2>1. Show(node, e) = None
      BY <1>5 DEF Show
    <2>2. IsTree(t) /\ Agrees(K, t, node')
      BY <2>1, MovedAway
    <2>3. Children(node, x) = {}
      BY <1>1, <1>5
    <2>4. Seen!Remove(to, m)
      BY <1>3, <1>5, <2>2, <2>3, SeenRemove
    <2>5. QED
      BY <2>4
  <1>6. CASE ~node[e].garbage
    <2> DEFINE t == With(With(T, d, n, None), to, m, e)
    <2>1. IsTree(t) /\ Agrees(K, t, node')
      BY <1>2, <1>6, MovedView
    <2>2. Leaves(node', K, t, Seen!From(t, Root))
      <3> HIDE DEF K, t
      <3>1. QED
        BY <1>3, <2>1, Becomes
    <2>3. T[d][n] = e
      <3>1. Leads(node, d, n) = e
        BY <1>1, <1>6 DEF Leads
      <3>2. QED
        BY <3>1, ViewFacts
    <2>4. K[to] = "dir"
      BY <1>1, SeenFree
    <2>5. to \notin Seen!From(T, e)
      BY <1>1, <1>2, FromBelow
    <2>6. \/ T[to][m] = None
          \/ T[to][m] # None /\ Seen!ChildrenIn(T, T[to][m]) = {} /\ K[T[to][m]] = K[e]
      <3>1. CASE x = None \/ node[x].garbage
        BY <1>1, <3>1, SeenFree
      <3>2. CASE x # None /\ ~node[x].garbage
        <4>1. Leads(node, to, m) = x
          BY <3>2 DEF Leads
        <4>2. T[to][m] = x
          BY <4>1, ViewFacts
        <4>3. Seen!ChildrenIn(T, x) = {}
          BY <1>1, <1>2, <3>2, ViewFacts
        <4>4. Shown(node, x) /\ Shown(node, e)
          <5>1. Leads(node, d, n) = e
            BY <1>1, <1>6 DEF Leads
          <5>2. QED
            BY <1>1, <3>2, <4>1, <5>1, ShownFacts
        <4>5. K[x] = K[e]
          BY <1>1, <1>2, <3>2, <4>4, ViewFacts
        <4>6. QED
          BY <3>2, <4>2, <4>3, <4>5
      <3>3. QED
        BY <3>1, <3>2
    <2>7. Seen!Move(d, n, to, m)
      <3> DEFINE y == T[to][m]
      <3>1. /\ T[d][n] # None /\ K[to] = "dir" /\ to \notin Seen!From(T, T[d][n])
            /\ (K[to] = "dir" /\ T[to][m] = None)
               \/ ((T[to][m] # None /\ Seen!ChildrenIn(T, T[to][m]) = {}) /\ K[T[to][m]] = K[T[d][n]])
        BY <1>1, <2>3, <2>4, <2>5, <2>6
      <3>2. t = [T EXCEPT ![d][n] = None, ![to][m] = T[d][n]]
        BY <2>3 DEF With
      <3> HIDE DEF e, x, t
      <3>3. QED
        BY <2>2, <3>1, <3>2, SeenView, SeenNext
        DEF Leaves, Seen!Move, Seen!Free, Seen!Removable, Seen!Become, Seen!BecomeWithout
    <2>8. QED
      BY <2>7
  <1>7. QED
    BY <1>4, <1>5, <1>6

(***************************************************************************)
(* Recursive detach, and restarts.                                         *)
(***************************************************************************)

\* A new core: only the root shows.
LEMMA SeenRenew ==
  ASSUME IInv, IInv', Restart
  PROVE  Seen!Renew
  <1>1. /\ Good(node, {}) /\ Good(node', {}) /\ Typed(node) /\ Root \in Entries
    BY NamespaceAssumption DEF IInv, Good
  <1>2. node[Root].garbage
    BY DEF Restart
  <1>3. Children(node, Root) = {} /\ \A m \in Names : node[Root].child[m] = None
    BY <1>1, <1>2, NoChildrenIn
  <1>4. \A a \in Entries : NamesOf(node, a) = {}
    BY <1>1, <1>3, NothingNamed
  <1>5. /\ \A a \in Entries \ {Root} : node'[a] = node[a]
        /\ node'[Root] = NewRoot
    BY <1>1 DEF Restart, Typed
  <1>6. /\ NewRoot.kind = "dir" /\ NewRoot.child = NoChildren /\ ~NewRoot.garbage
    BY RootFacts
  <1>7. SameChildren(node', node)
    BY <1>3, <1>5, <1>6 DEF SameChildren, NoChildren
  <1>8. \A a \in Entries : NamesOf(node', a) = {}
    BY <1>4, <1>7, SameTrees
  <1>9. \A a \in Entries : ~Shown(node, a) /\ (Shown(node', a) <=> a = Root)
    BY <1>1, <1>2, <1>4, <1>5, <1>6, <1>8, ShownFacts
  <1>10. \A a \in Entries : ShownKind(node)[a] = "none"
    BY <1>9 DEF ShownKind
  <1>11. ShownKind(node') = [ShownKind(node) EXCEPT ![Root] = "dir"]
    <2>1. \A a \in Entries : ShownKind(node')[a] = IF a = Root THEN "dir" ELSE "none"
      BY <1>5, <1>6, <1>9 DEF ShownKind
    <2>2. ShownKind(node') = [a \in Entries |-> ShownKind(node')[a]]
      BY DEF ShownKind
    <2>3. ShownKind(node) = [a \in Entries |-> ShownKind(node)[a]]
      BY DEF ShownKind
    <2>4. QED
      BY <1>10, <2>1, <2>2, <2>3
  <1>12. ShownTree(node') = ShownTree(node)
    <2>1. ASSUME NEW a \in Entries, NEW m \in Names
          PROVE  node'[a].child[m] = None /\ node[a].child[m] = None
      <3>1. node[a].child[m] = None
        <4>1. node[a].child[m] # None => node[a].child[m] \in Entries
          BY <1>1, ChildFacts
        <4>2. node[a].child[m] # None => <<a, m>> \in NamesOf(node, node[a].child[m])
          BY DEF NamesOf
        <4>3. QED
          BY <1>4, <4>1, <4>2
      <3>2. QED
        BY <1>7, <3>1 DEF SameChildren
    <2>2. \A a \in Entries, m \in Names : Leads(node', a, m) = None /\ Leads(node, a, m) = None
      BY <2>1 DEF Leads
    <2>3. QED
      BY <2>2 DEF ShownTree
  <1>13. ShownKind(node)[Root] = "none"
    BY <1>1, <1>10
  <1>14. QED
    BY <1>11, <1>12, <1>13, SeenView, SeenNext DEF Seen!Renew

\* A process that dies on a garbage root: nothing showed, and only the new root
\* shows.
LEMMA SeenNullRoot ==
  ASSUME IInv, IInv', NullRoot
  PROVE  Seen!Renew
  <1>1. /\ Good(node, {}) /\ Good(node', {}) /\ Typed(node) /\ Root \in Entries
    BY NamespaceAssumption DEF IInv, Good
  <1>2. node[Root].garbage /\ node' = Empty
    BY DEF NullRoot
  <1>3. Children(node, Root) = {} /\ \A m \in Names : node[Root].child[m] = None
    BY <1>1, <1>2, NoChildrenIn
  <1>4. \A a \in Entries : NamesOf(node, a) = {}
    BY <1>1, <1>3, NothingNamed
  <1>5. \A a \in Entries : node'[a] = IF a = Root THEN NewRoot ELSE Unallocated
    BY <1>2 DEF Empty
  <1>6. /\ NewRoot.kind = "dir" /\ NewRoot.child = NoChildren /\ ~NewRoot.garbage
    BY RootFacts
  <1>7. Unallocated.kind = "none" /\ \A m \in Names : NoChildren[m] = None /\ Unallocated.child[m] = None
    BY BlankFacts DEF NoChildren
  <1>8. \A a \in Entries : NamesOf(node', a) = {}
    BY <1>2, EmptyGood
  <1>9. \A a \in Entries : ~Shown(node, a) /\ (Shown(node', a) <=> a = Root)
    BY <1>1, <1>2, <1>4, <1>5, <1>6, <1>8, ShownFacts
  <1>10. \A a \in Entries : ShownKind(node)[a] = "none"
    BY <1>9 DEF ShownKind
  <1>11. ShownKind(node') = [ShownKind(node) EXCEPT ![Root] = "dir"]
    <2>1. \A a \in Entries : ShownKind(node')[a] = IF a = Root THEN "dir" ELSE "none"
      BY <1>5, <1>6, <1>9 DEF ShownKind
    <2>2. ShownKind(node') = [a \in Entries |-> ShownKind(node')[a]]
      BY DEF ShownKind
    <2>3. ShownKind(node) = [a \in Entries |-> ShownKind(node)[a]]
      BY DEF ShownKind
    <2>4. QED
      BY <1>10, <2>1, <2>2, <2>3
  <1>12. ShownTree(node') = ShownTree(node)
    <2>1. ASSUME NEW a \in Entries, NEW m \in Names
          PROVE  node'[a].child[m] = None /\ node[a].child[m] = None
      <3>1. node[a].child[m] = None
        <4>1. node[a].child[m] # None => node[a].child[m] \in Entries
          BY <1>1, ChildFacts
        <4>2. node[a].child[m] # None => <<a, m>> \in NamesOf(node, node[a].child[m])
          BY DEF NamesOf
        <4>3. QED
          BY <1>4, <4>1, <4>2
      <3>2. node'[a].child[m] = None
        BY <1>5, <1>6, <1>7
      <3>3. QED
        BY <3>1, <3>2
    <2>2. \A a \in Entries, m \in Names : Leads(node', a, m) = None /\ Leads(node, a, m) = None
      BY <2>1 DEF Leads
    <2>3. QED
      BY <2>2 DEF ShownTree
  <1>13. ShownKind(node)[Root] = "none"
    BY <1>1, <1>10
  <1>14. QED
    BY <1>11, <1>12, <1>13, SeenView, SeenNext DEF Seen!Renew

\* Of what is below e, only files keep names, in other directories; e is
\* garbage and the rest as it was.
Pruned(M, N, e) ==
  LET B == Below(N, e) IN
  /\ \A a \in Entries \ B : M[a] = N[a]
  /\ \A a \in Entries : NamesOf(M, a) = {p \in NamesOf(N, a) : p[1] \notin B}
  /\ \A a \in B : \A m \in Names : M[a].child[m] = None
  /\ \A a \in B : a = e \/ NamesOf(M, a) # {} =>
       /\ M[a].kind = N[a].kind
       /\ M[a].garbage = (N[a].garbage \/ a = e \/ N[a].kind = "dir")

\* What a recursive detach takes away from the table of entries.
LEMMA DetachAllPrunes ==
  ASSUME IInv, NEW e \in Entries, DetachAll(e)
  PROVE  Pruned(node', node, e) /\ (e = Root \/ Root \notin Below(node, e))
  <1> DEFINE E == Emptied(node, e)
             B == Below(node, e)
             X == B \ {e}
  <1>1. Good(node, {}) /\ (e = Root \/ NamesOf(node, e) # {})
    BY ResolvableNamed DEF IInv, DetachAll
  <1>2. node' = Swept(E, X) /\ SameChildren(node', E)
    BY DetachAllFields, DetachAllStep
  <1>3. /\ \A a \in Entries : E[a].kind = node[a].kind
        /\ \A a \in B : \A m \in Names : E[a].child[m] = None
        /\ \A a \in Entries \ B : E[a] = node[a]
        /\ \A a \in Entries : NamesOf(E, a) = {p \in NamesOf(node, a) : p[1] \notin B}
        /\ \A a \in B : E[a].garbage = (node[a].garbage \/ a = e \/ node[a].kind = "dir")
    BY <1>1, EmptiedFields
  <1>4. Typed(node) /\ e \in B /\ B \subseteq Entries
    BY <1>1, BelowLeast DEF Good
  <1>5. Root \in B => e = Root
    <2> SUFFICES ASSUME Root \in B, e # Root PROVE FALSE
      OBVIOUS
    <2> DEFINE S == {a \in Entries : a # Root}
    <2>1. e \in S /\ \A a \in S \cap Entries : Children(node, a) \subseteq S
      <3> SUFFICES ASSUME NEW a \in Entries, NEW c \in Children(node, a)
                   PROVE  c \in S
        OBVIOUS
      <3>1. c \in Entries /\ c # None
        BY <1>4, ChildFacts, NamespaceAssumption
      <3>2. PICK m \in Names : node[a].child[m] = c
        BY DEF Children
      <3>3. QED
        BY <1>1, <3>1, <3>2 DEF Good, Proper
    <2>2. Root \notin S
      OBVIOUS
    <2> HIDE DEF S
    <2>3. Below(node, e) \subseteq S
      BY <1>4, <2>1, BelowLeast
    <2>4. QED
      BY <2>2, <2>3
  <1> HIDE DEF E, B
  <1>6. Good(E, X)
    <2>1. Good(Emptied(node, e), Below(node, e) \ {e})
      BY <1>1, EmptiedGood
    <2>2. QED
      BY <2>1 DEF E, B
  <1>7. \A a \in Entries :
          node'[a] = E[a] \/ (a \in X /\ NamesOf(E, a) = {} /\ node'[a] = Unallocated)
    <2>1. Orphans(E, {}) /\ E = Emptied(node, e)
      BY <1>1, EmptiedGood DEF E
    <2>2. \A x \in X \cap Entries : NamesOf(E, x) = {} => Children(E, x) = {}
      BY <1>5, <2>1 DEF Orphans
    <2>3. QED
      BY <1>2, <1>6, <2>2, SweepGood
  <1>8. \A a \in Entries : NamesOf(node', a) = NamesOf(E, a)
    BY <1>2, SameTrees
  <1>9. \A a \in Entries \ B : node'[a] = node[a]
    BY <1>3, <1>7
  <1>10. ASSUME NEW a \in B, NEW m \in Names
         PROVE  node'[a].child[m] = None
    <2>1. a \in Entries /\ E[a].child[m] = None
      BY <1>3, <1>4
    <2>2. node'[a].child[m] = E[a].child[m]
      BY <1>2, <2>1, Zenon DEF SameChildren
    <2>3. QED
      BY <2>1, <2>2
  <1>11. \A a \in B : a = e \/ NamesOf(node', a) # {} =>
           /\ node'[a].kind = node[a].kind
           /\ node'[a].garbage = (node[a].garbage \/ a = e \/ node[a].kind = "dir")
    BY <1>3, <1>4, <1>7, <1>8
  <1>12. Pruned(node', node, e)
    BY <1>3, <1>8, <1>9, <1>10, <1>11 DEF Pruned, B
  <1>13. QED
    BY <1>5, <1>12 DEF B

\* What is below e, other than e, has a name there.
LEMMA BelowNamed ==
  ASSUME NEW N, Typed(N), NEW e \in Entries, NEW c \in Below(N, e), c # e
  PROVE  \E p \in NamesOf(N, c) : p[1] \in Below(N, e)
  <1> DEFINE B == Below(N, e)
             S == {a \in B : a = e \/ \E p \in NamesOf(N, a) : p[1] \in B}
  <1>1. e \in B /\ B \subseteq Entries /\ \A d \in B : Children(N, d) \subseteq B
    BY BelowLeast
  <1>2. e \in S
    BY <1>1
  <1>3. ASSUME NEW d \in S \cap Entries
        PROVE  Children(N, d) \subseteq S
    <2> SUFFICES ASSUME NEW a \in Children(N, d)
                 PROVE  a \in S
      OBVIOUS
    <2>1. d \in B /\ a \in B /\ a \in Entries
      BY <1>1
    <2>2. PICK m \in Names : N[d].child[m] = a
      BY DEF Children
    <2>3. <<d, m>> \in NamesOf(N, a)
      BY <2>2 DEF NamesOf
    <2>4. QED
      BY <2>1, <2>3
  <1> HIDE DEF S
  <1>4. B \subseteq S
    BY <1>2, <1>3, BelowLeast
  <1>5. QED
    BY <1>4 DEF S

\* What Prune(e) of FileTree starts from, of the tree t.
Cut(t, e) ==
  [d \in Entries |->
     IF d = e THEN Seen!NoChildren
     ELSE [n \in Names |-> IF t[d][n] = e THEN None ELSE t[d][n]]]

\* The tree from which the names of e and its children are cut.
LEMMA CutFacts ==
  ASSUME NEW t, IsTree(t), NEW e \in Entries
  PROVE  /\ IsTree(Cut(t, e))
         /\ \A d \in Entries, n \in Names :
              Cut(t, e)[d][n] = IF d = e \/ t[d][n] = e THEN None ELSE t[d][n]
  BY DEF IsTree, Cut, Seen!NoChildren

\* Entries below e that have a name elsewhere stay in view, all others go.
LEMMA PrunedView ==
  ASSUME NEW M, Good(M, {}), NEW N, Good(N, {}), NEW e \in Entries, ~N[e].garbage,
         e # Root, Root \notin Below(N, e), Pruned(M, N, e)
  PROVE  Agrees(ShownKind(N), Cut(ShownTree(N), e), M)
  <1> DEFINE B == Below(N, e)
             t == Cut(ShownTree(N), e)
  <1>1. /\ Typed(N) /\ Typed(M) /\ OneName(N) /\ None \notin Entries /\ Root \in Entries
        /\ e \in B /\ B \subseteq Entries
    BY BelowLeast, NamespaceAssumption DEF Good
  <1>2. /\ \A a \in Entries \ B : M[a] = N[a]
        /\ \A a \in Entries : NamesOf(M, a) = {p \in NamesOf(N, a) : p[1] \notin B}
        /\ \A a \in B : \A m \in Names : M[a].child[m] = None
        /\ \A a \in B : a = e \/ NamesOf(M, a) # {} =>
             /\ M[a].kind = N[a].kind
             /\ M[a].garbage = (N[a].garbage \/ a = e \/ N[a].kind = "dir")
    BY DEF Pruned
  <1>3. \A a \in Entries, n \in Names :
          t[a][n] = IF a = e \/ Leads(N, a, n) = e THEN None ELSE Leads(N, a, n)
    BY ViewFacts, CutFacts
  <1>4. \A c \in B : c # e => \E p \in NamesOf(N, c) : p[1] \in B
    BY <1>1, BelowNamed
  <1> HIDE DEF B, t
  <1>5. ASSUME NEW c \in B, NamesOf(M, c) # {}, c # e
        PROVE  M[c].garbage = N[c].garbage /\ M[c].kind = N[c].kind /\ N[c].kind # "dir"
    <2>1. PICK p \in NamesOf(N, c) : p[1] \in B
      BY <1>4, <1>5
    <2>2. PICK q \in NamesOf(N, c) : q[1] \notin B
      BY <1>1, <1>2, <1>5
    <2>3. N[c].kind # "dir"
      BY <1>1, <2>1, <2>2 DEF OneName
    <2>4. N[c].garbage \in BOOLEAN
      BY <1>1 DEF Typed, Nodes
    <2>5. QED
      BY <1>2, <1>5, <2>3, <2>4
  <1>6. ASSUME NEW a \in Entries, Shown(M, a)
        PROVE  /\ Shown(N, a) /\ M[a].kind = N[a].kind
               /\ a \in B => N[a].kind # "dir"
    <2>1. ~M[a].garbage /\ (a = Root \/ NamesOf(M, a) # {})
      BY <1>6, ShownFacts
    <2>2. CASE a \notin B
      <3>1. M[a] = N[a]
        BY <1>2, <2>2
      <3>2. QED
        BY <1>6, <2>2, <3>1 DEF Shown
    <2>3. CASE a \in B
      <3>1. a # e /\ a # Root
        BY <1>1, <1>2, <2>1, <2>3 DEF B
      <3>2. M[a].garbage = N[a].garbage /\ M[a].kind = N[a].kind /\ N[a].kind # "dir"
        BY <1>5, <2>1, <2>3, <3>1
      <3>3. NamesOf(N, a) # {}
        BY <1>2, <2>1, <3>1
      <3>4. QED
        BY <2>1, <3>2, <3>3, ShownFacts
    <2>4. QED
      BY <2>2, <2>3
  <1>7. ASSUME NEW a \in Entries, Shown(M, a), NEW n \in Names
        PROVE  t[a][n] = Leads(M, a, n)
    <2>1. a # e
      <3>1. M[e].garbage
        BY <1>1, <1>2
      <3>2. QED
        BY <1>7, <3>1 DEF Shown
    <2>2. CASE a \in B
      <3>1. N[a].child[n] = None
        BY <1>6, <1>7, <2>2, ShownFacts
      <3>2. M[a].child[n] = None
        BY <1>2, <2>2
      <3>3. QED
        BY <1>3, <3>1, <3>2 DEF Leads
    <2>3. CASE a \notin B
      <3> DEFINE c == N[a].child[n]
      <3>1. M[a].child[n] = c
        BY <1>2, <2>3
      <3>2. CASE c = None
        BY <1>3, <3>1, <3>2 DEF Leads
      <3>3. CASE c = e
        <4>1. M[e].garbage
          BY <1>1, <1>2
        <4>2. Leads(M, a, n) = None
          BY <3>1, <3>3, <4>1 DEF Leads
        <4>3. Leads(N, a, n) = e
          BY <1>1, <3>3 DEF Leads
        <4>4. QED
          BY <1>3, <4>2, <4>3
      <3>4. CASE c # None /\ c # e
        <4>1. c \in Entries
          BY <1>1, <3>4, ChildFacts
        <4>2. <<a, n>> \in NamesOf(N, c)
          BY DEF NamesOf
        <4>3. NamesOf(M, c) # {}
          BY <1>2, <2>3, <4>1, <4>2
        <4>4. M[c].garbage = N[c].garbage
          BY <1>2, <1>5, <3>4, <4>1, <4>3
        <4>5. Leads(M, a, n) = Leads(N, a, n) /\ Leads(N, a, n) # e
          BY <1>1, <3>1, <3>4, <4>4 DEF Leads
        <4>6. QED
          BY <1>3, <2>1, <4>5
      <3>5. QED
        BY <3>2, <3>3, <3>4
    <2>4. QED
      BY <2>2, <2>3
  <1>8. \A a \in Entries : Shown(M, a) => ShownKind(N)[a] = M[a].kind
    BY <1>6, ViewFacts
  <1>9. QED
    BY <1>7, <1>8 DEF Agrees, t

\* When the root is detached nothing is left to see.
LEMMA PrunedRoot ==
  ASSUME NEW M, Good(M, {}), NEW N, Good(N, {}), Pruned(M, N, Root)
  PROVE  \A a \in Entries : ~Shown(M, a)
  <1>1. Root \in Entries /\ Typed(N) /\ Root \in Below(N, Root)
    BY NamespaceAssumption, BelowLeast DEF Good
  <1>2. Children(M, Root) = {}
    BY <1>1 DEF Pruned, Children
  <1>3. \A a \in Entries : NamesOf(M, a) = {}
    BY <1>2, NothingNamed
  <1>4. M[Root].garbage
    BY <1>1 DEF Pruned
  <1>5. QED
    BY <1>3, <1>4, ShownFacts

\* A recursive detach prunes the visible tree.
LEMMA SeenPrune ==
  ASSUME IInv, IInv', NEW e \in Entries, DetachAll(e)
  PROVE  Seen!Prune(e)
  <1> DEFINE K == ShownKind(node)
             T == ShownTree(node)
             t == Cut(T, e)
             left == Seen!From(t, Root) \ {e}
  <1>1. /\ Good(node, {}) /\ Good(node', {}) /\ Typed(node) /\ Root \in Entries
        /\ e \in Resolvable(node)
    BY NamespaceAssumption DEF IInv, Good, DetachAll
  <1>2. Pruned(node', node, e) /\ (e = Root \/ Root \notin Below(node, e))
    BY DetachAllPrunes
  <1>3. ~node[e].garbage /\ ~node[Root].garbage
    BY <1>1, ResolvableFacts DEF Resolvable
  <1>4. IsTree(t)
    BY <1>1, ViewFacts, CutFacts
  <1>5. node'[e].garbage
    <2>1. e \in Below(node, e)
      BY <1>1, BelowLeast
    <2>2. QED
      BY <1>2, <2>1 DEF Pruned
  <1>6. Leaves(node', K, t, left)
    <2>1. CASE e = Root
      <3>1. \A a \in Entries : ~Shown(node', a)
        BY <1>1, <1>2, <2>1, PrunedRoot
      <3>2. Agrees(K, t, node')
        BY <3>1 DEF Agrees
      <3>3. \A a \in Entries : a \notin left
        <4> DEFINE S == {Root}
        <4>1. Seen!ChildrenIn(t, Root) = {}
          <5>1. \A n \in Names : t[Root][n] = None
            BY <1>1, <2>1, ViewFacts, CutFacts
          <5>2. QED
            BY <5>1 DEF Seen!ChildrenIn
        <4>2. Root \in S /\ \A d \in S \cap Entries : Seen!ChildrenIn(t, d) \subseteq S
          BY <4>1
        <4> HIDE DEF S, t
        <4>3. Seen!From(t, Root) \subseteq S
          BY <1>1, <1>4, <4>2, FromLeast
        <4>4. QED
          BY <2>1, <4>3 DEF S
      <3> HIDE DEF K, t, left
      <3>4. QED
        BY <1>4, <3>1, <3>2, <3>3, LeavesShown
    <2>2. CASE e # Root
      <3>1. Agrees(K, t, node')
        BY <1>1, <1>2, <1>3, <2>2, PrunedView
      <3>2. ~node'[Root].garbage
        BY <1>1, <1>2, <1>3, <2>2 DEF Pruned
      <3>3. \A a \in Entries : a \in Seen!From(t, Root) <=> Shown(node', a)
        <4> HIDE DEF K, t
        <4>1. QED
          BY <1>1, <1>4, <3>1, <3>2, Becomes
      <3>4. ~Shown(node', e)
        BY <1>5 DEF Shown
      <3>5. \A a \in Entries : a \in left <=> Shown(node', a)
        BY <3>3, <3>4
      <3> HIDE DEF K, t, left
      <3>6. QED
        BY <1>4, <3>1, <3>5, LeavesShown
    <2>3. QED
      BY <2>1, <2>2
  <1>7. K[e] # "none"
    <2>1. Shown(node, e)
      BY <1>1, <1>3, ResolvableNamed, ShownFacts
    <2>2. QED
      BY <1>1, <2>1, ViewFacts
  <1> DEFINE k == [a \in Entries |-> IF Visible(a) THEN node[a].kind ELSE "none"]
             v == [d \in Entries |-> VisibleChild(d)]
  <1>8. k = K /\ v = T
    BY SeenView
  <1>9. Leaves(node', k, Cut(v, e), Seen!From(Cut(v, e), Root) \ {e}) /\ k[e] # "none"
    <2> HIDE DEF k, v, K, T
    <2>1. QED
      BY <1>6, <1>7, <1>8
  <1>10. QED
    BY <1>9, SeenNext DEF Leaves, Cut, Seen!Prune, Seen!BecomeWithout

(***************************************************************************)
(* The calls.                                                              *)
(***************************************************************************)

\* Paths are resolved while the root is there.
LEMMA DirRoot ==
  ASSUME NEW e \in Resolvable(node)
  PROVE  ~node[Root].garbage
  BY DEF Resolvable

\* Collecting the garbage under a name does not show.
LEMMA FreedLooks ==
  ASSUME IInv, NEW d, NEW n \in Names, IsDir(d), NEW N \in NameFreed(d, n)
  PROVE  Good(N, {}) /\ Looks(N, node)
  <1>1. Good(node, {}) /\ Good(N, {}) /\ d \in Entries
    BY NameFreedGood DEF IInv
  <1>2. CASE N = node
    BY <1>1, <1>2 DEF Looks
  <1>3. CASE GarbageDropped(N, node, d, n)
    BY <1>1, <1>3, DroppedLooks
  <1>4. QED
    BY <1>1, <1>2, <1>3, NameFreedGood

\* Each call of Namespace, as a step of FileTree or a stutter.
LEMMA SeenMake ==
  ASSUME IInv, IInv', NEW d \in Entries, NEW n \in Names, NEW k \in {"file", "dir"}, Make(d, n, k)
  PROVE  \E e \in Entries : Seen!Add(d, n, e, k)
  <1>1. PICK N \in NameFreed(d, n), e \in Entries :
          node[e].kind = "none" /\ node' = Attach([N EXCEPT ![e] = Made(k, d)], d, n, e)
    BY DEF Make
  <1>2. IsDir(d) /\ ~node[Root].garbage /\ Good(node, {}) /\ Good(node', {})
    BY DirRoot DEF Make, IsDir, IInv
  <1>3. /\ Good(N, {}) /\ Takes(N, d) /\ N[d].child[n] = None /\ N[e].kind = "none"
        /\ Looks(N, node)
    BY <1>1, <1>2, NameFreedGood, FreedLooks
  <1>4. IsCreated(node', N, d, n, e, k)
    BY <1>1, <1>3, CreateGood DEF IsKind
  <1>5. Seen!Add(d, n, e, k)
    BY <1>2, <1>3, <1>4, SeenAdd
  <1>6. QED
    BY <1>5

\* A symlink appears as a new file.
LEMMA SeenSymlink ==
  ASSUME IInv, IInv', NEW d \in Entries, NEW n \in Names, Symlink(d, n)
  PROVE  \E e \in Entries : Seen!Add(d, n, e, "file")
  <1>1. PICK e \in Entries :
          node[e].kind = "none" /\ node' = Attach([node EXCEPT ![e] = Made("file", d)], d, n, e)
    BY DEF Symlink
  <1>2. /\ ~node[Root].garbage /\ Good(node, {}) /\ Good(node', {}) /\ Looks(node, node)
        /\ Takes(node, d) /\ node[d].child[n] = None
    BY DirRoot, TakesFacts DEF Symlink, IsDir, IInv, Looks
  <1>3. IsCreated(node', node, d, n, e, "file")
    BY <1>1, <1>2, CreateGood DEF IsKind
  <1>4. Seen!Add(d, n, e, "file")
    BY <1>1, <1>2, <1>3, SeenAdd
  <1>5. QED
    BY <1>4

\* A refused creation leaves nothing that shows.
LEMMA SeenMakeRefused ==
  ASSUME IInv, NEW d \in Entries, NEW n \in Names, MakeRefused(d, n)
  PROVE  UNCHANGED Seen!vars
  <1>1. PICK N \in NameFreed(d, n) : node' = N
    BY DEF MakeRefused
  <1>2. Looks(node', node)
    BY <1>1, FreedLooks DEF MakeRefused
  <1>3. QED
    BY <1>2, SeenStays

\* link gives a file that shows one more name.
LEMMA SeenLinked ==
  ASSUME IInv, IInv', NEW e \in Entries, NEW d \in Entries, NEW n \in Names, Link(e, d, n)
  PROVE  Seen!Link(e, d, n)
  <1>1. /\ Good(node, {}) /\ Good(node', {}) /\ Typed(node)
        /\ e \in Resolvable(node) /\ node[e].kind # "dir"
        /\ IsDir(d) /\ node[d].child[n] = None /\ node' = Attach(node, d, n, e)
    BY DEF IInv, Good, Link
  <1>2. ~node[Root].garbage /\ Takes(node, d)
    BY <1>1, DirRoot, TakesFacts
  <1>3. Shown(node, e)
    BY <1>1, ResolvableFacts, ResolvableNamed, ShownFacts
  <1>4. e # d
    BY <1>1, <1>2 DEF Takes
  <1>5. SameMarks(node', node) /\ Renamed(node', node, d, n, e)
    BY <1>1, <1>4, AttachFields DEF SameMarks
  <1>6. QED
    BY <1>1, <1>2, <1>3, <1>5, SeenLink

\* unlink and rmdir.
LEMMA SeenRemoved ==
  ASSUME IInv, IInv', NEW d \in Entries, NEW n \in Names, IsDir(d), node[d].child[n] # None,
         Children(node, node[d].child[n]) = {},
         node' = TryDestroy(Detach(node, d, n), node[d].child[n])
  PROVE  UNCHANGED Seen!vars \/ Seen!Remove(d, n)
  <1> DEFINE x == node[d].child[n]
             t == With(ShownTree(node), d, n, None)
  <1>1. /\ Good(node, {}) /\ Good(node', {}) /\ ~node[Root].garbage
        /\ None \in Entries \cup {None}
    BY DirRoot DEF IInv, IsDir
  <1>2. Renamed(node', node, d, n, None) /\ SameMarks(node', node)
    BY <1>1, RemoveGood
  <1>3. CASE node[x].garbage
    <2>1. GarbageDropped(node', node, d, n)
      BY <1>2, <1>3 DEF GarbageDropped
    <2>2. QED
      BY <1>1, <2>1, DroppedLooks, SeenStays
  <1>4. CASE ~node[x].garbage
    <2>1. IsTree(t) /\ Agrees(ShownKind(node), t, node')
      BY <1>1, <1>2, RenamedView
    <2>2. ~node'[Root].garbage
      BY <1>1, <1>2, RootStays
    <2>3. Seen!Remove(d, n)
      BY <1>1, <1>4, <2>1, <2>2, SeenRemove
    <2>4. QED
      BY <2>3
  <1>5. QED
    BY <1>3, <1>4

\* unlink removes one name, which may have been garbage's.
LEMMA SeenUnlink ==
  ASSUME Hazardous = {}, IInv, IInv', NEW d \in Entries, NEW n \in Names, Unlink(d, n)
  PROVE  UNCHANGED Seen!vars \/ Seen!Remove(d, n)
  <1> DEFINE x == node[d].child[n]
  <1>1. IsDir(d) /\ x # None /\ node[x].kind # "dir" /\ node' = TryDestroy(Detach(node, d, n), x)
    BY DEF Unlink
  <1>2. Good(node, {})
    BY DEF IInv
  <1>3. x \in Entries
    BY <1>1, <1>2, LinkedChild
  <1>4. Children(node, x) = {}
    BY <1>1, <1>2, <1>3, NoChildrenIn
  <1>5. QED
    BY <1>1, <1>4, SeenRemoved

\* rmdir does the same to an empty directory.
LEMMA SeenRmdir ==
  ASSUME IInv, IInv', NEW d \in Entries, NEW n \in Names, Rmdir(d, n)
  PROVE  UNCHANGED Seen!vars \/ Seen!Remove(d, n)
  BY SeenRemoved DEF Rmdir

\* rename between directories is a move, or only the target's disappearance when
\* garbage moves, or nothing.
LEMMA SeenRename ==
  ASSUME Hazardous = {}, IInv, IInv', NEW d \in Entries, NEW n \in Names,
         NEW to \in Entries, NEW m \in Names, Rename(d, n, to, m)
  PROVE  UNCHANGED Seen!vars \/ Seen!Remove(to, m) \/ Seen!Move(d, n, to, m)
  <1> DEFINE e == node[d].child[n]
             x == node[to].child[m]
  <1>1. /\ Good(node, {}) /\ Good(node', {}) /\ IsDir(to) /\ e # None
        /\ MayReplace(e, x, d = to) /\ to \notin Below(node, e)
        /\ x # None => node[x].nchild = Named(node, x)
    BY DEF IInv, Rename, RenameAvoided
  <1>2. ~node[Root].garbage /\ Takes(node, to)
    BY <1>1, DirRoot, TakesFacts DEF IsDir
  <1>3. x # None => x # e /\ node[x].kind = node[e].kind /\ Children(node, x) = {}
    <2> SUFFICES ASSUME x # None
                 PROVE  x # e /\ node[x].kind = node[e].kind /\ Children(node, x) = {}
      OBVIOUS
    <2>1. x # e /\ node[x].kind = node[e].kind /\ (node[x].kind = "dir" => node[x].nchild <= 0)
      BY <1>1 DEF MayReplace
    <2>2. x \in Entries
      BY <1>1, LinkedChild
    <2>3. QED
      BY <1>1, <2>1, <2>2, NoChildrenIn
  <1>4. MayMove(node, d, n, to, m)
    BY <1>1, <1>2, <1>3 DEF MayMove
  <1>5. Moved(node', node, d, n, to, m)
    BY RenameStep
  <1>6. QED
    BY <1>1, <1>2, <1>4, <1>5, SeenMove

\* The same within one directory.
LEMMA SeenRenameInDirectory ==
  ASSUME Hazardous = {}, IInv, IInv', NEW d \in Entries, NEW n \in Names, NEW m \in Names,
         RenameInDirectory(d, n, m)
  PROVE  UNCHANGED Seen!vars \/ Seen!Remove(d, m) \/ Seen!Move(d, n, d, m)
  <1> DEFINE e == node[d].child[n]
  <1>1. /\ Good(node, {}) /\ Good(node', {}) /\ Typed(node) /\ Acyclic(node)
        /\ IsDir(d) /\ e # None /\ (node[d].child[m] = None \/ m = n)
    BY DEF IInv, Good, RenameInDirectory
  <1>2. ~node[Root].garbage /\ Takes(node, d)
    BY <1>1, DirRoot, TakesFacts DEF IsDir
  <1>3. Moved(node', node, d, n, d, m)
    BY RenameInDirectoryStep
  <1>4. CASE m = n
    <2>1. SameChildren(node', node) /\ SameMarks(node', node)
      BY <1>3, <1>4 DEF Moved, SameChildren
    <2>2. QED
      BY <1>1, <2>1, SameNamesLook, SeenStays
  <1>5. CASE m # n
    <2>1. e \in Entries /\ e \in Children(node, d)
      BY <1>1, LinkedChild DEF Children
    <2>2. d \notin Below(node, e)
      BY <1>1, <2>1, NoCycle
    <2>3. MayMove(node, d, n, d, m)
      BY <1>1, <1>2, <1>5, <2>2 DEF MayMove
    <2>4. QED
      BY <1>1, <1>2, <1>3, <2>3, SeenMove
  <1>6. QED
    BY <1>4, <1>5

\* Handles, and what dies with the last of them, do not show.
LEMMA SeenOpen ==
  ASSUME IInv, IInv', NEW e \in Entries, Open(e) \/ Close(e)
  PROVE  UNCHANGED Seen!vars
  <1>1. SameChildren(node', node) /\ SameMarks(node', node)
    BY OpenStep, CloseStep
  <1>2. Good(node, {}) /\ Good(node', {})
    BY DEF IInv
  <1>3. QED
    BY <1>1, <1>2, SameNamesLook, SeenStays

\* The view starts as an empty root.
LEMMA SeenInit ==
  ASSUME Init
  PROVE  Seen!Init
  <1>1. IInv /\ Root \in Entries
    BY InitGood, NamespaceAssumption
  <1>2. \A e \in Entries : node[e] = IF e = Root THEN NewRoot ELSE Unallocated
    BY DEF Init, Empty
  <1>3. NewRoot.kind = "dir" /\ NewRoot.links = 1 /\ ~NewRoot.garbage /\ NewRoot.child = NoChildren
    BY RootFacts
  <1>4. Unallocated.kind = "none" /\ \A n \in Names : Unallocated.child[n] = None
    BY BlankFacts
  <1>5. \A n \in Names : NewRoot.child[n] = None
    BY <1>3 DEF NoChildren
  <1>6. ShownKind(node) = [e \in Entries |-> IF e = Root THEN "dir" ELSE "none"]
    BY <1>2, <1>3, <1>4 DEF ShownKind, Shown
  <1>7. \A e \in Entries, n \in Names : Leads(node, e, n) = None
    BY <1>2, <1>4, <1>5 DEF Leads
  <1>8. ShownTree(node) = [e \in Entries |-> Seen!NoChildren]
    BY <1>7 DEF ShownTree, Seen!NoChildren
  <1>9. QED
    BY <1>6, <1>8, SeenView DEF Seen!Init

\* Every step.
LEMMA SeenStep ==
  ASSUME Hazardous = {}, IInv, IInv', [Next]_node
  PROVE  [Seen!Next]_(Seen!vars)
  <1>1. CASE Restart \/ NullRoot
    BY <1>1, SeenRenew, SeenNullRoot DEF Seen!Next
  <1>2. ASSUME NEW d \in Entries, NEW n \in Names, NEW k \in {"file", "dir"}, Make(d, n, k)
        PROVE  Seen!Next
    BY <1>2, SeenMake DEF Seen!Next
  <1>3. ASSUME NEW d \in Entries, NEW n \in Names, MakeRefused(d, n)
        PROVE  UNCHANGED Seen!vars
    BY <1>3, SeenMakeRefused
  <1>4. ASSUME NEW d \in Entries, NEW n \in Names, Symlink(d, n)
        PROVE  Seen!Next
    <2>1. PICK e \in Entries : Seen!Add(d, n, e, "file")
      BY <1>4, SeenSymlink
    <2>2. QED
      BY <2>1 DEF Seen!Next
  <1>5. ASSUME NEW d \in Entries, NEW n \in Names, NEW e \in Entries, Link(e, d, n)
        PROVE  Seen!Next
    BY <1>5, SeenLinked DEF Seen!Next
  <1>6. ASSUME NEW d \in Entries, NEW n \in Names, Unlink(d, n) \/ Rmdir(d, n)
        PROVE  [Seen!Next]_(Seen!vars)
    <2>1. UNCHANGED Seen!vars \/ Seen!Remove(d, n)
      BY <1>6, SeenUnlink, SeenRmdir
    <2>2. QED
      BY <2>1 DEF Seen!Next
  <1>7. ASSUME NEW d \in Entries, NEW n \in Names, NEW to \in Entries, NEW m \in Names,
               Rename(d, n, to, m) \/ (to = d /\ RenameInDirectory(d, n, m))
        PROVE  [Seen!Next]_(Seen!vars)
    <2>1. UNCHANGED Seen!vars \/ Seen!Remove(to, m) \/ Seen!Move(d, n, to, m)
      BY <1>7, SeenRename, SeenRenameInDirectory
    <2>2. QED
      BY <2>1 DEF Seen!Next
  <1>8. ASSUME NEW e \in Entries, DetachAll(e)
        PROVE  Seen!Next
    BY <1>8, SeenPrune DEF Seen!Next
  <1>9. ASSUME NEW e \in Entries, Open(e) \/ Close(e)
        PROVE  UNCHANGED Seen!vars
    BY <1>9, SeenOpen
  <1>10. CASE UNCHANGED node
    <2>1. Looks(node', node)
      BY <1>10 DEF Looks
    <2>2. QED
      BY <2>1, SeenStays
  <1>11. QED
    BY <1>1, <1>2, <1>3, <1>4, <1>5, <1>6, <1>7, <1>8, <1>9, <1>10 DEF Next

\* The application sees a plain tree of names: every call without hazards adds,
\* links, removes, moves or prunes at one place, or changes nothing that shows,
\* whatever garbage, counters and open handles there are.
THEOREM Refinement == Hazardous = {} => (Spec => ImplementsFileTree)
  <1> SUFFICES ASSUME Hazardous = {} PROVE Spec => ImplementsFileTree
    OBVIOUS
  <1>1. IInv /\ IInv' /\ [Next]_node => [Seen!Next]_(Seen!vars)
    BY SeenStep
  <1>2. QED
    BY <1>1, SeenInit, Invariance, PTL DEF Spec, ImplementsFileTree, Seen!Spec

===============================================================================
