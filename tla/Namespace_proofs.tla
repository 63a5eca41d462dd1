--------------------------- MODULE Namespace_proofs ---------------------------
(***************************************************************************)
(* Proofs about Namespace, for any number of entries and names and any     *)
(* depth of directories, as long as callers make none of the calls of      *)
(* AllHazards: the directories are a tree, link_count is the number of     *)
(* names, num_children never exceeds the children, and nothing is lost.    *)
(***************************************************************************)
EXTENDS Namespace, FiniteSetTheorems, WellFoundedInduction, TLAPS

(***************************************************************************)
(* Counting up, and what Closure computes.                                 *)
(***************************************************************************)

\* A set of numbers has a least one.
LEMMA Least ==
  ASSUME NEW n \in Nat, NEW S \in SUBSET (0 .. n), S # {}
  PROVE  \E s \in S : \A o \in S : s <= o
  <1> DEFINE Lower(s) == {o \in S : o < s}
             T == {Lower(s) : s \in S}
             R == StrictSubsetOrdering(S)
  <1>1. IsFiniteSet(S)
    <2>1. IsFiniteSet(0 .. n)
      BY FS_Interval
    <2>2. QED
      BY <2>1, FS_Subset
  <1>2. S \subseteq Int /\ IsWellFoundedOn(R, SUBSET S)
    BY <1>1, FS_StrictSubsetOrderingWellFounded, FS_FiniteSubsetsOfFinite
  <1>3. T \subseteq SUBSET S /\ T # {}
    OBVIOUS
  <1> HIDE DEF R
  <1>4. \E X \in T : \A Y \in T : <<Y, X>> \notin R
    BY <1>2, <1>3, WFMin
  <1>5. PICK s \in S : \A o \in S : <<Lower(o), Lower(s)>> \notin R
    BY <1>4
  <1>6. ASSUME NEW o \in S
        PROVE  s <= o
    <2> SUFFICES ASSUME o < s PROVE FALSE
      BY <1>2
    <2>1. \A k \in S : k < o => k < s
      BY <1>2
    <2>2. Lower(o) \subseteq Lower(s)
      BY <2>1
    <2>3. o \in Lower(s) /\ o \notin Lower(o)
      BY <1>2
    <2>4. <<Lower(o), Lower(s)>> \in R
      BY <2>2, <2>3 DEF R, StrictSubsetOrdering
    <2>5. QED
      BY <2>4, <1>5
  <1>7. QED
    BY <1>6

\* What holds of 0, and of k + 1 with k, holds up to n.
LEMMA CountUp ==
  ASSUME NEW n \in Nat, NEW S \in SUBSET (0 .. n), 0 \in S,
         \A k \in S : k < n => k + 1 \in S
  PROVE  S = 0 .. n
  <1> DEFINE T == (0 .. n) \ S
  <1> SUFFICES ASSUME T # {} PROVE FALSE
    OBVIOUS
  <1>1. PICK m \in T : \A o \in T : m <= o
    BY Least
  <1>2. m # 0 /\ m - 1 \in 0 .. n /\ m - 1 \notin T
    BY <1>1
  <1>3. m - 1 \in S /\ m - 1 < n /\ (m - 1) + 1 = m
    BY <1>1, <1>2
  <1>4. QED
    BY <1>1, <1>3

Grow(succ, S) == S \cup UNION {succ[d] : d \in S}

\* w is the sequence of sets that Closure(r, succ) computes.
Walks(w, r, succ, n) ==
  w = [k \in 0 .. n |-> IF k = 0 THEN {r}
                        ELSE LET S == w[k - 1] IN S \cup UNION {succ[d] : d \in S}]

LEMMA WalkExists ==
  ASSUME NEW n \in Nat, NEW r, NEW succ
  PROVE  \E w : Walks(w, r, succ, n)
  <1> DEFINE T == {m \in 0 .. n : \E w : Walks(w, r, succ, m)}
  <1>1. 0 \in T
    <2> DEFINE w == [k \in 0 .. 0 |-> {r}]
    <2>1. Walks(w, r, succ, 0)
      BY DEF Walks
    <2>2. QED
      BY <2>1
  <1>2. ASSUME NEW m \in T, m < n
        PROVE  m + 1 \in T
    <2>1. PICK w : Walks(w, r, succ, m)
      OBVIOUS
    <2> DEFINE v == [k \in 0 .. m + 1 |-> IF k = m + 1 THEN Grow(succ, w[m]) ELSE w[k]]
    <2>2. ASSUME NEW k \in 0 .. m + 1
          PROVE  v[k] = IF k = 0 THEN {r}
                        ELSE LET S == v[k - 1] IN S \cup UNION {succ[d] : d \in S}
      <3>1. CASE k = 0
        BY <2>1, <3>1 DEF Walks
      <3>2. CASE k = m + 1
        <4>1. v[k - 1] = w[m] /\ v[k] = Grow(succ, w[m]) /\ k # 0
          BY <3>2
        <4>2. QED
          BY <4>1 DEF Grow
      <3>3. CASE k # 0 /\ k # m + 1
        <4>1. k \in 0 .. m /\ k - 1 \in 0 .. m /\ k - 1 # m + 1
          BY <3>3
        <4>2. v[k] = w[k] /\ v[k - 1] = w[k - 1]
          BY <3>3, <4>1
        <4>3. w[k] = IF k = 0 THEN {r}
                     ELSE LET S == w[k - 1] IN S \cup UNION {succ[d] : d \in S}
          BY <2>1, <4>1 DEF Walks
        <4>4. QED
          BY <4>2, <4>3
      <3>4. QED
        BY <3>1, <3>2, <3>3
    <2>3. v = [k \in 0 .. m + 1 |-> v[k]]
      OBVIOUS
    <2> HIDE DEF v
    <2>4. Walks(v, r, succ, m + 1)
      BY <2>2, <2>3 DEF Walks
    <2>5. m + 1 \in 0 .. n
      BY <1>2
    <2>6. QED
      BY <2>4, <2>5
  <1> HIDE DEF T
  <1>3. T = 0 .. n
    <2>1. T \in SUBSET (0 .. n)
      BY DEF T
    <2>2. QED
      BY <1>1, <1>2, <2>1, CountUp
  <1>4. n \in T
    BY <1>3
  <1>5. QED
    BY <1>4 DEF T

\* After as many steps as there are entries the walk has everything that can be
\* reached, and nothing else.
LEMMA WalkEnds ==
  ASSUME NEW E, IsFiniteSet(E), NEW r \in E, NEW succ \in [E -> SUBSET E],
         NEW w, Walks(w, r, succ, Cardinality(E))
  PROVE  LET C == w[Cardinality(E)] IN
         /\ r \in C /\ C \subseteq E
         /\ \A d \in C : succ[d] \subseteq C
         /\ \A S : r \in S /\ (\A d \in S \cap E : succ[d] \subseteq S) => C \subseteq S
         /\ \A k \in 0 .. Cardinality(E) : w[k] \subseteq E
  <1> DEFINE n == Cardinality(E)
  <1>1. n \in Nat
    BY FS_CardinalityType
  <1> HIDE DEF n
  <1>2. /\ w[0] = {r}
        /\ \A k \in 0 .. n : k < n => w[k + 1] = Grow(succ, w[k])
    <2>1. Walks(w, r, succ, n)
      BY DEF n
    <2>2. w[0] = {r}
      <3>1. 0 \in 0 .. n
        BY <1>1
      <3>2. QED
        BY <2>1, <3>1 DEF Walks
    <2>3. ASSUME NEW k \in 0 .. n, k < n
          PROVE  w[k + 1] = Grow(succ, w[k])
      <3>1. k + 1 \in 0 .. n /\ k + 1 # 0 /\ (k + 1) - 1 = k
        BY <1>1, <2>3
      <3>2. w[k + 1] = LET S == w[(k + 1) - 1] IN S \cup UNION {succ[d] : d \in S}
        BY <2>1, <3>1 DEF Walks
      <3>3. QED
        BY <3>1, <3>2 DEF Grow
    <2>4. QED
      BY <2>2, <2>3
  <1>3. ASSUME NEW S, r \in S, \A d \in S \cap E : succ[d] \subseteq S
        PROVE  \A k \in 0 .. n : w[k] \subseteq S \cap E
    <2> DEFINE T == {k \in 0 .. n : w[k] \subseteq S \cap E}
    <2>1. 0 \in T
      BY <1>1, <1>2, <1>3
    <2>2. ASSUME NEW k \in T, k < n
          PROVE  k + 1 \in T
      <3>1. w[k + 1] = Grow(succ, w[k]) /\ k + 1 \in 0 .. n
        BY <1>1, <1>2, <2>2
      <3>2. \A d \in w[k] : succ[d] \subseteq S \cap E
        BY <1>3
      <3>3. QED
        BY <3>1, <3>2 DEF Grow
    <2>3. T = 0 .. n
      BY <1>1, <2>1, <2>2, CountUp
    <2>4. QED
      BY <2>3
  <1>4. \A k \in 0 .. n : w[k] \subseteq E /\ r \in w[k]
    <2>1. \A k \in 0 .. n : w[k] \subseteq E
      BY <1>3
    <2> DEFINE T == {k \in 0 .. n : r \in w[k]}
    <2>2. 0 \in T
      BY <1>1, <1>2
    <2>3. ASSUME NEW k \in T, k < n
          PROVE  k + 1 \in T
      BY <1>1, <1>2, <2>3 DEF Grow
    <2>4. T = 0 .. n
      BY <1>1, <2>2, <2>3, CountUp
    <2>5. QED
      BY <2>1, <2>4
  <1>5. Grow(succ, w[n]) = w[n]
    <2> SUFFICES ASSUME Grow(succ, w[n]) # w[n] PROVE FALSE
      OBVIOUS
    <2>1. ASSUME NEW k \in 0 .. n, k < n, w[k + 1] = w[k]
          PROVE  FALSE
      <3> DEFINE T == {j \in 0 .. n : j >= k => w[j] = w[k]}
      <3>1. 0 \in T
        BY <1>1
      <3>2. ASSUME NEW j \in T, j < n
            PROVE  j + 1 \in T
        <4>1. w[j + 1] = Grow(succ, w[j]) /\ w[k + 1] = Grow(succ, w[k]) /\ j + 1 \in 0 .. n
          BY <1>1, <1>2, <2>1, <3>2
        <4>2. CASE j >= k
          BY <2>1, <4>1, <4>2
        <4>3. CASE j < k
          <5>1. j + 1 >= k => j + 1 = k
            BY <2>1, <4>3
          <5>2. QED
            BY <4>1, <5>1
        <4>4. QED
          BY <2>1, <4>2, <4>3
      <3>3. T = 0 .. n
        BY <1>1, <3>1, <3>2, CountUp
      <3>4. w[n] = w[k]
        BY <1>1, <2>1, <3>3
      <3>5. QED
        BY <1>2, <2>1, <3>4
    <2> DEFINE T == {k \in 0 .. n : Cardinality(w[k]) >= k + 1}
    <2>2. \A k \in 0 .. n : IsFiniteSet(w[k]) /\ Cardinality(w[k]) \in Nat
      BY <1>4, FS_Subset, FS_CardinalityType
    <2>3. 0 \in T
      <3>1. Cardinality(w[0]) = 1 /\ 0 \in 0 .. n
        BY <1>1, <1>2, FS_Singleton
      <3>2. QED
        BY <3>1
    <2>4. ASSUME NEW k \in T, k < n
          PROVE  k + 1 \in T
      <3>1. k + 1 \in 0 .. n /\ w[k] \subseteq w[k + 1] /\ w[k + 1] # w[k]
        BY <1>1, <1>2, <2>1, <2>4 DEF Grow
      <3>2. Cardinality(w[k]) <= Cardinality(w[k + 1]) /\ Cardinality(w[k]) # Cardinality(w[k + 1])
        BY <2>2, <3>1, FS_Subset
      <3>3. Cardinality(w[k]) \in Nat /\ Cardinality(w[k + 1]) \in Nat /\ Cardinality(w[k]) >= k + 1
        BY <2>2, <3>1
      <3>4. Cardinality(w[k + 1]) >= (k + 1) + 1
        BY <3>2, <3>3
      <3>5. QED
        BY <3>1, <3>4
    <2> HIDE DEF T
    <2>5. T = 0 .. n
      <3>1. T \in SUBSET (0 .. n)
        BY DEF T
      <3>2. QED
        BY <1>1, <2>3, <2>4, <3>1, CountUp
    <2>6. Cardinality(w[n]) >= n + 1
      BY <1>1, <2>5 DEF T
    <2>7. Cardinality(w[n]) <= n
      <3>1. w[n] \in SUBSET E
        BY <1>1, <1>4
      <3>2. QED
        BY <3>1, FS_Subset DEF n
    <2>8. QED
      BY <1>1, <2>2, <2>6, <2>7
  <1>6. \A d \in w[n] : succ[d] \subseteq w[n]
    BY <1>5 DEF Grow
  <1>7. n \in 0 .. n
    BY <1>1
  <1>8. QED
    BY <1>3, <1>4, <1>6, <1>7 DEF n

\* Closure is the least set that has r and that succ does not lead out of.
LEMMA ClosureLeast ==
  ASSUME NEW r \in Entries, NEW succ \in [Entries -> SUBSET Entries]
  PROVE  LET C == Closure(r, succ) IN
         /\ r \in C /\ C \subseteq Entries
         /\ \A d \in C : succ[d] \subseteq C
         /\ \A S : r \in S /\ (\A d \in S \cap Entries : succ[d] \subseteq S) => C \subseteq S
  <1> DEFINE w == CHOOSE w : Walks(w, r, succ, Cardinality(Entries))
  <1>1. IsFiniteSet(Entries) /\ Cardinality(Entries) \in Nat
    BY NamespaceAssumption, FS_CardinalityType
  <1>2. Walks(w, r, succ, Cardinality(Entries))
    BY <1>1, WalkExists, Zenon
  <1>3. Closure(r, succ) = w[Cardinality(Entries)]
    BY Zenon DEF Closure, Walks
  <1> HIDE DEF w
  <1>4. QED
    BY <1>1, <1>2, <1>3, WalkEnds

(***************************************************************************)
(* The inductive invariant, of a table N of entries.  In the middle of a   *)
(* call the entries of X may be left without a name and without a handle.  *)
(***************************************************************************)

Nodes ==
  [kind : {"none", "file", "dir"},
   child : [Names -> Entries \cup {None}], up : Entries \cup {None},
   nchild : Int, links : Nat, opens : 0 .. MaxOpens, garbage : BOOLEAN]

Typed(N) == N \in [Entries -> Nodes]

\* Memory that holds no entry is blank, and the root is there.
Blank(N) ==
  /\ N[Root].kind = "dir"
  /\ \A e \in Entries : N[e].kind = "none" => N[e] = Unallocated

\* Names lead from directories that are not garbage to entries that are there.
Proper(N) ==
  \A d \in Entries, n \in Names :
    N[d].child[n] # None =>
      /\ N[d].kind = "dir" /\ ~N[d].garbage
      /\ N[d].child[n] # Root /\ N[N[d].child[n]].kind # "none"

\* A directory has one name, and ".." leads to where it is.
OneName(N) ==
  \A e \in Entries : N[e].kind = "dir" =>
    /\ \A p, q \in NamesOf(N, e) : p = q
    /\ \A p \in NamesOf(N, e) : N[e].up = p[1]

LinksExact(N) ==
  \A e \in Entries : N[e].kind # "none" =>
    N[e].links = Cardinality(NamesOf(N, e)) + (IF e = Root THEN 1 ELSE 0)

NotOvercounted(N) == \A d \in Entries : N[d].nchild <= Named(N, d)

\* Every set of entries has one that none of them contains.
Acyclic(N) ==
  \A B \in (SUBSET Entries) \ {{}} : \E e \in B : \A d \in B : e \notin Children(N, d)

\* What has no name is empty, and open.
Orphans(N, X) ==
  \A e \in Entries \ X : e # Root /\ NamesOf(N, e) = {} => Children(N, e) = {}

Opened(N, X) ==
  \A e \in Entries \ X :
    e # Root /\ NamesOf(N, e) = {} /\ N[e].kind # "none" => N[e].opens > 0

Good(N, X) ==
  /\ Typed(N) /\ Blank(N) /\ Proper(N) /\ OneName(N) /\ LinksExact(N)
  /\ NotOvercounted(N) /\ Acyclic(N) /\ Orphans(N, X) /\ Opened(N, X)

IInv == Good(node, {})

(***************************************************************************)
(* Names, children and what is below.                                      *)
(***************************************************************************)

LEMMA NamesFinite ==
  ASSUME NEW N, NEW e
  PROVE  IsFiniteSet(NamesOf(N, e)) /\ Cardinality(NamesOf(N, e)) \in Nat
  <1>1. IsFiniteSet(Entries \X Names)
    BY NamespaceAssumption, FS_Product
  <1>2. NamesOf(N, e) \in SUBSET (Entries \X Names)
    BY DEF NamesOf
  <1>3. QED
    BY <1>1, <1>2, FS_Subset, FS_CardinalityType

LEMMA NamedFinite ==
  ASSUME NEW N, NEW d
  PROVE  /\ IsFiniteSet({n \in Names : N[d].child[n] # None})
         /\ Named(N, d) \in Nat
  <1>1. IsFiniteSet({n \in Names : N[d].child[n] # None})
    BY NamespaceAssumption, FS_Subset
  <1>2. QED
    BY <1>1, FS_CardinalityType DEF Named

LEMMA ChildFacts ==
  ASSUME NEW N, Typed(N)
  PROVE  /\ \A d \in Entries : Children(N, d) \subseteq Entries
         /\ \A d, e \in Entries :
              e \in Children(N, d) <=> \E n \in Names : N[d].child[n] = e
         /\ \A e, d, n : <<d, n>> \in NamesOf(N, e)
                           <=> d \in Entries /\ n \in Names /\ N[d].child[n] = e
         /\ \A d \in Entries, n \in Names : N[d].child[n] \in Entries \cup {None}
  <1>1. None \notin Entries
    BY NamespaceAssumption
  <1>2. \A d \in Entries, n \in Names : N[d].child[n] \in Entries \cup {None}
    BY DEF Typed, Nodes
  <1>3. QED
    BY <1>1, <1>2 DEF Children, NamesOf

\* What is below r is the least set with r and the children of its members.
LEMMA BelowLeast ==
  ASSUME NEW N, Typed(N), NEW r \in Entries
  PROVE  /\ r \in Below(N, r) /\ Below(N, r) \subseteq Entries
         /\ \A d \in Below(N, r) : Children(N, d) \subseteq Below(N, r)
         /\ \A S : r \in S /\ (\A d \in S \cap Entries : Children(N, d) \subseteq S)
                     => Below(N, r) \subseteq S
  <1> DEFINE succ == [d \in Entries |-> Children(N, d)]
  <1>1. succ \in [Entries -> SUBSET Entries]
    BY ChildFacts
  <1>2. Below(N, r) = Closure(r, succ)
    BY DEF Below
  <1>3. \A d \in Entries : succ[d] = Children(N, d)
    OBVIOUS
  <1> HIDE DEF succ
  <1> DEFINE C == Closure(r, succ)
  <1>4. r \in C /\ C \subseteq Entries
    BY <1>1, ClosureLeast
  <1>5. \A d \in C : succ[d] \subseteq C
    BY <1>1, ClosureLeast
  <1>6. ASSUME NEW S, r \in S, \A d \in S \cap Entries : Children(N, d) \subseteq S
        PROVE  C \subseteq S
    <2>1. \A d \in S \cap Entries : succ[d] \subseteq S
      BY <1>3, <1>6
    <2>2. QED
      BY <1>1, <1>6, <2>1, ClosureLeast
  <1>7. \A d \in C : Children(N, d) \subseteq C
    BY <1>3, <1>4, <1>5
  <1> HIDE DEF C
  <1>8. C = Below(N, r)
    BY <1>2 DEF C
  <1>9. QED
    BY <1>4, <1>6, <1>7, <1>8

\* A path leads through directories that are not garbage.
LEMMA ResolvableFacts ==
  ASSUME NEW N, Typed(N), NEW e \in Resolvable(N)
  PROVE  /\ e \in Entries /\ ~N[e].garbage
         /\ e = Root \/ \E d \in Entries, n \in Names : N[d].child[n] = e
  <1> DEFINE succ == [d \in Entries |-> {c \in Children(N, d) : ~N[c].garbage}]
             S == {c \in Entries : /\ ~N[c].garbage
                                   /\ c = Root \/ \E d \in Entries : c \in Children(N, d)}
  <1>1. Root \in Entries
    BY NamespaceAssumption
  <1>2. succ \in [Entries -> SUBSET Entries]
    BY ChildFacts
  <1>3. ~N[Root].garbage /\ e \in Closure(Root, succ)
    BY DEF Resolvable
  <1>4. Root \in S /\ \A d \in S \cap Entries : succ[d] \subseteq S
    BY <1>1, <1>3, ChildFacts
  <1> HIDE DEF succ, S
  <1>5. Closure(Root, succ) \subseteq S
    BY <1>1, <1>2, <1>4, ClosureLeast
  <1>6. e \in S
    BY <1>3, <1>5
  <1>7. QED
    BY <1>6, ChildFacts DEF S

\* Going down never leads back.
LEMMA NoCycle ==
  ASSUME NEW N, Typed(N), Acyclic(N), NEW e \in Entries, NEW d \in Below(N, e)
  PROVE  e \notin Children(N, d)
  <1> SUFFICES ASSUME e \in Children(N, d) PROVE FALSE
    OBVIOUS
  <1> DEFINE B == Below(N, e)
  <1>1. B \in (SUBSET Entries) \ {{}} /\ e \in B
    BY BelowLeast
  <1>2. PICK t \in B : \A p \in B : t \notin Children(N, p)
    BY <1>1 DEF Acyclic
  <1>3. t # e
    BY <1>2
  <1>4. \A p \in (B \ {t}) \cap Entries : Children(N, p) \subseteq B \ {t}
    BY <1>2, BelowLeast
  <1>5. B \subseteq B \ {t}
    <2> DEFINE S == B \ {t}
    <2>1. e \in S /\ \A p \in S \cap Entries : Children(N, p) \subseteq S
      BY <1>1, <1>3, <1>4
    <2> HIDE DEF S
    <2>2. Below(N, e) \subseteq S
      BY <2>1, BelowLeast
    <2>3. QED
      BY <2>2 DEF S
  <1>6. QED
    BY <1>2, <1>5

LEMMA NotItsChild ==
  ASSUME NEW N, Typed(N), Acyclic(N), NEW d \in Entries, NEW n \in Names
  PROVE  N[d].child[n] # d
  BY NoCycle, BelowLeast, ChildFacts

LEMMA AcyclicFewer ==
  ASSUME NEW M, NEW N, Acyclic(N),
         \A d \in Entries : Children(M, d) \subseteq Children(N, d)
  PROVE  Acyclic(M)
  BY DEF Acyclic

\* A name for e in d makes no cycle, unless d is below e.
LEMMA AcyclicMore ==
  ASSUME NEW M, NEW N, Typed(N), Acyclic(N), NEW d \in Entries, NEW e \in Entries,
         d \notin Below(N, e),
         \A a \in Entries :
           Children(M, a) \subseteq Children(N, a) \cup (IF a = d THEN {e} ELSE {})
  PROVE  Acyclic(M)
  <1> SUFFICES ASSUME NEW B \in (SUBSET Entries) \ {{}}
               PROVE  \E t \in B : \A a \in B : t \notin Children(M, a)
    BY DEF Acyclic
  <1>1. CASE d \notin B
    <2>1. PICK t \in B : \A a \in B : t \notin Children(N, a)
      BY DEF Acyclic
    <2>2. QED
      BY <1>1, <2>1
  <1>2. CASE d \in B
    <2> DEFINE C == B \ Below(N, e)
    <2>1. C \in (SUBSET Entries) \ {{}}
      BY <1>2
    <2>2. PICK t \in C : \A a \in C : t \notin Children(N, a)
      BY <2>1 DEF Acyclic
    <2>3. t # e
      BY BelowLeast
    <2>4. \A a \in Below(N, e) : t \notin Children(N, a)
      BY BelowLeast
    <2>5. QED
      BY <2>2, <2>3, <2>4
  <1>3. QED
    BY <1>1, <1>2

(***************************************************************************)
(* Detaching.                                                              *)
(***************************************************************************)

LEMMA DetachFields ==
  ASSUME NEW N, Typed(N), NEW d \in Entries, NEW n \in Names, NEW x \in Entries,
         N[d].child[n] = x, x # d, N[x].kind = "dir" => N[x].nchild <= 2,
         N[x].links > 0, NEW D, D = Detach(N, d, n)
  PROVE  /\ Typed(D)
         /\ \A a \in Entries : /\ D[a].kind = N[a].kind /\ D[a].up = N[a].up
                               /\ D[a].opens = N[a].opens /\ D[a].garbage = N[a].garbage
         /\ \A a \in Entries, m \in Names :
              D[a].child[m] = IF a = d /\ m = n THEN None ELSE N[a].child[m]
         /\ \A a \in Entries : D[a].nchild = IF a = d THEN N[a].nchild - 1 ELSE N[a].nchild
         /\ \A a \in Entries : D[a].links = IF a = x THEN N[a].links - 1 ELSE N[a].links
         /\ \A a \in Entries \ {d, x} : D[a] = N[a]
  <1>1. N[x].links - 1 \in Nat /\ N[d].nchild - 1 \in Int
    <2>1. N[x].links \in Nat /\ N[d].nchild \in Int
      BY DEF Typed, Nodes
    <2>2. QED
      BY <2>1
  <1>2. D = [N EXCEPT ![d].child[n] = None,
                      ![d].nchild = @ - 1,
                      ![x].links = IF @ - 1 < 0 THEN 0 ELSE @ - 1]
    <2>1. ~(N[x].kind = "dir" /\ N[x].nchild > 2)
      <3>1. N[x].nchild \in Int
        BY DEF Typed, Nodes
      <3>2. QED
        BY <3>1
    <2>2. QED
      BY <2>1 DEF Detach
  <1>3. /\ D[d] = [N[d] EXCEPT !.child = [N[d].child EXCEPT ![n] = None],
                               !.nchild = N[d].nchild - 1]
        /\ D[x] = [N[x] EXCEPT !.links = N[x].links - 1]
        /\ \A a \in Entries \ {d, x} : D[a] = N[a]
        /\ D = [a \in Entries |-> D[a]]
    BY <1>1, <1>2 DEF Typed, Nodes
  <1>4. D[d] \in Nodes /\ D[x] \in Nodes
    <2>1. N[d] \in Nodes /\ N[x] \in Nodes
      BY DEF Typed
    <2>2. [N[d].child EXCEPT ![n] = None] \in [Names -> Entries \cup {None}]
      BY <2>1 DEF Nodes
    <2>3. D[d] \in Nodes
      BY <1>1, <1>3, <2>1, <2>2 DEF Nodes
    <2>4. D[x] \in Nodes
      BY <1>1, <1>3, <2>1 DEF Nodes
    <2>5. QED
      BY <2>3, <2>4
  <1>5. Typed(D)
    BY <1>3, <1>4 DEF Typed
  <1>6. ASSUME NEW a \in Entries
        PROVE  /\ D[a].kind = N[a].kind /\ D[a].up = N[a].up
               /\ D[a].opens = N[a].opens /\ D[a].garbage = N[a].garbage
               /\ D[a].nchild = IF a = d THEN N[a].nchild - 1 ELSE N[a].nchild
               /\ D[a].links = IF a = x THEN N[a].links - 1 ELSE N[a].links
               /\ \A m \in Names : D[a].child[m] = IF a = d /\ m = n THEN None ELSE N[a].child[m]
    <2>1. CASE a = d
      <3>1. N[d] \in Nodes /\ a # x
        BY <2>1 DEF Typed
      <3>2. /\ D[a].kind = N[a].kind /\ D[a].up = N[a].up
            /\ D[a].opens = N[a].opens /\ D[a].garbage = N[a].garbage
            /\ D[a].nchild = N[a].nchild - 1 /\ D[a].links = N[a].links
        BY <1>3, <2>1, <3>1 DEF Nodes
      <3>3. D[a].child = [N[d].child EXCEPT ![n] = None]
        BY <1>3, <2>1, <3>1 DEF Nodes
      <3>4. \A m \in Names : D[a].child[m] = IF m = n THEN None ELSE N[a].child[m]
        BY <2>1, <3>1, <3>3 DEF Nodes
      <3>5. QED
        BY <2>1, <3>1, <3>2, <3>4
    <2>2. CASE a = x
      BY <1>3, <2>2 DEF Typed, Nodes
    <2>3. CASE a \notin {d, x}
      BY <1>3, <2>3
    <2>4. QED
      BY <2>1, <2>2, <2>3
  <1>7. QED
    BY <1>3, <1>5, <1>6

\* The name n in d leads to v now.
Renamed(M, N, d, n, v) ==
  \A a \in Entries, m \in Names :
    M[a].child[m] = IF a = d /\ m = n THEN v ELSE N[a].child[m]

LEMMA RenamedTrees ==
  ASSUME NEW N, Typed(N), NEW M, Typed(M), NEW d \in Entries, NEW n \in Names,
         NEW v \in Entries \cup {None}, Renamed(M, N, d, n, v)
  PROVE  /\ \A e \in Entries :
              NamesOf(M, e) = IF e = v THEN NamesOf(N, e) \cup {<<d, n>>}
                                       ELSE NamesOf(N, e) \ {<<d, n>>}
         /\ \A a \in Entries \ {d} : Children(M, a) = Children(N, a) /\ Named(M, a) = Named(N, a)
         /\ \A a \in Entries :
              Children(M, a) \subseteq Children(N, a) \cup (IF a = d THEN {v} \ {None} ELSE {})
         /\ v = None /\ N[d].child[n] # None => Named(M, d) = Named(N, d) - 1
         /\ v # None /\ N[d].child[n] = None => Named(M, d) = Named(N, d) + 1
  <1>1. \A e \in Entries :
          NamesOf(M, e) = IF e = v THEN NamesOf(N, e) \cup {<<d, n>>}
                                   ELSE NamesOf(N, e) \ {<<d, n>>}
    <2> SUFFICES ASSUME NEW e \in Entries
                 PROVE  NamesOf(M, e) = IF e = v THEN NamesOf(N, e) \cup {<<d, n>>}
                                                 ELSE NamesOf(N, e) \ {<<d, n>>}
      OBVIOUS
    <2>1. \A dn \in Entries \X Names :
            dn \in NamesOf(M, e) <=> IF e = v THEN dn \in NamesOf(N, e) \/ dn = <<d, n>>
                                              ELSE dn \in NamesOf(N, e) /\ dn # <<d, n>>
      BY DEF Renamed, NamesOf
    <2>2. NamesOf(M, e) \subseteq Entries \X Names /\ NamesOf(N, e) \subseteq Entries \X Names
      BY DEF NamesOf
    <2>3. QED
      BY <2>1, <2>2
  <1>2. ASSUME NEW a \in Entries \ {d}
        PROVE  Children(M, a) = Children(N, a) /\ Named(M, a) = Named(N, a)
    <2>1. \A m \in Names : M[a].child[m] = N[a].child[m]
      BY DEF Renamed
    <2>2. {M[a].child[m] : m \in Names} = {N[a].child[m] : m \in Names}
      BY <2>1
    <2>3. {m \in Names : M[a].child[m] # None} = {m \in Names : N[a].child[m] # None}
      BY <2>1
    <2>4. QED
      BY <2>2, <2>3 DEF Children, Named
  <1>3. \A a \in Entries :
          Children(M, a) \subseteq Children(N, a) \cup (IF a = d THEN {v} \ {None} ELSE {})
    BY DEF Renamed, Children
  <1> DEFINE S == {m \in Names : N[d].child[m] # None}
             T == {m \in Names : M[d].child[m] # None}
  <1>4. Named(N, d) = Cardinality(S) /\ Named(M, d) = Cardinality(T)
    BY DEF Named
  <1>5. IsFiniteSet(S) /\ IsFiniteSet(T)
    BY NamedFinite
  <1>6. ASSUME v = None, N[d].child[n] # None
        PROVE  Named(M, d) = Named(N, d) - 1
    <2>1. T = S \ {n} /\ n \in S
      BY <1>6 DEF Renamed
    <2> HIDE DEF S, T
    <2>2. QED
      BY <1>4, <1>5, <2>1, FS_RemoveElement
  <1>7. ASSUME v # None, N[d].child[n] = None
        PROVE  Named(M, d) = Named(N, d) + 1
    <2>1. T = S \cup {n} /\ n \notin S
      BY <1>7 DEF Renamed
    <2> HIDE DEF S, T
    <2>2. QED
      BY <1>4, <1>5, <2>1, FS_AddElement
  <1>8. QED
    BY <1>1, <1>2, <1>3, <1>6, <1>7

\* What has no children is above nothing.
LEMMA BelowAlone ==
  ASSUME NEW N, Typed(N), NEW e \in Entries, Children(N, e) = {}
  PROVE  Below(N, e) = {e}
  <1> DEFINE S == {e}
  <1>1. e \in S /\ \A p \in S \cap Entries : Children(N, p) \subseteq S
    OBVIOUS
  <1> HIDE DEF S
  <1>2. Below(N, e) \subseteq S
    BY <1>1, BelowLeast
  <1>3. QED
    BY <1>2, BelowLeast DEF S

LEMMA BelowFewer ==
  ASSUME NEW N, Typed(N), NEW M, Typed(M), NEW e \in Entries,
         \A a \in Entries : Children(M, a) \subseteq Children(N, a)
  PROVE  Below(M, e) \subseteq Below(N, e)
  <1> DEFINE S == Below(N, e)
  <1>1. e \in S /\ \A p \in S \cap Entries : Children(M, p) \subseteq S
    BY BelowLeast
  <1> HIDE DEF S
  <1>2. Below(M, e) \subseteq S
    BY <1>1, BelowLeast
  <1>3. QED
    BY <1>2 DEF S

\* An entry with a name has links, and is not the root.
LEMMA LinkedChild ==
  ASSUME NEW N, NEW X, Good(N, X), NEW d \in Entries, NEW n \in Names, N[d].child[n] # None
  PROVE  /\ N[d].child[n] \in Entries \ {d, Root}
         /\ N[N[d].child[n]].links > 0
         /\ <<d, n>> \in NamesOf(N, N[d].child[n])
  <1> DEFINE x == N[d].child[n]
  <1>1. Typed(N) /\ Acyclic(N) /\ LinksExact(N) /\ Proper(N)
    BY DEF Good
  <1>2. x \in Entries /\ x # Root /\ N[x].kind # "none"
    BY <1>1, ChildFacts DEF Proper
  <1>3. x # d
    BY <1>1, NotItsChild
  <1>4. <<d, n>> \in NamesOf(N, x)
    BY <1>1, ChildFacts
  <1>5. Cardinality(NamesOf(N, x)) > 0
    <2>1. NamesOf(N, x) # {} /\ IsFiniteSet(NamesOf(N, x))
      BY <1>4, NamesFinite
    <2>2. Cardinality(NamesOf(N, x)) # 0 /\ Cardinality(NamesOf(N, x)) \in Nat
      BY <2>1, FS_EmptySet, FS_CardinalityType
    <2>3. QED
      BY <2>2
  <1>6. N[x].links = Cardinality(NamesOf(N, x))
    <2>1. N[x].links = Cardinality(NamesOf(N, x)) + 0
      BY <1>1, <1>2 DEF LinksExact
    <2>2. QED
      BY <2>1, NamesFinite
  <1>7. QED
    BY <1>2, <1>3, <1>4, <1>5, <1>6

\* Garbage and files are empty, and a directory that counts what it has and
\* counts nothing.
LEMMA NoChildrenIn ==
  ASSUME NEW N, NEW X, Good(N, X), NEW x \in Entries,
         \/ N[x].kind # "dir" \/ N[x].garbage
         \/ N[x].nchild = Named(N, x) /\ N[x].nchild <= 0
  PROVE  Children(N, x) = {} /\ Named(N, x) = 0 /\ \A m \in Names : N[x].child[m] = None
  <1> DEFINE S == {m \in Names : N[x].child[m] # None}
  <1>1. IsFiniteSet(S) /\ Named(N, x) = Cardinality(S) /\ Cardinality(S) \in Nat
    BY NamedFinite DEF Named
  <1>2. CASE N[x].kind # "dir" \/ N[x].garbage
    <2>1. S = {}
      BY <1>2 DEF Good, Proper
    <2>2. QED
      BY <1>1, <2>1, FS_EmptySet DEF Children
  <1>3. CASE N[x].nchild = Named(N, x) /\ N[x].nchild <= 0
    <2>1. Cardinality(S) = 0
      BY <1>1, <1>3
    <2>2. S = {}
      BY <1>1, <2>1, FS_EmptySet
    <2>3. QED
      BY <1>1, <2>1, <2>2 DEF Children
  <1>4. QED
    BY <1>2, <1>3

\* What a detach leaves alone.
Detached(D, N) ==
  \A a \in Entries :
    /\ D[a].kind = N[a].kind /\ D[a].up = N[a].up
    /\ D[a].opens = N[a].opens /\ D[a].garbage = N[a].garbage
    /\ D[a].nchild <= N[a].nchild

LEMMA DetachGood ==
  ASSUME NEW N, NEW X, Good(N, X), NEW d \in Entries, NEW n \in Names,
         NEW x, N[d].child[n] = x, x # None, N[x].kind = "dir" => N[x].nchild <= 2,
         NEW D, D = Detach(N, d, n)
  PROVE  /\ Good(D, X \cup {x})
         /\ Renamed(D, N, d, n, None)
         /\ Detached(D, N)
  <1>1. /\ Typed(N) /\ Blank(N) /\ Proper(N) /\ OneName(N) /\ LinksExact(N)
        /\ NotOvercounted(N) /\ Acyclic(N) /\ Orphans(N, X) /\ Opened(N, X)
    BY DEF Good
  <1>2. x \in Entries \ {d, Root} /\ N[x].links > 0 /\ <<d, n>> \in NamesOf(N, x)
    BY LinkedChild
  <1>3. /\ Typed(D)
        /\ \A a \in Entries : /\ D[a].kind = N[a].kind /\ D[a].up = N[a].up
                              /\ D[a].opens = N[a].opens /\ D[a].garbage = N[a].garbage
        /\ Renamed(D, N, d, n, None)
        /\ \A a \in Entries : D[a].nchild = IF a = d THEN N[a].nchild - 1 ELSE N[a].nchild
        /\ \A a \in Entries : D[a].links = IF a = x THEN N[a].links - 1 ELSE N[a].links
        /\ \A a \in Entries \ {d, x} : D[a] = N[a]
    BY <1>1, <1>2, DetachFields DEF Renamed
  <1>4. /\ \A e \in Entries : NamesOf(D, e) = NamesOf(N, e) \ {<<d, n>>}
        /\ \A a \in Entries : Children(D, a) \subseteq Children(N, a)
        /\ \A a \in Entries \ {d} : Named(D, a) = Named(N, a)
        /\ Named(D, d) = Named(N, d) - 1
    <2>1. None \in Entries \cup {None} /\ None \notin Entries
      BY NamespaceAssumption
    <2>2. QED
      BY <1>1, <1>3, <2>1, RenamedTrees
  <1>5. ASSUME NEW e \in Entries \ {x}
        PROVE  NamesOf(D, e) = NamesOf(N, e)
    <2>1. <<d, n>> \notin NamesOf(N, e)
      BY DEF NamesOf
    <2>2. NamesOf(D, e) = NamesOf(N, e) \ {<<d, n>>}
      BY <1>4
    <2>3. QED
      BY <2>1, <2>2
  <1>6. \A a \in Entries : N[a].nchild \in Int /\ N[a].links \in Nat
    BY <1>1 DEF Typed, Nodes
  <1>7. Blank(D)
    <2>1. D[Root].kind = "dir"
      BY <1>1, <1>3, NamespaceAssumption DEF Blank
    <2>2. N[d].kind # "none" /\ N[x].kind # "none"
      BY <1>1, <1>2, NamespaceAssumption DEF Proper
    <2>3. QED
      BY <1>1, <1>3, <2>1, <2>2 DEF Blank
  <1>8. Proper(D)
    <2> SUFFICES ASSUME NEW a \in Entries, NEW m \in Names, D[a].child[m] # None
                 PROVE  /\ D[a].kind = "dir" /\ ~D[a].garbage
                        /\ D[a].child[m] # Root /\ D[D[a].child[m]].kind # "none"
      BY DEF Proper
    <2>1. D[a].child[m] = N[a].child[m] /\ N[a].child[m] \in Entries
      BY <1>1, <1>3, ChildFacts DEF Renamed
    <2>2. QED
      BY <1>1, <1>3, <2>1 DEF Proper
  <1>9. OneName(D)
    BY <1>1, <1>3, <1>4 DEF OneName
  <1>10. LinksExact(D)
    <2> SUFFICES ASSUME NEW e \in Entries, D[e].kind # "none"
                 PROVE  D[e].links = Cardinality(NamesOf(D, e)) + (IF e = Root THEN 1 ELSE 0)
      BY DEF LinksExact
    <2>1. CASE e = x
      <3>1. Cardinality(NamesOf(D, x)) = Cardinality(NamesOf(N, x)) - 1
        BY <1>2, <1>4, NamesFinite, FS_RemoveElement
      <3>2. N[x].links = Cardinality(NamesOf(N, x)) + 0
        BY <1>1, <1>2, <1>3, <2>1 DEF LinksExact
      <3>3. D[x].links = N[x].links - 1 /\ Cardinality(NamesOf(N, x)) \in Nat /\ x # Root
        BY <1>2, <1>3, NamesFinite
      <3>4. QED
        BY <2>1, <3>1, <3>2, <3>3
    <2>2. CASE e # x
      BY <1>1, <1>3, <1>5, <2>2 DEF LinksExact
    <2>3. QED
      BY <2>1, <2>2
  <1>11. NotOvercounted(D)
    <2> SUFFICES ASSUME NEW a \in Entries
                 PROVE  D[a].nchild <= Named(D, a)
      BY DEF NotOvercounted
    <2>1. N[a].nchild <= Named(N, a) /\ Named(N, a) \in Nat
      BY <1>1, NamedFinite DEF NotOvercounted
    <2>2. CASE a = d
      BY <1>3, <1>4, <1>6, <2>1, <2>2
    <2>3. CASE a # d
      BY <1>3, <1>4, <2>1, <2>3
    <2>4. QED
      BY <2>2, <2>3
  <1>12. Acyclic(D)
    BY <1>1, <1>4, AcyclicFewer
  <1>13. Orphans(D, X \cup {x})
    BY <1>1, <1>4, <1>5 DEF Orphans
  <1>14. Opened(D, X \cup {x})
    BY <1>1, <1>3, <1>5 DEF Opened
  <1>15. \A a \in Entries : D[a].nchild <= N[a].nchild
    BY <1>3, <1>6
  <1>16. Good(D, X \cup {x})
    BY <1>3, <1>7, <1>8, <1>9, <1>10, <1>11, <1>12, <1>13, <1>14 DEF Good
  <1>17. QED
    BY <1>3, <1>15, <1>16 DEF Detached

(***************************************************************************)
(* Attaching.                                                              *)
(***************************************************************************)

LEMMA AttachFields ==
  ASSUME NEW N, Typed(N), NEW d \in Entries, NEW n \in Names, NEW e \in Entries, e # d,
         NEW A, A = Attach(N, d, n, e)
  PROVE  /\ Typed(A)
         /\ \A a \in Entries : /\ A[a].kind = N[a].kind /\ A[a].opens = N[a].opens
                               /\ A[a].garbage = N[a].garbage
         /\ Renamed(A, N, d, n, e)
         /\ \A a \in Entries : A[a].up = IF a = e /\ N[e].kind = "dir" THEN d ELSE N[a].up
         /\ \A a \in Entries : A[a].nchild = IF a = d THEN N[a].nchild + 1 ELSE N[a].nchild
         /\ \A a \in Entries : A[a].links = IF a = e THEN N[a].links + 1 ELSE N[a].links
         /\ \A a \in Entries \ {d, e} : A[a] = N[a]
  <1>1. N[d] \in Nodes /\ N[e] \in Nodes
    BY DEF Typed
  <1>2. N[e].links + 1 \in Nat /\ N[d].nchild + 1 \in Int
    <2>1. N[e].links \in Nat /\ N[d].nchild \in Int
      BY <1>1 DEF Nodes
    <2>2. QED
      BY <2>1
  <1>3. /\ A[d] = [N[d] EXCEPT !.child = [N[d].child EXCEPT ![n] = e],
                               !.nchild = N[d].nchild + 1]
        /\ A[e] = [N[e] EXCEPT !.links = N[e].links + 1,
                               !.up = IF N[e].kind = "dir" THEN d ELSE N[e].up]
        /\ \A a \in Entries \ {d, e} : A[a] = N[a]
        /\ A = [a \in Entries |-> A[a]]
    BY DEF Attach, Typed, Nodes
  <1>4. A[d] \in Nodes
    <2>1. [N[d].child EXCEPT ![n] = e] \in [Names -> Entries \cup {None}]
      BY <1>1 DEF Nodes
    <2>2. QED
      BY <1>1, <1>2, <1>3, <2>1 DEF Nodes
  <1>5. A[e] \in Nodes
    BY <1>1, <1>2, <1>3 DEF Nodes
  <1>6. Typed(A)
    BY <1>3, <1>4, <1>5 DEF Typed
  <1>7. ASSUME NEW a \in Entries
        PROVE  /\ A[a].kind = N[a].kind /\ A[a].opens = N[a].opens
               /\ A[a].garbage = N[a].garbage
               /\ A[a].up = IF a = e /\ N[e].kind = "dir" THEN d ELSE N[a].up
               /\ A[a].nchild = IF a = d THEN N[a].nchild + 1 ELSE N[a].nchild
               /\ A[a].links = IF a = e THEN N[a].links + 1 ELSE N[a].links
               /\ \A m \in Names : A[a].child[m] = IF a = d /\ m = n THEN e ELSE N[a].child[m]
    <2>1. CASE a = d
      <3>1. /\ A[a].kind = N[a].kind /\ A[a].up = N[a].up
            /\ A[a].opens = N[a].opens /\ A[a].garbage = N[a].garbage
            /\ A[a].nchild = N[a].nchild + 1 /\ A[a].links = N[a].links
        BY <1>1, <1>3, <2>1 DEF Nodes
      <3>2. A[a].child = [N[d].child EXCEPT ![n] = e]
        BY <1>1, <1>3, <2>1 DEF Nodes
      <3>3. \A m \in Names : A[a].child[m] = IF m = n THEN e ELSE N[a].child[m]
        BY <1>1, <2>1, <3>2 DEF Nodes
      <3>4. QED
        BY <2>1, <3>1, <3>3
    <2>2. CASE a = e
      BY <1>1, <1>3, <2>2 DEF Nodes
    <2>3. CASE a \notin {d, e}
      BY <1>3, <2>3
    <2>4. QED
      BY <2>1, <2>2, <2>3
  <1>8. QED
    BY <1>3, <1>6, <1>7 DEF Renamed

\* A directory that takes names.
Takes(N, d) ==
  /\ N[d].kind = "dir" /\ ~N[d].garbage
  /\ d = Root \/ NamesOf(N, d) # {}

\* No entry loses a name; no entry with children loses all of its names.
NamesStay(M, N) == \A a \in Entries : NamesOf(N, a) \subseteq NamesOf(M, a)

Keeps(M, N) ==
  \A a \in Entries : Children(N, a) # {} /\ NamesOf(N, a) # {} => NamesOf(M, a) # {}

\* What can be attached where.
Attachable(N, d, n, e) ==
  /\ Takes(N, d) /\ N[d].child[n] = None
  /\ e # Root /\ N[e].kind # "none"
  /\ N[e].kind = "dir" => NamesOf(N, e) = {}
  /\ d \notin Below(N, e)

LEMMA AttachGood ==
  ASSUME NEW N, NEW X, Good(N, X), NEW d \in Entries, NEW n \in Names, NEW e \in Entries,
         Attachable(N, d, n, e), NEW A, A = Attach(N, d, n, e)
  PROVE  /\ Good(A, X \ {e}) /\ NamesStay(A, N) /\ <<d, n>> \in NamesOf(A, e)
         /\ \A a \in Entries \ {d} : Children(A, a) = Children(N, a)
  <1>1. /\ Typed(N) /\ Blank(N) /\ Proper(N) /\ OneName(N) /\ LinksExact(N)
        /\ NotOvercounted(N) /\ Acyclic(N) /\ Orphans(N, X) /\ Opened(N, X)
    BY DEF Good
  <1>2. e # d
    BY <1>1, BelowLeast DEF Attachable, Takes
  <1>3. /\ Typed(A)
        /\ \A a \in Entries : /\ A[a].kind = N[a].kind /\ A[a].opens = N[a].opens
                              /\ A[a].garbage = N[a].garbage
        /\ Renamed(A, N, d, n, e)
        /\ \A a \in Entries : A[a].up = IF a = e /\ N[e].kind = "dir" THEN d ELSE N[a].up
        /\ \A a \in Entries : A[a].nchild = IF a = d THEN N[a].nchild + 1 ELSE N[a].nchild
        /\ \A a \in Entries : A[a].links = IF a = e THEN N[a].links + 1 ELSE N[a].links
        /\ \A a \in Entries \ {d, e} : A[a] = N[a]
    BY <1>1, <1>2, AttachFields
  <1>4. e # None /\ N[d].child[n] = None /\ <<d, n>> \in Entries \X Names
    BY NamespaceAssumption DEF Attachable, Takes
  <1>5. /\ NamesOf(A, e) = NamesOf(N, e) \cup {<<d, n>>}
        /\ \A a \in Entries \ {e} : NamesOf(A, a) = NamesOf(N, a) \ {<<d, n>>}
        /\ \A a \in Entries \ {d} : Children(A, a) = Children(N, a) /\ Named(A, a) = Named(N, a)
        /\ \A a \in Entries :
             Children(A, a) \subseteq Children(N, a) \cup (IF a = d THEN {e} \ {None} ELSE {})
        /\ Named(A, d) = Named(N, d) + 1
    BY <1>1, <1>3, <1>4, RenamedTrees
  <1>6. ASSUME NEW a \in Entries
        PROVE  <<d, n>> \notin NamesOf(N, a)
    <2>1. a # None
      BY NamespaceAssumption
    <2>2. QED
      BY <1>4, <2>1 DEF NamesOf
  <1>7. \A a \in Entries \ {e} : NamesOf(A, a) = NamesOf(N, a)
    BY <1>5, <1>6
  <1>8. Blank(A)
    <2>1. A[Root].kind = "dir"
      BY <1>1, <1>3, NamespaceAssumption DEF Blank
    <2>2. N[d].kind # "none" /\ N[e].kind # "none"
      BY DEF Attachable, Takes
    <2>3. QED
      BY <1>1, <1>3, <2>1, <2>2 DEF Blank
  <1>9. Proper(A)
    <2> SUFFICES ASSUME NEW a \in Entries, NEW m \in Names, A[a].child[m] # None
                 PROVE  /\ A[a].kind = "dir" /\ ~A[a].garbage
                        /\ A[a].child[m] # Root /\ A[A[a].child[m]].kind # "none"
      BY DEF Proper
    <2>1. CASE a = d /\ m = n
      BY <1>3, <2>1 DEF Attachable, Takes, Renamed
    <2>2. CASE ~(a = d /\ m = n)
      <3>1. A[a].child[m] = N[a].child[m] /\ N[a].child[m] \in Entries
        BY <1>1, <1>3, <2>2, ChildFacts DEF Renamed
      <3>2. QED
        BY <1>1, <1>3, <3>1 DEF Proper
    <2>3. QED
      BY <2>1, <2>2
  <1>10. OneName(A)
    <2> SUFFICES ASSUME NEW a \in Entries, A[a].kind = "dir"
                 PROVE  /\ \A p, q \in NamesOf(A, a) : p = q
                        /\ \A p \in NamesOf(A, a) : A[a].up = p[1]
      BY DEF OneName
    <2>1. CASE a = e
      <3>1. N[e].kind = "dir" /\ NamesOf(A, a) = {<<d, n>>} /\ A[a].up = d
        BY <1>3, <1>5, <2>1 DEF Attachable, Takes
      <3>2. QED
        BY <3>1
    <2>2. CASE a # e
      BY <1>1, <1>3, <1>7, <2>2 DEF OneName
    <2>3. QED
      BY <2>1, <2>2
  <1>11. LinksExact(A)
    <2> SUFFICES ASSUME NEW a \in Entries, A[a].kind # "none"
                 PROVE  A[a].links = Cardinality(NamesOf(A, a)) + (IF a = Root THEN 1 ELSE 0)
      BY DEF LinksExact
    <2>1. CASE a = e
      <3>1. Cardinality(NamesOf(A, e)) = Cardinality(NamesOf(N, e)) + 1
        BY <1>5, <1>6, NamesFinite, FS_AddElement
      <3>2. N[e].links = Cardinality(NamesOf(N, e)) + 0
        BY <1>1, <1>3, <2>1 DEF LinksExact, Attachable, Takes
      <3>3. A[e].links = N[e].links + 1 /\ Cardinality(NamesOf(N, e)) \in Nat /\ e # Root
        BY <1>3, NamesFinite DEF Attachable, Takes
      <3>4. QED
        BY <2>1, <3>1, <3>2, <3>3
    <2>2. CASE a # e
      BY <1>1, <1>3, <1>7, <2>2 DEF LinksExact
    <2>3. QED
      BY <2>1, <2>2
  <1>12. NotOvercounted(A)
    <2> SUFFICES ASSUME NEW a \in Entries
                 PROVE  A[a].nchild <= Named(A, a)
      BY DEF NotOvercounted
    <2>1. N[a].nchild <= Named(N, a) /\ Named(N, a) \in Nat /\ N[a].nchild \in Int
      BY <1>1, NamedFinite DEF NotOvercounted, Typed, Nodes
    <2>2. CASE a = d
      BY <1>3, <1>5, <2>1, <2>2
    <2>3. CASE a # d
      BY <1>3, <1>5, <2>1, <2>3
    <2>4. QED
      BY <2>2, <2>3
  <1>13. Acyclic(A)
    <2>1. \A a \in Entries :
            Children(A, a) \subseteq Children(N, a) \cup (IF a = d THEN {e} ELSE {})
      BY <1>5
    <2>2. d \notin Below(N, e)
      BY DEF Attachable, Takes
    <2>3. QED
      BY <1>1, <2>1, <2>2, AcyclicMore
  <1>14. Orphans(A, X \ {e})
    <2> SUFFICES ASSUME NEW a \in Entries \ (X \ {e}), a # Root, NamesOf(A, a) = {}
                 PROVE  Children(A, a) = {}
      BY DEF Orphans
    <2>1. a # e
      BY <1>5
    <2>2. NamesOf(N, a) = {} /\ a # d
      BY <1>7, <2>1 DEF Attachable, Takes
    <2>3. QED
      BY <1>1, <1>5, <2>1, <2>2 DEF Orphans
  <1>15. Opened(A, X \ {e})
    <2> SUFFICES ASSUME NEW a \in Entries \ (X \ {e}), a # Root, NamesOf(A, a) = {},
                        A[a].kind # "none"
                 PROVE  A[a].opens > 0
      BY DEF Opened
    <2>1. a # e
      BY <1>5
    <2>2. NamesOf(N, a) = {}
      BY <1>7, <2>1
    <2>3. QED
      BY <1>1, <1>3, <2>1, <2>2 DEF Opened
  <1>16. Good(A, X \ {e})
    BY <1>3, <1>8, <1>9, <1>10, <1>11, <1>12, <1>13, <1>14, <1>15 DEF Good
  <1>17. NamesStay(A, N)
    <2>1. ASSUME NEW a \in Entries
          PROVE  NamesOf(N, a) \subseteq NamesOf(A, a)
      <3>1. CASE a = e
        BY <1>5, <3>1
      <3>2. CASE a # e
        BY <1>7, <3>2
      <3>3. QED
        BY <3>1, <3>2
    <2>2. QED
      BY <2>1 DEF NamesStay
  <1>18. QED
    BY <1>5, <1>16, <1>17

(***************************************************************************)
(* Changes that leave every name where it is.                              *)
(***************************************************************************)

SameChildren(M, N) ==
  \A a \in Entries, m \in Names : M[a].child[m] = N[a].child[m]

LEMMA SameTrees ==
  ASSUME NEW N, NEW M, SameChildren(M, N)
  PROVE  /\ \A e \in Entries : NamesOf(M, e) = NamesOf(N, e)
         /\ \A a \in Entries : Children(M, a) = Children(N, a) /\ Named(M, a) = Named(N, a)
         /\ Acyclic(N) => Acyclic(M)
  <1>1. ASSUME NEW e \in Entries
        PROVE  NamesOf(M, e) = NamesOf(N, e)
    <2>1. \A dn \in Entries \X Names : dn \in NamesOf(M, e) <=> dn \in NamesOf(N, e)
      BY DEF SameChildren, NamesOf
    <2>2. NamesOf(M, e) \subseteq Entries \X Names /\ NamesOf(N, e) \subseteq Entries \X Names
      BY DEF NamesOf
    <2>3. QED
      BY <2>1, <2>2
  <1>2. ASSUME NEW a \in Entries
        PROVE  Children(M, a) = Children(N, a) /\ Named(M, a) = Named(N, a)
    <2>1. \A m \in Names : M[a].child[m] = N[a].child[m]
      BY DEF SameChildren
    <2>2. {M[a].child[m] : m \in Names} = {N[a].child[m] : m \in Names}
      BY <2>1
    <2>3. {m \in Names : M[a].child[m] # None} = {m \in Names : N[a].child[m] # None}
      BY <2>1
    <2>4. QED
      BY <2>2, <2>3 DEF Children, Named
  <1>3. Acyclic(N) => Acyclic(M)
    BY <1>2, AcyclicFewer
  <1>4. QED
    BY <1>1, <1>2, <1>3

LEMMA BlankFacts ==
  /\ Unallocated \in Nodes
  /\ \A m \in Names : Unallocated.child[m] = None
  /\ Unallocated.kind = "none" /\ Unallocated.links = 0 /\ Unallocated.opens = 0
  /\ Unallocated.nchild = 0 /\ ~Unallocated.garbage /\ Unallocated.up = None
  <1>1. NoChildren \in [Names -> Entries \cup {None}] /\ \A m \in Names : NoChildren[m] = None
    BY DEF NoChildren
  <1>2. 0 \in 0 .. MaxOpens
    BY NamespaceAssumption
  <1>3. QED
    BY <1>1, <1>2 DEF Unallocated, Nodes

LEMMA RootFacts ==
  /\ NewRoot \in Nodes /\ NewRoot.kind = "dir" /\ NewRoot.child = NoChildren
  /\ NewRoot.links = 1 /\ NewRoot.nchild = 0 /\ ~NewRoot.garbage /\ NewRoot.opens = 0
  <1> DEFINE M == Made("dir", Root)
  <1>1. Root \in Entries /\ Unallocated.child = NoChildren
    BY NamespaceAssumption DEF Unallocated
  <1>2. M = [Unallocated EXCEPT !.kind = "dir", !.up = Root]
    BY DEF Made
  <1> HIDE DEF M
  <1>3. /\ M \in Nodes /\ M.kind = "dir" /\ M.child = NoChildren
        /\ M.nchild = 0 /\ ~M.garbage /\ M.opens = 0
    BY <1>1, <1>2, BlankFacts DEF Nodes
  <1>4. NewRoot = [M EXCEPT !.links = 1]
    BY DEF NewRoot, M
  <1> HIDE DEF NewRoot
  <1>5. QED
    BY <1>3, <1>4 DEF Nodes

\* Memory that holds no entry has no name and no children.
LEMMA BlankTrees ==
  ASSUME NEW N, NEW X, Good(N, X), NEW e \in Entries, N[e].kind = "none"
  PROVE  /\ N[e] = Unallocated /\ NamesOf(N, e) = {} /\ Children(N, e) = {}
         /\ \A m \in Names : N[e].child[m] = None
         /\ e # Root
  <1>1. N[e] = Unallocated /\ e # Root
    BY NamespaceAssumption DEF Good, Blank
  <1>2. \A m \in Names : N[e].child[m] = None
    BY <1>1, BlankFacts
  <1>3. NamesOf(N, e) = {}
    <2>1. e # None
      BY NamespaceAssumption
    <2>2. QED
      BY <2>1 DEF NamesOf, Good, Proper
  <1>4. QED
    BY <1>1, <1>2, <1>3 DEF Children

\* The entries of X are destroyed unless they are open or have links.
Swept(N, X) == [x \in Entries |-> IF x \in X THEN TryDestroy(N, x)[x] ELSE N[x]]

LEMMA SweepGood ==
  ASSUME NEW N, NEW X, Good(N, X),
         \A x \in X \cap Entries : NamesOf(N, x) = {} => Children(N, x) = {},
         NEW M, M = Swept(N, X)
  PROVE  /\ Good(M, {}) /\ SameChildren(M, N)
         /\ \A a \in Entries :
              M[a] = N[a] \/ (a \in X /\ NamesOf(N, a) = {} /\ M[a] = Unallocated)
  <1>1. /\ Typed(N) /\ Blank(N) /\ Proper(N) /\ OneName(N) /\ LinksExact(N)
        /\ NotOvercounted(N) /\ Acyclic(N) /\ Orphans(N, X) /\ Opened(N, X)
    BY DEF Good
  <1> DEFINE G == {x \in X \cap Entries : N[x].links <= 0 /\ N[x].opens <= 0}
  <1>2. \A a \in Entries : M[a] = IF a \in G THEN Unallocated ELSE N[a]
    BY <1>1 DEF Swept, TryDestroy, Typed
  <1>3. M = [a \in Entries |-> M[a]]
    BY DEF Swept
  <1>4. ASSUME NEW a \in G
        PROVE  /\ a \in Entries /\ a \in X /\ a # Root /\ NamesOf(N, a) = {}
               /\ Children(N, a) = {} /\ \A m \in Names : N[a].child[m] = None
    <2>1. a \in Entries /\ a \in X /\ N[a].links <= 0
      OBVIOUS
    <2>2. Cardinality(NamesOf(N, a)) \in Nat /\ IsFiniteSet(NamesOf(N, a))
      BY NamesFinite
    <2>3. N[a].kind # "none" => a # Root /\ Cardinality(NamesOf(N, a)) = 0
      <3>1. N[a].kind # "none" => N[a].links = Cardinality(NamesOf(N, a)) + (IF a = Root THEN 1 ELSE 0)
        BY <1>1, <2>1 DEF LinksExact
      <3>2. QED
        BY <2>1, <2>2, <3>1
    <2>4. a # Root /\ NamesOf(N, a) = {}
      <3>1. CASE N[a].kind = "none"
        BY <2>1, <3>1, BlankTrees
      <3>2. CASE N[a].kind # "none"
        BY <2>2, <2>3, <3>2, FS_EmptySet
      <3>3. QED
        BY <3>1, <3>2
    <2>5. Children(N, a) = {}
      BY <2>1, <2>4
    <2>6. QED
      BY <2>1, <2>4, <2>5 DEF Children
  <1> HIDE DEF G
  <1>5. SameChildren(M, N)
    BY <1>2, <1>4, BlankFacts DEF SameChildren
  <1>6. /\ \A e \in Entries : NamesOf(M, e) = NamesOf(N, e)
        /\ \A a \in Entries : Children(M, a) = Children(N, a) /\ Named(M, a) = Named(N, a)
        /\ Acyclic(M)
    BY <1>1, <1>5, SameTrees
  <1>7. Typed(M)
    BY <1>1, <1>2, <1>3, BlankFacts DEF Typed
  <1>8. Blank(M)
    BY <1>1, <1>2, <1>4, NamespaceAssumption DEF Blank
  <1>9. Proper(M)
    <2> SUFFICES ASSUME NEW a \in Entries, NEW m \in Names, M[a].child[m] # None
                 PROVE  /\ M[a].kind = "dir" /\ ~M[a].garbage
                        /\ M[a].child[m] # Root /\ M[M[a].child[m]].kind # "none"
      BY DEF Proper
    <2>1. M[a].child[m] = N[a].child[m] /\ N[a].child[m] \in Entries
      BY <1>1, <1>5, ChildFacts DEF SameChildren
    <2>2. a \notin G
      BY <1>4, <2>1, NamespaceAssumption
    <2>3. <<a, m>> \in NamesOf(N, N[a].child[m])
      BY <1>1, <2>1, ChildFacts
    <2>4. N[a].child[m] \notin G
      BY <1>4, <2>3
    <2>5. QED
      BY <1>1, <1>2, <2>1, <2>2, <2>4 DEF Proper
  <1>10. OneName(M)
    BY <1>1, <1>2, <1>6, BlankFacts DEF OneName
  <1>11. LinksExact(M)
    BY <1>1, <1>2, <1>6, BlankFacts DEF LinksExact
  <1>12. NotOvercounted(M)
    <2> SUFFICES ASSUME NEW a \in Entries
                 PROVE  M[a].nchild <= Named(M, a)
      BY DEF NotOvercounted
    <2>1. CASE a \in G
      <3>1. Named(M, a) \in Nat
        BY NamedFinite
      <3>2. M[a].nchild = 0
        BY <1>2, <2>1, BlankFacts
      <3>3. QED
        BY <3>1, <3>2
    <2>2. CASE a \notin G
      BY <1>1, <1>2, <1>6, <2>2 DEF NotOvercounted
    <2>3. QED
      BY <2>1, <2>2
  <1>13. Orphans(M, {})
    BY <1>1, <1>6 DEF Orphans
  <1>14. Opened(M, {})
    <2> SUFFICES ASSUME NEW a \in Entries, a # Root, NamesOf(M, a) = {}, M[a].kind # "none"
                 PROVE  M[a].opens > 0
      BY DEF Opened
    <2>1. a \notin G /\ M[a] = N[a] /\ NamesOf(N, a) = {}
      BY <1>2, <1>6, BlankFacts
    <2>2. CASE a \in X
      <3>1. N[a].links = 0
        <4>1. Cardinality(NamesOf(N, a)) = 0
          BY <2>1, FS_EmptySet
        <4>2. QED
          BY <1>1, <2>1, <4>1 DEF LinksExact
      <3>2. N[a].opens \in Nat
        BY <1>1 DEF Typed, Nodes
      <3>3. QED
        BY <2>1, <2>2, <3>1, <3>2 DEF G
    <2>3. CASE a \notin X
      BY <1>1, <2>1, <2>3 DEF Opened
    <2>4. QED
      BY <2>2, <2>3
  <1>15. ASSUME NEW a \in Entries
         PROVE  M[a] = N[a] \/ (a \in X /\ NamesOf(N, a) = {} /\ M[a] = Unallocated)
    <2>1. CASE a \in G
      <3>1. a \in X /\ NamesOf(N, a) = {}
        BY <1>4, <2>1
      <3>2. QED
        BY <1>2, <2>1, <3>1
    <2>2. CASE a \notin G
      <3>1. M[a] = N[a]
        BY <1>2, <2>2
      <3>2. QED
        BY <3>1
    <2>3. QED
      BY <2>1, <2>2
  <1>16. Good(M, {})
    BY <1>6, <1>7, <1>8, <1>9, <1>10, <1>11, <1>12, <1>13, <1>14 DEF Good
  <1>17. QED
    BY <1>5, <1>15, <1>16

\* fskit_entry_try_destroy_and_free sweeps one entry.
LEMMA TryDestroyGood ==
  ASSUME NEW N, NEW e \in Entries, Good(N, {e}),
         NamesOf(N, e) = {} => Children(N, e) = {},
         NEW M, M = TryDestroy(N, e)
  PROVE  /\ Good(M, {}) /\ SameChildren(M, N)
         /\ \A a \in Entries :
              M[a] = N[a] \/ (a = e /\ NamesOf(N, a) = {} /\ M[a] = Unallocated)
  <1>1. M = Swept(N, {e})
    <2>1. Typed(N)
      BY DEF Good
    <2>2. QED
      BY <2>1 DEF Swept, TryDestroy, Typed
  <1>2. \A x \in {e} \cap Entries : NamesOf(N, x) = {} => Children(N, x) = {}
    OBVIOUS
  <1>3. QED
    BY <1>1, <1>2, SweepGood

\* What still has a name, and the root, is of the kind it was, and garbage if
\* it was.
SameMarks(M, N) ==
  \A a \in Entries :
    \/ M[a].kind = N[a].kind /\ M[a].garbage = N[a].garbage
    \/ a # Root /\ NamesOf(M, a) = {}

\* M is N, or N without x.
Destroyed(M, N, x) ==
  /\ SameChildren(M, N)
  /\ \A a \in Entries :
       M[a] = N[a] \/ (a = x /\ NamesOf(N, a) = {} /\ M[a] = Unallocated)

AllMarks(M, N) ==
  \A a \in Entries : M[a].kind = N[a].kind /\ M[a].garbage = N[a].garbage

\* Neither destroying an entry nor changing counters moves a mark.
LEMMA DestroyMarks ==
  ASSUME NEW D, NEW N, AllMarks(D, N), NEW x, x # Root, NEW M, Destroyed(M, D, x)
  PROVE  SameMarks(M, N)
  BY SameTrees DEF SameMarks, AllMarks, Destroyed

LEMMA RecountMarks ==
  ASSUME NEW T, NEW N, SameMarks(T, N), NEW M, SameChildren(M, T), AllMarks(M, T)
  PROVE  SameMarks(M, N)
  BY SameTrees DEF SameMarks, AllMarks

\* The counters may change: opens, num_children if it stays low enough; and
\* garbage may become none.
Recounted(M, N, Y) ==
  /\ SameChildren(M, N)
  /\ \A a \in Entries :
       /\ M[a].kind = N[a].kind /\ M[a].links = N[a].links
       /\ M[a].garbage => N[a].garbage
       /\ M[a].up = N[a].up \/ NamesOf(N, a) = {}
       /\ M[a].nchild <= Named(N, a)
       /\ N[a].kind = "none" => M[a] = N[a]
  /\ \A a \in Entries \ Y : M[a].opens > 0 \/ M[a].opens = N[a].opens

LEMMA RecountGood ==
  ASSUME NEW N, NEW Y, Good(N, {}), NEW M, Typed(M), Recounted(M, N, Y)
  PROVE  Good(M, Y)
  <1>1. /\ Typed(N) /\ Blank(N) /\ Proper(N) /\ OneName(N) /\ LinksExact(N)
        /\ NotOvercounted(N) /\ Acyclic(N) /\ Orphans(N, {}) /\ Opened(N, {})
    BY DEF Good
  <1>2. SameChildren(M, N)
    BY DEF Recounted
  <1>3. \A a \in Entries :
          /\ M[a].kind = N[a].kind /\ M[a].links = N[a].links
          /\ M[a].garbage => N[a].garbage
          /\ M[a].up = N[a].up \/ NamesOf(N, a) = {}
          /\ M[a].nchild <= Named(N, a)
          /\ N[a].kind = "none" => M[a] = N[a]
    BY DEF Recounted
  <1>4. /\ \A a \in Entries : NamesOf(M, a) = NamesOf(N, a)
        /\ \A a \in Entries : Children(M, a) = Children(N, a) /\ Named(M, a) = Named(N, a)
        /\ Acyclic(M)
    BY <1>1, <1>2, SameTrees
  <1>5. Blank(M)
    BY <1>1, <1>3, NamespaceAssumption DEF Blank
  <1>6. Proper(M)
    <2> SUFFICES ASSUME NEW a \in Entries, NEW m \in Names, M[a].child[m] # None
                 PROVE  /\ M[a].kind = "dir" /\ ~M[a].garbage
                        /\ M[a].child[m] # Root /\ M[M[a].child[m]].kind # "none"
      BY DEF Proper
    <2>1. M[a].child[m] = N[a].child[m] /\ N[a].child[m] \in Entries
      BY <1>1, <1>2, ChildFacts DEF SameChildren
    <2>2. /\ N[a].kind = "dir" /\ ~N[a].garbage
          /\ N[a].child[m] # Root /\ N[N[a].child[m]].kind # "none"
      BY <1>1, <2>1 DEF Proper
    <2>3. QED
      BY <1>3, <2>1, <2>2
  <1>7. OneName(M)
    BY <1>1, <1>3, <1>4 DEF OneName
  <1>8. LinksExact(M)
    BY <1>1, <1>3, <1>4 DEF LinksExact
  <1>9. NotOvercounted(M)
    BY <1>3, <1>4 DEF NotOvercounted
  <1>10. Orphans(M, Y)
    BY <1>1, <1>4 DEF Orphans
  <1>11. Opened(M, Y)
    <2> SUFFICES ASSUME NEW a \in Entries \ Y, a # Root, NamesOf(M, a) = {}, M[a].kind # "none"
                 PROVE  M[a].opens > 0
      BY DEF Opened
    <2>1. N[a].opens > 0
      BY <1>1, <1>3, <1>4 DEF Opened
    <2>2. QED
      BY <2>1 DEF Recounted
  <1>12. QED
    BY <1>4, <1>5, <1>6, <1>7, <1>8, <1>9, <1>10, <1>11 DEF Good

(***************************************************************************)
(* Creation, with and without a garbage name in the way.                   *)
(***************************************************************************)

LEMMA TakesFacts ==
  ASSUME Good(node, {}), NEW d, IsDir(d)
  PROVE  d \in Entries /\ Takes(node, d)
  <1>1. Typed(node) /\ d \in Resolvable(node) /\ node[d].kind = "dir"
    BY DEF Good, IsDir
  <1>2. /\ d \in Entries /\ ~node[d].garbage
        /\ d = Root \/ \E a \in Entries, m \in Names : node[a].child[m] = d
    BY <1>1, ResolvableFacts
  <1>3. ASSUME NEW a \in Entries, NEW m \in Names, node[a].child[m] = d
        PROVE  NamesOf(node, d) # {}
    <2>1. <<a, m>> \in NamesOf(node, d)
      BY <1>3 DEF NamesOf
    <2>2. QED
      BY <2>1
  <1>4. QED
    BY <1>1, <1>2, <1>3 DEF Takes

IsKind(k) == k \in {"file", "dir"}

\* A new entry in memory that holds none.
Planted(N, e, k, d) == [N EXCEPT ![e] = Made(k, d)]

IsPlanted(M, N, e) ==
  /\ SameChildren(M, N) /\ \A a \in Entries \ {e} : M[a] = N[a]
  /\ M[e].kind # "none" /\ Children(M, e) = {} /\ NamesOf(M, e) = {} /\ e # Root

LEMMA MadeGood ==
  ASSUME NEW N, Good(N, {}), NEW e \in Entries, N[e].kind = "none",
         NEW k, IsKind(k), NEW d \in Entries,
         NEW M, M = Planted(N, e, k, d)
  PROVE  Good(M, {e}) /\ IsPlanted(M, N, e)
  <1>1. /\ Typed(N) /\ Blank(N) /\ Proper(N) /\ OneName(N) /\ LinksExact(N)
        /\ NotOvercounted(N) /\ Acyclic(N) /\ Orphans(N, {}) /\ Opened(N, {})
    BY DEF Good
  <1>2. /\ N[e] = Unallocated /\ NamesOf(N, e) = {} /\ Children(N, e) = {}
        /\ \A m \in Names : N[e].child[m] = None
        /\ e # Root
    BY BlankTrees
  <1>3. /\ \A a \in Entries \ {e} : M[a] = N[a]
        /\ M[e] = Made(k, d)
        /\ M = [a \in Entries |-> M[a]]
    BY <1>1 DEF Typed, Planted
  <1>4. /\ Made(k, d) \in Nodes /\ Made(k, d).kind = k
        /\ Made(k, d).child = NoChildren
        /\ Made(k, d).nchild = 0 /\ Made(k, d).links = 0
    <2>1. Made(k, d) = [Unallocated EXCEPT !.kind = k, !.up = IF k = "dir" THEN d ELSE None]
      BY DEF Made
    <2>2. Unallocated \in Nodes /\ Unallocated.nchild = 0 /\ Unallocated.links = 0
      BY BlankFacts
    <2>3. Unallocated.child = NoChildren
      BY DEF Unallocated
    <2>4. (IF k = "dir" THEN d ELSE None) \in Entries \cup {None}
      OBVIOUS
    <2>5. k \in {"none", "file", "dir"}
      BY DEF IsKind
    <2>6. QED
      BY <2>1, <2>2, <2>3, <2>4, <2>5 DEF Nodes
  <1>5. SameChildren(M, N)
    BY <1>2, <1>3, <1>4 DEF SameChildren, NoChildren
  <1>6. /\ \A a \in Entries : NamesOf(M, a) = NamesOf(N, a)
        /\ \A a \in Entries : Children(M, a) = Children(N, a) /\ Named(M, a) = Named(N, a)
        /\ Acyclic(M)
    BY <1>1, <1>5, SameTrees
  <1>7. Typed(M)
    BY <1>1, <1>3, <1>4 DEF Typed
  <1>8. Blank(M)
    BY <1>1, <1>2, <1>3, <1>4, NamespaceAssumption DEF Blank, IsKind
  <1>9. Proper(M)
    <2> SUFFICES ASSUME NEW a \in Entries, NEW m \in Names, M[a].child[m] # None
                 PROVE  /\ M[a].kind = "dir" /\ ~M[a].garbage
                        /\ M[a].child[m] # Root /\ M[M[a].child[m]].kind # "none"
      BY DEF Proper
    <2>1. M[a].child[m] = N[a].child[m] /\ N[a].child[m] \in Entries /\ a # e
      BY <1>1, <1>2, <1>5, ChildFacts DEF SameChildren
    <2>2. N[a].child[m] # Root /\ N[N[a].child[m]].kind # "none"
      BY <1>1, <2>1, NamespaceAssumption DEF Proper
    <2>3. M[N[a].child[m]] = N[N[a].child[m]]
      BY <1>2, <1>3, <2>1, <2>2, BlankFacts
    <2>4. QED
      BY <1>1, <1>3, <2>1, <2>2, <2>3 DEF Proper
  <1>10. OneName(M)
    BY <1>1, <1>2, <1>3, <1>6 DEF OneName
  <1>11. LinksExact(M)
    <2> SUFFICES ASSUME NEW a \in Entries, M[a].kind # "none"
                 PROVE  M[a].links = Cardinality(NamesOf(M, a)) + (IF a = Root THEN 1 ELSE 0)
      BY DEF LinksExact
    <2>1. CASE a = e
      <3>1. Cardinality(NamesOf(M, a)) = 0 /\ a # Root
        BY <1>2, <1>6, <2>1, FS_EmptySet
      <3>2. QED
        BY <1>3, <1>4, <2>1, <3>1
    <2>2. CASE a # e
      BY <1>1, <1>3, <1>6, <2>2 DEF LinksExact
    <2>3. QED
      BY <2>1, <2>2
  <1>12. NotOvercounted(M)
    <2> SUFFICES ASSUME NEW a \in Entries
                 PROVE  M[a].nchild <= Named(M, a)
      BY DEF NotOvercounted
    <2>1. CASE a = e
      <3>1. Named(M, a) \in Nat
        BY NamedFinite
      <3>2. QED
        BY <1>3, <1>4, <2>1, <3>1
    <2>2. CASE a # e
      BY <1>1, <1>3, <1>6, <2>2 DEF NotOvercounted
    <2>3. QED
      BY <2>1, <2>2
  <1>13. Orphans(M, {e})
    BY <1>1, <1>6 DEF Orphans
  <1>14. Opened(M, {e})
    BY <1>1, <1>3, <1>6 DEF Opened
  <1>15. Good(M, {e})
    BY <1>6, <1>7, <1>8, <1>9, <1>10, <1>11, <1>12, <1>13, <1>14 DEF Good
  <1>16. QED
    BY <1>2, <1>3, <1>4, <1>5, <1>6, <1>15 DEF IsKind, IsPlanted

\* The only change is e, of kind k, under the name n in d.
IsCreated(A, N, d, n, e, k) ==
  /\ Renamed(A, N, d, n, e)
  /\ A[e].kind = k /\ ~A[e].garbage
  /\ \A a \in Entries \ {e} : A[a].kind = N[a].kind /\ A[a].garbage = N[a].garbage

LEMMA CreatedFields ==
  ASSUME NEW N, Typed(N), NEW e \in Entries, NEW k, NEW d \in Entries, NEW n \in Names, e # d,
         NEW M, M = Planted(N, e, k, d), Typed(M), SameChildren(M, N),
         NEW A, A = Attach(M, d, n, e)
  PROVE  IsCreated(A, N, d, n, e, k)
  <1>1. /\ Renamed(A, M, d, n, e)
        /\ \A a \in Entries : A[a].kind = M[a].kind /\ A[a].garbage = M[a].garbage
    BY AttachFields
  <1>2. M[e] = Made(k, d) /\ \A a \in Entries \ {e} : M[a] = N[a]
    BY DEF Planted, Typed
  <1>3. Made(k, d).kind = k /\ ~Made(k, d).garbage
    BY BlankFacts DEF Made, Nodes
  <1>4. QED
    BY <1>1, <1>2, <1>3 DEF IsCreated, Renamed, SameChildren

LEMMA CreateGood ==
  ASSUME NEW N, Good(N, {}), NEW d \in Entries, NEW n \in Names, NEW e \in Entries,
         Takes(N, d), N[d].child[n] = None, N[e].kind = "none", NEW k, IsKind(k)
  PROVE  /\ Good(Attach([N EXCEPT ![e] = Made(k, d)], d, n, e), {})
         /\ NamesStay(Attach([N EXCEPT ![e] = Made(k, d)], d, n, e), N)
         /\ IsCreated(Attach([N EXCEPT ![e] = Made(k, d)], d, n, e), N, d, n, e, k)
  <1> DEFINE M == Planted(N, e, k, d)
  <1>1. /\ Good(M, {e}) /\ SameChildren(M, N)
        /\ \A a \in Entries \ {e} : M[a] = N[a]
        /\ M[e].kind # "none" /\ Children(M, e) = {} /\ NamesOf(M, e) = {} /\ e # Root
    <2>1. M = Planted(N, e, k, d)
      OBVIOUS
    <2> HIDE DEF M
    <2>2. Good(M, {e}) /\ IsPlanted(M, N, e)
      BY <2>1, MadeGood
    <2>3. QED
      BY <2>2 DEF IsPlanted
  <1> HIDE DEF M
  <1>2. d # e
    BY DEF Takes
  <1>3. NamesOf(M, d) = NamesOf(N, d) /\ M[d] = N[d]
    BY <1>1, <1>2, SameTrees
  <1>4. d \notin Below(M, e)
    <2>1. Typed(M)
      BY <1>1 DEF Good
    <2>2. Below(M, e) = {e}
      BY <1>1, <2>1, BelowAlone
    <2>3. QED
      BY <1>2, <2>2
  <1>5. Attachable(M, d, n, e)
    BY <1>1, <1>3, <1>4 DEF Attachable, Takes
  <1>6. Good(Attach(M, d, n, e), {e} \ {e})
    BY <1>1, <1>5, AttachGood
  <1>7. {e} \ {e} = {}
    OBVIOUS
  <1>8. Good(Attach(M, d, n, e), {})
    BY <1>6, <1>7
  <1>9. NamesStay(Attach(M, d, n, e), N)
    <2>1. NamesStay(Attach(M, d, n, e), M)
      BY <1>1, <1>5, AttachGood
    <2>2. \A a \in Entries : NamesOf(M, a) = NamesOf(N, a)
      BY <1>1, SameTrees
    <2>3. QED
      BY <2>1, <2>2 DEF NamesStay
  <1>10. IsCreated(Attach(M, d, n, e), N, d, n, e, k)
    <2>1. Typed(N) /\ Typed(M)
      BY <1>1 DEF Good
    <2>2. M = Planted(N, e, k, d)
      BY DEF M
    <2>3. QED
      BY <1>1, <1>2, <2>1, <2>2, CreatedFields
  <1>11. QED
    BY <1>8, <1>9, <1>10 DEF M, Planted

\* num_children may fall behind.
Uncounted(N, d) == [N EXCEPT ![d].nchild = @ - 1]

LEMMA UncountGood ==
  ASSUME NEW N, Good(N, {}), NEW d \in Entries, N[d].kind # "none",
         NEW M, M = Uncounted(N, d)
  PROVE  /\ Good(M, {}) /\ SameChildren(M, N)
         /\ \A a \in Entries : M[a].kind = N[a].kind /\ M[a].garbage = N[a].garbage
  <1>1. Typed(N) /\ NotOvercounted(N)
    BY DEF Good
  <1>2. N[d] \in Nodes /\ N[d].nchild \in Int
    BY <1>1 DEF Typed, Nodes
  <1>3. /\ \A a \in Entries \ {d} : M[a] = N[a]
        /\ M[d] = [N[d] EXCEPT !.nchild = N[d].nchild - 1]
        /\ M = [a \in Entries |-> M[a]]
    BY <1>1 DEF Typed, Uncounted
  <1>4. /\ M[d] \in Nodes /\ M[d].kind = N[d].kind /\ M[d].child = N[d].child
        /\ M[d].up = N[d].up /\ M[d].links = N[d].links /\ M[d].opens = N[d].opens
        /\ M[d].garbage = N[d].garbage /\ M[d].nchild = N[d].nchild - 1
    <2>1. N[d].nchild - 1 \in Int
      BY <1>2
    <2>2. QED
      BY <1>2, <1>3, <2>1 DEF Nodes
  <1>5. Typed(M) /\ SameChildren(M, N)
    BY <1>1, <1>3, <1>4 DEF Typed, SameChildren
  <1>6. M[d].nchild <= Named(N, d)
    <2>1. N[d].nchild <= Named(N, d) /\ Named(N, d) \in Nat
      BY <1>1, NamedFinite DEF NotOvercounted
    <2>2. QED
      BY <1>2, <1>4, <2>1
  <1>7. Recounted(M, N, {})
    BY <1>1, <1>3, <1>4, <1>5, <1>6 DEF Recounted, NotOvercounted
  <1>8. Good(M, {})
    BY <1>5, <1>7, RecountGood
  <1>9. QED
    BY <1>3, <1>4, <1>5, <1>8

LEMMA CollectGood ==
  ASSUME NEW N, Good(N, {}), NEW d \in Entries, NEW n \in Names, NEW x, N[d].child[n] = x,
         x # None, N[x].garbage, NEW C, C = Collect(N, d, n)
  PROVE  /\ Good(C, {}) /\ Renamed(C, N, d, n, None) /\ SameMarks(C, N)
         /\ \A a \in Entries \ {x} : C[a].kind = N[a].kind /\ C[a].garbage = N[a].garbage
         /\ x \in Entries \ {d} /\ N[x].kind # "none"
  <1> DEFINE D == Detach(N, d, n)
             T == TryDestroy(D, x)
  <1>1. Typed(N) /\ NotOvercounted(N) /\ Proper(N) /\ Blank(N)
    BY DEF Good
  <1>2. x \in Entries \ {d, Root}
    BY LinkedChild
  <1>3. Children(N, x) = {} /\ Named(N, x) = 0
    BY <1>2, NoChildrenIn
  <1>4. N[x].nchild <= 2
    <2>1. N[x].nchild <= 0 /\ N[x].nchild \in Int
      BY <1>1, <1>2, <1>3 DEF NotOvercounted, Typed, Nodes
    <2>2. QED
      BY <2>1
  <1>5. /\ Good(D, {x}) /\ Renamed(D, N, d, n, None)
        /\ \A a \in Entries : D[a].kind = N[a].kind /\ D[a].garbage = N[a].garbage
    <2>1. Good(D, {} \cup {x}) /\ Renamed(D, N, d, n, None) /\ Detached(D, N)
      BY <1>4, DetachGood
    <2>2. {} \cup {x} = {x}
      OBVIOUS
    <2>3. QED
      BY <2>1, <2>2 DEF Detached
  <1>6. Children(D, x) = {}
    <2>1. Typed(D) /\ None \in Entries \cup {None}
      BY <1>5 DEF Good
    <2>2. QED
      BY <1>1, <1>2, <1>3, <1>5, <2>1, RenamedTrees
  <1> HIDE DEF D
  <1>7. /\ Good(T, {}) /\ SameChildren(T, D)
        /\ \A a \in Entries : T[a] = D[a] \/ (a = x /\ NamesOf(D, a) = {} /\ T[a] = Unallocated)
    BY <1>2, <1>5, <1>6, TryDestroyGood
  <1>8. C = IF T[x].kind = "none" THEN Uncounted(T, d) ELSE T
    BY DEF Collect, D, Uncounted
  <1> HIDE DEF T
  <1>9. /\ Renamed(T, N, d, n, None) /\ SameMarks(T, N)
        /\ \A a \in Entries \ {x} : T[a].kind = N[a].kind /\ T[a].garbage = N[a].garbage
    <2>1. SameMarks(T, N)
      <3>1. AllMarks(D, N) /\ Destroyed(T, D, x)
        BY <1>5, <1>7 DEF AllMarks, Destroyed
      <3>2. QED
        BY <1>2, <3>1, DestroyMarks
    <2>2. QED
      BY <1>5, <1>7, <2>1 DEF Renamed, SameChildren
  <1>10. N[d].kind # "none" /\ N[x].kind # "none"
    BY <1>1 DEF Proper
  <1>11. CASE T[x].kind = "none"
    <2>1. C = Uncounted(T, d) /\ T[d].kind # "none"
      BY <1>2, <1>8, <1>9, <1>10, <1>11
    <2>2. /\ Good(C, {}) /\ SameChildren(C, T)
          /\ \A a \in Entries : C[a].kind = T[a].kind /\ C[a].garbage = T[a].garbage
      BY <1>7, <2>1, UncountGood
    <2>3. SameMarks(C, N)
      BY <1>9, <2>2, RecountMarks DEF AllMarks
    <2>4. QED
      BY <1>2, <1>9, <1>10, <2>2, <2>3 DEF Renamed, SameChildren
  <1>12. CASE T[x].kind # "none"
    BY <1>2, <1>7, <1>8, <1>9, <1>10, <1>12
  <1>13. QED
    BY <1>11, <1>12

\* The name n in d is gone; it led to garbage.
GarbageDropped(M, N, d, n) ==
  /\ N[d].child[n] # None /\ N[N[d].child[n]].garbage
  /\ Renamed(M, N, d, n, None) /\ SameMarks(M, N)

\* What a creation starts from is good, has the name free and takes it.
LEMMA NameFreedGood ==
  ASSUME IInv, NEW d, NEW n \in Names, IsDir(d), NEW N \in NameFreed(d, n)
  PROVE  /\ d \in Entries /\ Good(N, {}) /\ Takes(N, d) /\ N[d].child[n] = None
         /\ \A e \in Entries : node[e].kind = "none" => N[e].kind = "none"
         /\ Keeps(N, node)
         /\ N = node \/ GarbageDropped(N, node, d, n)
  <1> DEFINE x == node[d].child[n]
  <1>1. d \in Entries /\ Takes(node, d) /\ Good(node, {})
    BY TakesFacts DEF IInv
  <1>2. CASE x = None
    BY <1>1, <1>2 DEF NameFreed, Keeps
  <1>3. CASE x # None
    <2>1. N = Collect(node, d, n) /\ node[x].garbage
      BY <1>3 DEF NameFreed
    <2>2. /\ Good(N, {}) /\ Renamed(N, node, d, n, None)
          /\ \A a \in Entries \ {x} : N[a].kind = node[a].kind /\ N[a].garbage = node[a].garbage
          /\ x \in Entries \ {d} /\ node[x].kind # "none"
          /\ SameMarks(N, node)
      BY <1>1, <1>3, <2>1, CollectGood
    <2>3. N[d].child[n] = None
      BY <1>1, <2>2 DEF Renamed
    <2>4. NamesOf(N, d) = NamesOf(node, d)
      <3>1. Typed(N) /\ Typed(node) /\ None \in Entries \cup {None} /\ None \notin Entries
        BY <1>1, <2>2, NamespaceAssumption DEF Good
      <3>2. NamesOf(N, d) = NamesOf(node, d) \ {<<d, n>>}
        BY <1>1, <2>2, <3>1, RenamedTrees
      <3>3. <<d, n>> \notin NamesOf(node, d)
        BY <2>2 DEF NamesOf
      <3>4. QED
        BY <3>2, <3>3
    <2>5. Takes(N, d)
      BY <1>1, <2>2, <2>4 DEF Takes
    <2>6. Keeps(N, node)
      <3>1. Typed(N) /\ Typed(node) /\ None \in Entries \cup {None} /\ None \notin Entries
        BY <1>1, <2>2, NamespaceAssumption DEF Good
      <3>2. \A a \in Entries : NamesOf(N, a) = NamesOf(node, a) \ {<<d, n>>}
        BY <1>1, <2>2, <3>1, RenamedTrees
      <3>3. ASSUME NEW a \in Entries \ {x}
            PROVE  <<d, n>> \notin NamesOf(node, a)
        BY DEF NamesOf
      <3>4. Children(node, x) = {}
        BY <1>1, <2>1, <2>2, NoChildrenIn
      <3>5. QED
        BY <3>2, <3>3, <3>4 DEF Keeps
    <2>7. GarbageDropped(N, node, d, n)
      BY <1>3, <2>1, <2>2 DEF GarbageDropped
    <2>8. QED
      BY <1>1, <2>2, <2>3, <2>5, <2>6, <2>7
  <1>4. QED
    BY <1>2, <1>3

LEMMA MakeStep ==
  ASSUME IInv, NEW d \in Entries, NEW n \in Names, NEW k \in {"file", "dir"}, Make(d, n, k)
  PROVE  IInv' /\ Keeps(node', node)
  <1>1. PICK N \in NameFreed(d, n), e \in Entries :
          node[e].kind = "none" /\ node' = Attach([N EXCEPT ![e] = Made(k, d)], d, n, e)
    BY DEF Make
  <1>2. /\ Good(N, {}) /\ Takes(N, d) /\ N[d].child[n] = None /\ N[e].kind = "none"
        /\ Keeps(N, node)
    BY <1>1, NameFreedGood DEF Make
  <1>3. Good(node', {}) /\ NamesStay(node', N)
    BY <1>1, <1>2, CreateGood DEF IsKind
  <1>4. Keeps(node', node)
    BY <1>2, <1>3 DEF Keeps, NamesStay
  <1>5. QED
    BY <1>3, <1>4 DEF IInv

LEMMA SymlinkStep ==
  ASSUME IInv, NEW d \in Entries, NEW n \in Names, Symlink(d, n)
  PROVE  IInv' /\ Keeps(node', node)
  <1>1. PICK e \in Entries :
          node[e].kind = "none" /\ node' = Attach([node EXCEPT ![e] = Made("file", d)], d, n, e)
    BY DEF Symlink
  <1>2. Good(node, {}) /\ Takes(node, d) /\ node[d].child[n] = None
    BY TakesFacts DEF Symlink, IInv
  <1>3. Good(node', {}) /\ NamesStay(node', node)
    BY <1>1, <1>2, CreateGood DEF IsKind
  <1>4. QED
    BY <1>3 DEF IInv, Keeps, NamesStay

LEMMA MakeRefusedStep ==
  ASSUME IInv, NEW d \in Entries, NEW n \in Names, MakeRefused(d, n)
  PROVE  IInv' /\ Keeps(node', node)
  <1>1. PICK N \in NameFreed(d, n) : node' = N
    BY DEF MakeRefused
  <1>2. Good(node', {}) /\ Keeps(node', node)
    BY <1>1, NameFreedGood DEF MakeRefused
  <1>3. QED
    BY <1>2 DEF IInv

(***************************************************************************)
(* Links and removals.                                                     *)
(***************************************************************************)

LEMMA LinkStep ==
  ASSUME IInv, NEW e \in Entries, NEW d \in Entries, NEW n \in Names, Link(e, d, n)
  PROVE  IInv' /\ Keeps(node', node)
  <1>1. Good(node, {}) /\ Typed(node) /\ Proper(node) /\ Blank(node)
    BY DEF IInv, Good
  <1>2. Takes(node, d) /\ node[d].child[n] = None /\ node' = Attach(node, d, n, e)
    BY <1>1, TakesFacts DEF Link
  <1>3. e # Root /\ node[e].kind # "dir"
    BY <1>1 DEF Link, Blank
  <1>4. node[e].kind # "none"
    <2>1. PICK a \in Entries, m \in Names : node[a].child[m] = e
      BY <1>1, <1>3, ResolvableFacts DEF Link
    <2>2. e # None
      BY NamespaceAssumption
    <2>3. QED
      BY <1>1, <2>1, <2>2 DEF Proper
  <1>5. d \notin Below(node, e)
    <2>1. Below(node, e) = {e}
      BY <1>1, <1>3, NoChildrenIn, BelowAlone
    <2>2. QED
      BY <1>2, <1>3, <2>1 DEF Takes
  <1>6. Good(node', {} \ {e}) /\ NamesStay(node', node)
    <2>1. Attachable(node, d, n, e)
      BY <1>2, <1>3, <1>4, <1>5 DEF Attachable
    <2>2. QED
      BY <1>1, <1>2, <2>1, AttachGood
  <1>7. {} \ {e} = {}
    OBVIOUS
  <1>8. QED
    BY <1>6, <1>7 DEF IInv, Keeps, NamesStay

\* Taking away a name of what is empty, and destroying it if that was its last.
LEMMA RemoveGood ==
  ASSUME NEW N, Good(N, {}), NEW d \in Entries, NEW n \in Names, NEW x, N[d].child[n] = x,
         x # None, Children(N, x) = {}, NEW M, M = TryDestroy(Detach(N, d, n), x)
  PROVE  Good(M, {}) /\ Keeps(M, N) /\ Renamed(M, N, d, n, None) /\ SameMarks(M, N)
  <1> DEFINE D == Detach(N, d, n)
  <1>1. Typed(N) /\ NotOvercounted(N)
    BY DEF Good
  <1>2. x \in Entries \ {d, Root}
    BY LinkedChild
  <1>3. N[x].nchild <= 2
    <2>1. {m \in Names : N[x].child[m] # None} = {}
      BY DEF Children
    <2>2. Named(N, x) = 0
      BY <2>1, FS_EmptySet DEF Named
    <2>3. N[x].nchild <= 0 /\ N[x].nchild \in Int
      BY <1>1, <1>2, <2>2 DEF NotOvercounted, Typed, Nodes
    <2>4. QED
      BY <2>3
  <1>4. Good(D, {} \cup {x}) /\ Renamed(D, N, d, n, None) /\ Detached(D, N)
    BY <1>3, DetachGood
  <1>5. Good(D, {x})
    <2>1. {} \cup {x} = {x}
      OBVIOUS
    <2>2. QED
      BY <1>4, <2>1
  <1>6. Children(D, x) = {}
    <2>1. Typed(D) /\ None \in Entries \cup {None}
      BY <1>5 DEF Good
    <2>2. QED
      BY <1>1, <1>2, <1>4, <2>1, RenamedTrees
  <1> HIDE DEF D
  <1>7. M = TryDestroy(D, x)
    BY DEF D
  <1>8. /\ Good(M, {}) /\ SameChildren(M, D)
        /\ \A a \in Entries :
             M[a] = D[a] \/ (a = x /\ NamesOf(D, a) = {} /\ M[a] = Unallocated)
    BY <1>2, <1>5, <1>6, <1>7, TryDestroyGood
  <1>9. Keeps(M, N)
    <2>1. Typed(D) /\ None \in Entries \cup {None} /\ None \notin Entries
      BY <1>5, NamespaceAssumption DEF Good
    <2>2. \A a \in Entries : NamesOf(D, a) = NamesOf(N, a) \ {<<d, n>>}
      BY <1>1, <1>4, <2>1, RenamedTrees
    <2>3. \A a \in Entries : NamesOf(M, a) = NamesOf(D, a)
      BY <1>8, SameTrees
    <2>4. ASSUME NEW a \in Entries \ {x}
          PROVE  <<d, n>> \notin NamesOf(N, a)
      BY DEF NamesOf
    <2>5. QED
      BY <2>2, <2>3, <2>4 DEF Keeps
  <1>10. SameMarks(M, N)
    <2>1. AllMarks(D, N) /\ Destroyed(M, D, x)
      BY <1>4, <1>8 DEF Detached, AllMarks, Destroyed
    <2>2. QED
      BY <1>2, <2>1, DestroyMarks
  <1>11. Renamed(M, N, d, n, None)
    BY <1>4, <1>8 DEF Renamed, SameChildren
  <1>12. QED
    BY <1>8, <1>9, <1>10, <1>11

LEMMA UnlinkStep ==
  ASSUME Hazardous = {}, IInv, NEW d \in Entries, NEW n \in Names, Unlink(d, n)
  PROVE  IInv' /\ Keeps(node', node)
  <1> DEFINE x == node[d].child[n]
  <1>1. x # None /\ node[x].kind # "dir" /\ node' = TryDestroy(Detach(node, d, n), x)
    BY DEF Unlink
  <1>2. Good(node, {})
    BY DEF IInv
  <1>3. Children(node, x) = {}
    <2>1. x \in Entries
      BY <1>1, <1>2, LinkedChild
    <2>2. QED
      BY <1>1, <1>2, <2>1, NoChildrenIn
  <1>4. Good(node', {}) /\ Keeps(node', node)
    BY <1>1, <1>2, <1>3, RemoveGood
  <1>5. QED
    BY <1>4 DEF IInv

LEMMA RmdirStep ==
  ASSUME IInv, NEW d \in Entries, NEW n \in Names, Rmdir(d, n)
  PROVE  IInv' /\ Keeps(node', node)
  <1> DEFINE x == node[d].child[n]
  <1>1. x # None /\ Children(node, x) = {} /\ node' = TryDestroy(Detach(node, d, n), x)
    BY DEF Rmdir
  <1>2. Good(node, {})
    BY DEF IInv
  <1>3. Good(node', {}) /\ Keeps(node', node)
    BY <1>1, <1>2, RemoveGood
  <1>4. QED
    BY <1>3 DEF IInv

(***************************************************************************)
(* Renames.                                                                *)
(***************************************************************************)

\* The entry under n in d is under m in to, and nothing else has moved.
Moved(M, N, d, n, to, m) ==
  /\ \A a \in Entries, k \in Names :
       M[a].child[k] = IF a = to /\ k = m THEN N[d].child[n]
                       ELSE IF a = d /\ k = n THEN None ELSE N[a].child[k]
  /\ SameMarks(M, N)

\* Between two directories, or in one: the source loses its name, a target its
\* own, and the source takes that.
LEMMA RenameStep ==
  ASSUME Hazardous = {}, IInv, NEW d \in Entries, NEW n \in Names,
         NEW to \in Entries, NEW m \in Names, Rename(d, n, to, m)
  PROVE  IInv' /\ Keeps(node', node) /\ Moved(node', node, d, n, to, m)
  <1> DEFINE e == node[d].child[n]
             x == node[to].child[m]
             D == Detach(node, d, n)
             R == IF x = None THEN D ELSE Detach(D, to, m)
             A == Attach(R, to, m, e)
  <1>1. /\ Good(node, {}) /\ Typed(node) /\ Acyclic(node) /\ OneName(node) /\ Proper(node)
        /\ NotOvercounted(node)
    BY DEF IInv, Good
  <1>2. /\ IsDir(to) /\ e # None /\ MayReplace(e, x, d = to)
        /\ to \notin Below(node, e)
        /\ node[e].kind = "dir" => ~(node[e].nchild > 2)
        /\ x # None => node[x].nchild = Named(node, x)
        /\ node' = IF x = None THEN A ELSE TryDestroy(A, x)
    BY DEF Rename, RenameAvoided
  <1>3. Takes(node, to)
    BY <1>1, <1>2, TakesFacts
  <1>4. e \in Entries \ {d, Root} /\ node[e].kind # "none" /\ None \notin Entries
    BY <1>1, <1>2, LinkedChild, NamespaceAssumption DEF Proper
  <1>5. to # e
    BY <1>1, <1>2, <1>4, BelowLeast
  <1>6. /\ Good(D, {e}) /\ Renamed(D, node, d, n, None)
        /\ \A a \in Entries : /\ D[a].kind = node[a].kind /\ D[a].garbage = node[a].garbage
                              /\ D[a].nchild <= node[a].nchild
    <2>1. node[e].kind = "dir" => node[e].nchild <= 2
      <3>1. node[e].nchild \in Int
        BY <1>1, <1>4 DEF Typed, Nodes
      <3>2. QED
        BY <1>2, <3>1
    <2>2. Good(D, {} \cup {e}) /\ Renamed(D, node, d, n, None) /\ Detached(D, node)
      BY <1>1, <1>2, <2>1, DetachGood
    <2>3. {} \cup {e} = {e}
      OBVIOUS
    <2>4. QED
      BY <2>2, <2>3 DEF Detached
  <1>7. /\ NamesOf(D, e) = NamesOf(node, e) \ {<<d, n>>}
        /\ \A a \in Entries \ {e} : NamesOf(D, a) = NamesOf(node, a)
        /\ \A a \in Entries : Children(D, a) \subseteq Children(node, a)
    <2>1. Typed(D)
      BY <1>6 DEF Good
    <2>2. \A a \in Entries : NamesOf(D, a) = NamesOf(node, a) \ {<<d, n>>}
      BY <1>1, <1>4, <1>6, <2>1, RenamedTrees
    <2>3. \A a \in Entries \ {e} : <<d, n>> \notin NamesOf(node, a)
      BY DEF NamesOf
    <2>4. \A a \in Entries : Children(D, a) \subseteq Children(node, a)
      BY <1>1, <1>4, <1>6, <2>1, RenamedTrees
    <2>5. QED
      BY <1>4, <2>2, <2>3, <2>4
  <1>8. node[e].kind = "dir" => NamesOf(D, e) = {}
    <2>1. <<d, n>> \in NamesOf(node, e)
      BY <1>4 DEF NamesOf
    <2>2. node[e].kind = "dir" => \A p \in NamesOf(node, e) : p = <<d, n>>
      BY <1>1, <1>4, <2>1 DEF OneName
    <2>3. QED
      BY <1>7, <2>2
  <1> HIDE DEF D
  <1>9. to \notin Below(D, e)
    <2>1. Typed(D)
      BY <1>6 DEF Good
    <2>2. Below(D, e) \subseteq Below(node, e)
      BY <1>1, <1>4, <1>7, <2>1, BelowFewer
    <2>3. QED
      BY <1>2, <2>2
  <1>10. NamesOf(D, to) = NamesOf(node, to) /\ Takes(D, to)
    BY <1>3, <1>5, <1>6, <1>7 DEF Takes
  <1>11. CASE x = None
    <2>1. D[to].child[m] = None
      BY <1>6, <1>11 DEF Renamed
    <2>2. Attachable(D, to, m, e)
      BY <1>4, <1>6, <1>8, <1>9, <1>10, <2>1 DEF Attachable
    <2>3. /\ Good(Attach(D, to, m, e), {e} \ {e}) /\ NamesStay(Attach(D, to, m, e), D)
          /\ <<to, m>> \in NamesOf(Attach(D, to, m, e), e)
      BY <1>4, <1>6, <2>2, AttachGood
    <2>4. {e} \ {e} = {}
      OBVIOUS
    <2>5. node' = Attach(D, to, m, e)
      BY <1>2, <1>11
    <2>6. Good(node', {}) /\ NamesStay(node', D) /\ NamesOf(node', e) # {}
      BY <2>3, <2>4, <2>5
    <2>7. Keeps(node', node)
      <3>1. ASSUME NEW a \in Entries, NamesOf(node, a) # {}
            PROVE  NamesOf(node', a) # {}
        <4>1. CASE a = e
          BY <2>6, <4>1
        <4>2. CASE a # e
          BY <1>7, <2>6, <3>1, <4>2 DEF NamesStay
        <4>3. QED
          BY <4>1, <4>2
      <3>2. QED
        BY <3>1 DEF Keeps
    <2>8. Moved(node', node, d, n, to, m)
      <3>1. /\ Renamed(node', D, to, m, e)
            /\ \A a \in Entries : node'[a].kind = D[a].kind /\ node'[a].garbage = D[a].garbage
        <4>1. Typed(D)
          BY <1>6 DEF Good
        <4>2. QED
          BY <1>4, <1>5, <2>5, <4>1, AttachFields
      <3>2. QED
        BY <1>6, <3>1 DEF Moved, SameMarks, Renamed
    <2>9. QED
      BY <2>6, <2>7, <2>8 DEF IInv
  <1>12. CASE x # None
    <2>1. x # e /\ node[x].kind = node[e].kind /\ (node[x].kind = "dir" => node[x].nchild <= 0)
      BY <1>2, <1>12 DEF MayReplace
    <2>2. x \in Entries \ {to, Root}
      BY <1>1, <1>12, LinkedChild
    <2>3. Children(node, x) = {}
      BY <1>1, <1>2, <1>12, <2>1, <2>2, NoChildrenIn
    <2>4. D[to].child[m] = x
      BY <1>6, <2>1 DEF Renamed
    <2>5. D[x].kind = "dir" => D[x].nchild <= 2
      <3>1. D[x].nchild \in Int /\ node[x].nchild \in Int
        BY <1>1, <1>6, <2>2 DEF Good, Typed, Nodes
      <3>2. QED
        BY <1>6, <2>1, <2>2, <3>1
    <2>6. /\ R = Detach(D, to, m) /\ node' = TryDestroy(A, x)
      BY <1>2, <1>12
    <2> HIDE DEF R
    <2>7. /\ Good(R, {e} \cup {x}) /\ Renamed(R, D, to, m, None)
          /\ \A a \in Entries : R[a].kind = D[a].kind /\ R[a].garbage = D[a].garbage
      <3>1. Good(R, {e} \cup {x}) /\ Renamed(R, D, to, m, None) /\ Detached(R, D)
        BY SMTT(20), <1>6, <1>12, <2>4, <2>5, <2>6, DetachGood
      <3>2. QED
        BY <3>1 DEF Detached
    <2>8. /\ \A a \in Entries : NamesOf(R, a) = NamesOf(D, a) \ {<<to, m>>}
          /\ \A a \in Entries : Children(R, a) \subseteq Children(D, a)
      <3>1. Typed(R) /\ Typed(D)
        BY <1>6, <2>7 DEF Good
      <3>2. QED
        BY <1>4, <2>7, <3>1, RenamedTrees
    <2>9. to \notin Below(R, e)
      <3>1. Typed(R) /\ Typed(D)
        BY <1>6, <2>7 DEF Good
      <3>2. Below(R, e) \subseteq Below(D, e)
        BY <1>4, <2>8, <3>1, BelowFewer
      <3>3. QED
        BY <1>9, <3>2
    <2>10. NamesOf(R, to) = NamesOf(D, to)
      <3>1. <<to, m>> \notin NamesOf(D, to)
        BY <2>2, <2>4 DEF NamesOf
      <3>2. QED
        BY <2>8, <3>1
    <2>11. Attachable(R, to, m, e)
      <3>1. R[to].child[m] = None
        BY <2>7 DEF Renamed
      <3>2. Takes(R, to)
        BY <1>10, <2>7, <2>10 DEF Takes
      <3>3. R[e].kind = "dir" => NamesOf(R, e) = {}
        BY <1>4, <1>6, <1>8, <2>7, <2>8
      <3>4. R[e].kind # "none"
        BY <1>4, <1>6, <2>7
      <3>5. QED
        BY <1>4, <2>9, <3>1, <3>2, <3>3, <3>4 DEF Attachable
    <2>12. /\ Good(A, ({e} \cup {x}) \ {e}) /\ NamesStay(A, R) /\ <<to, m>> \in NamesOf(A, e)
           /\ \A a \in Entries \ {to} : Children(A, a) = Children(R, a)
      BY <1>4, <2>7, <2>11, AttachGood
    <2> HIDE DEF A
    <2>13. Good(A, {x})
      <3>1. ({e} \cup {x}) \ {e} = {x}
        BY <2>1
      <3>2. QED
        BY <2>12, <3>1
    <2>14. Children(A, x) = {}
      BY <1>7, <2>2, <2>3, <2>8, <2>12
    <2>15. /\ Good(node', {}) /\ SameChildren(node', A)
           /\ \A a \in Entries :
                node'[a] = A[a] \/ (a = x /\ NamesOf(A, a) = {} /\ node'[a] = Unallocated)
      BY <2>2, <2>6, <2>13, <2>14, TryDestroyGood
    <2>16. \A a \in Entries : NamesOf(node', a) = NamesOf(A, a)
      BY <2>15, SameTrees
    <2>17. ASSUME NEW a \in Entries \ {x}, NamesOf(node, a) # {}
           PROVE  NamesOf(node', a) # {}
      <3>1. CASE a = e
        BY <2>12, <2>16, <3>1
      <3>2. CASE a # e
        <4>1. NamesOf(D, a) = NamesOf(node, a)
          BY <1>7, <3>2
        <4>2. <<to, m>> \notin NamesOf(D, a)
          BY <2>4 DEF NamesOf
        <4>3. NamesOf(R, a) = NamesOf(D, a)
          BY <2>8, <4>2
        <4>4. QED
          BY <2>12, <2>16, <2>17, <4>1, <4>3 DEF NamesStay
      <3>3. QED
        BY <3>1, <3>2
    <2>18. Keeps(node', node)
      BY <2>3, <2>17 DEF Keeps
    <2>19. /\ Renamed(A, R, to, m, e)
           /\ \A a \in Entries : A[a].kind = R[a].kind /\ A[a].garbage = R[a].garbage
      <3>1. Typed(R) /\ A = Attach(R, to, m, e)
        BY <2>7 DEF Good, A
      <3>2. QED
        BY <1>4, <1>5, <3>1, AttachFields
    <2>20. Moved(node', node, d, n, to, m)
      <3>1. SameMarks(node', node)
        <4>1. AllMarks(A, node)
          BY <1>6, <2>7, <2>19 DEF AllMarks
        <4>2. Destroyed(node', A, x)
          BY <2>15 DEF Destroyed
        <4>3. QED
          BY <4>1, <4>2, <2>2, DestroyMarks
      <3>2. QED
        BY <1>6, <2>7, <2>15, <2>19, <3>1 DEF Moved, Renamed, SameChildren
    <2>21. QED
      BY <2>15, <2>18, <2>20 DEF IInv
  <1>13. QED
    BY <1>11, <1>12

\* Within a directory the source takes a name that is free, or its own.
LEMMA RenameInDirectoryStep ==
  ASSUME Hazardous = {}, IInv, NEW d \in Entries, NEW n \in Names, NEW m \in Names,
         RenameInDirectory(d, n, m)
  PROVE  IInv' /\ Keeps(node', node) /\ Moved(node', node, d, n, d, m)
  <1> DEFINE e == node[d].child[n]
             c == [node[d].child EXCEPT ![n] = None]
             P == [node EXCEPT ![d] = [node[d] EXCEPT !.child = c]]
             M == [node EXCEPT ![d] = [node[d] EXCEPT !.child = [c EXCEPT ![m] = e]]]
  <1>1. /\ Typed(node) /\ Blank(node) /\ Proper(node) /\ OneName(node) /\ LinksExact(node)
        /\ NotOvercounted(node) /\ Acyclic(node) /\ Orphans(node, {}) /\ Opened(node, {})
    BY DEF IInv, Good
  <1>2. e # None /\ (node[d].child[m] = None \/ m = n) /\ None \notin Entries
    BY NamespaceAssumption DEF RenameInDirectory
  <1>3. node' = M
    BY <1>1 DEF RenameInDirectory, Typed
  <1>4. e \in Entries \ {d, Root} /\ node[d] \in Nodes
    BY <1>1, <1>2, LinkedChild DEF IInv, Typed
  <1>5. /\ c \in [Names -> Entries \cup {None}]
        /\ \A k \in Names : c[k] = IF k = n THEN None ELSE node[d].child[k]
        /\ [c EXCEPT ![m] = e] \in [Names -> Entries \cup {None}]
        /\ \A k \in Names : [c EXCEPT ![m] = e][k] = IF k = m THEN e ELSE c[k]
    BY <1>4 DEF Nodes
  <1> HIDE DEF c
  <1>6. /\ P[d] = [node[d] EXCEPT !.child = c]
        /\ M[d] = [node[d] EXCEPT !.child = [c EXCEPT ![m] = e]]
        /\ \A a \in Entries \ {d} : P[a] = node[a] /\ M[a] = node[a]
        /\ P = [a \in Entries |-> P[a]] /\ M = [a \in Entries |-> M[a]]
    BY <1>1 DEF Typed
  <1>7. P[d] \in Nodes /\ P[d].child = c
    <2> HIDE DEF P
    <2>1. QED
      BY <1>4, <1>5, <1>6 DEF Nodes
  <1>8. /\ M[d] \in Nodes /\ M[d].child = [c EXCEPT ![m] = e]
        /\ M[d].kind = node[d].kind /\ M[d].up = node[d].up /\ M[d].nchild = node[d].nchild
        /\ M[d].links = node[d].links /\ M[d].opens = node[d].opens
        /\ M[d].garbage = node[d].garbage
    <2> DEFINE b == [c EXCEPT ![m] = e]
    <2>1. b \in [Names -> Entries \cup {None}] /\ M[d] = [node[d] EXCEPT !.child = b]
      BY <1>5, <1>6
    <2> HIDE DEF M, b
    <2>2. /\ M[d] \in Nodes /\ M[d].child = b
          /\ M[d].kind = node[d].kind /\ M[d].up = node[d].up /\ M[d].nchild = node[d].nchild
          /\ M[d].links = node[d].links /\ M[d].opens = node[d].opens
          /\ M[d].garbage = node[d].garbage
      BY <1>4, <2>1 DEF Nodes
    <2>3. QED
      BY <2>2 DEF b
  <1> HIDE DEF P, M
  <1>9. Typed(P) /\ Typed(M)
    BY <1>1, <1>6, <1>7, <1>8 DEF Typed
  <1>10. Renamed(P, node, d, n, None)
    BY <1>5, <1>6, <1>7 DEF Renamed
  <1>11. Renamed(M, P, d, m, e)
    <2> SUFFICES ASSUME NEW a \in Entries, NEW k \in Names
                 PROVE  M[a].child[k] = IF a = d /\ k = m THEN e ELSE P[a].child[k]
      BY DEF Renamed
    <2>1. CASE a = d
      BY <1>5, <1>7, <1>8, <2>1
    <2>2. CASE a # d
      BY <1>6, <2>2
    <2>3. QED
      BY <2>1, <2>2
  <1>12. P[d].child[m] = None
    BY <1>2, <1>5, <1>7
  <1>13. \A a \in Entries :
           /\ M[a].kind = node[a].kind /\ M[a].up = node[a].up /\ M[a].nchild = node[a].nchild
           /\ M[a].links = node[a].links /\ M[a].opens = node[a].opens
           /\ M[a].garbage = node[a].garbage
    BY <1>6, <1>8
  <1>14. /\ \A a \in Entries : NamesOf(P, a) = NamesOf(node, a) \ {<<d, n>>}
         /\ \A a \in Entries : Children(P, a) \subseteq Children(node, a)
         /\ \A a \in Entries \ {d} : Named(P, a) = Named(node, a)
         /\ Named(P, d) = Named(node, d) - 1
    BY <1>1, <1>2, <1>9, <1>10, RenamedTrees
  <1>15. /\ NamesOf(M, e) = NamesOf(P, e) \cup {<<d, m>>}
         /\ \A a \in Entries \ {e} : NamesOf(M, a) = NamesOf(P, a) \ {<<d, m>>}
         /\ \A a \in Entries : Children(M, a) \subseteq Children(P, a) \cup (IF a = d THEN {e} \ {None} ELSE {})
         /\ \A a \in Entries \ {d} : Named(M, a) = Named(P, a)
         /\ Named(M, d) = Named(P, d) + 1
    BY <1>2, <1>4, <1>9, <1>11, <1>12, RenamedTrees
  <1>16. \A a \in Entries : Children(M, a) \subseteq Children(node, a)
    <2>1. e \in Children(node, d)
      BY <1>1, <1>4, ChildFacts
    <2>2. QED
      BY <1>14, <1>15, <2>1
  <1>17. \A a \in Entries \ {e} : NamesOf(M, a) = NamesOf(node, a)
    <2>1. ASSUME NEW a \in Entries \ {e}
          PROVE  <<d, n>> \notin NamesOf(node, a) /\ <<d, m>> \notin NamesOf(node, a)
      <3>1. node[d].child[n] # a /\ node[d].child[m] # a
        BY <1>2
      <3>2. QED
        BY <3>1 DEF NamesOf
    <2>2. ASSUME NEW a \in Entries \ {e}
          PROVE  NamesOf(M, a) = NamesOf(node, a)
      <3>1. NamesOf(M, a) = (NamesOf(node, a) \ {<<d, n>>}) \ {<<d, m>>}
        BY <1>14, <1>15
      <3>2. QED
        BY <2>1, <3>1
    <2>3. QED
      BY <2>2
  <1>18. /\ <<d, n>> \in NamesOf(node, e) /\ <<d, m>> \notin NamesOf(P, e)
         /\ NamesOf(M, e) = (NamesOf(node, e) \ {<<d, n>>}) \cup {<<d, m>>}
    <2>1. <<d, n>> \in NamesOf(node, e)
      BY <1>1, <1>4, ChildFacts
    <2>2. <<d, m>> \notin NamesOf(P, e)
      BY <1>2, <1>4, <1>12 DEF NamesOf
    <2>3. QED
      BY <1>4, <1>14, <1>15, <2>1, <2>2
  <1>19. Cardinality(NamesOf(M, e)) = Cardinality(NamesOf(node, e))
    <2>1. Cardinality(NamesOf(P, e)) = Cardinality(NamesOf(node, e)) - 1
      <3>1. NamesOf(P, e) = NamesOf(node, e) \ {<<d, n>>}
        BY <1>4, <1>14
      <3>2. IsFiniteSet(NamesOf(node, e)) /\ <<d, n>> \in NamesOf(node, e)
        BY <1>18, NamesFinite
      <3>3. Cardinality(NamesOf(node, e) \ {<<d, n>>}) = Cardinality(NamesOf(node, e)) - 1
        BY <3>2, FS_RemoveElement
      <3>4. QED
        BY <3>1, <3>3
    <2>2. Cardinality(NamesOf(M, e)) = Cardinality(NamesOf(P, e)) + 1
      BY <1>15, <1>18, NamesFinite, FS_AddElement
    <2>3. Cardinality(NamesOf(node, e)) \in Nat
      BY NamesFinite
    <2>4. QED
      BY <2>1, <2>2, <2>3
  <1>20. Blank(M)
    <2>1. node[d].kind # "none"
      BY <1>1, <1>2 DEF Proper
    <2>2. QED
      BY <1>1, <1>6, <1>13, <2>1, NamespaceAssumption DEF Blank
  <1>21. Proper(M)
    <2> SUFFICES ASSUME NEW a \in Entries, NEW k \in Names, M[a].child[k] # None
                 PROVE  /\ M[a].kind = "dir" /\ ~M[a].garbage
                        /\ M[a].child[k] # Root /\ M[M[a].child[k]].kind # "none"
      BY DEF Proper
    <2>1. PICK j \in Names : node[a].child[j] = M[a].child[k]
      <3>1. M[a].child[k] \in Children(M, a)
        BY DEF Children
      <3>2. M[a].child[k] \in Entries
        BY <1>9, ChildFacts
      <3>3. QED
        BY <1>1, <1>16, <3>1, <3>2, ChildFacts
    <2>2. M[a].child[k] \in Entries
      BY <1>9, ChildFacts
    <2>3. QED
      BY <1>1, <1>13, <2>1, <2>2 DEF Proper
  <1>22. OneName(M)
    <2> SUFFICES ASSUME NEW a \in Entries, M[a].kind = "dir"
                 PROVE  /\ \A p, q \in NamesOf(M, a) : p = q
                        /\ \A p \in NamesOf(M, a) : M[a].up = p[1]
      BY DEF OneName
    <2>1. CASE a = e
      <3>1. NamesOf(M, e) = {<<d, m>>} /\ node[e].up = <<d, n>>[1]
        BY <1>1, <1>4, <1>13, <1>18, <2>1 DEF OneName
      <3>2. QED
        BY <1>13, <2>1, <3>1
    <2>2. CASE a # e
      BY <1>1, <1>13, <1>17, <2>2 DEF OneName
    <2>3. QED
      BY <2>1, <2>2
  <1>23. LinksExact(M)
    BY <1>1, <1>4, <1>13, <1>17, <1>19 DEF LinksExact
  <1>24. NotOvercounted(M)
    <2>1. Named(node, d) \in Nat
      BY NamedFinite
    <2>2. Named(M, d) = Named(node, d)
      BY <1>14, <1>15, <2>1
    <2>3. \A a \in Entries : Named(M, a) = Named(node, a)
      BY <1>14, <1>15, <2>2
    <2>4. QED
      BY <1>1, <1>13, <2>3 DEF NotOvercounted
  <1>25. Acyclic(M)
    BY <1>1, <1>16, AcyclicFewer
  <1>26. Orphans(M, {})
    BY <1>1, <1>15, <1>16, <1>17 DEF Orphans
  <1>27. Opened(M, {})
    BY <1>1, <1>13, <1>15, <1>17 DEF Opened
  <1>28. Good(M, {})
    BY <1>9, <1>20, <1>21, <1>22, <1>23, <1>24, <1>25, <1>26, <1>27 DEF Good
  <1>29. Keeps(M, node)
    <2>1. NamesOf(M, e) # {}
      BY <1>15
    <2>2. QED
      BY <1>17, <2>1 DEF Keeps
  <1>30. Moved(M, node, d, n, d, m)
    BY <1>10, <1>11, <1>13 DEF Moved, Renamed, SameMarks
  <1>31. QED
    BY <1>3, <1>28, <1>29, <1>30 DEF IInv

(***************************************************************************)
(* Handles, and restarts.                                                  *)
(***************************************************************************)

LEMMA OpenStep ==
  ASSUME IInv, NEW e \in Entries, Open(e)
  PROVE  IInv' /\ Keeps(node', node) /\ SameChildren(node', node) /\ SameMarks(node', node)
  <1>1. Good(node, {}) /\ Typed(node) /\ Blank(node) /\ Proper(node) /\ NotOvercounted(node)
    BY DEF IInv, Good
  <1>2. node[e] \in Nodes /\ node[e].opens \in 0 .. MaxOpens /\ MaxOpens \in Nat
    BY <1>1, NamespaceAssumption DEF Typed, Nodes
  <1>3. node[e].kind # "none"
    <2>1. CASE e = Root
      BY <1>1, <2>1 DEF Blank
    <2>2. CASE e # Root
      <3>1. PICK a \in Entries, m \in Names : node[a].child[m] = e
        BY <1>1, <2>2, ResolvableFacts DEF Open
      <3>2. e # None
        BY NamespaceAssumption
      <3>3. QED
        BY <1>1, <3>1, <3>2 DEF Proper
    <2>3. QED
      BY <2>1, <2>2
  <1>4. /\ \A a \in Entries \ {e} : node'[a] = node[a]
        /\ node'[e] = [node[e] EXCEPT !.opens = node[e].opens + 1]
        /\ node' = [a \in Entries |-> node'[a]]
    BY <1>1 DEF Open, Typed
  <1>5. node[e].opens + 1 \in 0 .. MaxOpens /\ node[e].opens + 1 > 0
    BY <1>2 DEF Open
  <1>6. /\ node'[e] \in Nodes /\ node'[e].kind = node[e].kind /\ node'[e].child = node[e].child
        /\ node'[e].up = node[e].up /\ node'[e].links = node[e].links
        /\ node'[e].garbage = node[e].garbage /\ node'[e].nchild = node[e].nchild
        /\ node'[e].opens = node[e].opens + 1
    BY <1>2, <1>4, <1>5 DEF Nodes
  <1>7. Typed(node') /\ SameChildren(node', node)
    BY <1>1, <1>4, <1>6 DEF Typed, SameChildren
  <1>8. Recounted(node', node, {})
    BY <1>1, <1>3, <1>4, <1>5, <1>6, <1>7 DEF Recounted, NotOvercounted
  <1>9. Good(node', {})
    BY <1>1, <1>7, <1>8, RecountGood
  <1>10. Keeps(node', node)
    BY <1>7, SameTrees DEF Keeps
  <1>11. SameMarks(node', node)
    BY <1>4, <1>6 DEF SameMarks
  <1>12. QED
    BY <1>7, <1>9, <1>10, <1>11 DEF IInv

LEMMA CloseStep ==
  ASSUME IInv, NEW e \in Entries, Close(e)
  PROVE  IInv' /\ Keeps(node', node) /\ SameChildren(node', node) /\ SameMarks(node', node)
  <1> DEFINE M == [node EXCEPT ![e].opens = @ - 1]
  <1>1. /\ Good(node, {}) /\ Typed(node) /\ Blank(node) /\ Proper(node)
        /\ NotOvercounted(node) /\ Orphans(node, {})
    BY DEF IInv, Good
  <1>2. node[e] \in Nodes /\ node[e].opens \in 0 .. MaxOpens /\ MaxOpens \in Nat
    BY <1>1, NamespaceAssumption DEF Typed, Nodes
  <1>3. node[e].kind # "none" /\ node[e].opens > 0
    BY <1>1, BlankFacts DEF Blank, Close
  <1>4. /\ \A a \in Entries \ {e} : M[a] = node[a]
        /\ M[e] = [node[e] EXCEPT !.opens = node[e].opens - 1]
        /\ M = [a \in Entries |-> M[a]]
    BY <1>1 DEF Typed
  <1>5. node[e].opens - 1 \in 0 .. MaxOpens
    BY <1>2, <1>3
  <1>6. node' = TryDestroy(M, e)
    BY DEF Close
  <1> HIDE DEF M
  <1>7. /\ M[e] \in Nodes /\ M[e].kind = node[e].kind /\ M[e].child = node[e].child
        /\ M[e].up = node[e].up /\ M[e].links = node[e].links
        /\ M[e].garbage = node[e].garbage /\ M[e].nchild = node[e].nchild
    BY <1>2, <1>4, <1>5 DEF Nodes
  <1>8. Typed(M) /\ SameChildren(M, node)
    BY <1>1, <1>4, <1>7 DEF Typed, SameChildren
  <1>9. Recounted(M, node, {e})
    BY <1>1, <1>3, <1>4, <1>7, <1>8 DEF Recounted, NotOvercounted
  <1>10. Good(M, {e})
    BY <1>1, <1>8, <1>9, RecountGood
  <1>11. CASE e = Root
    <2>1. M[Root].links > 0
      <3>1. M[Root].kind # "none" /\ LinksExact(M)
        BY <1>3, <1>7, <1>10, <1>11 DEF Good
      <3>2. M[Root].links = Cardinality(NamesOf(M, Root)) + 1
        BY <1>11, <3>1 DEF LinksExact
      <3>3. QED
        BY <3>2, NamesFinite
    <2>2. M[Root].links \in Nat
      BY <1>8, <1>11 DEF Typed, Nodes
    <2>3. node' = M
      BY <1>6, <1>11, <2>1, <2>2 DEF TryDestroy
    <2>4. Good(M, {})
      BY <1>10, <1>11 DEF Good, Orphans, Opened
    <2>5. IInv' /\ Keeps(node', node)
      BY <1>9, <2>3, <2>4, SameTrees DEF IInv, Keeps, Recounted
    <2>6. SameChildren(node', node) /\ SameMarks(node', node)
      BY <1>4, <1>7, <1>8, <2>3 DEF SameMarks
    <2>7. QED
      BY <2>5, <2>6
  <1>12. CASE e # Root
    <2>1. NamesOf(M, e) = {} => Children(M, e) = {}
      <3>1. NamesOf(M, e) = NamesOf(node, e) /\ Children(M, e) = Children(node, e)
        BY <1>8, SameTrees
      <3>2. QED
        BY <1>1, <1>12, <3>1 DEF Orphans
    <2>2. /\ Good(node', {}) /\ SameChildren(node', M)
          /\ \A a \in Entries :
               node'[a] = M[a] \/ (a = e /\ NamesOf(M, a) = {} /\ node'[a] = Unallocated)
      BY <1>6, <1>10, <2>1, TryDestroyGood
    <2>3. \A a \in Entries : NamesOf(node', a) = NamesOf(node, a)
      BY <1>8, <2>2, SameTrees
    <2>4. SameMarks(node', node)
      <3>1. AllMarks(M, node) /\ Destroyed(node', M, e)
        BY <1>4, <1>7, <2>2 DEF AllMarks, Destroyed
      <3>2. QED
        BY <1>12, <3>1, DestroyMarks
    <2>5. SameChildren(node', node)
      BY <1>8, <2>2 DEF SameChildren
    <2>6. QED
      BY <2>2, <2>3, <2>4, <2>5 DEF IInv, Keeps
  <1>13. QED
    BY <1>11, <1>12

\* A root that is garbage is empty, and so is the new one.
LEMMA RestartStep ==
  ASSUME IInv, Restart
  PROVE  IInv' /\ Keeps(node', node)
  <1>1. /\ Good(node, {}) /\ Typed(node) /\ Blank(node) /\ Proper(node) /\ LinksExact(node)
        /\ NotOvercounted(node) /\ Root \in Entries
    BY NamespaceAssumption DEF IInv, Good
  <1>2. /\ \A a \in Entries \ {Root} : node'[a] = node[a]
        /\ node'[Root] = NewRoot
        /\ node' = [a \in Entries |-> node'[a]]
    BY <1>1 DEF Restart, Typed
  <1>3. /\ NewRoot \in Nodes /\ NewRoot.kind = "dir" /\ NewRoot.child = NoChildren
        /\ NewRoot.links = 1 /\ NewRoot.nchild = 0 /\ ~NewRoot.garbage /\ NewRoot.opens = 0
    BY <1>1, RootFacts
  <1>4. Named(node, Root) = 0 /\ \A m \in Names : node[Root].child[m] = None
    BY <1>1, NoChildrenIn DEF Restart
  <1>5. NamesOf(node, Root) = {}
    BY <1>1, NamespaceAssumption DEF NamesOf, Proper
  <1>6. node[Root].links = 1
    <2>1. node[Root].kind # "none"
      BY <1>1 DEF Blank
    <2>2. node[Root].links = 0 + 1
      BY <1>1, <1>5, <2>1, FS_EmptySet DEF LinksExact
    <2>3. QED
      BY <2>2
  <1>7. SameChildren(node', node)
    BY <1>2, <1>3, <1>4 DEF SameChildren, NoChildren
  <1>8. Typed(node')
    BY <1>1, <1>2, <1>3 DEF Typed
  <1>9. Recounted(node', node, {})
    <2>1. node[Root].kind = "dir" /\ node[Root].opens = 0
      BY <1>1 DEF Blank, Restart
    <2>2. QED
      BY <1>1, <1>2, <1>3, <1>4, <1>5, <1>6, <1>7, <2>1 DEF Recounted, NotOvercounted
  <1>10. Good(node', {})
    BY <1>1, <1>8, <1>9, RecountGood
  <1>11. Keeps(node', node)
    BY <1>7, SameTrees DEF Keeps
  <1>12. QED
    BY <1>10, <1>11 DEF IInv

(***************************************************************************)
(* Recursive detach.                                                       *)
(***************************************************************************)

\* What detach_all leaves of x, below e.
Emptied(N, e) ==
  [x \in Entries |->
     IF x \notin Below(N, e) THEN N[x]
     ELSE [N[x] EXCEPT
             !.links = @ - Cardinality({dn \in NamesOf(N, x) : dn[1] \in Below(N, e)}),
             !.child = NoChildren, !.nchild = 0,
             !.garbage = @ \/ x = e \/ N[x].kind = "dir"]]

LEMMA EmptiedFields ==
  ASSUME NEW N, Good(N, {}), NEW e \in Entries, e = Root \/ NamesOf(N, e) # {},
         NEW M, M = Emptied(N, e), NEW B, B = Below(N, e)
  PROVE  /\ Typed(M)
         /\ \A a \in Entries : /\ M[a].kind = N[a].kind /\ M[a].up = N[a].up
                               /\ M[a].opens = N[a].opens
         /\ \A a \in B : M[a].nchild = 0 /\ \A m \in Names : M[a].child[m] = None
         /\ \A a \in Entries \ B : M[a] = N[a]
         /\ \A a \in Entries : NamesOf(M, a) = {p \in NamesOf(N, a) : p[1] \notin B}
         /\ \A a \in B : M[a].links = N[a].links
                           - Cardinality({p \in NamesOf(N, a) : p[1] \in B})
         /\ \A a \in B : N[a].kind # "none" /\ (N[a].kind = "dir" => M[a].garbage)
         /\ \A a \in B : M[a].garbage = (N[a].garbage \/ a = e \/ N[a].kind = "dir")
         /\ M[e].garbage
  <1> DEFINE Lost(a) == {p \in NamesOf(N, a) : p[1] \in B}
             Kept(a) == {p \in NamesOf(N, a) : p[1] \notin B}
  <1>1. Typed(N) /\ LinksExact(N) /\ Proper(N) /\ Blank(N)
    BY DEF Good
  <1>2. /\ B \subseteq Entries /\ e \in B
        /\ \A d \in B : Children(N, d) \subseteq B
        /\ \A S : e \in S /\ (\A d \in S \cap Entries : Children(N, d) \subseteq S) => B \subseteq S
    BY <1>1, BelowLeast
  <1>3. \A a \in B : N[a].kind # "none"
    <2> DEFINE S == {a \in Entries : N[a].kind # "none"}
    <2>1. e \in S
      <3>1. CASE e = Root
        BY <1>1, <3>1 DEF Blank
      <3>2. CASE e # Root
        <4>1. PICK p \in NamesOf(N, e) : TRUE
          BY <3>2
        <4>2. e # None
          BY NamespaceAssumption
        <4>3. p[1] \in Entries /\ p[2] \in Names /\ N[p[1]].child[p[2]] = e
          BY <4>1 DEF NamesOf
        <4>4. QED
          BY <1>1, <4>2, <4>3 DEF Proper
      <3>3. QED
        BY <3>1, <3>2
    <2>2. \A d \in S \cap Entries : Children(N, d) \subseteq S
      <3> SUFFICES ASSUME NEW d \in Entries, NEW c \in Children(N, d)
                   PROVE  c \in S
        OBVIOUS
      <3>1. c \in Entries /\ c # None
        BY <1>1, ChildFacts, NamespaceAssumption
      <3>2. PICK m \in Names : N[d].child[m] = c
        BY DEF Children
      <3>3. QED
        BY <1>1, <3>1, <3>2 DEF Proper
    <2> HIDE DEF S
    <2>3. B \subseteq S
      BY <1>2, <2>1, <2>2
    <2>4. QED
      BY <2>3 DEF S
  <1>4. ASSUME NEW a \in Entries
        PROVE  /\ IsFiniteSet(Lost(a)) /\ IsFiniteSet(Kept(a))
               /\ Cardinality(Lost(a)) \in Nat /\ Cardinality(Kept(a)) \in Nat
               /\ Cardinality(NamesOf(N, a)) = Cardinality(Kept(a)) + Cardinality(Lost(a))
    <2>1. Lost(a) \subseteq NamesOf(N, a) /\ Kept(a) = NamesOf(N, a) \ Lost(a)
      OBVIOUS
    <2>2. IsFiniteSet(NamesOf(N, a)) /\ Cardinality(NamesOf(N, a)) \in Nat
      BY NamesFinite
    <2> HIDE DEF Lost, Kept
    <2>3. NamesOf(N, a) \cap Lost(a) = Lost(a)
      BY <2>1
    <2>4. IsFiniteSet(Lost(a)) /\ Cardinality(Lost(a)) \in Nat
      BY <2>1, <2>2, FS_Subset, FS_CardinalityType
    <2>5. /\ IsFiniteSet(Kept(a))
          /\ Cardinality(Kept(a)) = Cardinality(NamesOf(N, a)) - Cardinality(NamesOf(N, a) \cap Lost(a))
      BY <2>1, <2>2, FS_Difference
    <2>6. Cardinality(Kept(a)) \in Nat
      BY <2>5, FS_CardinalityType
    <2>7. Cardinality(Kept(a)) = Cardinality(NamesOf(N, a)) - Cardinality(Lost(a))
      BY <2>3, <2>5
    <2>8. Cardinality(NamesOf(N, a)) = Cardinality(Kept(a)) + Cardinality(Lost(a))
      BY <2>2, <2>4, <2>6, <2>7
    <2>9. QED
      BY <2>4, <2>5, <2>6, <2>8
  <1>5. ASSUME NEW a \in B
        PROVE  N[a].links - Cardinality(Lost(a)) \in Nat
    <2>1. a \in Entries /\ N[a].kind # "none"
      BY <1>2, <1>3
    <2> HIDE DEF Lost, Kept
    <2>2. N[a].links = Cardinality(NamesOf(N, a)) + (IF a = Root THEN 1 ELSE 0)
      BY <1>1, <2>1 DEF LinksExact
    <2>3. QED
      BY <1>4, <2>1, <2>2
  <1>6. /\ \A a \in Entries \ B : M[a] = N[a]
        /\ M = [a \in Entries |-> M[a]]
    BY DEF Emptied
  <1>7. ASSUME NEW a \in B
        PROVE  /\ M[a] \in Nodes /\ M[a].kind = N[a].kind /\ M[a].up = N[a].up
               /\ M[a].opens = N[a].opens /\ M[a].nchild = 0 /\ M[a].child = NoChildren
               /\ M[a].links = N[a].links - Cardinality(Lost(a))
               /\ M[a].garbage = (N[a].garbage \/ a = e \/ N[a].kind = "dir")
    <2> DEFINE l == N[a].links - Cardinality(Lost(a))
               g == N[a].garbage \/ a = e \/ N[a].kind = "dir"
    <2>1. a \in Entries /\ N[a] \in Nodes
      BY <1>1, <1>2 DEF Typed
    <2>2. M[a] = [N[a] EXCEPT !.links = l, !.child = NoChildren, !.nchild = 0, !.garbage = g]
      BY <2>1 DEF Emptied
    <2>3. l \in Nat /\ g \in BOOLEAN
      BY <1>5
    <2>4. NoChildren \in [Names -> Entries \cup {None}]
      BY DEF NoChildren
    <2> HIDE DEF l, g
    <2>5. M[a] \in Nodes
      <3> DEFINE r == [N[a] EXCEPT !.links = l, !.child = NoChildren, !.nchild = 0]
      <3>1. r \in Nodes
        <4> DEFINE q == [N[a] EXCEPT !.links = l]
                   c == NoChildren
                   z == 0
        <4>1. q \in Nodes
          BY <2>1, <2>3 DEF Nodes
        <4>2. c \in [Names -> Entries \cup {None}] /\ z \in Int
          BY <2>4
        <4>3. r = [q EXCEPT !.child = c, !.nchild = z]
          OBVIOUS
        <4> HIDE DEF q, r, c, z
        <4>4. QED
          BY <4>1, <4>2, <4>3 DEF Nodes
      <3>2. M[a] = [r EXCEPT !.garbage = g]
        BY <2>2
      <3> HIDE DEF r
      <3>3. QED
        BY <2>3, <3>1, <3>2 DEF Nodes
    <2>6. /\ M[a].kind = N[a].kind /\ M[a].up = N[a].up
          /\ M[a].opens = N[a].opens /\ M[a].nchild = 0 /\ M[a].child = NoChildren
          /\ M[a].links = l
      BY <2>1, <2>2 DEF Nodes
    <2>7. M[a].garbage = g
      BY <2>1, <2>2 DEF Nodes
    <2>8. QED
      BY <2>5, <2>6, <2>7 DEF l, g
  <1>8. Typed(M)
    BY <1>1, <1>6, <1>7 DEF Typed
  <1>9. \A a \in B : \A m \in Names : M[a].child[m] = None
    <2>1. \A m \in Names : NoChildren[m] = None
      BY DEF NoChildren
    <2>2. \A a \in B : M[a].child = NoChildren
      BY <1>7
    <2>3. QED
      BY <2>1, <2>2
  <1>10. ASSUME NEW a \in Entries
         PROVE  NamesOf(M, a) = Kept(a)
    <2>1. a # None
      BY NamespaceAssumption
    <2>2. ASSUME NEW d \in Entries, NEW m \in Names
          PROVE  M[d].child[m] = a <=> N[d].child[m] = a /\ d \notin B
      BY <1>6, <1>9, <2>1
    <2>3. \A p \in Entries \X Names : p \in NamesOf(M, a) <=> p \in Kept(a)
      BY <2>2 DEF NamesOf
    <2>4. NamesOf(M, a) \subseteq Entries \X Names /\ Kept(a) \subseteq Entries \X Names
      BY DEF NamesOf
    <2>5. QED
      BY <2>3, <2>4
  <1>11. \A a \in Entries : /\ M[a].kind = N[a].kind /\ M[a].up = N[a].up
                            /\ M[a].opens = N[a].opens
    BY <1>6, <1>7
  <1>12. M[e].garbage /\ \A a \in B : N[a].kind = "dir" => M[a].garbage
    BY <1>2, <1>7
  <1>13. QED
    BY <1>3, <1>6, <1>7, <1>8, <1>9, <1>10, <1>11, <1>12

\* No name leads from what is below e to what is not, nor back to e.
LEMMA EmptiedNames ==
  ASSUME NEW N, Good(N, {}), NEW e \in Entries
  PROVE  \A a \in Entries : \A p \in NamesOf(N, a) :
           p[1] \in Below(N, e) => a \in Below(N, e) /\ a # e
  <1>1. Typed(N) /\ Acyclic(N)
    BY DEF Good
  <1>2. SUFFICES ASSUME NEW a \in Entries, NEW p \in NamesOf(N, a), p[1] \in Below(N, e)
                 PROVE  a \in Below(N, e) /\ a # e
    OBVIOUS
  <1>3. p[1] \in Entries /\ p[2] \in Names /\ N[p[1]].child[p[2]] = a
    BY DEF NamesOf
  <1>4. a \in Children(N, p[1])
    BY <1>1, <1>3, ChildFacts
  <1>5. a \in Below(N, e)
    BY <1>1, <1>2, <1>4, BelowLeast
  <1>6. a # e
    BY <1>1, <1>2, <1>4, NoCycle
  <1>7. QED
    BY <1>5, <1>6

LEMMA EmptiedGood ==
  ASSUME NEW N, Good(N, {}), NEW e \in Entries, e = Root \/ NamesOf(N, e) # {},
         NEW M, M = Emptied(N, e)
  PROVE  Good(M, Below(N, e) \ {e}) /\ Orphans(M, {})
  <1> DEFINE B == Below(N, e)
             Lost(a) == {p \in NamesOf(N, a) : p[1] \in B}
             Kept(a) == {p \in NamesOf(N, a) : p[1] \notin B}
  <1>1. /\ Typed(N) /\ Blank(N) /\ Proper(N) /\ OneName(N) /\ LinksExact(N)
        /\ NotOvercounted(N) /\ Acyclic(N) /\ Orphans(N, {}) /\ Opened(N, {})
    BY DEF Good
  <1>2. B \subseteq Entries /\ e \in B
    BY <1>1, BelowLeast
  <1>3. \A a \in Entries : \A p \in NamesOf(N, a) : p[1] \in B => a \in B /\ a # e
    BY EmptiedNames
  <1> HIDE DEF B
  <1>4. /\ Typed(M)
        /\ \A a \in Entries : /\ M[a].kind = N[a].kind /\ M[a].up = N[a].up
                              /\ M[a].opens = N[a].opens
        /\ \A a \in B : M[a].nchild = 0 /\ \A m \in Names : M[a].child[m] = None
        /\ \A a \in Entries \ B : M[a] = N[a]
        /\ \A a \in Entries : NamesOf(M, a) = Kept(a)
        /\ \A a \in B : M[a].links = N[a].links - Cardinality(Lost(a))
        /\ \A a \in B : N[a].kind # "none"
    <2>1. B = Below(N, e)
      BY DEF B
    <2>2. QED
      BY <2>1, EmptiedFields
  <1>5. ASSUME NEW a \in Entries, a \notin B \/ a = e
        PROVE  Kept(a) = NamesOf(N, a) /\ Lost(a) = {}
    BY <1>3, <1>5
  <1>6. ASSUME NEW a \in Entries
        PROVE  Children(M, a) \subseteq Children(N, a)
    <2>1. CASE a \in B
      BY <1>4, <2>1 DEF Children
    <2>2. CASE a \notin B
      BY <1>4, <2>2 DEF Children
    <2>3. QED
      BY <2>1, <2>2
  <1>7. Blank(M)
    BY <1>1, <1>2, <1>4, NamespaceAssumption DEF Blank
  <1>8. Proper(M)
    <2> SUFFICES ASSUME NEW a \in Entries, NEW m \in Names, M[a].child[m] # None
                 PROVE  /\ M[a].kind = "dir" /\ ~M[a].garbage
                        /\ M[a].child[m] # Root /\ M[M[a].child[m]].kind # "none"
      BY DEF Proper
    <2>1. a \notin B /\ M[a] = N[a]
      BY <1>4
    <2>2. N[a].child[m] \in Entries
      BY <1>1, <2>1, ChildFacts
    <2>3. QED
      BY <1>1, <1>4, <2>1, <2>2 DEF Proper
  <1>9. OneName(M)
    <2> SUFFICES ASSUME NEW a \in Entries, M[a].kind = "dir"
                 PROVE  /\ \A p, q \in NamesOf(M, a) : p = q
                        /\ \A p \in NamesOf(M, a) : M[a].up = p[1]
      BY DEF OneName
    <2>1. NamesOf(M, a) \subseteq NamesOf(N, a)
      BY <1>4
    <2>2. QED
      BY <1>1, <1>4, <2>1 DEF OneName
  <1>10. LinksExact(M)
    <2> SUFFICES ASSUME NEW a \in Entries, M[a].kind # "none"
                 PROVE  M[a].links = Cardinality(NamesOf(M, a)) + (IF a = Root THEN 1 ELSE 0)
      BY DEF LinksExact
    <2>1. N[a].links = Cardinality(NamesOf(N, a)) + (IF a = Root THEN 1 ELSE 0)
      BY <1>1, <1>4 DEF LinksExact
    <2>2. CASE a \notin B
      <3>1. NamesOf(M, a) = NamesOf(N, a) /\ M[a] = N[a]
        BY <1>4, <1>5, <2>2
      <3>2. QED
        BY <2>1, <3>1
    <2>3. CASE a \in B
      <3>1. Lost(a) \subseteq NamesOf(N, a) /\ Kept(a) = NamesOf(N, a) \ Lost(a)
        OBVIOUS
      <3>2. IsFiniteSet(NamesOf(N, a)) /\ Cardinality(NamesOf(N, a)) \in Nat
        BY NamesFinite
      <3>3. M[a].links = N[a].links - Cardinality(Lost(a)) /\ NamesOf(M, a) = Kept(a)
        BY <1>4, <2>3
      <3> HIDE DEF Lost, Kept
      <3>4. NamesOf(N, a) \cap Lost(a) = Lost(a)
        BY <3>1
      <3>5. IsFiniteSet(Lost(a)) /\ Cardinality(Lost(a)) \in Nat
        BY <3>1, <3>2, FS_Subset, FS_CardinalityType
      <3>6. Cardinality(Kept(a)) = Cardinality(NamesOf(N, a)) - Cardinality(NamesOf(N, a) \cap Lost(a))
        BY <3>1, <3>2, FS_Difference
      <3>7. Cardinality(Kept(a)) = Cardinality(NamesOf(N, a)) - Cardinality(Lost(a))
        BY <3>4, <3>6
      <3>8. M[a].links = (Cardinality(NamesOf(N, a)) - Cardinality(Lost(a)))
                           + (IF a = Root THEN 1 ELSE 0)
        BY <2>1, <3>2, <3>3, <3>5
      <3>9. QED
        BY <3>3, <3>7, <3>8
    <2>4. QED
      BY <2>2, <2>3
  <1>11. NotOvercounted(M)
    <2> SUFFICES ASSUME NEW a \in Entries
                 PROVE  M[a].nchild <= Named(M, a)
      BY DEF NotOvercounted
    <2>1. CASE a \in B
      <3>1. M[a].nchild = 0 /\ Named(M, a) \in Nat
        BY <1>4, <2>1, NamedFinite
      <3>2. QED
        BY <3>1
    <2>2. CASE a \notin B
      <3>1. M[a] = N[a]
        BY <1>4, <2>2
      <3>2. Named(M, a) = Named(N, a)
        BY <3>1 DEF Named
      <3>3. QED
        BY <1>1, <3>1, <3>2 DEF NotOvercounted
    <2>3. QED
      BY <2>1, <2>2
  <1>12. Acyclic(M)
    BY <1>1, <1>6, AcyclicFewer
  <1>13. Orphans(M, {})
    <2> SUFFICES ASSUME NEW a \in Entries, a # Root, NamesOf(M, a) = {}
                 PROVE  Children(M, a) = {}
      BY DEF Orphans
    <2>1. CASE a \in B
      BY <1>4, <2>1 DEF Children
    <2>2. CASE a \notin B
      <3>1. NamesOf(N, a) = {}
        BY <1>4, <1>5, <2>2
      <3>2. QED
        BY <1>1, <1>6, <3>1 DEF Orphans
    <2>3. QED
      BY <2>1, <2>2
  <1>14. Orphans(M, B \ {e})
    BY <1>13 DEF Orphans
  <1>15. Opened(M, B \ {e})
    <2> SUFFICES ASSUME NEW a \in Entries \ (B \ {e}), a # Root, NamesOf(M, a) = {},
                        M[a].kind # "none"
                 PROVE  M[a].opens > 0
      BY DEF Opened
    <2>1. NamesOf(N, a) = {}
      BY <1>4, <1>5
    <2>2. QED
      BY <1>1, <1>4, <2>1 DEF Opened
  <1>16. Good(M, B \ {e})
    BY <1>4, <1>7, <1>8, <1>9, <1>10, <1>11, <1>12, <1>14, <1>15 DEF Good
  <1>17. QED
    BY <1>13, <1>16 DEF B

LEMMA ResolvableNamed ==
  ASSUME Good(node, {}), NEW e \in Resolvable(node)
  PROVE  e \in Entries /\ (e = Root \/ NamesOf(node, e) # {})
  <1>1. Typed(node)
    BY DEF Good
  <1>2. e \in Entries /\ (e = Root \/ \E d \in Entries, n \in Names : node[d].child[n] = e)
    BY <1>1, ResolvableFacts
  <1>3. ASSUME NEW a \in Entries, NEW m \in Names, node[a].child[m] = e
        PROVE  NamesOf(node, e) # {}
    <2>1. <<a, m>> \in NamesOf(node, e)
      BY <1>3 DEF NamesOf
    <2>2. QED
      BY <2>1
  <1>4. QED
    BY <1>2, <1>3

LEMMA DetachAllFields ==
  ASSUME NEW e \in Entries, DetachAll(e)
  PROVE  node' = Swept(Emptied(node, e), Below(node, e) \ {e})
  BY DEF DetachAll, Swept, Emptied, LosesNames

LEMMA DetachAllStep ==
  ASSUME IInv, NEW e \in Entries, DetachAll(e)
  PROVE  IInv' /\ SameChildren(node', Emptied(node, e))
  <1> DEFINE M == Emptied(node, e)
             X == Below(node, e) \ {e}
  <1>1. Good(node, {}) /\ (e = Root \/ NamesOf(node, e) # {})
    BY ResolvableNamed DEF IInv, DetachAll
  <1>2. Good(M, X) /\ Orphans(M, {})
    BY <1>1, EmptiedGood
  <1>3. node' = Swept(M, X)
    BY DetachAllFields
  <1>4. ASSUME NEW x \in X \cap Entries
        PROVE  NamesOf(M, x) = {} => Children(M, x) = {}
    <2>1. Typed(node) /\ Proper(node)
      BY <1>1 DEF Good
    <2>2. x # Root
      <3> DEFINE S == {a \in Entries : a # Root \/ a = e}
      <3>1. e \in S
        OBVIOUS
      <3>2. \A d \in S \cap Entries : Children(node, d) \subseteq S
        <4> SUFFICES ASSUME NEW d \in Entries, NEW c \in Children(node, d)
                     PROVE  c \in S
          OBVIOUS
        <4>1. c \in Entries /\ c # None
          BY <2>1, ChildFacts, NamespaceAssumption
        <4>2. PICK m \in Names : node[d].child[m] = c
          BY DEF Children
        <4>3. QED
          BY <2>1, <4>1, <4>2 DEF Proper
      <3> HIDE DEF S
      <3>3. Below(node, e) \subseteq S
        BY <2>1, <3>1, <3>2, BelowLeast
      <3>4. QED
        BY <3>3 DEF S
    <2>3. QED
      BY <1>2, <2>2 DEF Orphans
  <1> HIDE DEF M, X
  <1>5. Good(node', {}) /\ SameChildren(node', M)
    BY <1>2, <1>3, <1>4, SweepGood
  <1>6. QED
    BY <1>5 DEF IInv, M

(***************************************************************************)
(* The invariant.                                                          *)
(***************************************************************************)

\* What has a name can be reached from the root: of the entries that have a
\* name and cannot, one would be in none of the others, nor anywhere else.
LEMMA NamedIsReachable ==
  ASSUME NEW N, NEW X, Good(N, X), Orphans(N, {}), NEW e \in Entries, NamesOf(N, e) # {}
  PROVE  e \in Below(N, Root)
  <1> DEFINE B == {x \in Entries \ Below(N, Root) : NamesOf(N, x) # {}}
  <1> SUFFICES ASSUME e \notin Below(N, Root) PROVE FALSE
    OBVIOUS
  <1>1. Typed(N) /\ Acyclic(N) /\ Root \in Entries
    BY NamespaceAssumption DEF Good
  <1>2. B \in (SUBSET Entries) \ {{}}
    OBVIOUS
  <1>3. PICK t \in B : \A d \in B : t \notin Children(N, d)
    BY <1>1, <1>2 DEF Acyclic
  <1>4. PICK p : p \in NamesOf(N, t)
    BY <1>3
  <1>5. p[1] \in Entries /\ t \in Children(N, p[1])
    <2>1. p[1] \in Entries /\ p[2] \in Names /\ N[p[1]].child[p[2]] = t
      BY <1>4 DEF NamesOf
    <2>2. QED
      BY <1>1, <2>1, ChildFacts
  <1>6. p[1] \notin Below(N, Root)
    BY <1>1, <1>3, <1>5, BelowLeast
  <1>7. NamesOf(N, p[1]) = {}
    BY <1>3, <1>5, <1>6
  <1>8. p[1] # Root
    BY <1>1, <1>6, BelowLeast
  <1>9. QED
    BY <1>5, <1>7, <1>8 DEF Orphans

\* Under a root that is garbage, or without children, nothing has a name.
LEMMA NothingNamed ==
  ASSUME NEW N, Good(N, {}), Children(N, Root) = {}
  PROVE  \A a \in Entries : NamesOf(N, a) = {}
  <1>1. Root \in Entries /\ Typed(N) /\ Orphans(N, {}) /\ Proper(N)
    BY NamespaceAssumption DEF Good
  <1>2. Below(N, Root) = {Root}
    BY <1>1, BelowAlone
  <1>3. ASSUME NEW a \in Entries, NamesOf(N, a) # {}
        PROVE  FALSE
    <2>1. a \in Below(N, Root)
      BY <1>1, <1>3, NamedIsReachable
    <2>2. a = Root
      BY <1>2, <2>1
    <2>3. PICK p \in NamesOf(N, a) : TRUE
      BY <1>3
    <2>4. p[1] \in Entries /\ p[2] \in Names /\ N[p[1]].child[p[2]] = Root /\ Root # None
      BY <1>1, <2>2, <2>3, NamespaceAssumption DEF NamesOf
    <2>5. QED
      BY <1>1, <2>4 DEF Proper
  <1>4. QED
    BY <1>3

\* The tree of a new process.
LEMMA EmptyGood ==
  ASSUME NEW N, N = Empty
  PROVE  Good(N, {}) /\ \A e \in Entries : NamesOf(N, e) = {}
  <1>1. Root \in Entries /\ None \notin Entries
    BY NamespaceAssumption
  <1>2. /\ \A e \in Entries : N[e] = IF e = Root THEN NewRoot ELSE Unallocated
        /\ N = [e \in Entries |-> N[e]]
    BY DEF Empty
  <1>3. /\ NewRoot \in Nodes /\ NewRoot.kind = "dir" /\ NewRoot.child = NoChildren
        /\ NewRoot.links = 1 /\ NewRoot.nchild = 0
    BY RootFacts
  <1>4. \A e \in Entries, n \in Names : N[e].child[n] = None
    <2>1. \A n \in Names : NoChildren[n] = None
      BY DEF NoChildren
    <2>2. QED
      BY <1>2, <1>3, <2>1, BlankFacts
  <1>5. \A e \in Entries : NamesOf(N, e) = {} /\ Children(N, e) = {}
    <2>1. \A e \in Entries : e # None
      BY <1>1
    <2>2. QED
      BY <1>4, <2>1 DEF NamesOf, Children
  <1>6. Typed(N)
    BY <1>2, <1>3, BlankFacts DEF Typed
  <1>7. Blank(N) /\ Proper(N)
    BY <1>1, <1>2, <1>3, <1>4 DEF Blank, Proper
  <1>8. OneName(N) /\ Orphans(N, {})
    BY <1>5 DEF OneName, Orphans
  <1>9. LinksExact(N)
    <2> SUFFICES ASSUME NEW e \in Entries, N[e].kind # "none"
                 PROVE  N[e].links = Cardinality(NamesOf(N, e)) + (IF e = Root THEN 1 ELSE 0)
      BY DEF LinksExact
    <2>1. e = Root /\ N[e].links = 1
      BY <1>2, <1>3, BlankFacts
    <2>2. Cardinality(NamesOf(N, e)) = 0
      BY <1>5, FS_EmptySet
    <2>3. QED
      BY <2>1, <2>2
  <1>10. NotOvercounted(N)
    <2> SUFFICES ASSUME NEW d \in Entries
                 PROVE  N[d].nchild <= Named(N, d)
      BY DEF NotOvercounted
    <2>1. N[d].nchild = 0 /\ Named(N, d) \in Nat
      BY <1>2, <1>3, BlankFacts, NamedFinite
    <2>2. QED
      BY <2>1
  <1>11. Acyclic(N)
    BY <1>5 DEF Acyclic
  <1>12. Opened(N, {})
    BY <1>2, BlankFacts DEF Opened
  <1>13. QED
    BY <1>5, <1>6, <1>7, <1>8, <1>9, <1>10, <1>11, <1>12 DEF Good

LEMMA InitGood ==
  ASSUME Init
  PROVE  IInv
  <1>1. node = Empty
    BY DEF Init
  <1>2. QED
    BY <1>1, EmptyGood DEF IInv

\* Nothing has a name when the root has no children, so that a process that
\* dies on a garbage root takes no name away.
LEMMA NullRootStep ==
  ASSUME IInv, NullRoot
  PROVE  IInv' /\ Keeps(node', node)
  <1>1. node' = Empty /\ node[Root].garbage
    BY DEF NullRoot
  <1>2. Good(node', {})
    BY <1>1, EmptyGood
  <1>3. \A a \in Entries : NamesOf(node, a) = {}
    <2>1. Good(node, {}) /\ Root \in Entries
      BY NamespaceAssumption DEF IInv
    <2>2. Children(node, Root) = {}
      BY <1>1, <2>1, NoChildrenIn
    <2>3. QED
      BY <2>1, <2>2, NothingNamed
  <1>4. QED
    BY <1>2, <1>3 DEF IInv, Keeps

LEMMA StepGood ==
  ASSUME Hazardous = {}, IInv, [Next]_node
  PROVE  IInv' /\ (Keeps(node', node) \/ \E e \in Entries : DetachAll(e))
  <1>1. CASE Restart \/ NullRoot
    BY <1>1, RestartStep, NullRootStep
  <1>2. ASSUME NEW d \in Entries, NEW n \in Names, NEW k \in {"file", "dir"}, Make(d, n, k)
        PROVE  IInv' /\ Keeps(node', node)
    BY <1>2, MakeStep
  <1>3. ASSUME NEW d \in Entries, NEW n \in Names, MakeRefused(d, n)
        PROVE  IInv' /\ Keeps(node', node)
    BY <1>3, MakeRefusedStep
  <1>4. ASSUME NEW d \in Entries, NEW n \in Names, Symlink(d, n)
        PROVE  IInv' /\ Keeps(node', node)
    BY <1>4, SymlinkStep
  <1>5. ASSUME NEW d \in Entries, NEW n \in Names, NEW e \in Entries, Link(e, d, n)
        PROVE  IInv' /\ Keeps(node', node)
    BY <1>5, LinkStep
  <1>6. ASSUME NEW d \in Entries, NEW n \in Names, Unlink(d, n)
        PROVE  IInv' /\ Keeps(node', node)
    BY <1>6, UnlinkStep
  <1>7. ASSUME NEW d \in Entries, NEW n \in Names, Rmdir(d, n)
        PROVE  IInv' /\ Keeps(node', node)
    BY <1>7, RmdirStep
  <1>8. ASSUME NEW d \in Entries, NEW n \in Names, NEW m \in Names, RenameInDirectory(d, n, m)
        PROVE  IInv' /\ Keeps(node', node)
    BY <1>8, RenameInDirectoryStep
  <1>9. ASSUME NEW d \in Entries, NEW n \in Names, NEW to \in Entries, NEW m \in Names,
               Rename(d, n, to, m)
        PROVE  IInv' /\ Keeps(node', node)
    BY <1>9, RenameStep
  <1>10. ASSUME NEW e \in Entries, DetachAll(e)
         PROVE  IInv'
    BY <1>10, DetachAllStep
  <1>11. ASSUME NEW e \in Entries, Open(e)
         PROVE  IInv' /\ Keeps(node', node)
    BY <1>11, OpenStep
  <1>12. ASSUME NEW e \in Entries, Close(e)
         PROVE  IInv' /\ Keeps(node', node)
    BY <1>12, CloseStep
  <1>13. CASE UNCHANGED node
    BY <1>13 DEF IInv, Keeps
  <1>14. QED
    BY <1>1, <1>2, <1>3, <1>4, <1>5, <1>6, <1>7, <1>8, <1>9, <1>10, <1>11, <1>12, <1>13 DEF Next

\* Without the hazardous calls every call keeps the invariant: the tree, the
\* names and the counters fit together between any two calls.
THEOREM Invariance == Hazardous = {} => (Spec => []IInv)
  <1> SUFFICES ASSUME Hazardous = {} PROVE Spec => []IInv
    OBVIOUS
  <1>1. IInv /\ [Next]_node => IInv'
    BY StepGood
  <1>2. QED
    BY <1>1, InitGood, PTL DEF Spec

\* Every field keeps its type: link_count does not become negative, open_count
\* stays within its bound, and children and ".." are entries.
THEOREM TypeCorrect == Hazardous = {} => (Spec => []TypeOK)
  <1>1. IInv => TypeOK
    BY DEF IInv, Good, Typed, Nodes, TypeOK
  <1>2. QED
    BY <1>1, Invariance, PTL

\* link_count is the number of names, through links, renames and recursive
\* detaches in directories of any depth.
THEOREM LinksCounted == Hazardous = {} => (Spec => []LinkCountExact)
  <1>1. IInv => LinkCountExact
    BY DEF IInv, Good, LinksExact, LinkCountExact, Allocated
  <1>2. QED
    BY <1>1, Invariance, PTL

\* num_children never exceeds the children.
THEOREM ChildrenCounted == Hazardous = {} => (Spec => []NeverOvercounted)
  <1>1. IInv => NeverOvercounted
    BY DEF IInv, Good, NotOvercounted, NeverOvercounted, Allocated
  <1>2. QED
    BY <1>1, Invariance, PTL

\* The directories are a tree: one name each, ".." to where it is, and no way
\* down leads back.
THEOREM DirectoriesAreATree == Hazardous = {} => (Spec => []TreeShape)
  <1>1. IInv => TreeShape
    <2> SUFFICES ASSUME IInv, NEW e \in Entries, node[e].kind = "dir"
                 PROVE  /\ Cardinality(NamesOf(node, e)) <= 1
                        /\ \A dn \in NamesOf(node, e) : node[e].up = dn[1]
                        /\ \A d \in Below(node, e) : e \notin Children(node, d)
      BY DEF TreeShape, Allocated
    <2>1. Typed(node) /\ OneName(node) /\ Acyclic(node)
      BY DEF IInv, Good
    <2>2. Cardinality(NamesOf(node, e)) <= 1
      <3>1. CASE NamesOf(node, e) = {}
        <4>1. Cardinality(NamesOf(node, e)) = 0
          BY <3>1, FS_EmptySet
        <4>2. QED
          BY <4>1
      <3>2. CASE NamesOf(node, e) # {}
        <4>1. PICK p : p \in NamesOf(node, e)
          BY <3>2
        <4>2. NamesOf(node, e) = {p}
          BY <2>1, <4>1 DEF OneName
        <4>3. Cardinality(NamesOf(node, e)) = 1
          BY <4>2, FS_Singleton
        <4>4. QED
          BY <4>3
      <3>3. QED
        BY <3>1, <3>2
    <2>3. \A dn \in NamesOf(node, e) : node[e].up = dn[1]
      BY <2>1 DEF OneName
    <2>4. \A d \in Below(node, e) : e \notin Children(node, d)
      BY <2>1, NoCycle
    <2>5. QED
      BY <2>2, <2>3, <2>4
  <1>2. QED
    BY <1>1, Invariance, PTL

\* Every entry that is still allocated can be reached from the root or is
\* open: no call loses an entry.
THEOREM NothingIsLost == Hazardous = {} => (Spec => []NothingLost)
  <1>1. IInv => NothingLost
    <2> SUFFICES ASSUME IInv, NEW e \in Entries, node[e].kind # "none",
                        e \notin Below(node, Root)
                 PROVE  node[e].opens > 0
      BY DEF NothingLost, Allocated
    <2>1. Good(node, {}) /\ Orphans(node, {}) /\ Opened(node, {}) /\ Typed(node)
      BY DEF IInv, Good
    <2>2. e # Root
      BY <2>1, BelowLeast, NamespaceAssumption
    <2>3. NamesOf(node, e) = {}
      BY <2>1, NamedIsReachable
    <2>4. QED
      BY <2>1, <2>2, <2>3 DEF Opened
  <1>2. QED
    BY <1>1, Invariance, PTL

\* What is below the root has a name, or is the root.
LEMMA ReachableIsNamed ==
  ASSUME NEW N, Typed(N), NEW d \in Below(N, Root)
  PROVE  d \in Entries /\ (d = Root \/ NamesOf(N, d) # {})
  <1> DEFINE S == {a \in Entries : a = Root \/ NamesOf(N, a) # {}}
  <1>1. Root \in S /\ Root \in Entries
    BY NamespaceAssumption
  <1>2. ASSUME NEW a \in S \cap Entries
        PROVE  Children(N, a) \subseteq S
    <2> SUFFICES ASSUME NEW c \in Children(N, a)
                 PROVE  c \in S
      OBVIOUS
    <2>1. c \in Entries
      BY ChildFacts
    <2>2. PICK m \in Names : N[a].child[m] = c
      BY <2>1, ChildFacts
    <2>3. <<a, m>> \in NamesOf(N, c)
      BY <2>2 DEF NamesOf
    <2>4. QED
      BY <2>1, <2>3
  <1> HIDE DEF S
  <1>3. Below(N, Root) \subseteq S
    BY <1>1, <1>2, BelowLeast
  <1>4. QED
    BY <1>3 DEF S

\* A recursive detach takes only names away that are below e.
LEMMA DetachAllKeeps ==
  ASSUME IInv, NEW e \in Entries, DetachAll(e)
  PROVE  /\ node'[e].garbage
         /\ \A a \in Entries \ Below(node, e) : NamesOf(node', a) = NamesOf(node, a)
  <1> DEFINE M == Emptied(node, e)
             X == Below(node, e) \ {e}
  <1>1. Good(node, {}) /\ (e = Root \/ NamesOf(node, e) # {})
    BY ResolvableNamed DEF IInv, DetachAll
  <1>2. node' = Swept(M, X)
    BY DetachAllFields
  <1>3. /\ M[e].garbage
        /\ \A a \in Entries : NamesOf(M, a) = {p \in NamesOf(node, a) : p[1] \notin Below(node, e)}
    BY <1>1, EmptiedFields
  <1>4. \A a \in Entries : \A p \in NamesOf(node, a) :
          p[1] \in Below(node, e) => a \in Below(node, e)
    BY <1>1, EmptiedNames
  <1>5. \A a \in Entries \ Below(node, e) : NamesOf(M, a) = NamesOf(node, a)
    BY <1>3, <1>4
  <1>6. SameChildren(node', M)
    BY DetachAllStep
  <1> HIDE DEF M
  <1>7. node'[e] = M[e]
    BY <1>2 DEF Swept
  <1>8. \A a \in Entries : NamesOf(node', a) = NamesOf(M, a)
    BY <1>6, SameTrees
  <1>9. QED
    BY <1>3, <1>5, <1>7, <1>8

\* Only a recursive detach takes away a directory with something in it.
THEOREM FullDirectoriesAreKept == Hazardous = {} => (Spec => FullDirectoriesStay)
  <1> SUFFICES ASSUME Hazardous = {} PROVE Spec => FullDirectoriesStay
    OBVIOUS
  <1> DEFINE Stay ==
        \A d \in Allocated :
          d \in Below(node, Root) /\ Children(node, d) # {} =>
            \/ d \in Below(node, Root)'
            \/ \E a \in Entries : d \in Below(node, a) /\ node'[a].garbage
  <1>1. ASSUME IInv, IInv', [Next]_node
        PROVE  Stay
    <2> SUFFICES ASSUME NEW d \in Entries, d \in Below(node, Root), Children(node, d) # {}
                 PROVE  \/ d \in Below(node', Root)
                        \/ \E a \in Entries : d \in Below(node, a) /\ node'[a].garbage
      BY DEF Allocated
    <2>1. /\ Good(node, {}) /\ Typed(node)
          /\ Good(node', {}) /\ Typed(node') /\ Orphans(node', {})
      BY <1>1 DEF IInv, Good
    <2>2. CASE d = Root
      BY <2>1, <2>2, BelowLeast
    <2>3. CASE d # Root /\ NamesOf(node', d) # {}
      BY <2>1, <2>3, NamedIsReachable
    <2>4. CASE d # Root /\ NamesOf(node', d) = {}
      <3>1. NamesOf(node, d) # {}
        BY <2>1, <2>4, ReachableIsNamed
      <3>2. ~Keeps(node', node)
        BY <2>4, <3>1 DEF Keeps
      <3>3. PICK e \in Entries : DetachAll(e)
        BY <1>1, <3>2, StepGood
      <3>4. node'[e].garbage /\ d \in Below(node, e)
        BY <1>1, <2>4, <3>1, <3>3, DetachAllKeeps
      <3>5. QED
        BY <3>4
    <2>5. QED
      BY <2>2, <2>3, <2>4
  <1>2. IInv /\ IInv' /\ [Next]_node => [Stay]_node
    BY <1>1
  <1>3. QED
    BY <1>2, Invariance, PTL DEF Spec, FullDirectoriesStay

===============================================================================
