-------------------------- MODULE DetachQueue_proofs --------------------------
(***************************************************************************)
(* Proofs about DetachQueue: called again as its documentation says,       *)
(* fskit_detach_all drops exactly one link for every place in its queue,   *)
(* whatever the tree, the thread below it and the failures of memory.      *)
(***************************************************************************)
EXTENDS DetachQueue, FiniteSetTheorems, SequenceTheorems, TLAPS

Parents(e) == {d \in Dirs : e \in child[d]}
LostBy(e) == {d \in Dirs : <<d, e>> \in lost}

\* How often s names e.
Times(s, e) == Cardinality({k \in DOMAIN s : s[k] = e})

\* All that keeps a link: the names below Top, the places in the queue, and
\* what is still to be queued, or never will be.
Ties(e) ==
  Cardinality(Parents(e)) + Occurrences(e) + Pending(e) + Cardinality(LostBy(e))

(***************************************************************************)
(* The inductive invariant.                                                *)
(***************************************************************************)

\* What is freed is neither counted nor reachable, and, but after -EFAULT, not
\* queued either.
GoneForGood ==
  \A e \in gone :
    /\ links[e] = 0 /\ opens[e] = 0 /\ outside[e] = 0
    /\ e \notin fresh /\ Parents(e) = {}
    /\ pc # "efault" => Ties(e) = 0

\* What exists and has not been freed is counted; what is to come is not.
Counted ==
  /\ \A e \in Entries \ (gone \cup fresh) : links[e] > 0 \/ opens[e] > 0
  /\ \A e \in fresh : links[e] = 0 /\ opens[e] = 0

\* The other thread is in a directory that is linked and not garbage, and one
\* that has lost its link is empty.
Walking ==
  /\ walker # None => ~garbage[walker] /\ links[walker] > 0
  /\ \A d \in Dirs : links[d] = 0 => child[d] = {}

\* A directory's children are dropped once, and not before the queue is used.
Stages ==
  /\ \A d \in Dirs, e \in Entries : <<d, e>> \in lost => garbage[d]
  /\ pc \in {"start", "queue"} => queue = <<>> /\ lost = {} /\ faults = 0
  /\ pc # "start" => garbage[Top]
  /\ pc = "done" => queue = <<>>

\* Directories are in a tree below Top: they have no other names, and no set
\* of them is closed upwards.
Tree ==
  /\ \A d \in Dirs : outside[d] = IF d = Top THEN 1 ELSE 0
  /\ \A B \in (SUBSET Dirs) \ {{}} : \E d \in B : \A p \in B : d \notin child[p]

IInv ==
  /\ TypeOK
  /\ EachLinkDetachedOnce
  /\ GoneForGood
  /\ Counted
  /\ Walking
  /\ GarbageEmpty
  /\ Stages
  /\ Tree

(***************************************************************************)
(* Counting.                                                               *)
(***************************************************************************)

LEMMA Finite ==
  /\ IsFiniteSet(Dirs)
  /\ \A S \in SUBSET Entries : IsFiniteSet(S)
  <1>1. IsFiniteSet(Entries) /\ Dirs \subseteq Entries
    BY DetachAssumption DEF Entries
  <1>2. QED
    BY <1>1, FS_Subset

LEMMA TimesFinite ==
  ASSUME NEW s \in Seq(Entries), NEW e
  PROVE  /\ IsFiniteSet({k \in DOMAIN s : s[k] = e})
         /\ Times(s, e) \in Nat
         /\ Times(s, e) = 0 <=> \A k \in DOMAIN s : s[k] # e
  <1> DEFINE P == {k \in DOMAIN s : s[k] = e}
  <1>1. DOMAIN s = 1 .. Len(s) /\ Len(s) \in Nat
    BY LenProperties
  <1>2. IsFiniteSet(1 .. Len(s))
    BY <1>1, FS_Interval
  <1>3. IsFiniteSet(P)
    BY <1>1, <1>2, FS_Subset
  <1>4. Cardinality(P) \in Nat /\ (Cardinality(P) = 0 <=> P = {})
    BY <1>3, FS_CardinalityType, FS_EmptySet
  <1>5. QED
    BY <1>3, <1>4 DEF Times

LEMMA NoTimes == \A e : Times(<<>>, e) = 0
  <1> SUFFICES ASSUME NEW e PROVE Times(<<>>, e) = 0
    OBVIOUS
  <1>1. DOMAIN <<>> = {}
    OBVIOUS
  <1>2. {k \in DOMAIN <<>> : <<>>[k] = e} = {}
    BY <1>1
  <1>3. QED
    BY <1>2, FS_EmptySet DEF Times

\* Appending a sequence that has no element twice.
LEMMA AppendTimes ==
  ASSUME NEW s \in Seq(Entries), NEW u \in Seq(Entries), NEW e,
         \A i, j \in DOMAIN u : u[i] = u[j] => i = j
  PROVE  /\ s \o u \in Seq(Entries)
         /\ Times(s \o u, e) =
              Times(s, e) + IF \E k \in DOMAIN u : u[k] = e THEN 1 ELSE 0
  <1> DEFINE P == {k \in DOMAIN s : s[k] = e}
             Q == {k \in DOMAIN (s \o u) : (s \o u)[k] = e}
  <1>1. /\ DOMAIN s = 1 .. Len(s) /\ Len(s) \in Nat
        /\ DOMAIN u = 1 .. Len(u) /\ Len(u) \in Nat
    BY LenProperties
  <1>2. /\ s \o u \in Seq(Entries)
        /\ Len(s \o u) = Len(s) + Len(u)
        /\ \A i \in 1 .. Len(s) + Len(u) :
             (s \o u)[i] = IF i <= Len(s) THEN s[i] ELSE u[i - Len(s)]
    BY ConcatProperties
  <1>3. DOMAIN (s \o u) = 1 .. Len(s) + Len(u)
    BY <1>2, LenProperties
  <1>4. IsFiniteSet(P) /\ Cardinality(P) \in Nat
    BY TimesFinite DEF Times
  <1>5. CASE \E k \in DOMAIN u : u[k] = e
    <2>1. PICK k \in 1 .. Len(u) : u[k] = e
      BY <1>1, <1>5
    <2>2. ASSUME NEW i \in 1 .. Len(s) + Len(u)
          PROVE  i \in Q <=> i \in P \/ i = Len(s) + k
      <3>1. CASE i <= Len(s)
        BY <1>1, <1>2, <1>3, <2>1, <3>1
      <3>2. CASE i > Len(s)
        <4>1. i - Len(s) \in 1 .. Len(u) /\ (s \o u)[i] = u[i - Len(s)]
          BY <1>1, <1>2, <3>2
        <4>2. u[i - Len(s)] = e <=> i - Len(s) = k
          BY <1>1, <2>1, <4>1
        <4>3. QED
          BY <1>1, <1>3, <3>2, <4>1, <4>2
      <3>3. QED
        BY <1>1, <3>1, <3>2
    <2>3. Q = P \cup {Len(s) + k} /\ Len(s) + k \notin P
      BY <1>1, <1>3, <2>1, <2>2
    <2>4. Cardinality(Q) = Cardinality(P) + 1
      BY <1>4, <2>3, FS_AddElement
    <2>5. QED
      BY <1>2, <1>5, <2>4 DEF Times
  <1>6. CASE ~\E k \in DOMAIN u : u[k] = e
    <2>1. ASSUME NEW i \in 1 .. Len(s) + Len(u)
          PROVE  i \in Q <=> i \in P
      <3>1. CASE i <= Len(s)
        BY <1>1, <1>2, <1>3, <3>1
      <3>2. CASE i > Len(s)
        <4>1. i - Len(s) \in 1 .. Len(u) /\ (s \o u)[i] = u[i - Len(s)]
          BY <1>1, <1>2, <3>2
        <4>2. QED
          BY <1>1, <1>3, <1>6, <3>2, <4>1
      <3>3. QED
        BY <1>1, <3>1, <3>2
    <2>2. Q = P
      BY <1>1, <1>3, <2>1
    <2>3. QED
      <3>1. Times(s \o u, e) = Cardinality(Q) /\ Times(s, e) = Cardinality(P)
        BY DEF Times
      <3> HIDE DEF P, Q
      <3>2. QED
        BY <1>2, <1>4, <1>6, <2>2, <3>1
  <1>7. QED
    BY <1>5, <1>6

\* Taking the head away.
LEMMA TailTimes ==
  ASSUME NEW s \in Seq(Entries), s # <<>>, NEW e
  PROVE  /\ Tail(s) \in Seq(Entries) /\ Head(s) \in Entries
         /\ Times(s, e) = Times(Tail(s), e) + IF Head(s) = e THEN 1 ELSE 0
  <1> DEFINE P == {k \in DOMAIN Tail(s) : Tail(s)[k] = e}
             Q == {k \in DOMAIN s : s[k] = e}
             f == [k \in P |-> k + 1]
  <1>1. /\ Tail(s) \in Seq(Entries) /\ Head(s) \in Entries
        /\ Len(Tail(s)) = Len(s) - 1
        /\ \A i \in 1 .. Len(Tail(s)) : Tail(s)[i] = s[i + 1]
    BY HeadTailProperties
  <1>2. /\ Head(s) = s[1] /\ Len(s) \in Nat \ {0}
        /\ DOMAIN s = 1 .. Len(s) /\ DOMAIN Tail(s) = 1 .. Len(s) - 1
    BY <1>1, LenProperties, EmptySeq
  <1>3. /\ IsFiniteSet(P) /\ IsFiniteSet(Q)
        /\ Times(s, e) = Cardinality(Q) /\ Times(Tail(s), e) = Cardinality(P)
        /\ Cardinality(Q) \in Nat
    <2>1. Times(s, e) = Cardinality(Q) /\ Times(Tail(s), e) = Cardinality(P)
      BY DEF Times
    <2>2. IsFiniteSet(P) /\ IsFiniteSet(Q)
      BY <1>1, TimesFinite
    <2> HIDE DEF P, Q
    <2>3. QED
      BY <2>1, <2>2, FS_CardinalityType
  <1>4. ASSUME NEW j \in Q \ {1}
        PROVE  j - 1 \in P /\ j = (j - 1) + 1
    BY <1>1, <1>2
  <1>5. \A k \in P : k + 1 \in Q \ {1}
    BY <1>1, <1>2
  <1>6. f \in Bijection(P, Q \ {1})
    <2>1. f \in [P -> Q \ {1}]
      BY <1>5
    <2>2. \A a, b \in P : f[a] = f[b] => a = b
      BY <1>2
    <2>3. \A j \in Q \ {1} : \E k \in P : f[k] = j
      BY <1>4
    <2>4. QED
      BY <2>1, <2>2, <2>3 DEF Bijection, Injection, Surjection, IsInjective
  <1>7. Cardinality(Q \ {1}) = Cardinality(P)
    <2>1. ExistsBijection(P, Q \ {1})
      BY <1>6 DEF ExistsBijection
    <2> HIDE DEF P, Q, f
    <2>2. QED
      BY <1>3, <2>1, FS_Bijection
  <1>8. Cardinality(Q \ {1}) = IF 1 \in Q THEN Cardinality(Q) - 1 ELSE Cardinality(Q)
    BY <1>3, FS_RemoveElement
  <1>9. 1 \in Q <=> Head(s) = e
    BY <1>2
  <1> HIDE DEF P, Q
  <1>10. QED
    BY <1>1, <1>3, <1>7, <1>8, <1>9

\* An order of S has every element of S once.
LEMMA OrderOnce ==
  ASSUME NEW S \in SUBSET Entries, NEW s \in Orders(S)
  PROVE  /\ s \in Seq(Entries) /\ Len(s) = Cardinality(S) /\ Cardinality(S) \in Nat
         /\ DOMAIN s = 1 .. Cardinality(S)
         /\ \A i, j \in DOMAIN s : s[i] = s[j] => i = j
         /\ \A e : (\E k \in DOMAIN s : s[k] = e) <=> e \in S
  <1> DEFINE n == Cardinality(S)
  <1>1. IsFiniteSet(S) /\ n \in Nat
    BY Finite, FS_CardinalityType
  <1>2. s \in [1 .. n -> S] /\ \A e \in S : \E k \in DOMAIN s : s[k] = e
    BY DEF Orders
  <1>3. s \in Seq(Entries) /\ Len(s) = n
    BY <1>1, <1>2
  <1>4. IsFiniteSet(1 .. n) /\ Cardinality(1 .. n) = n
    BY <1>1, FS_Interval
  <1>5. s \in Surjection(1 .. n, S)
    BY <1>2 DEF Surjection
  <1>6. s \in Injection(1 .. n, S)
    BY <1>4, <1>5, FS_SurjSameCardinalityImpliesInj
  <1>7. \A i, j \in DOMAIN s : s[i] = s[j] => i = j
    BY <1>2, <1>6 DEF Injection, IsInjective
  <1>8. QED
    BY <1>1, <1>2, <1>3, <1>7

\* Queueing a set adds one place for each of its elements, at the tail.
LEMMA QueuedOnce ==
  ASSUME queue \in Seq(Entries), NEW S \in SUBSET Entries, NEW q \in Queued(S)
  PROVE  /\ q \in Seq(Entries)
         /\ \A e : Times(q, e) = Occurrences(e) + IF e \in S THEN 1 ELSE 0
         /\ queue # <<>> => q # <<>> /\ Head(q) = Head(queue)
  <1>1. PICK s \in Orders(S) : q = queue \o s
    BY DEF Queued
  <1>2. /\ s \in Seq(Entries)
        /\ \A i, j \in DOMAIN s : s[i] = s[j] => i = j
        /\ \A e : (\E k \in DOMAIN s : s[k] = e) <=> e \in S
    BY OrderOnce
  <1>3. q \in Seq(Entries)
    BY <1>1, <1>2, AppendTimes
  <1>4. ASSUME NEW e
        PROVE  Times(q, e) = Occurrences(e) + IF e \in S THEN 1 ELSE 0
    <2>1. Times(q, e) = Times(queue, e) + IF \E k \in DOMAIN s : s[k] = e THEN 1 ELSE 0
      BY <1>1, <1>2, AppendTimes
    <2>2. Occurrences(e) = Times(queue, e)
      BY DEF Occurrences, Times
    <2>3. QED
      BY <1>2, <2>1, <2>2
  <1>5. ASSUME queue # <<>>
        PROVE  q # <<>> /\ Head(q) = Head(queue)
    <2>1. Len(queue) \in Nat \ {0} /\ Len(s) \in Nat
      BY <1>2, <1>5, EmptySeq, LenProperties
    <2>2. Len(q) = Len(queue) + Len(s) /\ q[1] = queue[1]
      BY <1>1, <1>2, <2>1, ConcatProperties
    <2>3. q # <<>>
      BY <2>1, <2>2
    <2>4. QED
      BY <1>3, <2>1, <2>2, <2>3
  <1>6. QED
    BY <1>3, <1>4, <1>5

\* When memory runs out, what did not get a place is what was dropped.
LEMMA QueuedOrDropped ==
  ASSUME queue \in Seq(Entries), NEW S \in SUBSET Entries, NEW q \in QueuedInPart(S),
         NEW d
  PROVE  /\ q \in Seq(Entries)
         /\ \A e : Times(q, e) = Occurrences(e)
                     + IF e \in S /\ <<d, e>> \notin Dropped(d, S, q) THEN 1 ELSE 0
  <1>1. PICK s \in Orders(S), n \in 0 .. Cardinality(S) - 1 : q = queue \o SubSeq(s, 1, n)
    BY DEF QueuedInPart
  <1> DEFINE u == SubSeq(s, 1, n)
  <1>2. /\ s \in Seq(Entries) /\ Len(s) = Cardinality(S) /\ Cardinality(S) \in Nat
        /\ DOMAIN s = 1 .. Cardinality(S)
        /\ \A i, j \in DOMAIN s : s[i] = s[j] => i = j
        /\ \A e : (\E k \in DOMAIN s : s[k] = e) <=> e \in S
    BY OrderOnce
  <1>3. n \in Nat /\ n <= Cardinality(S) /\ \A i \in 1 .. n : s[i] \in Entries
    BY <1>2
  <1>4. /\ u \in Seq(Entries) /\ Len(u) = n
        /\ \A i \in 1 .. n : u[i] = s[i]
    <2>1. /\ u \in Seq(Entries)
          /\ Len(u) = IF 1 <= n THEN n - 1 + 1 ELSE 0
          /\ \A i \in 1 .. n - 1 + 1 : u[i] = s[1 + i - 1]
      BY <1>3, SubSeqProperties
    <2>2. QED
      BY <1>3, <2>1
  <1>5. DOMAIN u = 1 .. n
    BY <1>4, LenProperties
  <1>6. \A i, j \in DOMAIN u : u[i] = u[j] => i = j
    BY <1>2, <1>3, <1>4, <1>5
  <1>7. q \in Seq(Entries)
    BY <1>1, <1>4, <1>6, AppendTimes
  <1>8. ASSUME NEW e
        PROVE  (\E k \in DOMAIN u : u[k] = e) <=> e \in S /\ <<d, e>> \notin Dropped(d, S, q)
    <2>1. (\E k \in DOMAIN u : u[k] = e) => e \in S
      BY <1>2, <1>3, <1>4, <1>5
    <2>2. Len(queue) \in Nat /\ Len(q) = Len(queue) + n
      BY <1>1, <1>4, ConcatProperties, LenProperties
    <2>3. \A i \in 1 .. n : q[Len(queue) + i] = u[i] /\ Len(queue) + i \in Len(queue) + 1 .. Len(q)
      <3>1. \A i \in 1 .. Len(queue) + Len(u) :
              (queue \o u)[i] = IF i <= Len(queue) THEN queue[i] ELSE u[i - Len(queue)]
        BY <1>4, ConcatProperties
      <3>2. ASSUME NEW i \in 1 .. n
            PROVE  /\ Len(queue) + i \in 1 .. Len(queue) + Len(u)
                   /\ ~(Len(queue) + i <= Len(queue)) /\ (Len(queue) + i) - Len(queue) = i
        BY <1>3, <1>4, <2>2
      <3>3. QED
        BY <1>1, <1>3, <2>2, <3>1, <3>2
    <2>4. \A k \in Len(queue) + 1 .. Len(q) :
            k - Len(queue) \in 1 .. n /\ q[k] = u[k - Len(queue)]
      <3>1. ASSUME NEW k \in Len(queue) + 1 .. Len(q)
            PROVE  k - Len(queue) \in 1 .. n /\ Len(queue) + (k - Len(queue)) = k
        BY <1>3, <2>2
      <3>2. QED
        BY <2>3, <3>1
    <2>5. (\E k \in DOMAIN u : u[k] = e) <=> \E k \in Len(queue) + 1 .. Len(q) : q[k] = e
      BY <1>5, <2>3, <2>4
    <2>6. e \in S => (<<d, e>> \in Dropped(d, S, q)
                        <=> \A k \in Len(queue) + 1 .. Len(q) : q[k] # e)
      BY DEF Dropped
    <2>7. QED
      BY <2>1, <2>5, <2>6
  <1>9. ASSUME NEW e
        PROVE  Times(q, e) = Occurrences(e)
                 + IF e \in S /\ <<d, e>> \notin Dropped(d, S, q) THEN 1 ELSE 0
    <2>1. Times(q, e) = Times(queue, e) + IF \E k \in DOMAIN u : u[k] = e THEN 1 ELSE 0
      BY <1>1, <1>4, <1>6, AppendTimes
    <2>2. Occurrences(e) = Times(queue, e)
      BY DEF Occurrences, Times
    <2>3. QED
      BY <1>8, <2>1, <2>2
  <1>10. QED
    BY <1>7, <1>9

\* The counts are numbers, and a sum of zero means that nothing is left.
TiesOK ==
  \A e \in Entries :
    /\ IsFiniteSet(Parents(e)) /\ Cardinality(Parents(e)) \in Nat
    /\ IsFiniteSet(LostBy(e)) /\ Cardinality(LostBy(e)) \in Nat
    /\ Occurrences(e) \in Nat /\ Pending(e) \in {0, 1} /\ Ties(e) \in Nat
    /\ Ties(e) = 0 => Parents(e) = {} /\ Occurrences(e) = 0 /\ Pending(e) = 0
    /\ Occurrences(e) = Times(queue, e)
    /\ Cardinality(Parents(e)) = 0 <=> Parents(e) = {}

LEMMA TiesFacts == TypeOK => TiesOK
  <1> SUFFICES ASSUME TypeOK PROVE TiesOK
    OBVIOUS
  <1> SUFFICES ASSUME NEW e \in Entries
               PROVE  /\ IsFiniteSet(Parents(e)) /\ Cardinality(Parents(e)) \in Nat
                      /\ IsFiniteSet(LostBy(e)) /\ Cardinality(LostBy(e)) \in Nat
                      /\ Occurrences(e) \in Nat /\ Pending(e) \in {0, 1} /\ Ties(e) \in Nat
                      /\ Ties(e) = 0 => Parents(e) = {} /\ Occurrences(e) = 0 /\ Pending(e) = 0
                      /\ Occurrences(e) = Times(queue, e)
                      /\ Cardinality(Parents(e)) = 0 <=> Parents(e) = {}
    BY DEF TiesOK
  <1>1. IsFiniteSet(Parents(e)) /\ IsFiniteSet(LostBy(e))
    <2>1. Parents(e) \in SUBSET Dirs /\ LostBy(e) \in SUBSET Dirs
      BY DEF Parents, LostBy
    <2>2. QED
      BY <2>1, Finite, FS_Subset
  <1>2. /\ Cardinality(Parents(e)) \in Nat /\ Cardinality(LostBy(e)) \in Nat
        /\ Cardinality(Parents(e)) = 0 <=> Parents(e) = {}
    BY <1>1, FS_CardinalityType, FS_EmptySet
  <1>3. Occurrences(e) = Times(queue, e) /\ Occurrences(e) \in Nat
    BY TimesFinite DEF TypeOK, Occurrences, Times
  <1>4. Pending(e) \in {0, 1}
    BY DEF Pending
  <1>5. QED
    BY <1>1, <1>2, <1>3, <1>4 DEF Ties

\* The invariant about link counts, in these terms.
Balanced == \A e \in Entries \ gone : links[e] = outside[e] + Ties(e)

LEMMA Balance == TypeOK => (EachLinkDetachedOnce <=> Balanced)
  <1> SUFFICES ASSUME TypeOK, NEW e \in Entries \ gone
               PROVE  (links[e] = outside[e] + Cardinality({d \in Dirs : e \in child[d]})
                         + Occurrences(e) + Pending(e)
                         + Cardinality({d \in Dirs : <<d, e>> \in lost}))
                      <=> links[e] = outside[e] + Ties(e)
    BY DEF EachLinkDetachedOnce, Balanced
  <1>1. /\ Cardinality(Parents(e)) \in Nat /\ Cardinality(LostBy(e)) \in Nat
        /\ Occurrences(e) \in Nat /\ Pending(e) \in Nat /\ outside[e] \in Nat
    <2>1. /\ Cardinality(Parents(e)) \in Nat /\ Cardinality(LostBy(e)) \in Nat
          /\ Occurrences(e) \in Nat /\ Pending(e) \in {0, 1}
      BY TiesFacts DEF TiesOK
    <2>2. outside[e] \in {0, 1}
      BY DEF TypeOK
    <2>3. QED
      BY <2>1, <2>2
  <1>2. /\ Cardinality({d \in Dirs : e \in child[d]}) = Cardinality(Parents(e))
        /\ Cardinality({d \in Dirs : <<d, e>> \in lost}) = Cardinality(LostBy(e))
    BY DEF Parents, LostBy
  <1> DEFINE p == Cardinality(Parents(e))
             n == Occurrences(e)
             w == Pending(e)
             m == Cardinality(LostBy(e))
  <1>3. Ties(e) = p + n + w + m
    BY DEF Ties
  <1>4. p \in Nat /\ n \in Nat /\ w \in Nat /\ m \in Nat
    BY <1>1
  <1> HIDE DEF p, n, w, m
  <1>5. outside[e] + p + n + w + m = outside[e] + (p + n + w + m)
    BY <1>1, <1>4
  <1>6. QED
    BY <1>2, <1>3, <1>5 DEF p, n, w, m

(***************************************************************************)
(* What a step does to the counts.                                         *)
(***************************************************************************)

\* A directory loses its children.
LEMMA EmptyDir ==
  ASSUME TypeOK, NEW d \in Dirs, child' = [child EXCEPT ![d] = {}], NEW e \in Entries
  PROVE  /\ Parents(e)' \subseteq Parents(e)
         /\ Cardinality(Parents(e)') =
              Cardinality(Parents(e)) - IF e \in child[d] THEN 1 ELSE 0
  <1>1. Parents(e)' = Parents(e) \ {d}
    BY DEF TypeOK, Parents
  <1>2. d \in Parents(e) <=> e \in child[d]
    BY DEF Parents
  <1>3. IsFiniteSet(Parents(e)) /\ Cardinality(Parents(e)) \in Nat
    BY TiesFacts DEF TiesOK
  <1>4. Cardinality(Parents(e) \ {d}) =
          IF d \in Parents(e) THEN Cardinality(Parents(e)) - 1 ELSE Cardinality(Parents(e))
    BY <1>3, FS_RemoveElement
  <1>5. QED
    BY <1>1, <1>2, <1>3, <1>4

\* A step that only moves ties from one kind to another.
LEMMA TiesKept ==
  ASSUME IInv, TypeOK', UNCHANGED <<links, opens, gone, fresh, outside>>,
         \A e \in Entries : Ties(e)' = Ties(e) /\ Parents(e)' \subseteq Parents(e),
         pc = "efault" => pc' = "efault"
  PROVE  EachLinkDetachedOnce' /\ GoneForGood' /\ Counted'
  <1>1. \A e \in Entries \ gone : links[e] = outside[e] + Ties(e)
    BY Balance DEF IInv, Balanced
  <1>2. \A e \in Entries \ gone' : links'[e] = outside'[e] + Ties(e)'
    BY <1>1
  <1>3. EachLinkDetachedOnce'
    <2>1. TypeOK' => (EachLinkDetachedOnce' <=> Balanced')
      BY Balance, PTL
    <2>2. QED
      BY <1>2, <2>1 DEF Balanced
  <1>4. GoneForGood'
    BY DEF IInv, TypeOK, GoneForGood
  <1>5. Counted'
    BY DEF IInv, Counted
  <1>6. QED
    BY <1>3, <1>4, <1>5

\* A step that takes one link or reference of x away, and frees it with its last.
LEMMA OneDropped ==
  ASSUME IInv, TypeOK', NEW x \in Entries \ (gone \cup fresh), NEW l \in Nat, NEW o \in Nat,
         Counts(x, l, o), fresh' = fresh,
         \A e \in Entries \ {x} : outside'[e] = outside[e] /\ Ties(e)' = Ties(e),
         \A e \in Entries : Parents(e)' \subseteq Parents(e),
         \/ pc' = pc /\ l = outside'[x] + Ties(x)'
         \/ /\ pc # "efault" /\ pc' = "efault" /\ l = 0 /\ o = 0
            /\ outside'[x] = 0 /\ Parents(x)' = {}
  PROVE  EachLinkDetachedOnce' /\ GoneForGood' /\ Counted'
  <1>1. \A e \in Entries \ gone : links[e] = outside[e] + Ties(e)
    BY Balance DEF IInv, Balanced
  <1>2. /\ links'[x] = l /\ opens'[x] = o
        /\ \A e \in Entries \ {x} : links'[e] = links[e] /\ opens'[e] = opens[e]
        /\ \A e \in Entries \ {x} : e \in gone' <=> e \in gone
        /\ x \in gone' <=> l = 0 /\ o = 0
    BY DEF Counts, IInv, TypeOK
  <1>3. \A e \in Entries \ gone' : links'[e] = outside'[e] + Ties(e)'
    BY <1>1, <1>2
  <1>4. EachLinkDetachedOnce'
    <2>1. TypeOK' => (EachLinkDetachedOnce' <=> Balanced')
      BY Balance, PTL
    <2>2. QED
      BY <1>3, <2>1 DEF Balanced
  <1>5. \A e \in Entries : Ties(e)' \in Nat /\ (Ties(e)' = 0 => Parents(e)' = {})
    <2>1. TypeOK' => TiesOK'
      BY TiesFacts, PTL
    <2>2. QED
      BY <2>1 DEF TiesOK
  <1>6. GoneForGood'
    <2> SUFFICES ASSUME NEW e \in gone'
                 PROVE  /\ links'[e] = 0 /\ opens'[e] = 0 /\ outside'[e] = 0
                        /\ e \notin fresh' /\ Parents(e)' = {}
                        /\ pc' # "efault" => Ties(e)' = 0
      BY DEF GoneForGood
    <2>1. e \in Entries
      BY DEF TypeOK
    <2>2. CASE e # x
      <3>1. e \in gone
        BY <1>2, <2>1, <2>2
      <3>2. QED
        BY <1>2, <2>1, <2>2, <3>1 DEF IInv, GoneForGood
    <2>3. CASE e = x
      <3>1. l = 0 /\ o = 0
        BY <1>2, <2>3
      <3>2. outside'[x] \in Nat /\ Ties(x)' \in Nat
        BY <1>5 DEF TypeOK
      <3>3. CASE pc' = pc /\ l = outside'[x] + Ties(x)'
        <4>1. outside'[x] = 0 /\ Ties(x)' = 0
          BY <3>1, <3>2, <3>3
        <4>2. QED
          BY <1>2, <1>5, <2>3, <3>1, <4>1
      <3>4. CASE pc' = "efault" /\ outside'[x] = 0 /\ Parents(x)' = {}
        BY <1>2, <2>3, <3>1, <3>4
      <3>5. QED
        BY <3>3, <3>4
    <2>4. QED
      BY <2>2, <2>3
  <1>7. Counted'
    <2>1. \A e \in Entries \ (gone' \cup fresh') : links'[e] > 0 \/ opens'[e] > 0
      BY <1>2 DEF IInv, Counted
    <2>2. \A e \in fresh' : links'[e] = 0 /\ opens'[e] = 0
      BY <1>2, DetachAssumption DEF IInv, Counted, TypeOK, Entries
    <2>3. QED
      BY <2>1, <2>2 DEF Counted
  <1>8. QED
    BY <1>4, <1>6, <1>7

\* What is queued, or a child, is counted.
LEMMA TiedLives ==
  ASSUME IInv, pc # "efault", NEW e \in Entries, Ties(e) > 0
  PROVE  e \notin gone \cup fresh /\ links[e] > 0
  <1>1. e \notin gone
    BY DEF IInv, GoneForGood
  <1>2. links[e] = outside[e] + Ties(e) /\ outside[e] \in Nat /\ Ties(e) \in Nat
    <2>1. links[e] = outside[e] + Ties(e)
      BY <1>1, Balance DEF IInv, Balanced
    <2>2. outside[e] \in {0, 1} /\ Ties(e) \in Nat
      BY <1>1, TiesFacts DEF IInv, TypeOK, TiesOK
    <2>3. QED
      BY <2>1, <2>2
  <1>3. links[e] > 0
    BY <1>2
  <1>4. QED
    BY <1>1, <1>3 DEF IInv, Counted

LEMMA ChildLives ==
  ASSUME IInv, NEW d \in Dirs, NEW e \in child[d]
  PROVE  /\ e \in Entries \ (gone \cup fresh) /\ d \in Parents(e)
         /\ Cardinality(Parents(e)) > 0 /\ Ties(e) > 0 /\ links[e] > 0
  <1>1. e \in Entries /\ d \in Parents(e)
    BY DEF IInv, TypeOK, Parents
  <1>2. Cardinality(Parents(e)) > 0 /\ Ties(e) > 0
    <2>1. /\ Cardinality(Parents(e)) \in Nat \ {0} /\ Occurrences(e) \in Nat
          /\ Pending(e) \in Nat /\ Cardinality(LostBy(e)) \in Nat
      BY <1>1, TiesFacts DEF IInv, TiesOK
    <2>2. QED
      BY <2>1 DEF Ties
  <1>3. e \notin gone
    BY <1>1 DEF IInv, GoneForGood
  <1>4. links[e] = outside[e] + Ties(e) /\ outside[e] \in Nat /\ Ties(e) \in Nat
    <2>1. links[e] = outside[e] + Ties(e)
      BY <1>1, <1>3, Balance DEF IInv, Balanced
    <2>2. outside[e] \in {0, 1} /\ Ties(e) \in Nat
      BY <1>1, <1>3, TiesFacts DEF IInv, TypeOK, TiesOK
    <2>3. QED
      BY <2>1, <2>2
  <1>5. links[e] > 0
    BY <1>2, <1>4
  <1>6. QED
    BY <1>1, <1>2, <1>3, <1>5 DEF IInv, Counted

LEMMA HeadLives ==
  ASSUME IInv, pc # "efault", queue # <<>>
  PROVE  /\ Head(queue) \in Entries \ (gone \cup fresh)
         /\ Occurrences(Head(queue)) > 0 /\ Ties(Head(queue)) > 0
         /\ links[Head(queue)] > 0
  <1> DEFINE x == Head(queue)
  <1>1. x \in Entries /\ Tail(queue) \in Seq(Entries)
    BY HeadTailProperties DEF IInv, TypeOK
  <1>2. Occurrences(x) > 0
    <2>1. Times(queue, x) = Times(Tail(queue), x) + 1 /\ Times(Tail(queue), x) \in Nat
      BY <1>1, TailTimes, TimesFinite DEF IInv, TypeOK
    <2>2. Occurrences(x) = Times(queue, x)
      BY <1>1, TiesFacts DEF IInv, TiesOK
    <2>3. QED
      BY <2>1, <2>2
  <1>3. Ties(x) > 0
    <2>1. /\ Cardinality(Parents(x)) \in Nat /\ Occurrences(x) \in Nat
          /\ Pending(x) \in Nat /\ Cardinality(LostBy(x)) \in Nat
      BY <1>1, TiesFacts DEF IInv, TiesOK
    <2>2. QED
      BY <1>2, <2>1 DEF Ties
  <1>4. QED
    BY <1>1, <1>2, <1>3, TiedLives

LEMMA TreeShrinks ==
  ASSUME IInv, \A d \in Dirs : child'[d] \cap Dirs \subseteq child[d],
         \A d \in Dirs : outside'[d] = outside[d]
  PROVE  Tree'
  BY DEF IInv, Tree

(***************************************************************************)
(* The detaching thread.                                                   *)
(***************************************************************************)

LEMMA TagStep ==
  ASSUME IInv, Tag
  PROVE  IInv'
  <1>1. /\ pc = "start" /\ pc' = "queue" /\ walker # Top /\ Top \in Dirs /\ Top \in Entries
        /\ queue = <<>> /\ lost = {} /\ faults = 0
    BY DetachAssumption DEF Tag, IInv, Stages, Entries
  <1>2. TypeOK'
    BY <1>1 DEF IInv, TypeOK, Tag
  <1>3. ASSUME NEW e \in Entries
        PROVE  Ties(e)' = Ties(e) /\ Parents(e)' \subseteq Parents(e)
    <2>1. /\ Parents(e)' \subseteq Parents(e)
          /\ Cardinality(Parents(e)') =
               Cardinality(Parents(e)) - IF e \in child[Top] THEN 1 ELSE 0
      BY <1>1, EmptyDir DEF IInv, Tag
    <2>2. Occurrences(e)' = Occurrences(e) /\ LostBy(e)' = LostBy(e)
      BY DEF Tag, Occurrences, LostBy
    <2>3. Pending(e) = 0 /\ Pending(e)' = IF e \in child[Top] THEN 1 ELSE 0
      BY <1>1 DEF Tag, Pending
    <2>4. /\ Cardinality(Parents(e)) \in Nat /\ Occurrences(e) \in Nat
          /\ Cardinality(LostBy(e)) \in Nat
      BY TiesFacts DEF IInv, TiesOK
    <2>5. Ties(e)' = Cardinality(Parents(e)') + Occurrences(e)' + Pending(e)'
                       + Cardinality(LostBy(e)')
      BY DEF Ties
    <2>6. QED
      BY <2>1, <2>2, <2>3, <2>4, <2>5 DEF Ties
  <1>4. EachLinkDetachedOnce' /\ GoneForGood' /\ Counted'
    BY <1>1, <1>2, <1>3, TiesKept DEF Tag
  <1>5. Walking' /\ GarbageEmpty'
    BY <1>1 DEF IInv, TypeOK, Tag, Walking, GarbageEmpty
  <1>6. Stages'
    BY <1>1 DEF IInv, TypeOK, Tag, Stages
  <1>7. Tree'
    BY <1>1, TreeShrinks DEF IInv, TypeOK, Tag
  <1>8. QED
    BY <1>2, <1>4, <1>5, <1>6, <1>7 DEF IInv

LEMMA QueueSetStep ==
  ASSUME IInv, RetryWith = "null", QueueSet
  PROVE  IInv'
  <1>1. /\ pc = "queue" /\ pc' # "queue" /\ pc' \in {"loop", "nomem"}
        /\ queue = <<>> /\ lost = {} /\ faults = 0
        /\ set \in SUBSET Entries /\ Top \in Dirs
        /\ UNCHANGED <<child, outside, links, opens, garbage, gone, fresh, set, walker>>
    BY DetachAssumption DEF QueueSet, IInv, Stages, TypeOK, treeVars
  <1>2. \/ queue' \in Queued(set) /\ lost' = lost /\ faults' = faults
        \/ /\ queue' \in QueuedInPart(set) /\ lost' = Dropped(Top, set, queue')
           /\ faults' = faults + 1 /\ faults < MaxFaults
    BY <1>1 DEF QueueSet, Fault
  <1>3. queue' \in Seq(Entries) /\ lost' \subseteq {Top} \X set
    BY <1>1, <1>2, QueuedOnce, QueuedOrDropped DEF IInv, TypeOK, Dropped
  <1>4. TypeOK'
    <2>1. faults' \in 0 .. MaxFaults
      BY <1>1, <1>2, DetachAssumption
    <2>2. QED
      BY <1>1, <1>3, <2>1 DEF IInv, TypeOK
  <1>5. ASSUME NEW e \in Entries
        PROVE  Ties(e)' = Ties(e) /\ Parents(e)' \subseteq Parents(e)
    <2>1. Parents(e)' = Parents(e) /\ LostBy(e) = {} /\ Occurrences(e)' = Times(queue', e)
      BY <1>1 DEF Parents, LostBy, Occurrences, Times
    <2>2. Pending(e)' = 0 /\ Pending(e) = IF e \in set THEN 1 ELSE 0
      BY <1>1 DEF Pending
    <2>3. Cardinality(Parents(e)) \in Nat /\ Occurrences(e) \in Nat
      BY TiesFacts DEF IInv, TiesOK
    <2>4. Times(queue', e) + Cardinality(LostBy(e)')
            = Occurrences(e) + IF e \in set THEN 1 ELSE 0
      <3>1. CASE queue' \in Queued(set) /\ lost' = lost
        <4>1. Times(queue', e) = Occurrences(e) + IF e \in set THEN 1 ELSE 0
          BY <1>1, <3>1, QueuedOnce DEF IInv, TypeOK
        <4>2. Cardinality(LostBy(e)') = 0
          BY <1>1, <3>1, FS_EmptySet DEF LostBy
        <4>3. QED
          BY <2>3, <4>1, <4>2
      <3>2. CASE queue' \in QueuedInPart(set) /\ lost' = Dropped(Top, set, queue')
        <4>1. Times(queue', e) = Occurrences(e)
                + IF e \in set /\ <<Top, e>> \notin lost' THEN 1 ELSE 0
          BY <1>1, <3>2, QueuedOrDropped DEF IInv, TypeOK
        <4>2. <<Top, e>> \in lost' => e \in set
          BY <1>3
        <4>3. LostBy(e)' = IF <<Top, e>> \in lost' THEN {Top} ELSE {}
          BY <1>1, <1>3 DEF LostBy
        <4>4. Cardinality(LostBy(e)') = IF <<Top, e>> \in lost' THEN 1 ELSE 0
          BY <4>3, FS_EmptySet, FS_Singleton
        <4>5. QED
          BY <2>3, <4>1, <4>2, <4>4
      <3>3. QED
        BY <1>2, <3>1, <3>2
    <2>5. /\ Cardinality(LostBy(e)) = 0
          /\ Cardinality(LostBy(e)') \in Nat /\ Times(queue', e) \in Nat
      <3>1. TypeOK' => TiesOK'
        BY TiesFacts, PTL
      <3>2. QED
        BY <1>4, <2>1, <3>1, FS_EmptySet DEF TiesOK
    <2>6. Ties(e)' = Cardinality(Parents(e)) + Times(queue', e) + 0
                       + Cardinality(LostBy(e)')
      BY <2>1, <2>2 DEF Ties
    <2>7. QED
      BY <2>1, <2>2, <2>3, <2>4, <2>5, <2>6 DEF Ties
  <1>6. EachLinkDetachedOnce' /\ GoneForGood' /\ Counted'
    BY <1>1, <1>4, <1>5, TiesKept
  <1>7. Walking' /\ GarbageEmpty' /\ Tree'
    BY <1>1 DEF IInv, Walking, GarbageEmpty, Tree
  <1>8. Stages'
    BY <1>1, <1>3 DEF IInv, Stages
  <1>9. QED
    BY <1>4, <1>6, <1>7, <1>8 DEF IInv

\* The caller calls again, memory runs out where nothing has changed yet, or
\* the call returns.
LEMMA PhaseStep ==
  ASSUME IInv, RetryWith = "null", Retry \/ TagNoMem \/ Return
  PROVE  IInv'
  <1>1. /\ UNCHANGED <<treeVars, queue, set, lost, walker>>
        /\ pc \in {"nomem", "loop"} /\ pc' \in {"loop", "nomem", "done"}
        /\ pc' = "done" => queue = <<>>
        /\ faults' \in 0 .. MaxFaults
    BY DetachAssumption DEF Retry, TagNoMem, Return, Fault, IInv, TypeOK
  <1>2. TypeOK'
    BY <1>1 DEF IInv, TypeOK, treeVars
  <1>3. ASSUME NEW e \in Entries
        PROVE  Ties(e)' = Ties(e) /\ Parents(e)' \subseteq Parents(e)
    BY <1>1 DEF treeVars, Ties, Parents, LostBy, Occurrences, Pending
  <1>4. EachLinkDetachedOnce' /\ GoneForGood' /\ Counted'
    BY <1>1, <1>2, <1>3, TiesKept DEF treeVars
  <1>5. Walking' /\ GarbageEmpty' /\ Tree' /\ Stages'
    BY <1>1 DEF IInv, treeVars, Walking, GarbageEmpty, Tree, Stages
  <1>6. QED
    BY <1>2, <1>4, <1>5 DEF IInv

LEMMA ChildrenNoMemStep ==
  ASSUME IInv, ChildrenNoMem
  PROVE  IInv'
  <1> DEFINE x == Head(queue)
  <1>1. /\ pc = "loop" /\ pc' = "nomem" /\ queue # <<>> /\ x # walker
        /\ x \in Dirs /\ x \in Entries /\ child[x] # {} /\ child[x] \in SUBSET Entries
        /\ queue' \in QueuedInPart(child[x])
        /\ lost' = lost \cup Dropped(x, child[x], queue')
        /\ child' = [child EXCEPT ![x] = {}]
        /\ garbage' = [garbage EXCEPT ![x] = TRUE]
        /\ faults' = faults + 1 /\ faults < MaxFaults
        /\ UNCHANGED <<outside, links, opens, gone, fresh, set, walker>>
    BY DEF ChildrenNoMem, Fault, Entries, IInv, TypeOK
  <1> HIDE DEF x
  <1>2. queue' \in Seq(Entries) /\ Dropped(x, child[x], queue') \subseteq {x} \X child[x]
    BY <1>1, QueuedOrDropped DEF IInv, TypeOK, Dropped
  <1>3. TypeOK'
    <2>1. faults' \in 0 .. MaxFaults
      BY <1>1, DetachAssumption DEF IInv, TypeOK
    <2>2. lost' \subseteq Dirs \X Entries
      BY <1>1, <1>2 DEF IInv, TypeOK
    <2>3. QED
      BY <1>1, <1>2, <2>1, <2>2 DEF IInv, TypeOK
  <1>4. \A e \in Entries : <<x, e>> \notin lost
    BY <1>1 DEF IInv, GarbageEmpty, Stages
  <1>5. ASSUME NEW e \in Entries
        PROVE  Ties(e)' = Ties(e) /\ Parents(e)' \subseteq Parents(e)
    <2>1. /\ Parents(e)' \subseteq Parents(e)
          /\ Cardinality(Parents(e)') =
               Cardinality(Parents(e)) - IF e \in child[x] THEN 1 ELSE 0
      BY <1>1, EmptyDir DEF IInv
    <2>2. Pending(e) = 0 /\ Pending(e)' = 0
      BY <1>1 DEF Pending
    <2>3. Occurrences(e)' = Occurrences(e)
            + IF e \in child[x] /\ <<x, e>> \notin lost' THEN 1 ELSE 0
      <3>1. Times(queue', e) = Occurrences(e)
              + IF e \in child[x] /\ <<x, e>> \notin Dropped(x, child[x], queue') THEN 1 ELSE 0
        BY <1>1, QueuedOrDropped DEF IInv, TypeOK
      <3>2. <<x, e>> \in lost' <=> <<x, e>> \in Dropped(x, child[x], queue')
        BY <1>1, <1>4
      <3>3. Occurrences(e)' = Times(queue', e)
        BY DEF Occurrences, Times
      <3>4. QED
        BY <3>1, <3>2, <3>3
    <2>4. Cardinality(LostBy(e)') =
            Cardinality(LostBy(e)) + IF <<x, e>> \in lost' THEN 1 ELSE 0
      <3>1. IsFiniteSet(LostBy(e)) /\ Cardinality(LostBy(e)) \in Nat
        BY TiesFacts DEF IInv, TiesOK
      <3>2. x \notin LostBy(e)
        BY <1>4 DEF LostBy
      <3>3. \A d \in Dirs \ {x} : <<d, e>> \in lost' <=> <<d, e>> \in lost
        BY <1>1, <1>2
      <3>4. LostBy(e)' = IF <<x, e>> \in lost' THEN LostBy(e) \cup {x} ELSE LostBy(e)
        BY <1>1, <3>2, <3>3 DEF LostBy
      <3>5. Cardinality(LostBy(e) \cup {x}) = Cardinality(LostBy(e)) + 1
        BY <3>1, <3>2, FS_AddElement
      <3>6. QED
        BY <3>1, <3>4, <3>5
    <2>5. <<x, e>> \in lost' => e \in child[x]
      BY <1>1, <1>2, <1>4
    <2>6. /\ Cardinality(Parents(e)) \in Nat /\ Occurrences(e) \in Nat
          /\ Cardinality(LostBy(e)) \in Nat
      BY TiesFacts DEF IInv, TiesOK
    <2>7. Ties(e)' = Cardinality(Parents(e)') + Occurrences(e)' + Pending(e)'
                       + Cardinality(LostBy(e)')
      BY DEF Ties
    <2>8. QED
      BY <2>1, <2>2, <2>3, <2>4, <2>5, <2>6, <2>7 DEF Ties
  <1>6. EachLinkDetachedOnce' /\ GoneForGood' /\ Counted'
    BY <1>1, <1>3, <1>5, TiesKept
  <1>7. Walking' /\ GarbageEmpty'
    BY <1>1 DEF IInv, TypeOK, Walking, GarbageEmpty
  <1>8. Stages'
    BY <1>1, <1>2 DEF IInv, TypeOK, Stages, Entries
  <1>9. Tree'
    BY <1>1, TreeShrinks DEF IInv, TypeOK
  <1>10. QED
    BY <1>3, <1>6, <1>7, <1>8, <1>9 DEF IInv

\* The head's children follow in the queue, if it is a directory.
LEMMA ChildrenFollow ==
  ASSUME IInv, pc = "loop", queue # <<>>, NEW x, x = Head(queue), NEW q,
         IF x \in Dirs
         THEN /\ q \in Queued(child[x])
              /\ child' = [child EXCEPT ![x] = {}]
         ELSE q = queue /\ child' = child
  PROVE  /\ q \in Seq(Entries) /\ q # <<>> /\ Head(q) = x
         /\ \A e \in Entries :
              /\ Parents(e)' \subseteq Parents(e)
              /\ Cardinality(Parents(e)') \in Nat
              /\ Times(q, e) + Cardinality(Parents(e)')
                   = Occurrences(e) + Cardinality(Parents(e))
  <1>1. CASE x \in Dirs
    <2>1. child[x] \in SUBSET Entries /\ queue \in Seq(Entries)
      BY <1>1 DEF IInv, TypeOK
    <2>2. /\ q \in Seq(Entries) /\ q # <<>> /\ Head(q) = x
          /\ \A e : Times(q, e) = Occurrences(e) + IF e \in child[x] THEN 1 ELSE 0
      BY <1>1, <2>1, QueuedOnce
    <2>3. ASSUME NEW e \in Entries
          PROVE  /\ Parents(e)' \subseteq Parents(e)
                 /\ Cardinality(Parents(e)') \in Nat
                 /\ Times(q, e) + Cardinality(Parents(e)')
                      = Occurrences(e) + Cardinality(Parents(e))
      <3>1. /\ Parents(e)' \subseteq Parents(e)
            /\ Cardinality(Parents(e)') =
                 Cardinality(Parents(e)) - IF e \in child[x] THEN 1 ELSE 0
        BY <1>1, EmptyDir DEF IInv
      <3>2. /\ Cardinality(Parents(e)) \in Nat /\ Occurrences(e) \in Nat
            /\ IsFiniteSet(Parents(e))
        BY TiesFacts DEF IInv, TiesOK
      <3>3. Cardinality(Parents(e)') \in Nat
        BY <3>1, <3>2, FS_Subset, FS_CardinalityType
      <3>4. QED
        BY <2>2, <3>1, <3>2, <3>3
    <2>4. QED
      BY <2>2, <2>3
  <1>2. CASE x \notin Dirs
    <2>1. q = queue /\ child' = child /\ queue \in Seq(Entries)
      BY <1>2 DEF IInv, TypeOK
    <2>2. ASSUME NEW e \in Entries
          PROVE  /\ Parents(e)' = Parents(e) /\ Times(q, e) = Occurrences(e)
                 /\ Cardinality(Parents(e)) \in Nat
      BY <2>1, TiesFacts DEF IInv, TiesOK, Parents
    <2>3. QED
      BY <2>1, <2>2
  <1>3. QED
    BY <1>1, <1>2

\* The invariants that do not count, when the head is handled.
LEMMA HeadHandled ==
  ASSUME IInv, pc = "loop", queue # <<>>, NEW x \in Entries, x # walker,
         UNCHANGED <<outside, lost, walker>>,
         IF x \in Dirs
         THEN child' = [child EXCEPT ![x] = {}] /\ garbage' = [garbage EXCEPT ![x] = TRUE]
         ELSE UNCHANGED <<child, garbage>>,
         NEW l \in Nat, links' = [links EXCEPT ![x] = l],
         pc' \in {"loop", "efault"}
  PROVE  Walking' /\ GarbageEmpty' /\ Stages' /\ Tree'
  <1>1. CASE x \in Dirs
    <2>1. /\ child' = [child EXCEPT ![x] = {}] /\ garbage' = [garbage EXCEPT ![x] = TRUE]
      BY <1>1
    <2>2. Walking' /\ GarbageEmpty'
      BY <1>1, <2>1 DEF IInv, TypeOK, Walking, GarbageEmpty, Entries
    <2>3. Stages'
      BY <2>1 DEF IInv, TypeOK, Stages
    <2>4. Tree'
      BY <2>1, TreeShrinks DEF IInv, TypeOK
    <2>5. QED
      BY <2>2, <2>3, <2>4
  <1>2. CASE x \notin Dirs
    <2>1. UNCHANGED <<child, garbage>>
      BY <1>2
    <2>2. Walking' /\ GarbageEmpty'
      BY <1>2, <2>1 DEF IInv, TypeOK, Walking, GarbageEmpty, Entries
    <2>3. Stages' /\ Tree'
      BY <2>1 DEF IInv, Stages, Tree
    <2>4. QED
      BY <2>2, <2>3
  <1>3. QED
    BY <1>1, <1>2

LEMMA DetachHeadStep ==
  ASSUME IInv, DetachHead
  PROVE  IInv'
  <1>1. PICK x \in Entries : x = Head(queue)
    BY HeadLives DEF DetachHead, IInv
  <1>2. /\ pc = "loop" /\ pc' = pc /\ queue # <<>> /\ x # walker
        /\ Counts(x, links[x] - 1, opens[x])
        /\ UNCHANGED <<outside, fresh, set, lost, faults, walker>>
    BY <1>1 DEF DetachHead
  <1>3. PICK q : /\ queue' = Tail(q)
                 /\ IF x \in Dirs
                    THEN /\ q \in Queued(child[x])
                         /\ child' = [child EXCEPT ![x] = {}]
                         /\ garbage' = [garbage EXCEPT ![x] = TRUE]
                    ELSE q = queue /\ UNCHANGED <<child, garbage>>
    BY <1>1 DEF DetachHead
  <1>4. /\ x \in Entries \ (gone \cup fresh) /\ links[x] > 0
        /\ links[x] \in Nat /\ opens[x] \in Nat /\ opens[x] \in {0, 1}
    BY <1>1, <1>2, HeadLives DEF IInv, TypeOK
  <1>5. links[x] - 1 \in Nat
    BY <1>4
  <1>6. /\ q \in Seq(Entries) /\ q # <<>> /\ Head(q) = x
        /\ \A e \in Entries :
             /\ Parents(e)' \subseteq Parents(e)
             /\ Cardinality(Parents(e)') \in Nat
             /\ Times(q, e) + Cardinality(Parents(e)')
                  = Occurrences(e) + Cardinality(Parents(e))
    BY <1>2, <1>3, ChildrenFollow, <1>1
  <1>7. queue' \in Seq(Entries)
    BY <1>3, <1>6, TailTimes
  <1>8. TypeOK'
    <2>1. /\ links' \in [Entries -> Nat] /\ opens' \in [Entries -> {0, 1}]
          /\ gone' \subseteq Entries
      BY <1>2, <1>4, <1>5 DEF Counts, IInv, TypeOK
    <2>2. child' \in [Dirs -> SUBSET Entries] /\ garbage' \in [Entries -> BOOLEAN]
      BY <1>3 DEF IInv, TypeOK
    <2>3. QED
      BY <1>2, <1>7, <2>1, <2>2 DEF IInv, TypeOK
  <1>9. ASSUME NEW e \in Entries
        PROVE  Ties(e) = Ties(e)' + IF e = x THEN 1 ELSE 0
    <2>1. Occurrences(e)' = Times(Tail(q), e)
      BY <1>3 DEF Occurrences, Times
    <2>2. /\ Times(q, e) = Times(Tail(q), e) + IF e = x THEN 1 ELSE 0
          /\ Times(Tail(q), e) \in Nat
      BY <1>6, TailTimes, TimesFinite
    <2>3. Pending(e) = 0 /\ Pending(e)' = 0 /\ LostBy(e)' = LostBy(e)
      BY <1>2 DEF Pending, LostBy
    <2>4. /\ Cardinality(Parents(e)) \in Nat /\ Occurrences(e) \in Nat
          /\ Cardinality(LostBy(e)) \in Nat
      BY TiesFacts DEF IInv, TiesOK
    <2>5. /\ Cardinality(Parents(e)') \in Nat
          /\ Times(q, e) + Cardinality(Parents(e)')
               = Occurrences(e) + Cardinality(Parents(e))
      BY <1>6
    <2>6. Ties(e)' = Cardinality(Parents(e)') + Times(Tail(q), e) + 0
                       + Cardinality(LostBy(e))
      BY <2>1, <2>3 DEF Ties
    <2>7. QED
      BY <2>2, <2>3, <2>4, <2>5, <2>6 DEF Ties
  <1>10. links[x] - 1 = outside'[x] + Ties(x)'
    <2>1. links[x] = outside[x] + Ties(x)
      BY <1>4, Balance DEF IInv, Balanced
    <2>2. TypeOK' => TiesOK'
      BY TiesFacts, PTL
    <2>3. Ties(x) = Ties(x)' + 1
      BY <1>4, <1>9
    <2>4. Ties(x)' \in Nat
      BY <1>4, <1>8, <2>2 DEF TiesOK
    <2>5. outside[x] \in {0, 1} /\ outside'[x] = outside[x]
      BY <1>2, <1>4 DEF IInv, TypeOK
    <2>6. QED
      BY <2>1, <2>3, <2>4, <2>5
  <1>11. EachLinkDetachedOnce' /\ GoneForGood' /\ Counted'
    <2>1. \A e \in Entries \ {x} : outside'[e] = outside[e] /\ Ties(e)' = Ties(e)
      <3>1. TypeOK' => TiesOK'
        BY TiesFacts, PTL
      <3>2. QED
        BY <1>2, <1>8, <1>9, <3>1 DEF TiesOK
    <2>2. \A e \in Entries : Parents(e)' \subseteq Parents(e)
      BY <1>6
    <2>3. Counts(x, links[x] - 1, opens[x]) /\ fresh' = fresh /\ pc' = pc
      BY <1>2
    <2>4. QED
      BY <1>4, <1>5, <1>8, <1>10, <2>1, <2>2, <2>3, OneDropped
  <1>12. Walking' /\ GarbageEmpty' /\ Stages' /\ Tree'
    BY <1>2, <1>3, <1>4, <1>5, HeadHandled DEF Counts
  <1>13. QED
    BY <1>8, <1>11, <1>12 DEF IInv

LEMMA CallbackFailsStep ==
  ASSUME IInv, CallbackFails
  PROVE  IInv'
  <1>1. PICK x \in Entries : x = Head(queue)
    BY HeadLives DEF CallbackFails, IInv
  <1>2. /\ pc = "loop" /\ pc' = "efault" /\ queue # <<>> /\ x # walker
        /\ links[x] <= 1 /\ opens[x] = 0
        /\ Counts(x, links[x] - 1, opens[x])
        /\ faults' = faults + 1 /\ faults < MaxFaults
        /\ UNCHANGED <<outside, fresh, set, lost, walker>>
    BY <1>1 DEF CallbackFails, Fault
  <1>3. IF x \in Dirs
        THEN /\ queue' \in Queued(child[x])
             /\ child' = [child EXCEPT ![x] = {}]
             /\ garbage' = [garbage EXCEPT ![x] = TRUE]
        ELSE queue' = queue /\ UNCHANGED <<child, garbage>>
    BY <1>1 DEF CallbackFails
  <1>4. /\ x \in Entries \ (gone \cup fresh) /\ links[x] > 0 /\ Occurrences(x) > 0
        /\ links[x] \in Nat
    BY <1>1, <1>2, HeadLives DEF IInv, TypeOK
  <1>5. links[x] - 1 = 0 /\ Counts(x, 0, 0)
    BY <1>2, <1>4
  <1>6. /\ queue' \in Seq(Entries)
        /\ \A e \in Entries :
             /\ Parents(e)' \subseteq Parents(e)
             /\ Cardinality(Parents(e)') \in Nat
             /\ Times(queue', e) + Cardinality(Parents(e)')
                  = Occurrences(e) + Cardinality(Parents(e))
    BY <1>2, <1>3, ChildrenFollow, <1>1
  <1>7. TypeOK'
    <2>1. /\ links' \in [Entries -> Nat] /\ opens' \in [Entries -> {0, 1}]
          /\ gone' \subseteq Entries
      BY <1>4, <1>5 DEF Counts, IInv, TypeOK
    <2>2. child' \in [Dirs -> SUBSET Entries] /\ garbage' \in [Entries -> BOOLEAN]
      BY <1>3 DEF IInv, TypeOK
    <2>3. faults' \in 0 .. MaxFaults
      BY <1>2, DetachAssumption DEF IInv, TypeOK
    <2>4. QED
      BY <1>2, <1>6, <2>1, <2>2, <2>3 DEF IInv, TypeOK
  <1>8. ASSUME NEW e \in Entries
        PROVE  Ties(e)' = Ties(e)
    <2>1. Occurrences(e)' = Times(queue', e)
      BY DEF Occurrences, Times
    <2>2. Times(queue', e) \in Nat
      BY <1>6, TimesFinite
    <2>3. Pending(e) = 0 /\ Pending(e)' = 0 /\ LostBy(e)' = LostBy(e)
      BY <1>2 DEF Pending, LostBy
    <2>4. /\ Cardinality(Parents(e)) \in Nat /\ Occurrences(e) \in Nat
          /\ Cardinality(LostBy(e)) \in Nat
      BY TiesFacts DEF IInv, TiesOK
    <2>5. /\ Cardinality(Parents(e)') \in Nat
          /\ Times(queue', e) + Cardinality(Parents(e)')
               = Occurrences(e) + Cardinality(Parents(e))
      BY <1>6
    <2>6. Ties(e)' = Cardinality(Parents(e)') + Times(queue', e) + 0
                       + Cardinality(LostBy(e))
      BY <2>1, <2>3 DEF Ties
    <2>7. QED
      BY <2>2, <2>3, <2>4, <2>5, <2>6 DEF Ties
  <1>9. outside[x] = 0 /\ Parents(x)' = {}
    <2>1. links[x] = outside[x] + Ties(x)
      BY <1>4, Balance DEF IInv, Balanced
    <2>2. /\ Cardinality(Parents(x)) \in Nat /\ Occurrences(x) \in Nat
          /\ Pending(x) \in Nat /\ Cardinality(LostBy(x)) \in Nat
          /\ Cardinality(Parents(x)) = 0 <=> Parents(x) = {}
      BY <1>4, TiesFacts DEF IInv, TiesOK
    <2>3. outside[x] \in Nat /\ links[x] = 1
      BY <1>4, <1>5 DEF IInv, TypeOK
    <2>4. outside[x] = 0 /\ Cardinality(Parents(x)) = 0
      BY <1>4, <2>1, <2>2, <2>3 DEF Ties
    <2>5. Parents(x) = {}
      BY <2>2, <2>4
    <2>6. Parents(x)' \subseteq Parents(x)
      BY <1>4, <1>6
    <2>7. QED
      BY <2>4, <2>5, <2>6
  <1>10. EachLinkDetachedOnce' /\ GoneForGood' /\ Counted'
    <2>1. \A e \in Entries : Parents(e)' \subseteq Parents(e)
      BY <1>6
    <2>2. \A e \in Entries \ {x} : outside'[e] = outside[e] /\ Ties(e)' = Ties(e)
      BY <1>2, <1>8
    <2>3. /\ fresh' = fresh /\ pc # "efault" /\ pc' = "efault"
          /\ outside'[x] = 0 /\ Parents(x)' = {}
      BY <1>2, <1>9
    <2>4. QED
      BY <1>4, <1>5, <1>7, <2>1, <2>2, <2>3, OneDropped
  <1>11. Walking' /\ GarbageEmpty' /\ Stages' /\ Tree'
    <2>1. links' = [links EXCEPT ![x] = 0]
      BY <1>5 DEF Counts
    <2>2. IF x \in Dirs
          THEN child' = [child EXCEPT ![x] = {}] /\ garbage' = [garbage EXCEPT ![x] = TRUE]
          ELSE UNCHANGED <<child, garbage>>
      BY <1>3
    <2>3. /\ pc = "loop" /\ queue # <<>> /\ x # walker /\ 0 \in Nat
          /\ pc' \in {"loop", "efault"} /\ UNCHANGED <<outside, lost, walker>>
      BY <1>2
    <2>4. QED
      BY <2>1, <2>2, <2>3, HeadHandled
  <1>12. QED
    BY <1>7, <1>10, <1>11 DEF IInv

(***************************************************************************)
(* The rest of the program.                                                *)
(***************************************************************************)

LEMMA WalkStep ==
  ASSUME IInv, WalkDown \/ WalkLeave
  PROVE  IInv'
  <1>1. UNCHANGED <<treeVars, ctxVars>> /\ walker' \in Dirs \cup {None}
    BY DEF WalkDown, WalkLeave
  <1>2. TypeOK'
    BY <1>1 DEF IInv, TypeOK, treeVars, ctxVars
  <1>3. ASSUME NEW e \in Entries
        PROVE  Ties(e)' = Ties(e) /\ Parents(e)' \subseteq Parents(e)
    BY <1>1 DEF treeVars, ctxVars, Ties, Parents, LostBy, Occurrences, Pending
  <1>4. EachLinkDetachedOnce' /\ GoneForGood' /\ Counted'
    BY <1>1, <1>2, <1>3, TiesKept DEF treeVars, ctxVars
  <1>5. walker' # None => ~garbage[walker'] /\ links[walker'] > 0
    <2>1. CASE WalkLeave
      BY <2>1 DEF WalkLeave
    <2>2. CASE WalkDown
      <3>1. PICK d \in Dirs :
              /\ IF walker = None THEN d = Top ELSE d \in child[walker]
              /\ ~garbage[d] /\ d \notin gone
              /\ walker' = d
        BY <2>2 DEF WalkDown
      <3>2. CASE walker = None
        <4>1. d = Top /\ outside[Top] = 1 /\ Top \in Entries \ gone
          BY <3>1, <3>2 DEF IInv, Tree, Entries
        <4>2. links[Top] = 1 + Ties(Top) /\ Ties(Top) \in Nat
          BY <4>1, Balance, TiesFacts DEF IInv, Balanced, TiesOK
        <4>3. QED
          BY <3>1, <4>1, <4>2
      <3>3. CASE walker # None
        BY <3>1, <3>3, ChildLives DEF IInv, TypeOK
      <3>4. QED
        BY <3>2, <3>3
    <2>3. QED
      BY <2>1, <2>2
  <1>6. Walking'
    BY <1>1, <1>5 DEF IInv, Walking, treeVars
  <1>7. GarbageEmpty' /\ Stages' /\ Tree'
    BY <1>1 DEF IInv, treeVars, ctxVars, GarbageEmpty, Stages, Tree
  <1>8. QED
    BY <1>2, <1>4, <1>6, <1>7 DEF IInv

LEMMA WalkCreateStep ==
  ASSUME IInv, WalkCreate
  PROVE  IInv'
  <1>1. PICK f \in fresh, w \in Dirs :
          /\ walker = w /\ walker' = None
          /\ fresh' = fresh \ {f}
          /\ child' = [child EXCEPT ![w] = @ \cup {f}]
          /\ links' = [links EXCEPT ![f] = 1]
          /\ \E o \in {0, 1} : opens' = [opens EXCEPT ![f] = o]
    BY DEF WalkCreate, IInv, TypeOK
  <1>2. UNCHANGED <<outside, garbage, gone, queue, set, lost, faults, pc>>
    BY DEF WalkCreate, ctxVars
  <1>3. /\ f \in Files /\ f \in Entries /\ f \notin Dirs /\ f \notin gone
        /\ links[f] = 0 /\ w # None
    BY <1>1, DetachAssumption DEF IInv, TypeOK, Counted, GoneForGood, Entries
  <1>4. ~garbage[w] /\ links[w] > 0
    BY <1>1, <1>3 DEF IInv, Walking
  <1>5. TypeOK'
    <2>1. /\ child' \in [Dirs -> SUBSET Entries] /\ links' \in [Entries -> Nat]
          /\ opens' \in [Entries -> {0, 1}]
      BY <1>1, <1>3 DEF IInv, TypeOK
    <2>2. QED
      BY <1>1, <1>2, <2>1 DEF IInv, TypeOK
  <1>6. links[f] = outside[f] + Ties(f) /\ outside[f] = 0 /\ Ties(f) = 0
    <2>1. links[f] = outside[f] + Ties(f)
      BY <1>3, Balance DEF IInv, Balanced
    <2>2. outside[f] \in {0, 1} /\ Ties(f) \in Nat
      BY <1>3, TiesFacts DEF IInv, TypeOK, TiesOK
    <2>3. QED
      BY <1>3, <2>1, <2>2
  <1>7. ASSUME NEW e \in Entries
        PROVE  /\ Ties(e)' = Ties(e) + IF e = f THEN 1 ELSE 0
               /\ e # f => Parents(e)' = Parents(e)
    <2>1. /\ Occurrences(e)' = Occurrences(e) /\ Pending(e)' = Pending(e)
          /\ LostBy(e)' = LostBy(e)
      BY <1>2 DEF Occurrences, Pending, LostBy
    <2>2. CASE e # f
      <3>1. \A d \in Dirs : e \in child'[d] <=> e \in child[d]
        BY <1>1, <2>2 DEF IInv, TypeOK
      <3>2. Parents(e)' = Parents(e)
        BY <3>1 DEF Parents
      <3>3. Ties(e) \in Nat
        BY TiesFacts DEF IInv, TiesOK
      <3>4. QED
        BY <2>1, <2>2, <3>2, <3>3 DEF Ties
    <2>3. CASE e = f
      <3>1. /\ Parents(f) = {} /\ Occurrences(f) = 0 /\ Pending(f) = 0
            /\ Cardinality(LostBy(f)) \in Nat /\ Cardinality(Parents(f)) = 0
        BY <1>3, <1>6, TiesFacts DEF IInv, TiesOK
      <3>2. \A d \in Dirs : f \in child'[d] <=> d = w
        BY <1>1, <3>1 DEF IInv, TypeOK, Parents
      <3>3. Parents(f)' = {w}
        BY <1>1, <3>2 DEF Parents
      <3>4. Cardinality(Parents(f)') = 1
        BY <3>3, FS_Singleton
      <3>5. Cardinality(LostBy(f)) = 0
        BY <1>6, <3>1 DEF Ties
      <3>6. Ties(f)' = Cardinality(Parents(f)') + Occurrences(f)' + Pending(f)'
                         + Cardinality(LostBy(f)')
        BY DEF Ties
      <3>7. QED
        BY <1>6, <2>1, <2>3, <3>1, <3>4, <3>5, <3>6
    <2>4. QED
      BY <2>2, <2>3
  <1>8. EachLinkDetachedOnce'
    <2>1. \A e \in Entries \ gone : links[e] = outside[e] + Ties(e)
      BY Balance DEF IInv, Balanced
    <2>2. ASSUME NEW e \in Entries \ gone
          PROVE  links'[e] = outside'[e] + Ties(e)'
      <3>1. CASE e = f
        <4>1. Ties(f)' = 1 /\ links'[f] = 1 /\ outside'[f] = 0
          BY <1>1, <1>2, <1>3, <1>6, <1>7 DEF IInv, TypeOK
        <4>2. QED
          BY <3>1, <4>1
      <3>2. CASE e # f
        <4>1. links'[e] = links[e] /\ outside'[e] = outside[e]
          BY <1>1, <1>2, <3>2 DEF IInv, TypeOK
        <4>2. Ties(e)' = Ties(e)
          <5>1. Ties(e) \in Nat
            BY TiesFacts DEF IInv, TiesOK
          <5>2. QED
            BY <1>7, <3>2, <5>1
        <4>3. QED
          BY <2>1, <4>1, <4>2
      <3>3. QED
        BY <3>1, <3>2
    <2>3. Balanced'
      BY <1>2, <2>2 DEF Balanced
    <2>4. TypeOK' => (EachLinkDetachedOnce' <=> Balanced')
      BY Balance, PTL
    <2>5. QED
      BY <1>5, <2>3, <2>4
  <1>9. GoneForGood'
    <2> SUFFICES ASSUME NEW e \in gone
                 PROVE  /\ links'[e] = 0 /\ opens'[e] = 0 /\ outside'[e] = 0
                        /\ e \notin fresh' /\ Parents(e)' = {}
                        /\ pc' # "efault" => Ties(e)' = 0
      BY <1>2 DEF GoneForGood
    <2>1. e \in Entries /\ e # f
      BY <1>3 DEF IInv, TypeOK
    <2>2. /\ links[e] = 0 /\ opens[e] = 0 /\ outside[e] = 0
          /\ e \notin fresh /\ Parents(e) = {}
          /\ pc # "efault" => Ties(e) = 0
      BY DEF IInv, GoneForGood
    <2>3. links'[e] = links[e] /\ opens'[e] = opens[e]
      BY <1>1, <2>1 DEF IInv, TypeOK
    <2>4. Ties(e)' = Ties(e) + 0 /\ Parents(e)' = Parents(e)
      BY <1>7, <2>1
    <2>5. QED
      BY <1>1, <1>2, <2>2, <2>3, <2>4
  <1>10. Counted'
    BY <1>1, <1>2, <1>3 DEF IInv, TypeOK, Counted, Entries
  <1>11. Walking' /\ GarbageEmpty'
    BY <1>1, <1>2, <1>3, <1>4 DEF IInv, TypeOK, Walking, GarbageEmpty, Entries
  <1>12. Stages'
    BY <1>2 DEF IInv, Stages
  <1>13. Tree'
    BY <1>1, <1>2, <1>3, TreeShrinks DEF IInv, TypeOK
  <1>14. QED
    BY <1>5, <1>8, <1>9, <1>10, <1>11, <1>12, <1>13 DEF IInv

LEMMA WalkRemoveStep ==
  ASSUME IInv, WalkRemove
  PROVE  IInv'
  <1>1. PICK w \in Dirs, x \in Entries :
          /\ x \in child[w]
          /\ walker = w /\ walker' = None
          /\ x \in Dirs => child[x] = {}
          /\ child' = [child EXCEPT ![w] = @ \ {x}]
          /\ Counts(x, links[x] - 1, opens[x])
    BY DEF WalkRemove, IInv, TypeOK
  <1>2. UNCHANGED <<outside, garbage, fresh, queue, set, lost, faults, pc>>
    BY DEF WalkRemove, ctxVars
  <1>3. /\ x \in Entries \ (gone \cup fresh) /\ w \in Parents(x) /\ links[x] > 0
        /\ links[x] \in Nat /\ opens[x] \in {0, 1}
    BY <1>1, ChildLives DEF IInv, TypeOK
  <1>4. links[x] - 1 \in Nat /\ opens[x] \in Nat
    BY <1>3
  <1>5. TypeOK'
    <2>1. /\ links' \in [Entries -> Nat] /\ opens' \in [Entries -> {0, 1}]
          /\ gone' \subseteq Entries
      BY <1>1, <1>3, <1>4 DEF Counts, IInv, TypeOK
    <2>2. child' \in [Dirs -> SUBSET Entries]
      BY <1>1 DEF IInv, TypeOK
    <2>3. QED
      BY <1>1, <1>2, <2>1, <2>2 DEF IInv, TypeOK
  <1>6. ASSUME NEW e \in Entries
        PROVE  /\ Ties(e) = Ties(e)' + IF e = x THEN 1 ELSE 0
               /\ Parents(e)' \subseteq Parents(e)
    <2>1. /\ Occurrences(e)' = Occurrences(e) /\ Pending(e)' = Pending(e)
          /\ LostBy(e)' = LostBy(e)
      BY <1>2 DEF Occurrences, Pending, LostBy
    <2>2. CASE e # x
      <3>1. \A d \in Dirs : e \in child'[d] <=> e \in child[d]
        BY <1>1, <2>2 DEF IInv, TypeOK
      <3>2. Parents(e)' = Parents(e)
        BY <3>1 DEF Parents
      <3>3. Ties(e)' = Ties(e) /\ Ties(e) \in Nat
        BY <2>1, <3>2, TiesFacts DEF IInv, TiesOK, Ties
      <3>4. QED
        BY <2>2, <3>2, <3>3
    <2>3. CASE e = x
      <3>1. \A d \in Dirs : x \in child'[d] <=> x \in child[d] /\ d # w
        BY <1>1 DEF IInv, TypeOK
      <3>2. Parents(x)' = Parents(x) \ {w}
        BY <3>1 DEF Parents
      <3>3. /\ IsFiniteSet(Parents(x)) /\ Cardinality(Parents(x)) \in Nat
            /\ Occurrences(x) \in Nat /\ Pending(x) \in Nat /\ Cardinality(LostBy(x)) \in Nat
        BY <1>3, TiesFacts DEF IInv, TiesOK
      <3>4. Cardinality(Parents(x)') = Cardinality(Parents(x)) - 1
        BY <1>3, <3>2, <3>3, FS_RemoveElement
      <3>5. Ties(x)' = Cardinality(Parents(x)') + Occurrences(x) + Pending(x)
                         + Cardinality(LostBy(x))
        BY <2>1, <2>3 DEF Ties
      <3>6. Ties(x) = Ties(x)' + 1
        BY <3>3, <3>4, <3>5 DEF Ties
      <3>7. QED
        BY <2>3, <3>2, <3>6
    <2>4. QED
      BY <2>2, <2>3
  <1>7. \A e \in Entries : Ties(e)' \in Nat
    <2>1. TypeOK' => TiesOK'
      BY TiesFacts, PTL
    <2>2. QED
      BY <1>5, <2>1 DEF TiesOK
  <1>8. links[x] - 1 = outside'[x] + Ties(x)'
    <2>1. links[x] = outside[x] + Ties(x) /\ outside[x] \in {0, 1}
      BY <1>3, Balance DEF IInv, Balanced, TypeOK
    <2>2. Ties(x) = Ties(x)' + 1 /\ Ties(x)' \in Nat
      BY <1>3, <1>6, <1>7
    <2>3. QED
      BY <1>2, <2>1, <2>2
  <1>9. EachLinkDetachedOnce' /\ GoneForGood' /\ Counted'
    <2>1. \A e \in Entries \ {x} : outside'[e] = outside[e] /\ Ties(e)' = Ties(e)
      BY <1>2, <1>6, <1>7
    <2>2. \A e \in Entries : Parents(e)' \subseteq Parents(e)
      BY <1>6
    <2>3. Counts(x, links[x] - 1, opens[x]) /\ fresh' = fresh /\ pc' = pc
      BY <1>1, <1>2
    <2>4. QED
      BY <1>3, <1>4, <1>5, <1>8, <2>1, <2>2, <2>3, OneDropped
  <1>10. Walking'
    <2>1. ASSUME NEW d \in Dirs, links'[d] = 0
          PROVE  child'[d] = {}
      <3>1. CASE d = x
        <4>1. child[x] = {} /\ x \in Dirs /\ x # w
          BY <1>1, <2>1, <3>1
        <4>2. QED
          BY <1>1, <3>1, <4>1 DEF IInv, TypeOK
      <3>2. CASE d # x
        <4>1. links[d] = 0
          BY <1>1, <2>1, <3>2 DEF Counts, IInv, TypeOK, Entries
        <4>2. child[d] = {}
          BY <4>1 DEF IInv, Walking
        <4>3. QED
          BY <1>1, <4>2 DEF IInv, TypeOK
      <3>3. QED
        BY <3>1, <3>2
    <2>2. QED
      BY <1>1, <2>1 DEF Walking
  <1>11. GarbageEmpty' /\ Stages'
    BY <1>1, <1>2 DEF IInv, TypeOK, GarbageEmpty, Stages
  <1>12. Tree'
    BY <1>1, <1>2, TreeShrinks DEF IInv, TypeOK
  <1>13. QED
    BY <1>5, <1>9, <1>10, <1>11, <1>12 DEF IInv

LEMMA DropOutside ==
  ASSUME IInv, NEW x \in Entries, Close(x) \/ UnlinkOutside(x)
  PROVE  IInv'
  <1>1. /\ UNCHANGED <<child, garbage, fresh, queue, set, lost, faults, pc, walker>>
        /\ links[x] \in Nat /\ opens[x] \in {0, 1} /\ outside[x] \in {0, 1}
    BY DEF Close, UnlinkOutside, ctxVars, IInv, TypeOK
  <1>2. x \notin gone /\ x \notin fresh
    <2>1. CASE Close(x)
      BY <2>1 DEF Close, IInv, GoneForGood, Counted
    <2>2. CASE UnlinkOutside(x)
      <3>1. x \notin gone /\ outside[x] = 1
        BY <1>1, <2>2 DEF UnlinkOutside, IInv, GoneForGood
      <3>2. links[x] = outside[x] + Ties(x) /\ Ties(x) \in Nat
        BY <3>1, Balance, TiesFacts DEF IInv, Balanced, TiesOK
      <3>3. links[x] # 0
        BY <3>1, <3>2
      <3>4. QED
        BY <3>1, <3>3 DEF IInv, Counted
    <2>3. QED
      BY <2>1, <2>2
  <1>3. links[x] = outside[x] + Ties(x) /\ Ties(x) \in Nat
    BY <1>2, Balance, TiesFacts DEF IInv, Balanced, TiesOK
  <1>4. PICK l \in Nat, o \in {0, 1} :
          /\ Counts(x, l, o) /\ l = outside'[x] + Ties(x) /\ outside'[x] \in {0, 1}
          /\ outside' \in [Entries -> {0, 1}]
          /\ \A e \in Entries \ {x} : outside'[e] = outside[e]
          /\ x \in Dirs => l = links[x] /\ outside'[x] = outside[x]
    <2>1. CASE Close(x)
      <3>1. opens[x] = 1 /\ Counts(x, links[x], 0) /\ outside' = outside
        BY <1>1, <2>1 DEF Close
      <3>2. QED
        BY <1>1, <1>3, <3>1 DEF IInv, TypeOK
    <2>2. CASE UnlinkOutside(x)
      <3>1. /\ x \notin Dirs /\ outside[x] = 1 /\ outside' = [outside EXCEPT ![x] = 0]
            /\ Counts(x, links[x] - 1, opens[x])
        <4>1. outside[x] = 1 /\ x \notin Dirs
          BY <1>1, <2>2, DetachAssumption DEF UnlinkOutside
        <4>2. outside' = [outside EXCEPT ![x] = outside[x] - 1] /\ outside[x] - 1 = 0
          BY <2>2, <4>1 DEF UnlinkOutside
        <4>3. QED
          BY <2>2, <4>1, <4>2 DEF UnlinkOutside
      <3>2. links[x] - 1 = Ties(x) /\ links[x] - 1 \in Nat
        BY <1>3, <3>1
      <3>3. /\ outside'[x] = 0 /\ outside' \in [Entries -> {0, 1}]
            /\ \A e \in Entries \ {x} : outside'[e] = outside[e]
        BY <3>1 DEF IInv, TypeOK
      <3>4. links[x] - 1 = outside'[x] + Ties(x)
        BY <1>3, <3>2, <3>3
      <3>5. QED
        BY <1>1, <3>1, <3>2, <3>3, <3>4
    <2>3. QED
      BY <2>1, <2>2
  <1>5. TypeOK'
    <2>1. /\ links' \in [Entries -> Nat] /\ opens' \in [Entries -> {0, 1}]
          /\ gone' \subseteq Entries
      BY <1>4 DEF Counts, IInv, TypeOK
    <2>2. QED
      BY <1>1, <1>4, <2>1 DEF IInv, TypeOK
  <1>6. \A e \in Entries : Ties(e)' = Ties(e) /\ Parents(e)' = Parents(e)
    BY <1>1 DEF Ties, Parents, LostBy, Occurrences, Pending
  <1>7. EachLinkDetachedOnce' /\ GoneForGood' /\ Counted'
    <2>1. l = outside'[x] + Ties(x)' /\ o \in Nat
      BY <1>4, <1>6
    <2>2. \A e \in Entries \ {x} : outside'[e] = outside[e] /\ Ties(e)' = Ties(e)
      BY <1>4, <1>6
    <2>3. \A e \in Entries : Parents(e)' \subseteq Parents(e)
      BY <1>6
    <2>4. QED
      BY <1>1, <1>2, <1>4, <1>5, <2>1, <2>2, <2>3, OneDropped
  <1>8. \A d \in Dirs : links'[d] = links[d] /\ outside'[d] = outside[d]
    BY <1>4 DEF Counts, IInv, TypeOK, Entries
  <1>9. Walking'
    BY <1>1, <1>8 DEF IInv, TypeOK, Walking
  <1>10. GarbageEmpty' /\ Stages' /\ Tree'
    BY <1>1, <1>8 DEF IInv, GarbageEmpty, Stages, Tree
  <1>11. QED
    BY <1>5, <1>7, <1>9, <1>10 DEF IInv

(***************************************************************************)
(* The theorems.                                                           *)
(***************************************************************************)

LEMMA InitOK == Init => IInv
  <1> SUFFICES ASSUME Init PROVE IInv
    OBVIOUS
  <1>1. PICK up \in [Dirs \ {Top} -> Dirs], in \in [Files \ Spare -> SUBSET Dirs] :
          /\ \A B \in (SUBSET (Dirs \ {Top})) \ {{}} : \E d \in B : up[d] \notin B
          /\ child = [d \in Dirs |-> {c \in Dirs \ {Top} : up[c] = d}
                                     \cup {f \in Files \ Spare : d \in in[f]}]
    BY DEF Init
  <1>2. /\ outside \in [Entries -> {0, 1}]
        /\ \A d \in Dirs : outside[d] = IF d = Top THEN 1 ELSE 0
        /\ \A f \in Spare : outside[f] = 0 /\ opens[f] = 0
        /\ \A f \in Files \ Spare : links[f] > 0
        /\ opens \in [Entries -> {0, 1}]
        /\ garbage = [e \in Entries |-> FALSE]
        /\ gone = {} /\ fresh = Spare /\ queue = <<>> /\ set = {} /\ lost = {}
        /\ faults = 0 /\ pc = "start" /\ walker \in Dirs \cup {None}
    BY DEF Init
  <1>3. Top \in Dirs /\ Dirs \cap Files = {} /\ Spare \subseteq Files /\ None \notin Dirs
    BY DetachAssumption DEF Entries
  <1>4. child \in [Dirs -> SUBSET Entries]
    BY <1>1, <1>3 DEF Entries
  <1>5. ASSUME NEW e \in Entries
        PROVE  /\ IsFiniteSet(Parents(e)) /\ Cardinality(Parents(e)) \in Nat
               /\ links[e] = outside[e] + Cardinality(Parents(e))
               /\ links[e] \in Nat
    <2>1. Parents(e) \in SUBSET Dirs
      BY DEF Parents
    <2>2. IsFiniteSet(Parents(e)) /\ Cardinality(Parents(e)) \in Nat
      BY <2>1, Finite, FS_Subset, FS_CardinalityType
    <2>3. links[e] = outside[e] + Cardinality(Parents(e))
      BY DEF Init, Parents
    <2>4. outside[e] \in Nat
      BY <1>2
    <2>5. QED
      BY <2>2, <2>3, <2>4
  <1>6. TypeOK
    <2>1. links \in [Entries -> Nat]
      <3>1. links = [e \in Entries |-> outside[e] + Cardinality({d \in Dirs : e \in child[d]})]
        BY DEF Init
      <3>2. QED
        BY <1>5, <3>1
    <2>2. faults \in 0 .. MaxFaults
      BY <1>2, DetachAssumption
    <2>3. QED
      BY <1>2, <1>4, <2>1, <2>2 DEF TypeOK
  <1>7. ASSUME NEW e \in Entries
        PROVE  Ties(e) = Cardinality(Parents(e))
    <2>1. LostBy(e) = {} /\ Pending(e) = 0
      BY <1>2 DEF LostBy, Pending
    <2>2. Occurrences(e) = 0
      <3>1. Times(<<>>, e) = 0
        BY NoTimes
      <3>2. QED
        BY <1>2, <3>1 DEF Occurrences, Times
    <2>3. QED
      BY <1>5, <2>1, <2>2, FS_EmptySet DEF Ties
  <1>8. EachLinkDetachedOnce
    BY <1>5, <1>6, <1>7, Balance DEF Balanced
  <1>9. GoneForGood /\ GarbageEmpty /\ Stages
    BY <1>2, <1>3 DEF GoneForGood, GarbageEmpty, Stages, Entries
  <1>10. \A d \in Dirs : links[d] > 0
    <2> SUFFICES ASSUME NEW d \in Dirs PROVE links[d] > 0
      OBVIOUS
    <2>1. d \in Entries
      BY DEF Entries
    <2>2. CASE d = Top
      BY <1>2, <1>5, <2>1, <2>2
    <2>3. CASE d # Top
      <3>1. up[d] \in Dirs /\ d \in child[up[d]]
        BY <1>1, <2>3
      <3>2. Parents(d) # {}
        BY <3>1 DEF Parents
      <3>3. Cardinality(Parents(d)) # 0
        BY <1>5, <2>1, <3>2, FS_EmptySet
      <3>4. outside[d] \in Nat
        BY <1>2, <2>1
      <3>5. QED
        BY <1>5, <2>1, <3>3, <3>4
    <2>4. QED
      BY <2>2, <2>3
  <1>11. Counted
    <2>1. ASSUME NEW f \in Spare
          PROVE  links[f] = 0 /\ opens[f] = 0
      <3>1. f \in Entries /\ f \notin Dirs
        BY <1>3 DEF Entries
      <3>2. Parents(f) = {}
        BY <1>1, <3>1 DEF Parents
      <3>3. QED
        BY <1>2, <1>5, <3>1, <3>2, FS_EmptySet
    <2>2. QED
      BY <1>2, <1>10, <2>1 DEF Counted, Entries
  <1>12. Walking
    BY <1>2, <1>3, <1>10 DEF Walking, Entries
  <1>13. Tree
    <2>1. ASSUME NEW B \in (SUBSET Dirs) \ {{}}
          PROVE  \E d \in B : \A p \in B : d \notin child[p]
      <3>1. CASE Top \in B
        <4>1. \A p \in B : Top \notin child[p]
          BY <1>1, <1>3
        <4>2. QED
          BY <3>1, <4>1
      <3>2. CASE Top \notin B
        <4>1. PICK d \in B : up[d] \notin B
          BY <1>1, <3>2
        <4>2. \A p \in B : d \in child[p] => up[d] = p
          BY <1>1, <1>3
        <4>3. QED
          BY <4>1, <4>2
      <3>3. QED
        BY <3>1, <3>2
    <2>2. QED
      BY <1>2, <2>1 DEF Tree
  <1>14. QED
    BY <1>6, <1>8, <1>9, <1>11, <1>12, <1>13 DEF IInv

LEMMA NextOK ==
  ASSUME IInv, RetryWith = "null", [Next]_vars
  PROVE  IInv'
  <1>1. CASE Detacher
    BY <1>1, TagStep, QueueSetStep, PhaseStep, ChildrenNoMemStep, DetachHeadStep,
       CallbackFailsStep DEF Detacher
  <1>2. CASE Others
    BY <1>2, WalkStep, WalkCreateStep, WalkRemoveStep, DropOutside DEF Others
  <1>3. CASE UNCHANGED vars
    <2>1. UNCHANGED <<child, outside, links, opens, garbage, gone, fresh, queue, set,
                      lost, faults, pc, walker>>
      BY <1>3 DEF vars, treeVars, ctxVars
    <2>2. TypeOK'
      BY <2>1 DEF IInv, TypeOK
    <2>3. \A e \in Entries : Ties(e)' = Ties(e) /\ Parents(e)' = Parents(e)
      BY <2>1 DEF Ties, Parents, LostBy, Occurrences, Pending
    <2>4. EachLinkDetachedOnce' /\ GoneForGood' /\ Counted'
      BY <2>1, <2>2, <2>3, TiesKept
    <2>5. Walking' /\ GarbageEmpty' /\ Stages' /\ Tree'
      BY <2>1 DEF IInv, Walking, GarbageEmpty, Stages, Tree
    <2>6. QED
      BY <2>2, <2>4, <2>5 DEF IInv
  <1>4. QED
    BY <1>1, <1>2, <1>3 DEF Next

\* IInv holds of every tree, every order of its traversal, any thread below it
\* and any failures, when the caller calls again as documented.
THEOREM Invariance == RetryWith = "null" => (FairSpec => []IInv)
  <1> SUFFICES ASSUME RetryWith = "null"
               PROVE  FairSpec => []IInv
    OBVIOUS
  <1>1. IInv /\ [Next]_vars => IInv'
    BY NextOK
  <1>2. QED
    BY <1>1, InitOK, PTL DEF FairSpec

\* The counts, the queue and the sets stay what they are declared to be.
THEOREM TypeCorrect == RetryWith = "null" => (FairSpec => []TypeOK)
  <1>1. IInv => TypeOK
    BY DEF IInv
  <1>2. QED
    BY <1>1, Invariance, PTL

\* Each place in the queue drops exactly one link (entry.c:664): link_count is
\* the names left and the detaches still to be done.
THEOREM DetachedOnce == RetryWith = "null" => (FairSpec => []EachLinkDetachedOnce)
  <1>1. IInv => EachLinkDetachedOnce
    BY DEF IInv
  <1>2. QED
    BY <1>1, Invariance, PTL

\* Nothing in the queue or in the sets has been freed, by whomever.
THEOREM QueueIsAlive == RetryWith = "null" => (FairSpec => []QueueAlive)
  <1>1. IInv => QueueAlive
    <2> SUFFICES ASSUME IInv PROVE QueueAlive
      OBVIOUS
    <2>1. \A e \in gone :
            /\ e \in Entries /\ Parents(e) = {}
            /\ pc # "efault" => Times(queue, e) = 0 /\ Pending(e) = 0
      BY TiesFacts DEF IInv, TypeOK, GoneForGood, TiesOK
    <2>2. pc # "efault" => \A k \in DOMAIN queue : queue[k] \notin gone
      BY <2>1, TimesFinite DEF IInv, TypeOK
    <2>3. pc = "queue" => set \cap gone = {}
      BY <2>1 DEF IInv, Stages, Pending
    <2>4. \A d \in Dirs : child[d] \cap gone = {}
      BY <2>1 DEF Parents
    <2>5. QED
      BY <2>2, <2>3, <2>4 DEF QueueAlive
  <1>2. QED
    BY <1>1, Invariance, PTL

\* Nobody puts an entry into a directory whose children have been taken away.
THEOREM GarbageIsEmpty == RetryWith = "null" => (FairSpec => []GarbageEmpty)
  <1>1. IInv => GarbageEmpty
    BY DEF IInv
  <1>2. QED
    BY <1>1, Invariance, PTL

\* A call that returns has emptied the tree: what is left is open, or has a name
\* outside, unless memory ran out while children were queued.
THEOREM NothingIsLeft == RetryWith = "null" => (FairSpec => []NothingLeft)
  <1>1. IInv => NothingLeft
    <2> SUFFICES ASSUME IInv, pc = "done", lost = {},
                        NEW e \in Entries \ (gone \cup fresh \cup {Top}),
                        opens[e] = 0
                 PROVE  outside[e] > 0
      BY DEF NothingLeft, IInv, TypeOK
    <2> DEFINE B == {d \in Dirs : child[d] # {}}
    <2>1. queue = <<>> /\ garbage[Top] /\ child[Top] = {}
      BY DetachAssumption DEF IInv, Stages, GarbageEmpty
    <2>2. ASSUME NEW f \in Entries
          PROVE  Occurrences(f) = 0 /\ Pending(f) = 0 /\ Cardinality(LostBy(f)) = 0
      <3>1. Times(<<>>, f) = 0
        BY NoTimes
      <3>2. LostBy(f) = {}
        BY DEF LostBy
      <3>3. QED
        BY <2>1, <3>1, <3>2, FS_EmptySet DEF Occurrences, Times, Pending
    <2>3. ASSUME NEW f \in Entries, f \notin gone
          PROVE  links[f] = outside[f] + Cardinality(Parents(f))
      <3>1. links[f] = outside[f] + Ties(f)
        BY <2>3, Balance DEF IInv, Balanced
      <3>2. Cardinality(Parents(f)) \in Nat
        BY TiesFacts DEF IInv, TiesOK
      <3>3. QED
        BY <2>2, <3>1, <3>2 DEF Ties
    <2>4. ASSUME NEW d \in B
          PROVE  \E p \in B : d \in child[p]
      <3>1. d \in Entries /\ d # Top /\ links[d] # 0
        BY <2>1 DEF IInv, Walking, Entries
      <3>2. d \notin gone
        BY <3>1 DEF IInv, GoneForGood
      <3>3. outside[d] = 0
        BY <3>1 DEF IInv, Tree
      <3>4. Cardinality(Parents(d)) # 0
        BY <2>3, <3>1, <3>2, <3>3
      <3>5. Parents(d) # {}
        BY <3>4, FS_EmptySet
      <3>6. QED
        BY <3>5 DEF Parents
    <2>5. B = {}
      BY <2>4 DEF IInv, Tree
    <2>6. Parents(e) = {}
      BY <2>5 DEF Parents
    <2>7. links[e] = outside[e] /\ outside[e] \in {0, 1}
      <3>1. Cardinality(Parents(e)) = 0
        BY <2>6, FS_EmptySet
      <3>2. outside[e] \in {0, 1}
        BY DEF IInv, TypeOK
      <3>3. links[e] = outside[e] + Cardinality(Parents(e))
        BY <2>3
      <3>4. QED
        BY <3>1, <3>2, <3>3
    <2>8. links[e] > 0
      BY DEF IInv, Counted
    <2>9. QED
      BY <2>7, <2>8
  <1>2. QED
    BY <1>1, Invariance, PTL

===============================================================================
