---------------------------- MODULE FileData_proofs ----------------------------
(***************************************************************************)
(* Proofs about FileData, for any number of threads and any sizes: if the  *)
(* routes' disciplines lock the inode, as the continuation of a write      *)
(* expects, the size of the file always lies between its data and what was *)
(* asked for.                                                              *)
(***************************************************************************)
EXTENDS FileData, TLAPS

(***************************************************************************)
(* Arithmetic.                                                             *)
(***************************************************************************)

LEMMA MaxOfTwo ==
  ASSUME NEW a \in Int, NEW b \in Int
  PROVE  Max({a, b}) = IF a >= b THEN a ELSE b
  BY DEF Max

\* The narrow comparison of fskit_write never makes a file grow that should
\* not: a remainder is at most what is divided.
LEMMA GrowsSound ==
  ASSUME NEW e \in Nat, Grows(e), size \in Int
  PROVE  e > size
  <1>1. e % Wrap <= e /\ e % Wrap \in Int
    BY FileAssumption
  <1>2. QED
    BY <1>1 DEF Grows
(***************************************************************************)
(* The inductive invariant.                                                *)
(***************************************************************************)

\* Thread t has locked the inode, if the disciplines do that.
Busy(t) == Inside(t) \/ Updating(t)

\* Only routes that exist run callbacks and continuations.
RouteExists == \A t \in Threads : Inside(t) => discipline[call[t].kind] # "none"

\* One thread at a time.
Exclusion == \A t, u \in Threads : t # u => ~(Busy(t) /\ Busy(u))

\* s covers the data and is not more than was asked for.
Fits(s) == extent <= s /\ (s <= extent \/ s <= claimed)

\* Thread t has changed the data, or is about to change the size.
Unsettled(t) == call[t].pc \in {"cont", "grow", "load", "store", "set"}

Settled == (\A t \in Threads : ~Unsettled(t)) => Fits(size)

\* What the size will be when the step that t is at, and those that follow it
\* under the same lock, are done.
Pending(t) ==
  LET c == call[t] IN
  CASE c.pc = "callback" -> c.delta = 0
    [] c.pc = "cont"     -> /\ c.delta = 0 /\ c.got <= extent
                            /\ extent <= size \/ extent <= c.got
                            /\ size <= extent \/ size <= claimed
    [] c.pc = "grow"     -> c.got = extent
    [] c.pc = "load"     -> Fits(size + c.delta)
    [] c.pc = "store"    -> Fits(c.base + c.delta)
    [] c.pc = "set"      -> c.end = extent
    [] c.pc = "put"      -> /\ extent <= c.base
                            /\ c.base <= extent \/ c.base <= claimed \/ c.base <= c.end
    [] OTHER             -> TRUE

SizeInv == Exclusion /\ Settled /\ \A t \in Threads : Pending(t)

IInv == TypeOK /\ RouteExists /\ (Serialized => SizeInv)

LEMMA InitOK == Init => IInv
  <1> SUFFICES ASSUME Init PROVE IInv
    OBVIOUS
  <1>1. TypeOK
    BY FileAssumption DEF Init, TypeOK, Idle, Calls, Steps
  <1>2. RouteExists /\ Exclusion
    BY DEF Init, RouteExists, Exclusion, Busy, Inside, Updating, Idle
  <1>3. Settled /\ \A t \in Threads : Pending(t)
    BY DEF Init, Settled, Fits, Pending, Idle
  <1>4. QED
    BY <1>1, <1>2, <1>3 DEF IInv, SizeInv

Step(t) ==
  \/ Start(t) \/ WriteCallback(t) \/ TruncCallback(t) \/ CallbackFails(t)
  \/ Continue(t) \/ ContinueStore(t) \/ ContinueTrunc(t)
  \/ Update(t) \/ Choose(t) \/ Put(t)

\* What every step leaves alone, and the types.
LEMMA TypeStep ==
  ASSUME TypeOK, RouteExists, NEW t \in Threads, Step(t)
  PROVE  /\ TypeOK' /\ RouteExists'
         /\ discipline' = discipline
         /\ \A u \in Threads \ {t} : call'[u] = call[u]
  <1> DEFINE All == Calls("write") \cup Calls("trunc")
             c == call[t]
  <1>1. /\ c \in All /\ Idle \in All
        /\ size \in Int /\ 0 .. MaxEnd \subseteq Int /\ 0 \in 0 .. MaxEnd
    BY FileAssumption DEF TypeOK, Calls, Steps, Idle
  <1>2. PICK x : call' = [call EXCEPT ![t] = x]
    BY DEF Step, Start, WriteCallback, TruncCallback, CallbackFails, Continue,
       ContinueStore, ContinueTrunc, Update, Choose, Put, Go, Goto
  <1>3. call'[t] = x /\ discipline' = discipline
    BY <1>2 DEF TypeOK, Step, Start, WriteCallback, TruncCallback, CallbackFails,
       Continue, ContinueStore, ContinueTrunc, Update, Choose, Put, Go, Goto
  <1>4. /\ x \in All /\ size' \in Int
        /\ extent' \in 0 .. MaxEnd /\ claimed' \in 0 .. MaxEnd
        /\ x.pc \in {"callback", "cont", "grow", "load", "store", "set"}
             => discipline[x.kind] # "none"
    <2>1. CASE Start(t)
      <3>1. PICK k \in Kinds, e \in 0 .. MaxEnd :
               \/ /\ discipline[k] # "none"
                  /\ Go(t, [Idle EXCEPT !.pc = "callback", !.kind = k, !.end = e])
               \/ Go(t, [Idle EXCEPT !.pc = "update", !.end = e])
        BY <2>1 DEF Start
      <3>2. \/ /\ discipline[k] # "none"
               /\ x = [Idle EXCEPT !.pc = "callback", !.kind = k, !.end = e]
            \/ x = [Idle EXCEPT !.pc = "update", !.end = e]
        BY <1>3, <3>1 DEF Go, TypeOK
      <3>6. \E pc \in {"callback", "update"}, j \in Kinds :
              /\ x = [pc |-> pc, kind |-> j, end |-> e, got |-> 0, delta |-> 0, base |-> 0]
              /\ pc = "update" => j = "write"
        BY <3>2 DEF Idle, Kinds
      <3>3. x \in Calls("trunc") \/ x \in Calls("write")
        BY <3>6, <1>1 DEF Calls, Steps, Kinds
      <3>5. x \in All
        BY <3>3
      <3>4. QED
        BY <2>1, <3>2, <3>5 DEF Start, Idle, TypeOK
    <2>2. CASE WriteCallback(t)
      <3>1. PICK g \in 0 .. c.end :
              /\ extent' = Max({extent, g})
              /\ Go(t, [c EXCEPT !.pc = "cont", !.got = g])
        BY <2>2 DEF WriteCallback
      <3>2. /\ x = [c EXCEPT !.pc = "cont", !.got = g]
            /\ c.kind = "write" /\ c.pc = "callback" /\ g \in 0 .. MaxEnd
        BY <1>1, <1>3, <2>2, <3>1, FileAssumption DEF WriteCallback, At, Go, TypeOK, Calls
      <3>3. x \in All
        BY <3>2, <1>1 DEF Calls, Steps
      <3>4. extent' \in 0 .. MaxEnd
        BY <3>1, <3>2, MaxOfTwo, FileAssumption DEF TypeOK
      <3>5. QED
        BY <1>1, <2>2, <3>2, <3>3, <3>4 DEF TypeOK, RouteExists, Inside, WriteCallback
    <2>3. CASE TruncCallback(t)
      BY <1>1, <1>3, <2>3 DEF TypeOK, RouteExists, Inside, TruncCallback, At, Go, Goto, Calls, Steps
    <2>4. CASE CallbackFails(t)
      BY <1>1, <1>3, <2>4 DEF TypeOK, CallbackFails, At, Go, Idle
    <2>5. CASE Continue(t)
      <3>1. /\ c.pc \in {"cont", "grow", "load"} /\ c.kind = "write"
            /\ UNCHANGED <<size, extent, claimed>>
        BY <1>1, <2>5 DEF Continue, At, Calls, Steps
      <3>2. \/ x = [c EXCEPT !.pc = "grow"]
            \/ x = [c EXCEPT !.pc = "load"]
            \/ x = [c EXCEPT !.pc = "load", !.delta = c.got - size]
            \/ x = [c EXCEPT !.pc = "store", !.base = size]
        BY <1>3, <2>5 DEF Continue, Go, Goto, TypeOK
      <3>3. c.got - size \in Int
        BY <1>1 DEF Calls
      <3>6. c \in Calls("write")
        BY <3>1, <1>1 DEF Calls
      <3>4. x \in Calls("write")
        BY <3>2, <3>3, <3>6, <1>1 DEF Calls, Steps
      <3>5. QED
        BY <1>1, <3>1, <3>2, <3>4 DEF TypeOK, RouteExists, Inside, Calls
    <2>6. CASE ContinueStore(t)
      <3>1. x = [Idle EXCEPT !.pc = "update", !.end = c.end] /\ size' = c.base + c.delta
        BY <1>3, <2>6 DEF ContinueStore, Go, TypeOK
      <3>2. c.end \in 0 .. MaxEnd /\ c.base \in Int /\ c.delta \in Int
        BY <1>1 DEF Calls
      <3>3. x \in All
        BY <1>1, <3>1, <3>2 DEF Calls, Steps, Idle
      <3>4. size' \in Int
        BY <3>1, <3>2
      <3>5. QED
        BY <2>6, <3>1, <3>3, <3>4 DEF ContinueStore, Idle, TypeOK
    <2>7. CASE ContinueTrunc(t)
      BY <1>1, <1>3, <2>7 DEF TypeOK, ContinueTrunc, At, Go, Calls, Idle
    <2>8. CASE Update(t)
      BY <1>1, <1>3, <2>8 DEF TypeOK, Update, At, Go, Goto, Calls, Steps
    <2>9. CASE Choose(t)
      <3>1. /\ c.pc \in {"decide", "keep"} /\ c.kind = "write"
            /\ UNCHANGED <<size, extent, claimed>>
        BY <1>1, <2>9 DEF Choose, At, Calls, Steps
      <3>2. \/ x = [c EXCEPT !.pc = "keep"]
            \/ x = [c EXCEPT !.pc = "put", !.base = c.end]
            \/ x = [c EXCEPT !.pc = "put", !.base = size]
        BY <1>3, <2>9 DEF Choose, Go, Goto, TypeOK
      <3>5. c \in Calls("write")
        BY <3>1, <1>1 DEF Calls
      <3>3. x \in Calls("write")
        BY <3>2, <3>5, <1>1 DEF Calls, Steps
      <3>4. QED
        BY <1>1, <3>1, <3>2, <3>3 DEF TypeOK, Calls
    <2>10. CASE Put(t)
      BY <1>1, <1>3, <2>10, MaxOfTwo DEF TypeOK, Put, At, Go, Calls, Idle
    <2>11. QED
      BY <2>1, <2>2, <2>3, <2>4, <2>5, <2>6, <2>7, <2>8, <2>9, <2>10 DEF Step
  <1>5. \A u \in Threads \ {t} : call'[u] = call[u]
    BY <1>2 DEF TypeOK
  <1>6. TypeOK'
    BY <1>2, <1>3, <1>4 DEF TypeOK
  <1>7. RouteExists'
    BY <1>3, <1>4, <1>5 DEF RouteExists, Inside
  <1>8. QED
    BY <1>3, <1>5, <1>6, <1>7
\* The discipline excludes the threads that do not have the inode.
LEMMA AloneInside ==
  ASSUME TypeOK, RouteExists, Serialized, NEW t \in Threads,
         \/ EntryFree
         \/ \E k \in Kinds : discipline[k] # "none" /\ Granted(t, k)
  PROVE  \A u \in Threads \ {t} : ~Busy(u)
  <1> SUFFICES ASSUME NEW u \in Threads \ {t}, Busy(u) PROVE FALSE
    OBVIOUS
  <1>1. call[u].kind \in Kinds
    BY DEF TypeOK, Calls, Kinds
  <1>2. ~Updating(u) /\ Locks(u) \notin {"inode_sequential", "inode_concurrent"}
    <2>1. CASE EntryFree
      BY <2>1 DEF EntryFree
    <2>2. CASE \E k \in Kinds : discipline[k] # "none" /\ Granted(t, k)
      <3>1. PICK k \in Kinds : discipline[k] # "none" /\ Granted(t, k)
        BY <2>2
      <3>2. discipline[k] = "inode_sequential"
        BY <3>1 DEF Serialized
      <3>3. QED
        BY <3>1, <3>2 DEF Granted
    <2>3. QED
      BY <2>1, <2>2
  <1>3. Inside(u)
    BY <1>2 DEF Busy
  <1>4. Locks(u) = "inode_sequential"
    BY <1>1, <1>3 DEF Locks, RouteExists, Serialized
  <1>5. QED
    BY <1>2, <1>4

\* A thread that starts a write for which there is no route changes nothing
\* that the others rely on.
LEMMA UnlockedStart ==
  ASSUME TypeOK, TypeOK', SizeInv, NEW t \in Threads, At(t, "idle"),
         call'[t].pc = "update", UNCHANGED <<size, extent, claimed>>,
         \A u \in Threads \ {t} : call'[u] = call[u]
  PROVE  SizeInv'
  <1>1. /\ ~Busy(t)' /\ ~Unsettled(t) /\ ~Unsettled(t)' /\ Pending(t)'
    BY DEF At, Busy, Inside, Updating, Unsettled, Pending
  <1>2. \A u \in Threads \ {t} :
          /\ Busy(u)' <=> Busy(u)
          /\ Unsettled(u)' <=> Unsettled(u)
          /\ Pending(u)' <=> Pending(u)
    BY DEF Busy, Inside, Updating, Unsettled, Pending, Fits
  <1>3. Exclusion'
    BY <1>1, <1>2 DEF SizeInv, Exclusion
  <1>4. Settled'
    BY <1>1, <1>2 DEF SizeInv, Settled, Fits
  <1>5. QED
    BY <1>1, <1>2, <1>3, <1>4 DEF SizeInv

LEMMA SizeStep ==
  ASSUME TypeOK, RouteExists, SizeInv, Serialized, NEW t \in Threads, Step(t)
  PROVE  SizeInv'
  <1> DEFINE c == call[t]
             x == call'[t]
  <1>1. /\ TypeOK' /\ discipline' = discipline
        /\ \A u \in Threads \ {t} : call'[u] = call[u]
    BY TypeStep
  <1>2. /\ c.end \in Int /\ c.got \in Int /\ c.delta \in Int /\ c.base \in Int
        /\ c.end \in Nat /\ c.end \in 0 .. MaxEnd
        /\ size \in Int /\ extent \in Int /\ claimed \in Int
    BY FileAssumption DEF TypeOK, Calls
  <1>3. DOMAIN call = Threads
    BY DEF TypeOK
  \* It is enough that t is alone and leaves things in order itself.
  <1>4. ASSUME \A u \in Threads \ {t} : ~Busy(u),
               Unsettled(t) \/ Fits(size)
                 => Pending(t)' /\ (Unsettled(t)' \/ Fits(size)')
        PROVE  SizeInv'
    <2>1. \A u \in Threads \ {t} : ~Busy(u)' /\ ~Unsettled(u) /\ ~Unsettled(u)'
      BY <1>1, <1>4 DEF Busy, Inside, Updating, Unsettled
    <2>2. \A u \in Threads \ {t} : Pending(u)'
      BY <2>1 DEF Busy, Inside, Updating, Pending
    <2>3. Unsettled(t) \/ Fits(size)
      BY <2>1 DEF SizeInv, Settled
    <2>4. Pending(t)' /\ (Unsettled(t)' \/ Fits(size)')
      BY <2>3, <1>4
    <2>5. Exclusion'
      BY <2>1 DEF Exclusion
    <2>6. Settled'
      BY <2>4 DEF Settled
    <2>7. QED
      BY <2>2, <2>4, <2>5, <2>6 DEF SizeInv
  <1>5. ASSUME Busy(t) PROVE \A u \in Threads \ {t} : ~Busy(u)
    BY <1>5 DEF SizeInv, Exclusion
  <1>6. Pending(t)
    BY DEF SizeInv
  <1>7. CASE Start(t)
    <2>1. PICK k \in Kinds, e \in 0 .. MaxEnd :
             \/ /\ discipline[k] # "none" /\ Granted(t, k)
                /\ Go(t, [Idle EXCEPT !.pc = "callback", !.kind = k, !.end = e])
             \/ Go(t, [Idle EXCEPT !.pc = "update", !.end = e])
      BY <1>7 DEF Start
    <2>2. CASE /\ discipline[k] # "none" /\ Granted(t, k)
               /\ Go(t, [Idle EXCEPT !.pc = "callback", !.kind = k, !.end = e])
      <3>1. \A u \in Threads \ {t} : ~Busy(u)
        BY <2>2, AloneInside
      <3>2. x.pc = "callback" /\ x.delta = 0 /\ c.pc = "idle"
        BY <1>3, <1>7, <2>2 DEF Start, At, Go, Idle
      <3>3. ~Unsettled(t) /\ Pending(t)'
        BY <3>2 DEF Unsettled, Pending
      <3>4. Fits(size) => Fits(size)'
        BY <1>7 DEF Start, Fits
      <3>5. QED
        BY <1>4, <3>1, <3>3, <3>4
    <2>3. CASE Go(t, [Idle EXCEPT !.pc = "update", !.end = e])
      <3>1. x.pc = "update"
        BY <1>3, <2>3 DEF Go, Idle
      <3>2. QED
        BY <1>1, <1>7, <3>1, UnlockedStart DEF Start
    <2>4. QED
      BY <2>1, <2>2, <2>3
  <1>8. CASE WriteCallback(t)
    <2>1. PICK g \in 0 .. c.end :
            /\ extent' = Max({extent, g})
            /\ Go(t, [c EXCEPT !.pc = "cont", !.got = g])
      BY <1>8 DEF WriteCallback
    <2>2. /\ x = [c EXCEPT !.pc = "cont", !.got = g] /\ g \in Int
          /\ extent' = IF extent >= g THEN extent ELSE g
      BY <1>2, <1>3, <2>1, MaxOfTwo DEF Go
    <2>3. c \in Calls("write") \cup Calls("trunc")
      BY DEF TypeOK
    <2>4. x.pc = "cont" /\ x.got = g /\ x.delta = c.delta /\ c.pc = "callback"
      BY <1>8, <2>2, <2>3 DEF WriteCallback, At, Calls
    <2>5. Busy(t) /\ ~Unsettled(t) /\ Unsettled(t)' /\ c.delta = 0
      BY <1>6, <2>4 DEF Busy, Inside, Unsettled, Pending
    <2>6. Fits(size) => Pending(t)'
      BY <1>2, <1>8, <2>2, <2>4, <2>5 DEF WriteCallback, Fits, Pending
    <2>7. QED
      BY <1>4, <1>5, <2>5, <2>6
  <1>9. CASE TruncCallback(t)
    <2>1. c \in Calls("write") \cup Calls("trunc")
      BY DEF TypeOK
    <2>2. x.pc = "set" /\ x.end = c.end /\ c.pc = "callback" /\ extent' = c.end
      BY <1>3, <1>9, <2>1 DEF TruncCallback, At, Go, Goto, Calls
    <2>3. Busy(t) /\ Unsettled(t)' /\ Pending(t)'
      BY <2>2 DEF Busy, Inside, Unsettled, Pending
    <2>4. QED
      BY <1>4, <1>5, <2>3
  <1>10. CASE CallbackFails(t)
    <2>1. x.pc = "idle" /\ c.pc = "callback"
      BY <1>3, <1>10 DEF CallbackFails, At, Go, Idle
    <2>2. Busy(t) /\ ~Unsettled(t) /\ Pending(t)'
      BY <2>1 DEF Busy, Inside, Unsettled, Pending
    <2>3. Fits(size) => Fits(size)'
      BY <1>10 DEF CallbackFails, Fits
    <2>4. QED
      BY <1>4, <1>5, <2>2, <2>3
  <1>11. CASE Continue(t)
    <2>1. c \in Calls("write") \cup Calls("trunc") /\ UNCHANGED <<size, extent, claimed>>
      BY <1>11 DEF TypeOK, Continue
    <2>2. Busy(t) /\ Unsettled(t)' /\ Pending(t)'
      <3>1. CASE At(t, "cont")
        <4>1. /\ x.pc = IF c.got > size THEN "grow" ELSE "load"
              /\ x.got = c.got /\ x.delta = c.delta /\ c.pc = "cont"
          BY <1>3, <1>11, <2>1, <3>1 DEF Continue, At, Go, Goto, Calls
        <4>2. /\ c.delta = 0 /\ c.got <= extent
              /\ extent <= size \/ extent <= c.got
              /\ size <= extent \/ size <= claimed
          BY <1>6, <4>1 DEF Pending
        <4>3. CASE c.got > size
          BY <1>2, <2>1, <4>1, <4>2, <4>3 DEF Busy, Inside, Unsettled, Pending
        <4>4. CASE ~(c.got > size)
          <5>1. x.pc = "load" /\ size + x.delta = size
            BY <1>2, <4>1, <4>2, <4>4
          <5>2. Fits(size)
            BY <1>2, <4>2, <4>4 DEF Fits
          <5>3. QED
            BY <2>1, <4>1, <5>1, <5>2 DEF Busy, Inside, Unsettled, Pending, Fits
        <4>5. QED
          BY <4>3, <4>4
      <3>2. CASE At(t, "grow")
        <4>1. x.pc = "load" /\ x.delta = c.got - size /\ c.pc = "grow"
          BY <1>3, <1>11, <2>1, <3>2 DEF Continue, At, Go, Calls
        <4>2. size + x.delta = extent
          BY <1>2, <1>6, <4>1 DEF Pending
        <4>3. QED
          BY <1>2, <2>1, <4>1, <4>2 DEF Busy, Inside, Unsettled, Pending, Fits
      <3>3. CASE At(t, "load")
        <4>1. x.pc = "store" /\ x.base = size /\ x.delta = c.delta /\ c.pc = "load"
          BY <1>3, <1>11, <2>1, <3>3 DEF Continue, At, Go, Calls
        <4>2. Fits(size + c.delta)
          BY <1>6, <4>1 DEF Pending
        <4>3. QED
          BY <2>1, <4>1, <4>2 DEF Busy, Inside, Unsettled, Pending, Fits
      <3>4. QED
        BY <1>11, <3>1, <3>2, <3>3 DEF Continue
    <2>3. QED
      BY <1>4, <1>5, <2>2
  <1>12. CASE ContinueStore(t)
    <2>1. x.pc = "update" /\ c.pc = "store" /\ size' = c.base + c.delta
      BY <1>3, <1>12 DEF ContinueStore, At, Go, Idle
    <2>2. Busy(t) /\ Pending(t)'
      BY <2>1 DEF Busy, Inside, Pending
    <2>3. Fits(size)'
      BY <1>6, <1>12, <2>1 DEF Pending, Fits, ContinueStore
    <2>4. QED
      BY <1>4, <1>5, <2>2, <2>3
  <1>13. CASE ContinueTrunc(t)
    <2>1. x.pc = "idle" /\ c.pc = "set" /\ size' = c.end /\ extent' = extent
      BY <1>3, <1>13 DEF ContinueTrunc, At, Go, Idle
    <2>2. Busy(t) /\ Pending(t)'
      BY <2>1 DEF Busy, Inside, Pending
    <2>3. Fits(size)'
      BY <1>2, <1>6, <2>1 DEF Pending, Fits
    <2>4. QED
      BY <1>4, <1>5, <2>2, <2>3
  <1>14. CASE Update(t)
    <2>1. c \in Calls("write") \cup Calls("trunc")
      BY DEF TypeOK
    <2>2. x.pc = "decide" /\ c.pc = "update"
      BY <1>3, <1>14, <2>1 DEF Update, At, Go, Goto, Calls
    <2>3. ~Unsettled(t) /\ Pending(t)'
      BY <2>2 DEF Unsettled, Pending
    <2>4. \A u \in Threads \ {t} : ~Busy(u)
      BY <1>14, AloneInside DEF Update
    <2>5. Fits(size) => Fits(size)'
      BY <1>14 DEF Update, Fits
    <2>6. QED
      BY <1>4, <2>3, <2>4, <2>5
  <1>15. CASE Choose(t)
    <2>1. c \in Calls("write") \cup Calls("trunc") /\ UNCHANGED <<size, extent, claimed>>
      BY <1>15 DEF TypeOK, Choose
    <2>2. c.pc \in {"decide", "keep"}
      BY <1>15 DEF Choose, At
    <2>3. Busy(t) /\ ~Unsettled(t) /\ (Fits(size) => Fits(size)')
      BY <2>1, <2>2 DEF Busy, Updating, Unsettled, Fits
    <2>4. ASSUME Fits(size) PROVE Pending(t)'
      <3>1. \/ x.pc = "put" /\ x.base = c.end /\ x.end = c.end /\ Grows(c.end)
            \/ x.pc = "keep"
            \/ x.pc = "put" /\ x.base = size
        BY <1>3, <1>15, <2>1 DEF Choose, At, Go, Goto, Calls
      <3>2. CASE x.pc = "put" /\ x.base = c.end /\ x.end = c.end /\ Grows(c.end)
        <4>1. c.end > size
          BY <1>2, <3>2, GrowsSound
        <4>2. QED
          BY <1>2, <2>1, <2>4, <3>2, <4>1 DEF Pending, Fits
      <3>3. CASE x.pc = "keep"
        BY <3>3 DEF Pending
      <3>4. CASE x.pc = "put" /\ x.base = size
        BY <1>2, <2>1, <2>4, <3>4 DEF Pending, Fits
      <3>5. QED
        BY <3>1, <3>2, <3>3, <3>4
    <2>5. QED
      BY <1>4, <1>5, <2>3, <2>4
  <1>16. CASE Put(t)
    <2>1. /\ x.pc = "idle" /\ c.pc = "put" /\ size' = c.base /\ extent' = extent
          /\ claimed' = IF claimed >= c.end THEN claimed ELSE c.end
      BY <1>2, <1>3, <1>16, MaxOfTwo DEF Put, At, Go, Idle
    <2>2. Busy(t) /\ Pending(t)'
      BY <2>1 DEF Busy, Updating, Pending
    <2>3. /\ extent <= c.base
          /\ c.base <= extent \/ c.base <= claimed \/ c.base <= c.end
      BY <1>6, <2>1 DEF Pending
    <2>4. Fits(size)'
      BY <1>2, <2>1, <2>3 DEF Fits
    <2>5. QED
      BY <1>4, <1>5, <2>2, <2>4
  <1>17. QED
    BY <1>7, <1>8, <1>9, <1>10, <1>11, <1>12, <1>13, <1>14, <1>15, <1>16 DEF Step

(***************************************************************************)
(* Theorems.                                                               *)
(***************************************************************************)

\* Every reachable state satisfies the inductive invariant.
THEOREM Invariance == Spec => []IInv
  <1>1. IInv /\ [Next]_vars => IInv'
    <2> SUFFICES ASSUME IInv, [Next]_vars PROVE IInv'
      OBVIOUS
    <2>1. CASE Next
      <3>1. PICK t \in Threads : Step(t)
        BY <2>1 DEF Next, Step
      <3>2. TypeOK' /\ RouteExists' /\ discipline' = discipline
        BY <3>1, TypeStep DEF IInv
      <3>3. ASSUME Serialized' PROVE SizeInv'
        <4>1. Serialized
          BY <3>2, <3>3 DEF Serialized
        <4>2. QED
          BY <3>1, <4>1, SizeStep DEF IInv
      <3>4. QED
        BY <3>2, <3>3 DEF IInv
    <2>2. CASE UNCHANGED vars
      BY <2>2 DEF vars, IInv, TypeOK, RouteExists, Inside, Serialized, SizeInv, Exclusion,
         Settled, Unsettled, Fits, Pending, Busy, Updating
    <2>3. QED
      BY <2>1, <2>2
  <1>2. QED
    BY InitOK, <1>1, PTL DEF Spec

\* The variables keep their types; in particular, a truncation never runs the
\* continuation of a write.
THEOREM TypeCorrect == Spec => []TypeOK
  <1>1. IInv => TypeOK
    BY DEF IInv
  <1>2. QED
    BY <1>1, Invariance, PTL

\* Between calls, with routes that lock the inode, the size covers the data.
THEOREM SizeCovers == Spec => []SizeCoversData
  <1>1. IInv => SizeCoversData
    BY FileAssumption DEF IInv, TypeOK, SizeInv, Settled, Unsettled, Fits, SizeCoversData, Quiet, At
  <1>2. QED
    BY <1>1, Invariance, PTL

\* ... and is no larger than a write or a truncation asked for.
THEOREM NeverOvershoots == Spec => []NoOvershoot
  <1>1. IInv => NoOvershoot
    <2> SUFFICES ASSUME IInv, Serialized, Quiet PROVE size <= Max({extent, claimed})
      BY DEF NoOvershoot
    <2>1. Fits(size)
      BY DEF IInv, SizeInv, Settled, Unsettled, Quiet, At
    <2>2. extent \in Int /\ claimed \in Int /\ size \in Int
      BY FileAssumption DEF IInv, TypeOK
    <2>3. QED
      BY <2>1, <2>2, MaxOfTwo DEF Fits
  <1>2. QED
    BY <1>1, Invariance, PTL
===============================================================================
