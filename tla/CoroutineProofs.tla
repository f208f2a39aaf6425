--------------------------- MODULE CoroutineProofs ---------------------------
(***************************************************************************)
(* Proofs about Coroutines and the ring of Executor, for every set of      *)
(* handles, every capacity of the ring and every body.                     *)
(*                                                                         *)
(* The ring is a sequence laid round an array: Enqueue appends to it,      *)
(* remove keeps the others in their order, run_pending takes its head.     *)
(* The native stack has one frame of each coroutine that runs, and main's  *)
(* at its bottom.  Inv ties them to the frames and their promises: who     *)
(* waits at a `yield;` is who is in the ring; a call's handles are its     *)
(* caller's and exist; who is complete is at its end; who drives has a     *)
(* call that drives; a continuation is in a call that awaits; an item lies *)
(* ready only where its stream waits at the yield that made it.  None of   *)
(* these is inductive without the others.                                  *)
(*                                                                         *)
(* A step changes the stack by its top one or two frames (Shift), and most *)
(* steps only move calls and resume, suspend or destroy one frame          *)
(* (GoesOn): there is one lemma for each action, named for it.             *)
(***************************************************************************)
EXTENDS Coroutines, FiniteSetTheorems, SequenceTheorems, WellFoundedInduction, TLAPS

-------------------------------------------------------------------------------
(* The ring *)

\* A set of numbers has a least one.
LEMMA LeastOf ==
  ASSUME NEW T \in SUBSET Nat, T # {}
  PROVE  \E x \in T : \A y \in T : x <= y
<1>2. PICK x \in T : \A y \in T : ~(<<y, x>> \in OpToRel(<, Nat))
  BY WFMin, NatLessThanWellFounded
<1>3. \A y \in T : ~(y < x)
  BY <1>2 DEF OpToRel
<1> QED
  BY <1>3

\* F is what remove's loop has kept after each of its first n turns.
KeptTo(F, q, h, n) ==
  F = [m \in 0 .. n |-> IF m = 0 THEN << >> ELSE IF q[m] = h THEN F[m - 1] ELSE Append(F[m - 1], q[m])]

\* The loop keeps something in every turn.
LEMMA LoopRuns ==
  ASSUME NEW q, NEW h, NEW n \in Nat
  PROVE  \E F : KeptTo(F, q, h, n)
<1> DEFINE Bad == {m \in Nat : ~ \E F : KeptTo(F, q, h, m)}
<1> SUFFICES ASSUME Bad # {} PROVE FALSE
  OBVIOUS
<1>1. PICK m \in Bad : \A k \in Bad : m <= k
  BY LeastOf
<1>2. m # 0
  <2> SUFFICES \E F : KeptTo(F, q, h, 0)
    OBVIOUS
  <2>1. 0 .. 0 = {0}
    OBVIOUS
  <2> QED
    BY <2>1 DEF KeptTo
<1>3. m \in Nat /\ m - 1 \in Nat /\ m - 1 \notin Bad
  <2>1. m \in Nat
    OBVIOUS
  <2> HIDE DEF Bad
  <2> QED
    BY <1>1, <1>2, <2>1
<1>4. PICK F : KeptTo(F, q, h, m - 1)
  BY <1>3
<1> DEFINE G == [k \in 0 .. m |-> IF k < m THEN F[k] ELSE IF q[m] = h THEN F[m - 1] ELSE Append(F[m - 1], q[m])]
<1>5. KeptTo(G, q, h, m)
  <2>1. ASSUME NEW k \in 0 .. m
        PROVE  G[k] = IF k = 0 THEN << >> ELSE IF q[k] = h THEN G[k - 1] ELSE Append(G[k - 1], q[k])
    <3>1. CASE k = m
      BY <3>1, <1>2, <1>3
    <3>2. CASE k # m
      <4>1. k \in 0 .. m - 1 /\ k < m
        BY <1>3, <3>2
      <4>2. G[k] = F[k]
        BY <4>1
      <4>4. k # 0 => G[k - 1] = F[k - 1]
        BY <1>3, <4>1
      <4> HIDE DEF G
      <4> QED
        BY <4>2, <4>4, <1>4, <4>1 DEF KeptTo
    <3> QED
      BY <3>1, <3>2
  <2>2. G = [k \in 0 .. m |-> G[k]]
    OBVIOUS
  <2> HIDE DEF G
  <2> QED
    BY <2>1, <2>2 DEF KeptTo
<1> QED
  BY <1>1, <1>5

\* No value twice among the first n, and a value that is among them.
OnceEach(q, n) == \A i, j \in 1 .. n : q[i] = q[j] => i = j
In1(q, x, n) == \E i \in 1 .. n : q[i] = x

\* What the loop has kept of the first n handles: all but h, none twice that was there once.
KeptRight(s, S, q, h, n) ==
  /\ s \in Seq(S) /\ Len(s) <= n
  /\ \A x : In1(s, x, Len(s)) <=> x # h /\ In1(q, x, n)
  /\ OnceEach(q, n) => OnceEach(s, Len(s))

\* A turn keeps its handle unless it is h.
LEMMA KeepsRight ==
  ASSUME NEW S, NEW q \in Seq(S), NEW h, NEW n \in 1 .. Len(q), NEW s, KeptRight(s, S, q, h, n - 1)
  PROVE  KeptRight(IF q[n] = h THEN s ELSE Append(s, q[n]), S, q, h, n)
<1>1. Len(q) \in Nat /\ n \in Nat \ {0} /\ n - 1 \in Nat /\ q[n] \in S
  BY LenProperties, ElementOfSeq
<1>2. s \in Seq(S) /\ Len(s) \in Nat /\ Len(s) <= n - 1
  BY LenProperties DEF KeptRight
<1>3. \A x : In1(q, x, n) <=> In1(q, x, n - 1) \/ q[n] = x
  BY <1>1 DEF In1
<1>4. OnceEach(q, n) => OnceEach(q, n - 1) /\ ~ In1(q, q[n], n - 1)
  BY <1>1 DEF OnceEach, In1
<1>5. CASE q[n] = h
  BY <1>2, <1>3, <1>4, <1>5, <1>1 DEF KeptRight
<1>6. CASE q[n] # h
  <2>1. PICK v \in S : v = q[n]
    BY <1>1
  <2>0. PICK t : t = Append(s, q[n])
    OBVIOUS
  <2>2. /\ t \in Seq(S) /\ Len(t) = Len(s) + 1 /\ t[Len(s) + 1] = q[n]
        /\ \A i \in 1 .. Len(s) : t[i] = s[i]
    BY <1>2, <2>0, <2>1, AppendProperties
  <2>3. \A x : In1(t, x, Len(t)) <=> In1(s, x, Len(s)) \/ q[n] = x
    BY <1>2, <2>2 DEF In1
  <2>5. ASSUME OnceEach(q, n) PROVE OnceEach(t, Len(t))
    <3>1. OnceEach(s, Len(s)) /\ ~ In1(s, q[n], Len(s))
      BY <1>4, <2>5 DEF KeptRight
    <3> QED
      BY <1>2, <2>2, <3>1 DEF OnceEach, In1
  <2> QED
    BY <1>6, <2>0, <2>2, <2>5, <1>3, <2>3, <1>1, <1>2 DEF KeptRight
<1> QED
  BY <1>5, <1>6

\* What remove's loop has kept in the end.
LEMMA WithoutFacts ==
  ASSUME NEW S, NEW q \in Seq(S), NEW h
  PROVE  KeptRight(Without(q, h), S, q, h, Len(q))
<1>1. Len(q) \in Nat
  BY LenProperties
<1>2. PICK F : F = (CHOOSE f : KeptTo(f, q, h, Len(q))) /\ KeptTo(F, q, h, Len(q))
  BY <1>1, LoopRuns
<1>3. Without(q, h) = F[Len(q)]
  BY <1>2 DEF Without, KeptTo
<1> DEFINE Bad == {n \in 0 .. Len(q) : ~ KeptRight(F[n], S, q, h, n)}
<1>4. Bad = {}
  <2> SUFFICES ASSUME Bad # {} PROVE FALSE
    OBVIOUS
  <2>1. PICK n \in Bad : \A k \in Bad : n <= k
    <3>1. Bad \in SUBSET Nat
      BY <1>1
    <3> HIDE DEF Bad
    <3> QED
      BY <3>1, LeastOf
  <2>2. F[n] = IF n = 0 THEN << >> ELSE IF q[n] = h THEN F[n - 1] ELSE Append(F[n - 1], q[n])
    BY <1>2 DEF KeptTo
  <2>3. KeptRight(<< >>, S, q, h, 0)
    BY EmptySeq DEF KeptRight, In1, OnceEach
  <2>4. n # 0
    BY <2>2, <2>3
  <2>5. n \in 1 .. Len(q) /\ n - 1 \in 0 .. Len(q) /\ n - 1 \notin Bad
    <3>1. n \in 0 .. Len(q)
      OBVIOUS
    <3> HIDE DEF Bad
    <3> QED
      BY <1>1, <2>1, <2>4, <3>1
  <2> QED
    BY <2>2, <2>4, <2>5, KeepsRight
<1> QED
  BY <1>1, <1>3, <1>4

\* The ring as it should be: of its type, consistent, no handle in it twice.
RingInv == RingTypeOK /\ RingConsistent /\ OnceEach(Queued, count)
\* The handles in the ring.
Listed == {Queued[i] : i \in 1 .. count}

\* Where the i-th of the handles behind head lies.
LEMMA RingIndex ==
  ASSUME NEW h \in 0 .. Cap - 1, NEW i \in 1 .. Cap
  PROVE  /\ (h + i - 1) % Cap \in 0 .. Cap - 1
         /\ (h + i - 1) % Cap = IF h + i - 1 < Cap THEN h + i - 1 ELSE h + i - 1 - Cap
  BY ExecutorAssumption

\* The place behind c handles from h on, for a ring that is full too.
LEMMA RingEnd ==
  ASSUME NEW h \in 0 .. Cap - 1, NEW c \in 0 .. Cap
  PROVE  /\ (h + c) % Cap \in 0 .. Cap - 1
         /\ (h + c) % Cap = IF h + c < Cap THEN h + c ELSE h + c - Cap
  BY ExecutorAssumption

\* What the ring holds is a sequence of handles.
LEMMA QueuedSeq ==
  ASSUME RingTypeOK, RingConsistent
  PROVE  /\ Queued \in Seq(Handles) /\ Len(Queued) = count
         /\ count \in Nat
         /\ \A i \in 1 .. count : Queued[i] = slots[(head + i - 1) % Cap] /\ Queued[i] \in Handles
<1>1. count \in Nat /\ head \in 0 .. Cap - 1 /\ count <= Cap /\ Cap \in Nat
  BY ExecutorAssumption DEF RingTypeOK
<1>2. ASSUME NEW i \in 1 .. count
      PROVE  Queued[i] = slots[(head + i - 1) % Cap] /\ Queued[i] \in Handles
  <2>3. Queued[i] = slots[(head + i - 1) % Cap]
    BY DEF Queued
  <2> QED
    BY <2>3, <1>1, RingIndex DEF RingConsistent, RingTypeOK
<1> QED
  BY <1>1, <1>2, SeqDef, LenProperties DEF Queued

\* A sequence of handles is in the ring in another state, if count, slots and tail say so.
LEMMA QueuedIs ==
  ASSUME NEW q \in Seq(Handles), RingTypeOK',
         count' = Len(q), tail' = (head' + count') % Cap,
         \A i \in 1 .. Len(q) : slots'[(head' + i - 1) % Cap] = q[i]
  PROVE  Queued' = q /\ RingConsistent'
<1> QED
  BY ExecutorAssumption, LenProperties, ElementOfSeq, SeqDef DEF RingConsistent, Queued

\* Enqueueing puts a handle behind the others.
LEMMA EnqueueAppends ==
  ASSUME RingTypeOK, RingConsistent, NEW h \in Handles, HasRoom, Enqueue(h)
  PROVE  RingTypeOK' /\ RingConsistent' /\ Queued' = Append(Queued, h)
<1>1. /\ count \in 0 .. Cap - 1 /\ head \in 0 .. Cap - 1 /\ tail \in 0 .. Cap - 1 /\ Cap \in Nat \ {0}
      /\ count' = count + 1 /\ head' = head /\ tail = (head + count) % Cap
      /\ tail' = (tail + 1) % Cap
      /\ slots \in [0 .. Cap - 1 -> Handles \cup {None}]
      /\ slots' = [slots EXCEPT ![tail] = h]
  BY ExecutorAssumption DEF RingTypeOK, RingConsistent, HasRoom, Enqueue, After
<1>2. tail' = (head' + count') % Cap /\ tail' \in 0 .. Cap - 1
  <2>1. tail = IF head + count < Cap THEN head + count ELSE head + count - Cap
    BY <1>1, RingEnd
  <2>2. count + 1 \in 0 .. Cap /\ 1 \in 0 .. Cap
    BY <1>1
  <2>3. (head + (count + 1)) % Cap = IF head + (count + 1) < Cap THEN head + (count + 1) ELSE head + (count + 1) - Cap
    BY <1>1, <2>2, RingEnd
  <2>4. (tail + 1) % Cap = IF tail + 1 < Cap THEN tail + 1 ELSE tail + 1 - Cap
    BY <1>1, <2>2, RingEnd
  <2> QED
    BY <1>1, <2>1, <2>3, <2>4
<1>3. RingTypeOK'
  BY <1>1, <1>2 DEF RingTypeOK
<1>4. PICK q : q = Append(Queued, h)
  OBVIOUS
<1>5. /\ q \in Seq(Handles) /\ Len(q) = count + 1 /\ q[count + 1] = h
      /\ \A i \in 1 .. count : q[i] = Queued[i]
  BY <1>4, QueuedSeq, AppendProperties
<1>6. ASSUME NEW i \in 1 .. Len(q) PROVE slots'[(head' + i - 1) % Cap] = q[i]
  <2>1. i \in 1 .. Cap /\ i \in 1 .. count + 1
    BY <1>1, <1>5
  <2>2. /\ (head + i - 1) % Cap \in 0 .. Cap - 1
        /\ (head + i - 1) % Cap = IF head + i - 1 < Cap THEN head + i - 1 ELSE head + i - 1 - Cap
    BY <1>1, <2>1, RingIndex
  <2>3. tail = IF head + count < Cap THEN head + count ELSE head + count - Cap
    BY <1>1, RingEnd
  <2>4. CASE i = count + 1
    BY <1>1, <1>5, <2>4, <2>2, <2>3
  <2>5. CASE i # count + 1
    <3>1. i \in 1 .. count
      BY <1>1, <2>1, <2>5
    <3>2. (head + i - 1) % Cap # tail
      BY <1>1, <2>2, <2>3, <3>1
    <3> QED
      BY <1>1, <1>5, <3>1, QueuedSeq, <2>2, <3>2
  <2> QED
    BY <2>4, <2>5
<1> QED
  BY <1>1, <1>2, <1>3, <1>4, <1>5, <1>6, QueuedIs

\* Removing leaves the other handles in their order.
LEMMA RemoveKeeps ==
  ASSUME RingTypeOK, RingConsistent, NEW h, Remove(h)
  PROVE  RingTypeOK' /\ RingConsistent' /\ Queued' = Kept(h)
<1>1. PICK q : q = Kept(h)
  OBVIOUS
<1>2. q \in Seq(Handles) /\ Len(q) \in Nat /\ Len(q) <= count
  BY <1>1, QueuedSeq, WithoutFacts, LenProperties DEF Kept, KeptRight
<1>3. /\ slots' = [i \in DOMAIN slots |-> IF i < Len(q) THEN q[i + 1] ELSE slots[i]]
      /\ head' = 0 /\ tail' = Len(q) % Cap /\ count' = Len(q)
  BY <1>1 DEF Remove
<1>4. /\ count \in 0 .. Cap /\ Cap \in Nat \ {0}
      /\ slots \in [0 .. Cap - 1 -> Handles \cup {None}] /\ DOMAIN slots = 0 .. Cap - 1
  BY ExecutorAssumption DEF RingTypeOK
<1>7. RingTypeOK'
  BY <1>3, <1>4, <1>2, ElementOfSeq DEF RingTypeOK
<1>8. ASSUME NEW i \in 1 .. Len(q) PROVE slots'[(head' + i - 1) % Cap] = q[i]
  <2>1. i \in Nat /\ i - 1 \in 0 .. Cap - 1 /\ i - 1 < Len(q) /\ (i - 1) + 1 = i
    BY <1>2, <1>4
  <2>2. (0 + i - 1) % Cap = i - 1
    BY <1>4, <2>1
  <2> QED
    BY <1>3, <1>4, <2>1, <2>2
<1> QED
  BY <1>1, <1>2, <1>3, <1>7, <1>8, QueuedIs

\* run_pending takes the oldest handle out.
LEMMA TakeNextTakes ==
  ASSUME RingTypeOK, RingConsistent, Pending, TakeNext
  PROVE  /\ RingTypeOK' /\ RingConsistent' /\ Queued' = Tail(Queued)
         /\ Queued # << >> /\ Oldest = Queued[1]
<1>1. /\ count \in 1 .. Cap /\ head \in 0 .. Cap - 1 /\ Cap \in Nat \ {0}
      /\ count' = count - 1 /\ tail' = tail /\ slots' = slots
      /\ head' = (head + 1) % Cap /\ tail = (head + count) % Cap /\ tail \in 0 .. Cap - 1
  BY ExecutorAssumption DEF RingTypeOK, RingConsistent, Pending, TakeNext, After
<1>2. head' = (IF head + 1 < Cap THEN head + 1 ELSE head + 1 - Cap) /\ head' \in 0 .. Cap - 1
  BY <1>1, RingEnd
<1>3. tail' = (head' + count') % Cap
  <2>0. count \in 0 .. Cap /\ count - 1 \in 0 .. Cap
    BY <1>1
  <2>1. tail = IF head + count < Cap THEN head + count ELSE head + count - Cap
    BY <1>1, <2>0, RingEnd
  <2>2. PICK m \in 0 .. Cap - 1 : m = head'
    BY <1>2
  <2>3. (m + (count - 1)) % Cap = IF m + (count - 1) < Cap THEN m + (count - 1) ELSE m + (count - 1) - Cap
    BY <2>0, RingEnd
  <2> QED
    BY <1>1, <1>2, <2>1, <2>2, <2>3
<1>4. RingTypeOK'
  BY <1>1, <1>2 DEF RingTypeOK
<1>5. Queued \in Seq(Handles) /\ Len(Queued) = count /\ Queued # << >>
  BY <1>1, QueuedSeq, EmptySeq
<1>6. PICK q : q = Tail(Queued)
  OBVIOUS
<1>7. /\ q \in Seq(Handles) /\ Len(q) = count - 1
      /\ \A i \in 1 .. Len(q) : q[i] = Queued[i + 1]
  BY <1>5, <1>6, HeadTailProperties
<1>8. ASSUME NEW i \in 1 .. Len(q) PROVE slots'[(head' + i - 1) % Cap] = q[i]
  <2>1. i \in 1 .. Cap /\ i + 1 \in 1 .. count /\ i + 1 \in 1 .. Cap
    BY <1>1, <1>7
  <2>2. PICK m \in 0 .. Cap - 1 : m = head'
    BY <1>2
  <2>5. (m + i - 1) % Cap = (head + (i + 1) - 1) % Cap
    BY <1>1, <1>2, <2>1, <2>2, RingIndex
  <2> QED
    BY <1>1, <2>2, <2>5, <1>7, <2>1, QueuedSeq
<1>9. Oldest = Queued[1]
  <2>1. 1 \in 1 .. count /\ (head + 1 - 1) % Cap = head
    BY <1>1
  <2> QED
    BY <2>1, QueuedSeq DEF Oldest
<1> QED
  BY <1>1, <1>3, <1>4, <1>5, <1>6, <1>7, <1>8, <1>9, QueuedIs

\* Every handle in the ring is one of a position, and the other way round.
LEMMA ListedIn1 ==
  ASSUME RingTypeOK, RingConsistent
  PROVE  /\ Listed \subseteq Handles
         /\ \A x : x \in Listed <=> In1(Queued, x, count)
  BY QueuedSeq DEF Listed, In1

\* The same after a step.
LEMMA ListedIn1After ==
  ASSUME RingTypeOK', RingConsistent'
  PROVE  \A x : x \in Listed' <=> In1(Queued', x, count')
  BY DEF Listed, In1

\* A step that leaves the ring alone.
LEMMA RingRests ==
  ASSUME RingInv, UNCHANGED ring
  PROVE  RingInv' /\ Listed' = Listed /\ Queued' = Queued
  BY DEF RingInv, RingTypeOK, RingConsistent, Queued, OnceEach, Listed, ring

\* Enqueueing a handle that is not in the ring.
LEMMA RingGains ==
  ASSUME RingInv, NEW h \in Handles, h \notin Listed, HasRoom, Enqueue(h)
  PROVE  RingInv' /\ Listed' = Listed \cup {h}
<1>1. RingTypeOK' /\ RingConsistent' /\ Queued' = Append(Queued, h)
  BY EnqueueAppends DEF RingInv
<1>2. PICK q : q = Queued'
  OBVIOUS
<1>6. \A x : x \in Listed <=> In1(Queued, x, count)
  BY ListedIn1 DEF RingInv
<1> QED
  BY <1>1, <1>2, <1>6, ListedIn1After, AppendProperties, QueuedSeq DEF RingInv, In1, OnceEach, Enqueue

\* Removing a handle, in the ring or not.
LEMMA RingLoses ==
  ASSUME RingInv, NEW h, Remove(h)
  PROVE  RingInv' /\ Listed' = Listed \ {h}
<1>1. RingTypeOK' /\ RingConsistent' /\ Queued' = Kept(h)
  BY RemoveKeeps DEF RingInv
<1>2. PICK q : q = Queued'
  OBVIOUS
<1>3. /\ Queued \in Seq(Handles) /\ Len(Queued) = count /\ count \in Nat
      /\ q = Without(Queued, h) /\ count' = Len(q)
  BY <1>1, <1>2, QueuedSeq DEF RingInv, Remove, Kept
<1> QED
  BY <1>1, <1>2, <1>3, ListedIn1After, ListedIn1, WithoutFacts DEF RingInv, KeptRight

\* Taking the oldest handle out.
LEMMA RingTakes ==
  ASSUME RingInv, Pending, TakeNext
  PROVE  /\ RingInv' /\ Oldest \in Listed /\ Oldest \in Handles
         /\ Listed' = Listed \ {Oldest}
<1>1. /\ RingTypeOK' /\ RingConsistent' /\ Queued' = Tail(Queued)
      /\ Queued # << >> /\ Oldest = Queued[1]
  BY TakeNextTakes DEF RingInv
<1>2. PICK q : q = Queued'
  OBVIOUS
<1>3. /\ Queued \in Seq(Handles) /\ Len(Queued) = count /\ count \in Nat \ {0}
      /\ count' = count - 1
  BY QueuedSeq DEF RingInv, TakeNext, Pending
<1>4. \A i \in 1 .. count - 1 : q[i] = Queued[i + 1]
  BY <1>1, <1>2, <1>3, HeadTailProperties
<1>5. OnceEach(Queued, count)
  BY DEF RingInv
<1>7. OnceEach(q, count - 1)
  BY <1>3, <1>4, <1>5 DEF OnceEach
<1>8. ASSUME NEW x PROVE In1(q, x, count - 1) <=> In1(Queued, x, count) /\ x # Queued[1]
  <2>2. ASSUME In1(Queued, x, count), x # Queued[1] PROVE In1(q, x, count - 1)
    <3>1. PICK i \in 1 .. count : Queued[i] = x
      BY <2>2 DEF In1
    <3>2. i - 1 \in 1 .. count - 1 /\ (i - 1) + 1 = i
      BY <1>3, <2>2, <3>1
    <3> QED
      BY <1>4, <3>1, <3>2 DEF In1
  <2> QED
    BY <2>2, <1>3, <1>4, <1>5 DEF In1, OnceEach
<1>10. Oldest \in Listed /\ Oldest \in Handles
  BY <1>1, QueuedSeq, <1>3 DEF Listed, RingInv
<1> QED
  BY <1>1, <1>2, <1>3, <1>7, <1>10, <1>8, ListedIn1After, ListedIn1 DEF RingInv

-------------------------------------------------------------------------------
(* The native stack *)

Callers == Coros \cup {Main, None}
Frames  == [who : Callers, call : Calls, hs : Seq(Handles \cup {None}), n : Nat]
Places  == 1 .. Len(stack)
On      == {stack[i] : i \in Places}

Waits  == {"await", "next", "wait", "drop"}
Rounds == {"all", "any", "post", "lose"}
Drives == {"await", "next"} \cup Rounds
Awaits == {"await"} \cup Rounds

\* What each kind of call has at hand.
FrameOK(f) ==
  /\ f.call = "pump" <=> f.who = None
  /\ f.call \in {"item", "final", "resumed"} => f.who \in Coros
  /\ f.call = "item" => f.who \in Streams
  /\ f.call \notin Waits \cup Rounds => f.hs = << >>
  /\ f.call \in Waits => Len(f.hs) = 1 /\ f.hs[1] \in (IF f.call = "next" THEN Streams ELSE Tasks)
  /\ f.call \in Rounds => \A k \in DOMAIN f.hs : f.hs[k] \in Tasks \cup {None}
  /\ f.call \in {"all", "any", "post"} => f.n \in DOMAIN f.hs
  /\ f.call \in {"any", "post"} => \A k \in DOMAIN f.hs : f.hs[k] # None
  /\ \A k, l \in DOMAIN f.hs : f.hs[k] = f.hs[l] /\ f.hs[k] # None => k = l

\* Main's frame is at the bottom, nobody calls from a final suspend, nobody has two
\* frames, and a coroutine runs exactly while it has one.
StackInv ==
  /\ stack \in Seq(Frames) /\ stack # << >>
  /\ \A i \in Places : FrameOK(stack[i])
  /\ stack[Len(stack)].who = Main
  /\ \A i \in Places : stack[i].call = "final" => i = 1
  /\ \A i, j \in Places : stack[i].who = stack[j].who /\ stack[i].who # None => i = j
  /\ \A c \in Coros : status[c] = "running" <=> \E f \in On : f.who = c

\* What a step does to the stack: the frames of F are new, the top one is gone if it
\* is not among them, the others stay.
Shift(F) ==
  /\ F \subseteq On'
  /\ \A f \in On : f # Top => f \in On'
  /\ \A f \in On' : f \in F \/ (f \in On /\ (Self # None => f.who # Self))

\* The head of a stack and what is beneath it.
LEMMA StackParts ==
  ASSUME StackInv
  PROVE  /\ Len(stack) \in Nat \ {0} /\ 1 \in Places
         /\ Top = stack[1] /\ Top \in Frames /\ Top \in On /\ FrameOK(Top) /\ Self = stack[1].who
         /\ Below \in Seq(Frames) /\ Len(Below) = Len(stack) - 1
         /\ \A i \in 1 .. Len(stack) - 1 : Below[i] = stack[i + 1]
<1> QED
  BY HeadTailProperties, ElementOfSeq, EmptySeq, LenProperties DEF On, Self, StackInv, Below, Places, Top

\* A sequence with one more at its head.
LEMMA Pushed ==
  ASSUME NEW S, NEW s \in Seq(S), NEW f \in S
  PROVE  /\ <<f>> \o s \in Seq(S) /\ Len(<<f>> \o s) = Len(s) + 1
         /\ (<<f>> \o s)[1] = f
         /\ \A i \in 1 .. Len(s) : (<<f>> \o s)[i + 1] = s[i]
<1> QED
  BY ConcatProperties, LenProperties

\* Whoever has a frame besides the top one is not the top one's owner.
LEMMA OneFrame ==
  ASSUME StackInv, NEW f \in On, f.who = Self, Self # None
  PROVE  f = Top
  BY StackParts DEF StackInv, On

\* A step that leaves the stack alone.
LEMMA StackRests ==
  ASSUME StackInv, stack' = stack, \A c \in Coros : status'[c] = "running" <=> status[c] = "running"
  PROVE  StackInv' /\ Shift({Top})
<1> QED
  BY OneFrame, StackParts DEF Shift, StackInv, FrameOK, On, Places

\* A stack that is what it should be after a step.
LEMMA StackIs ==
  ASSUME NEW s \in Seq(Frames), stack' = s, s # << >>,
         \A i \in 1 .. Len(s) : FrameOK(s[i]),
         s[Len(s)].who = Main,
         \A i \in 1 .. Len(s) : s[i].call = "final" => i = 1,
         \A i, j \in 1 .. Len(s) : s[i].who = s[j].who /\ s[i].who # None => i = j,
         \A c \in Coros : status'[c] = "running" <=> \E f \in On' : f.who = c
  PROVE  StackInv'
<1> QED
  BY DEF StackInv, FrameOK, Places

\* The top call goes on to something else.
LEMMA StackMoves ==
  ASSUME StackInv, NEW f \in Frames, FrameOK(f), f.who = Self, Replace(f),
         \A c \in Coros : status'[c] = "running" <=> status[c] = "running"
  PROVE  StackInv' /\ Shift({f})
<1>1. PICK s : s = stack'
  OBVIOUS
<1>2. /\ Len(stack) \in Nat \ {0} /\ 1 \in Places
      /\ Below \in Seq(Frames) /\ Len(Below) = Len(stack) - 1
      /\ \A i \in 1 .. Len(stack) - 1 : Below[i] = stack[i + 1]
      /\ Self = stack[1].who /\ Top = stack[1]
  BY StackParts
<1>3. /\ s \in Seq(Frames) /\ Len(s) = Len(stack) /\ s[1] = f
      /\ \A i \in 1 .. Len(stack) - 1 : s[i + 1] = Below[i]
  BY <1>1, <1>2, Pushed DEF Replace
<1>4. \A i \in 2 .. Len(stack) : s[i] = stack[i]
  <2> TAKE i \in 2 .. Len(stack)
  <2>1. i - 1 \in 1 .. Len(stack) - 1 /\ (i - 1) + 1 = i
    BY <1>2
  <2> QED
    BY <1>2, <1>3, <2>1
<1>5. \A i \in Places : s[i].who = stack[i].who
  BY <1>2, <1>3, <1>4 DEF Places
<1>6. Places' = Places /\ On' = {s[i] : i \in Places}
  BY <1>1, <1>3 DEF Places, On
<1>7. \A i \in Places : FrameOK(s[i])
  BY <1>2, <1>3, <1>4 DEF Places, StackInv
<1>8. s # << >> /\ s[Len(s)].who = Main
  BY <1>2, <1>3, <1>5, EmptySeq DEF StackInv, Places
<1>9. \A c : (\E g \in On' : g.who = c) <=> (\E g \in On : g.who = c)
  <2>1. \A g \in On' : \E h \in On : h.who = g.who
    BY <1>5, <1>6 DEF On
  <2>2. \A g \in On : \E h \in On' : h.who = g.who
    <3> TAKE g \in On
    <3>1. PICK i \in Places : g = stack[i]
      BY DEF On
    <3> QED
      BY <1>5, <1>6, <3>1
  <2> QED
    BY <2>1, <2>2
<1>10. StackInv'
  <2>3. \A i \in Places : s[i].call = "final" => i = 1
    BY <1>2, <1>4 DEF StackInv, Places
  <2> QED
    BY <1>1, <1>3, <1>7, <1>8, <2>3, StackIs, <1>5, <1>9 DEF Places, StackInv
<1>11. Shift({f})
  <2>2. ASSUME NEW g \in On, g # Top PROVE g \in On'
    <3>1. PICK i \in 2 .. Len(stack) : g = stack[i]
      BY <1>2, <2>2 DEF On, Places
    <3> QED
      BY <1>2, <1>4, <1>6, <3>1 DEF Places
  <2>3. ASSUME NEW g \in On' PROVE g = f \/ (g \in On /\ (Self # None => g.who # Self))
    <3>1. PICK i \in Places : g = s[i]
      BY <1>6
    <3>2. CASE i = 1
      BY <1>3, <3>1, <3>2
    <3>3. CASE i # 1
      BY <1>2, <3>3, <1>4, <3>1 DEF On, StackInv, Places
    <3> QED
      BY <3>2, <3>3
  <2> QED
    BY <2>2, <2>3, <1>2, <1>3, <1>6 DEF Shift
<1> QED
  BY <1>10, <1>11

\* A call from the top call: of run_pending, or of a coroutine that did not run.
LEMMA StackEnters ==
  ASSUME StackInv, NEW f \in Frames, FrameOK(f), f.who = Self, f.call # "final",
         NEW g \in Frames, FrameOK(g), stack' = <<g>> \o (<<f>> \o Below),
         g.who = None \/ (g.who \in Coros /\ status[g.who] # "running"),
         \A c \in Coros : status'[c] = "running" <=> status[c] = "running" \/ c = g.who
  PROVE  StackInv' /\ Shift({f, g})
<1>1. PICK s : s = stack'
  OBVIOUS
<1>2. /\ Len(stack) \in Nat \ {0} /\ 1 \in Places
      /\ Below \in Seq(Frames) /\ Len(Below) = Len(stack) - 1
      /\ \A i \in 1 .. Len(stack) - 1 : Below[i] = stack[i + 1]
      /\ Self = stack[1].who /\ Top = stack[1]
  BY StackParts
<1>3. PICK r : r = <<f>> \o Below
  OBVIOUS
<1>4. /\ r \in Seq(Frames) /\ Len(r) = Len(stack) /\ r[1] = f
      /\ \A i \in 1 .. Len(stack) - 1 : r[i + 1] = Below[i]
  BY <1>2, <1>3, Pushed
<1>5. /\ s \in Seq(Frames) /\ Len(s) = Len(stack) + 1 /\ s[1] = g
      /\ \A i \in 1 .. Len(stack) : s[i + 1] = r[i]
  BY <1>1, <1>3, <1>4, Pushed
<1>6. s[2] = f /\ \A i \in 2 .. Len(stack) : s[i + 1] = stack[i]
  <2>1. s[2] = f
    BY <1>4, <1>5, <1>2
  <2> QED
    BY <2>1, <1>2, <1>4, <1>5
<1>7. \A i \in Places : s[i + 1].who = stack[i].who
  BY <1>2, <1>6 DEF Places
<1>8. Places' = 1 .. Len(stack) + 1 /\ On' = {s[i] : i \in 1 .. Len(stack) + 1}
  BY <1>1, <1>5 DEF Places, On
<1>9. \A i \in 1 .. Len(stack) + 1 : i = 1 \/ (i - 1 \in Places /\ (i - 1) + 1 = i)
  BY <1>2 DEF Places
<1>10. \A i \in 1 .. Len(stack) + 1 : FrameOK(s[i])
  <2> TAKE i \in 1 .. Len(stack) + 1
  <2>1. CASE i = 1
    BY <1>5, <2>1
  <2>2. CASE i = 2
    BY <1>6, <2>2
  <2>3. CASE i # 1 /\ i # 2
    <3>1. i - 1 \in 2 .. Len(stack) /\ (i - 1) + 1 = i /\ i - 1 \in Places
      BY <1>2, <2>3 DEF Places
    <3> QED
      BY <1>6, <3>1 DEF StackInv
  <2> QED
    BY <2>1, <2>2, <2>3
<1>11. s # << >> /\ s[Len(s)].who = Main
  BY <1>2, <1>5, <1>7, EmptySeq DEF StackInv, Places
<1>12. \A c : (\E h \in On' : h.who = c) <=> (\E h \in On : h.who = c) \/ c = g.who
  <2>1. \A h \in On' : h.who = g.who \/ \E k \in On : k.who = h.who
    <3> TAKE h \in On'
    <3>1. PICK i \in 1 .. Len(stack) + 1 : h = s[i]
      BY <1>8
    <3>2. CASE i = 1
      BY <1>5, <3>1, <3>2
    <3>3. CASE i # 1
      BY <1>7, <1>9, <3>1, <3>3 DEF On
    <3> QED
      BY <3>2, <3>3
  <2>2. \A h \in On : \E k \in On' : k.who = h.who
    <3> TAKE h \in On
    <3>1. PICK i \in Places : h = stack[i]
      BY DEF On
    <3> QED
      BY <1>7, <1>8, <3>1, <1>2 DEF Places
  <2>3. \E k \in On' : k.who = g.who
    BY <1>2, <1>5, <1>8
  <2> QED
    BY <2>1, <2>2, <2>3
<1>13. g.who # None => \A i \in Places : stack[i].who # g.who
  BY DEF StackInv, On
<1>14. \A i, j \in 1 .. Len(stack) + 1 : s[i].who = s[j].who /\ s[i].who # None => i = j
  <2> TAKE i, j \in 1 .. Len(stack) + 1
  <2> HAVE s[i].who = s[j].who /\ s[i].who # None
  <2>1. CASE i = 1
    BY <1>5, <1>7, <1>9, <1>13, <2>1, SMTT(40)
  <2>2. CASE j = 1
    BY <1>5, <1>7, <1>9, <1>13, <2>2
  <2>3. CASE i # 1 /\ j # 1
    <3>1. i - 1 = j - 1
      BY <1>7, <1>9, <2>3 DEF StackInv
    <3> QED
      BY <3>1, <1>2
  <2> QED
    BY <2>1, <2>2, <2>3
<1>15. StackInv'
  <2>2. ASSUME NEW i \in 1 .. Len(stack) + 1, s[i].call = "final" PROVE i = 1
    <3>1. CASE i = 2
      BY <1>6, <2>2, <3>1
    <3>2. CASE i # 1 /\ i # 2
      <4>1. i - 1 \in 2 .. Len(stack) /\ (i - 1) + 1 = i /\ i - 1 \in Places
        BY <1>2, <3>2 DEF Places
      <4> QED
        BY <2>2, <4>1, <1>6 DEF StackInv
    <3> QED
      BY <3>1, <3>2
  <2> QED
    BY <1>1, <1>5, <1>10, <1>11, <1>14, <2>2, StackIs, <1>12 DEF StackInv
<1>16. Shift({f, g})
  <2>1. f \in On' /\ g \in On'
    BY <1>8, <1>2, <1>5, <1>6
  <2>2. ASSUME NEW h \in On, h # Top PROVE h \in On'
    <3>1. PICK i \in 2 .. Len(stack) : h = stack[i]
      BY <1>2, <2>2 DEF On, Places
    <3>2. i + 1 \in 1 .. Len(stack) + 1
      BY <1>2, <3>1
    <3> QED
      BY <1>6, <1>8, <3>1, <3>2
  <2>3. ASSUME NEW h \in On' PROVE h \in {f, g} \/ (h \in On /\ (Self # None => h.who # Self))
    <3>1. PICK i \in 1 .. Len(stack) + 1 : h = s[i]
      BY <1>8
    <3>2. CASE i \in {1, 2}
      BY <1>5, <1>6, <3>1, <3>2
    <3>3. CASE i \notin {1, 2}
      <4>1. i - 1 \in 2 .. Len(stack) /\ (i - 1) + 1 = i /\ i - 1 \in Places
        BY <1>2, <3>3 DEF Places
      <4>2. h = stack[i - 1]
        BY <1>6, <3>1, <4>1
      <4>4. i - 1 # 1
        BY <4>1
      <4> QED
        BY <1>2, <4>1, <4>2, <4>4 DEF StackInv, On
    <3> QED
      BY <3>2, <3>3
  <2> QED
    BY <2>1, <2>2, <2>3 DEF Shift
<1> QED
  BY <1>15, <1>16

\* The top call returns.
LEMMA StackLeaves ==
  ASSUME StackInv, Self # Main, stack' = Below,
         \A c \in Coros : status'[c] = "running" <=> status[c] = "running" /\ c # Self
  PROVE  StackInv' /\ Shift({})
<1>1. PICK s : s = stack'
  OBVIOUS
<1>2. /\ Len(stack) \in Nat \ {0} /\ 1 \in Places
      /\ Below \in Seq(Frames) /\ Len(Below) = Len(stack) - 1
      /\ \A i \in 1 .. Len(stack) - 1 : Below[i] = stack[i + 1]
      /\ Self = stack[1].who /\ Top = stack[1]
  BY StackParts
<1>4. /\ s \in Seq(Frames) /\ Len(s) = Len(stack) - 1 /\ Len(stack) - 1 \in Nat \ {0}
      /\ \A i \in 1 .. Len(stack) - 1 : s[i] = stack[i + 1] /\ i + 1 \in Places
  BY <1>1, <1>2 DEF Places, StackInv
<1>5. Places' = 1 .. Len(stack) - 1 /\ On' = {s[i] : i \in 1 .. Len(stack) - 1}
  BY <1>1, <1>4 DEF Places, On
<1>6. s # << >> /\ s[Len(s)].who = Main
  BY <1>4, EmptySeq, <1>2 DEF StackInv
<1>7. \A i \in 1 .. Len(stack) - 1 : FrameOK(s[i])
  BY <1>4 DEF StackInv
<1>8. \A i, j \in 1 .. Len(stack) - 1 : s[i].who = s[j].who /\ s[i].who # None => i = j
  <2> TAKE i, j \in 1 .. Len(stack) - 1
  <2> HAVE s[i].who = s[j].who /\ s[i].who # None
  <2>1. i + 1 \in Places /\ j + 1 \in Places /\ s[i] = stack[i + 1] /\ s[j] = stack[j + 1]
    BY <1>4
  <2> QED
    BY <1>2, <2>1 DEF StackInv
<1>9. \A f \in On : f # Top => f \in On'
  <2> TAKE f \in On
  <2> HAVE f # Top
  <2>1. PICK i \in 2 .. Len(stack) : f = stack[i]
    BY <1>2 DEF On, Places
  <2>2. i - 1 \in 1 .. Len(stack) - 1 /\ (i - 1) + 1 = i
    BY <1>2, <2>1
  <2> QED
    BY <1>4, <1>5, <2>1, <2>2
<1>10. \A f \in On' : f \in On /\ (Self # None => f.who # Self)
  <2> TAKE f \in On'
  <2>1. PICK i \in 1 .. Len(stack) - 1 : f = s[i]
    BY <1>5
  <2>2. i + 1 # 1 /\ i + 1 \in Places
    BY <2>1, <1>2 DEF Places
  <2>3. f = stack[i + 1]
    BY <1>4, <2>1
  <2> QED
    BY <1>2, <2>2, <2>3 DEF StackInv, On
<1>11. ASSUME NEW c \in Coros PROVE status'[c] = "running" <=> \E f \in On' : f.who = c
  BY <1>2, <1>9, <1>10, ExecutorAssumption DEF StackInv, Coros
<1>12. StackInv'
  <2>1. ASSUME NEW i \in 1 .. Len(stack) - 1 PROVE s[i].call # "final"
    <3>1. i + 1 \in Places /\ i + 1 # 1 /\ s[i] = stack[i + 1]
      BY <1>2, <1>4
    <3> QED
      BY <3>1 DEF StackInv
  <2> QED
    BY <1>1, <1>4, <1>6, <1>7, <1>8, <1>11, <2>1, StackIs
<1> QED
  BY <1>9, <1>10, <1>12 DEF Shift

\* The types of what is kept for each handle.
Types ==
  /\ status \in [Coros -> {"none", "running", "suspended", "final", "freed"}]
  /\ edge \in [Coros -> {"none", "item", "now"}]
  /\ complete \in [Coros -> BOOLEAN] /\ eos \in [Coros -> BOOLEAN]
  /\ item_ready \in [Coros -> BOOLEAN] /\ cancelled \in [Coros -> BOOLEAN]
  /\ continuation \in [Coros -> Coros \cup {None}]
  /\ child \in [Coros -> Coros \cup {None}]
  /\ owner \in [Coros -> Coros \cup {Main, None}]
  /\ yields \in [Coros -> Nat] /\ produced \in [Coros -> Nat] /\ consumed \in [Coros -> Nat]
  /\ fault \in {"none", "resume", "destroy", "assert"}

\* The frames at a `yield;` are those the ring holds.
Waiting(c) == status[c] = "suspended" /\ edge[c] = "now"
QueueInv   == RingInv /\ \A c \in Coros : c \in Listed <=> Waiting(c)

\* A call has handles its caller holds.
Held == \A f \in On : \A k \in DOMAIN f.hs :
          f.hs[k] # None => owner[f.hs[k]] = f.who /\ status[f.hs[k]] # "freed"

\* Exactly the frames that were made have an owner, and only they are cancelled.
Owned == \A c \in Coros : /\ owner[c] = None <=> status[c] = "none"
                          /\ cancelled[c] => status[c] # "none"

\* A promise is complete from the end of the body on.
Completed ==
  /\ \A c \in Coros : complete[c] => \/ status[c] \in {"final", "freed"}
                                     \/ \E f \in On : f.who = c /\ f.call = "final"
  /\ \A c \in Coros : status[c] = "final" => complete[c] /\ eos[c]
  /\ \A f \in On : f.call = "final" => complete[f.who] /\ eos[f.who]

\* Whoever has a child is in a loop that drives it.
ChildrenDriven == \A c \in Coros : child[c] # None => \E f \in On : f.who = c /\ f.call \in Drives

\* Whoever is a continuation is in a call that awaits that handle.
Awaiting(f, c) == f.call \in Awaits /\ \E k \in DOMAIN f.hs : f.hs[k] = c
ContinuationsWait ==
  \A c \in Coros : continuation[c] # None /\ status[c] # "freed" =>
    \E f \in On : f.who = continuation[c] /\ Awaiting(f, c)

\* An item lies ready only where a stream waits at the `yield expr;` that made it.
ItemsWait ==
  \A c \in Coros : item_ready[c] =>
    /\ c \in Streams
    /\ \/ status[c] = "suspended" /\ edge[c] = "item"
       \/ status[c] = "freed"
       \/ \E f \in On : f.who = c /\ f.call = "item"

ItemsCounted ==
  \A c \in Coros : /\ produced[c] = consumed[c] + (IF item_ready[c] THEN 1 ELSE 0)
                   /\ produced[c] <= yields[c] /\ yields[c] <= MaxYields[c]

Inv == /\ Types /\ QueueInv /\ StackInv /\ Held /\ Owned /\ Completed
       /\ ChildrenDriven /\ ContinuationsWait /\ ItemsWait /\ ItemsCounted

-------------------------------------------------------------------------------
(* What a step has to do to keep each part *)

\* Handles are neither main nor nobody.
LEMMA Names ==
  /\ Main \notin Coros /\ None \notin Coros /\ Main # None
  /\ Streams \subseteq Coros /\ Tasks \subseteq Coros /\ Coros = Handles
  BY ExecutorAssumption, CoroutineAssumption DEF Coros, Tasks

\* Any frame of the stack.
LEMMA FrameFacts ==
  ASSUME StackInv, NEW f \in On
  PROVE  /\ f \in Frames /\ FrameOK(f)
         /\ \A k \in DOMAIN f.hs : f.hs[k] \in Coros \cup {None} /\ (f.hs[k] # None => f.who # None)
<1>1. PICK i \in Places : f = stack[i]
  BY DEF On
<1>2. f \in Frames /\ FrameOK(f)
  BY <1>1, ElementOfSeq DEF StackInv, Places
<1> QED
  BY <1>2 DEF Frames, Coros, FrameOK, Waits, Rounds

\* The ring may be left alone, if nobody enters or leaves a `yield;`.
LEMMA QueueRests ==
  ASSUME QueueInv, UNCHANGED ring, \A c \in Coros : Waiting(c)' <=> Waiting(c)
  PROVE  QueueInv'
  BY RingRests DEF QueueInv

\* A handle is withdrawn before its frame goes on.
LEMMA QueueLoses ==
  ASSUME QueueInv, NEW h \in Coros, Remove(h), ~ Waiting(h)',
         \A c \in Coros \ {h} : Waiting(c)' <=> Waiting(c)
  PROVE  QueueInv'
  BY RingLoses DEF QueueInv

\* A call's handles stay its caller's.
LEMMA HeldKeeps ==
  ASSUME StackInv, Held, NEW F, Shift(F),
         \A c \in Coros : owner[c] # None => owner'[c] = owner[c],
         \A c \in Coros : status'[c] = "freed" => status[c] = "freed" \/ (Self # None /\ owner[c] = Self),
         \A f \in F : \A k \in DOMAIN f.hs :
           f.hs[k] # None => owner'[f.hs[k]] = f.who /\ status'[f.hs[k]] # "freed"
  PROVE  Held'
<1> SUFFICES ASSUME NEW f \in On', NEW k \in DOMAIN f.hs, f.hs[k] # None
             PROVE  owner'[f.hs[k]] = f.who /\ status'[f.hs[k]] # "freed"
  BY DEF Held
<1>1. CASE f \in F
  BY <1>1
<1>2. CASE f \in On /\ (Self # None => f.who # Self)
  BY <1>2, FrameFacts DEF Held
<1> QED
  BY <1>1, <1>2 DEF Shift

\* A promise that is complete stays so, its frame on its way to its end.
LEMMA CompletedKeeps ==
  ASSUME StackInv, Completed, NEW F, Shift(F),
         \A c \in Coros : complete[c] => complete'[c],
         \A c \in Coros : eos[c] => eos'[c],
         \A c \in Coros : complete'[c] => complete[c] \/ \E f \in F : f.who = c /\ f.call = "final",
         \A f \in F : f.call = "final" => complete'[f.who] /\ eos'[f.who],
         \A c \in Coros : status[c] \in {"final", "freed"} => status'[c] \in {"final", "freed"},
         \A c \in Coros : status'[c] = "final" => status[c] = "final" \/ (complete'[c] /\ eos'[c]),
         Top.call = "final" => \/ status'[Self] = "final"
                               \/ \E f \in F : f.who = Self /\ f.call = "final"
  PROVE  Completed'
<1>1. ASSUME NEW c \in Coros, complete'[c]
      PROVE  status'[c] \in {"final", "freed"} \/ \E f \in On' : f.who = c /\ f.call = "final"
  <2>1. CASE \E f \in F : f.who = c /\ f.call = "final"
    BY <2>1 DEF Shift
  <2>2. CASE status[c] \in {"final", "freed"}
    BY <2>2
  <2>3. CASE \E f \in On : f.who = c /\ f.call = "final"
    BY <2>3 DEF Shift, Self
  <2> QED
    BY <1>1, <2>1, <2>2, <2>3 DEF Completed
<1>3. ASSUME NEW f \in On', f.call = "final" PROVE complete'[f.who] /\ eos'[f.who]
  <2>1. CASE f \in F
    BY <1>3, <2>1
  <2>2. CASE f \in On
    BY <1>3, <2>2, FrameFacts DEF Completed, FrameOK
  <2> QED
    BY <2>1, <2>2 DEF Shift
<1> QED
  BY <1>1, <1>3 DEF Completed

\* Only the one who runs changes what it is driving.
LEMMA ChildrenKeep ==
  ASSUME StackInv, ChildrenDriven, NEW F, Shift(F),
         \A c \in Coros : c # Self => child'[c] = child[c],
         Self \in Coros /\ child'[Self] # None => \E f \in F : f.who = Self /\ f.call \in Drives
  PROVE  ChildrenDriven'
  BY DEF ChildrenDriven, Shift, Self

\* What the one who runs is driving, its call says.
LEMMA ChildAtTop ==
  ASSUME StackInv, ChildrenDriven, Self \in Coros, child[Self] # None
  PROVE  Top.call \in Drives
  BY OneFrame, Names DEF ChildrenDriven

\* What the one who runs is the continuation of, its call says.
LEMMA ContinuationAtTop ==
  ASSUME StackInv, ContinuationsWait, NEW c \in Coros, status[c] # "freed",
         continuation[c] # None, continuation[c] = Self
  PROVE  Awaiting(Top, c)
  BY OneFrame DEF ContinuationsWait

\* A continuation goes on awaiting.
LEMMA ContinuationsKeep ==
  ASSUME StackInv, ContinuationsWait, NEW F, Shift(F),
         \A c \in Coros : continuation'[c] # None /\ status'[c] # "freed" =>
           \/ /\ continuation'[c] = continuation[c] /\ status[c] # "freed"
              /\ continuation[c] # Self
           \/ \E f \in F : f.who = continuation'[c] /\ Awaiting(f, c)
  PROVE  ContinuationsWait'
<1> SUFFICES ASSUME NEW c \in Coros, continuation'[c] # None, status'[c] # "freed"
             PROVE  \E f \in On' : f.who = continuation'[c] /\ Awaiting(f, c)
  BY DEF ContinuationsWait, Awaiting
<1>1. CASE continuation'[c] = continuation[c] /\ status[c] # "freed" /\ continuation[c] # Self
  <2>1. PICK f \in On : f.who = continuation[c] /\ Awaiting(f, c)
    BY <1>1 DEF ContinuationsWait
  <2> QED
    BY <1>1, <2>1 DEF Shift, Self
<1>2. CASE \E f \in F : f.who = continuation'[c] /\ Awaiting(f, c)
  BY <1>2 DEF Shift
<1> QED
  BY <1>1, <1>2

\* The same where no continuation is set: the one who runs goes on awaiting what it awaits.
LEMMA ContinuationsStay ==
  ASSUME StackInv, ContinuationsWait, NEW F, Shift(F),
         \A c \in Coros : continuation'[c] \in {continuation[c], None},
         \A c \in Coros : status[c] = "freed" => status'[c] = "freed",
         \A c \in Coros : Awaiting(Top, c) /\ status'[c] # "freed" =>
                            \E f \in F : f.who = Self /\ Awaiting(f, c)
  PROVE  ContinuationsWait'
<1> SUFFICES ASSUME NEW c \in Coros, continuation'[c] # None, status'[c] # "freed"
             PROVE  \/ /\ continuation'[c] = continuation[c] /\ status[c] # "freed"
                       /\ continuation[c] # Self
                    \/ \E f \in F : f.who = continuation'[c] /\ Awaiting(f, c)
  BY ContinuationsKeep
<1>1. continuation'[c] = continuation[c] /\ status[c] # "freed"
  OBVIOUS
<1>2. CASE continuation[c] = Self
  BY <1>1, <1>2, ContinuationAtTop
<1> QED
  BY <1>1, <1>2

\* An item that lies ready stays where it is.
LEMMA ItemsKeep ==
  ASSUME StackInv, ItemsWait, NEW F, Shift(F),
         \A c \in Coros : item_ready'[c] =>
           \/ /\ item_ready[c] /\ status'[c] = status[c] /\ (status[c] = "suspended" => edge'[c] = edge[c])
              /\ ~ (Self = c /\ Top.call = "item")
           \/ /\ c \in Streams
              /\ \/ status'[c] = "suspended" /\ edge'[c] = "item"
                 \/ status'[c] = "freed"
                 \/ \E f \in F : f.who = c /\ f.call = "item"
  PROVE  ItemsWait'
<1> SUFFICES ASSUME NEW c \in Coros, item_ready'[c]
             PROVE  /\ c \in Streams
                    /\ \/ status'[c] = "suspended" /\ edge'[c] = "item"
                       \/ status'[c] = "freed"
                       \/ \E f \in On' : f.who = c /\ f.call = "item"
  BY DEF ItemsWait
<1>1. CASE /\ item_ready[c] /\ status'[c] = status[c] /\ (status[c] = "suspended" => edge'[c] = edge[c])
           /\ ~ (Self = c /\ Top.call = "item")
  <2>1. CASE \E f \in On : f.who = c /\ f.call = "item"
    BY <1>1, <2>1 DEF Shift, Self, ItemsWait
  <2> QED
    BY <1>1, <2>1 DEF ItemsWait
<1>2. CASE /\ c \in Streams
           /\ \/ status'[c] = "suspended" /\ edge'[c] = "item"
              \/ status'[c] = "freed"
              \/ \E f \in F : f.who = c /\ f.call = "item"
  BY <1>2 DEF Shift
<1> QED
  BY <1>1, <1>2

\* Whoever runs and is not at its `yield expr;` has no item ready, and is not complete before
\* its end.
LEMMA Running ==
  ASSUME Inv, Self \in Coros
  PROVE  /\ status[Self] = "running"
         /\ Top.call # "item" => ~ item_ready[Self]
         /\ Top.call # "final" => ~ complete[Self]
<1> QED
  BY OneFrame, Names, StackParts DEF Inv, ItemsWait, Completed, StackInv, Self

\* A step that only moves calls, what is driven and what is cancelled: the frames of F take
\* over what the top one had.
GoesOn(F) ==
  /\ UNCHANGED <<complete, eos, item_ready, continuation, owner, items>>
  /\ edge' \in [Coros -> {"none", "item", "now"}]
  /\ \A c \in Coros : status[c] = "suspended" => edge'[c] = edge[c]
  /\ yields' \in [Coros -> Nat]
  /\ \A c \in Coros : yields[c] <= yields'[c] /\ yields'[c] <= MaxYields[c]
  /\ fault' \in {"none", "resume", "destroy", "assert"}
  /\ cancelled' \in [Coros -> BOOLEAN]
  /\ \A c \in Coros : cancelled'[c] => status[c] # "none"
  /\ child' \in [Coros -> Coros \cup {None}]
  /\ \A c \in Coros : c # Self => child'[c] = child[c]
  /\ Self \in Coros /\ child'[Self] # None => \E f \in F : f.who = Self /\ f.call \in Drives
  /\ Top.call \in {"item", "final"} => Top \in F
  /\ \A f \in F : f.call = "final" => f = Top
  /\ \A f \in F : \A k \in DOMAIN f.hs :
       f.hs[k] # None => owner[f.hs[k]] = f.who /\ status'[f.hs[k]] # "freed"
  /\ \A c \in Coros : Awaiting(Top, c) /\ status'[c] # "freed" =>
                        \E f \in F : f.who = Self /\ Awaiting(f, c)

\* How such a step may change what a frame is doing.
StatusGoesOn ==
  /\ status' \in [Coros -> {"none", "running", "suspended", "final", "freed"}]
  /\ \A c \in Coros : /\ status'[c] = "none" <=> status[c] = "none"
                      /\ status[c] = "freed" => status'[c] = "freed"
                      /\ status[c] = "final" => status'[c] \in {"final", "freed"}
                      /\ status'[c] = "final" => status[c] = "final"
                      /\ status'[c] = "freed" => status[c] = "freed" \/ (Self # None /\ owner[c] = Self)
                      /\ item_ready[c] => status'[c] \in {status[c], "freed"}

\* Such a step keeps the invariant.
LEMMA GoesOnKeeps ==
  ASSUME Inv, NEW F, Shift(F), StackInv', QueueInv', GoesOn(F), StatusGoesOn
  PROVE  Inv'
<1> USE DEF Inv
<1>4. Completed'
  <2>1. \A f \in F : f.call = "final" => complete'[f.who] /\ eos'[f.who]
    BY StackParts DEF GoesOn, Completed
  <2> QED
    BY <2>1, CompletedKeeps DEF GoesOn, StatusGoesOn, Self
<1>7. ItemsWait'
  <2>1. ASSUME NEW c \in Coros, item_ready'[c]
        PROVE  \/ /\ item_ready[c] /\ status'[c] = status[c] /\ (status[c] = "suspended" => edge'[c] = edge[c])
                  /\ ~ (Self = c /\ Top.call = "item")
               \/ /\ c \in Streams
                  /\ \/ status'[c] = "suspended" /\ edge'[c] = "item"
                     \/ status'[c] = "freed"
                     \/ \E f \in F : f.who = c /\ f.call = "item"
    <3>1. item_ready[c] /\ c \in Streams
      BY <2>1 DEF GoesOn, ItemsWait
    <3>2. CASE Self = c /\ Top.call = "item"
      BY <3>1, <3>2 DEF GoesOn, Self
    <3>3. CASE ~ (Self = c /\ Top.call = "item")
      BY <3>1, <3>3 DEF GoesOn, StatusGoesOn
    <3> QED
      BY <3>2, <3>3
  <2> QED
    BY <2>1, ItemsKeep
<1>8. ItemsCounted'
  BY CoroutineAssumption DEF GoesOn, ItemsCounted, items, Coros, Types
<1> QED
  BY <1>4, <1>7, <1>8, HeldKeeps, ChildrenKeep, ContinuationsStay DEF GoesOn, StatusGoesOn, Types, items,
     Owned

\* No frame is resumed, suspended or destroyed.
LEMMA CalmKeeps ==
  ASSUME Inv, NEW F, Shift(F), StackInv', QueueInv', GoesOn(F), status' = status
  PROVE  Inv'
<1> QED
  BY GoesOnKeeps DEF StatusGoesOn, Inv, Types

\* A suspended frame without an item is resumed.
LEMMA ResumeKeeps ==
  ASSUME Inv, NEW h \in Coros, status[h] = "suspended", ~ item_ready[h],
         status' = [status EXCEPT ![h] = "running"], QueueInv',
         NEW f \in Frames, FrameOK(f), f.who = Self, f.call # "final",
         stack' = <<Frame(h, "resumed", << >>, 0)>> \o (<<f>> \o Below),
         GoesOn({f, Frame(h, "resumed", << >>, 0)})
  PROVE  Inv'
<1>2. PICK g : g = Frame(h, "resumed", << >>, 0)
  OBVIOUS
<1>3. g \in Frames /\ FrameOK(g) /\ g.who = h
  BY <1>2, Names DEF Frame, Frames, FrameOK, Calls, Callers, Waits, Rounds
<1> QED
  BY <1>2, GoesOnKeeps, <1>3, StackEnters DEF StatusGoesOn, Inv, Types

\* A suspended frame is destroyed by its owner, and withdrawn from the ring.
LEMMA DestroyKeeps ==
  ASSUME Inv, NEW h \in Coros, status[h] \in {"suspended", "final"}, Self # None, owner[h] = Self,
         status' = [status EXCEPT ![h] = "freed"], Remove(h),
         NEW F, Shift(F), StackInv', GoesOn(F)
  PROVE  Inv'
<1> QED
  BY GoesOnKeeps, QueueLoses DEF StatusGoesOn, Inv, Types, Waiting, GoesOn

\* Where the frames are counted as before, nothing has to be said of yields.
LEMMA YieldsStay ==
  ASSUME Inv, yields' = yields
  PROVE  /\ yields' \in [Coros -> Nat]
         /\ \A c \in Coros : yields[c] <= yields'[c] /\ yields'[c] <= MaxYields[c]
  BY DEF Inv, Types, ItemsCounted

\* What the invariant says of the top call.
LEMMA TopFacts ==
  ASSUME Inv
  PROVE  /\ Top \in Frames /\ FrameOK(Top) /\ Top \in On /\ Top.who = Self /\ Self \in Callers
         /\ Top.call # "pump" => Self # None
         /\ \A k \in DOMAIN Top.hs : Top.hs[k] # None =>
              /\ Top.hs[k] \in Coros /\ owner[Top.hs[k]] = Self /\ Self # None
              /\ status[Top.hs[k]] \notin {"none", "freed"}
         /\ Self \in Coros /\ child[Self] # None => Top.call \in Drives
<1> QED
  BY ChildAtTop, FrameFacts, StackParts DEF Inv, Frames, FrameOK, Owned, Held, Self

\* The stack is its top and what is beneath.
LEMMA StackWhole ==
  ASSUME Inv
  PROVE  stack = <<Top>> \o Below
<1>1. PICK s : s = <<Top>> \o Below
  OBVIOUS
<1>2. /\ Len(stack) \in Nat \ {0} /\ Top = stack[1] /\ stack \in Seq(Frames)
      /\ Below \in Seq(Frames) /\ Len(Below) = Len(stack) - 1 /\ Top \in Frames
      /\ \A i \in 1 .. Len(stack) - 1 : Below[i] = stack[i + 1]
  BY StackParts DEF Inv, StackInv
<1>3. /\ s \in Seq(Frames) /\ Len(s) = Len(stack) /\ s[1] = Top
      /\ \A i \in 1 .. Len(stack) - 1 : s[i + 1] = Below[i]
  BY <1>1, <1>2, Pushed
<1>4. ASSUME NEW i \in 1 .. Len(stack) PROVE s[i] = stack[i]
  <2>1. CASE i = 1
    BY <1>2, <1>3, <2>1
  <2>2. CASE i # 1
    <3>1. i - 1 \in 1 .. Len(stack) - 1 /\ (i - 1) + 1 = i
      BY <1>2, <2>2
    <3> QED
      BY <1>2, <1>3, <3>1
  <2> QED
    BY <2>1, <2>2
<1> QED
  BY <1>1, <1>2, <1>3, <1>4, SeqEqual

\* A body's frame.
LEMMA BodyFrame ==
  ASSUME NEW c \in Coros \cup {Main}
  PROVE  /\ InBody(c) \in Frames /\ FrameOK(InBody(c))
         /\ InBody(c).who = c /\ InBody(c).hs = << >> /\ InBody(c).call = "body"
  BY Names DEF InBody, Frame, Frames, FrameOK, Calls, Callers, Waits, Rounds

\* run_pending's frame.
LEMMA PumpFrame ==
  ASSUME NEW n \in Nat
  PROVE  LET f == Frame(None, "pump", << >>, n)
         IN  f \in Frames /\ FrameOK(f) /\ f.who = None /\ f.hs = << >> /\ f.call = "pump"
  BY DEF Frame, Frames, FrameOK, Calls, Callers, Waits, Rounds

\* The top call goes on, and nothing is resumed, suspended or destroyed.
LEMMA MovedKeeps ==
  ASSUME Inv, NEW f \in Frames, FrameOK(f), f.who = Self, Replace(f),
         UNCHANGED <<ring, status>>, GoesOn({f})
  PROVE  Inv'
<1> QED
  BY CalmKeeps, QueueRests, StackMoves DEF Inv, Waiting, GoesOn

\* Not even the stack changes.
LEMMA RestedKeeps ==
  ASSUME Inv, UNCHANGED <<stack, status>>, QueueInv', GoesOn({Top})
  PROVE  Inv'
<1> QED
  BY CalmKeeps, StackRests DEF Inv

\* The top call keeps what it has, but for what it drives and what it cancels.
LEMMA SameGoesOn ==
  ASSUME Inv, NEW f, f.who = Self, f.hs = Top.hs,
         Top.call \in Awaits => f.call \in Awaits,
         Top.call \in {"item", "final"} => f = Top,
         f.call = "final" => f = Top,
         NEW G, \A g \in G : g.hs = << >> /\ g.call # "final",
         UNCHANGED <<edge, complete, eos, item_ready, continuation, owner, yields, items>>,
         fault' \in {"none", "resume", "destroy", "assert"},
         cancelled' \in [Coros -> BOOLEAN],
         \A c \in Coros : cancelled'[c] => cancelled[c] \/ status[c] # "none",
         child' \in [Coros -> Coros \cup {None}],
         \A c \in Coros : c # Self => child'[c] = child[c],
         Self \in Coros /\ child'[Self] # None => f.call \in Drives,
         \A k \in DOMAIN Top.hs : Top.hs[k] # None => status'[Top.hs[k]] # "freed"
  PROVE  GoesOn({f} \cup G)
<1> USE DEF Inv
<1> QED
  BY YieldsStay, TopFacts DEF GoesOn, Types, Awaiting, Owned

\* The same where nothing is driven or cancelled.
LEMMA PlainGoesOn ==
  ASSUME Inv, NEW f, f.who = Self, f.hs = Top.hs,
         Top.call \in Awaits => f.call \in Awaits,
         Top.call \in Drives => f.call \in Drives,
         Top.call \in {"item", "final"} => f = Top,
         f.call = "final" => f = Top,
         NEW G, \A g \in G : g.hs = << >> /\ g.call # "final",
         UNCHANGED <<edge, promise, owner, yields, items>>,
         fault' \in {"none", "resume", "destroy", "assert"},
         \A k \in DOMAIN Top.hs : Top.hs[k] # None => status'[Top.hs[k]] # "freed"
  PROVE  GoesOn({f} \cup G)
<1> QED
  BY SameGoesOn, TopFacts DEF Inv, Types, promise

\* How a call that is done with its handles goes back into the body.
LEMMA ReturnKeeps ==
  ASSUME Inv, Self # None, Return, UNCHANGED <<ring, status, edge, complete, eos, item_ready, cancelled,
                                               continuation, owner, yields, items, fault>>,
         Top.call \notin {"item", "final"},
         child' \in [Coros -> Coros \cup {None}],
         \A c \in Coros : c # Self => child'[c] = child[c],
         Self \in Coros => child'[Self] = None,
         \A c \in Coros : ~ Awaiting(Top, c)
  PROVE  Inv'
<1>1. /\ InBody(Self) \in Frames /\ FrameOK(InBody(Self))
      /\ InBody(Self).who = Self /\ InBody(Self).hs = << >> /\ InBody(Self).call = "body"
  BY TopFacts, BodyFrame DEF Callers
<1>2. GoesOn({InBody(Self)})
  BY <1>1, YieldsStay DEF GoesOn, Inv, Types, Owned, items
<1> QED
  BY <1>1, <1>2, MovedKeeps DEF Return

\* future.wait returns, its task being complete.
LEMMA WaitDoneKeeps ==
  ASSUME Inv, WaitDone
  PROVE  Inv'
<1> QED
  BY ReturnKeeps, TopFacts DEF Inv, Types, Drives, Rounds, Awaiting, Awaits, WaitDone, In, promise

\* Taking the note of a child back.
LEMMA DrivingNone ==
  ASSUME Inv, child' = Driving(None)
  PROVE  /\ child' \in [Coros -> Coros \cup {None}]
         /\ \A c \in Coros : c # Self => child'[c] = child[c]
         /\ Self \in Coros => child'[Self] = None
  BY Names DEF Driving, InCoroutine, Inv, Types

\* A round of await.all or await.any is over.
LEMMA CombineDoneKeeps ==
  ASSUME Inv, CombineDone
  PROVE  Inv'
<1> QED
  BY DrivingNone, ReturnKeeps, TopFacts, Names DEF Awaiting, CombineDone, In, AllNull, Losers

\* run_pending returns when its budget is spent or nothing is queued.
LEMMA PumpReturnKeeps ==
  ASSUME Inv, PumpReturn
  PROVE  Inv'
<1>1. Top.call = "pump" /\ Self = None /\ Top.hs = << >> /\ stack' = Below
      /\ UNCHANGED <<ring, status, edge, promise, owner, yields, items, fault>>
  BY TopFacts DEF PumpReturn, In, Back, FrameOK, Waits, Rounds
<1>4. GoesOn({})
  BY <1>1, Names, YieldsStay DEF GoesOn, Inv, Types, Owned, items, promise, Awaiting
<1> QED
  BY <1>1, <1>4, CalmKeeps, Names, StackLeaves, QueueRests DEF Inv, Waiting

\* await.all goes past a slot it has taken.
LEMMA SkipSlotKeeps ==
  ASSUME Inv, SkipSlot
  PROVE  Inv'
<1>1. PICK f : f = [Top EXCEPT !.n = NextSlot]
  OBVIOUS
<1>2. Top.call = "all" /\ Replace(f)
      /\ UNCHANGED <<ring, status, edge, promise, owner, yields, items, fault>>
  BY <1>1 DEF SkipSlot, In
<1>5. f \in Frames /\ FrameOK(f) /\ f.who = Self /\ f.hs = Top.hs /\ f.call = Top.call
  BY <1>1, LenProperties, <1>2, TopFacts DEF FrameOK, Frames, NextSlot
<1>6. GoesOn({f})
  <2>3. GoesOn({f} \cup {})
    BY <1>2, <1>5, PlainGoesOn, TopFacts DEF Inv, Types
  <2> QED
    BY <2>3
<1> QED
  BY <1>2, <1>5, <1>6, MovedKeeps

\* The slots of a round.
LEMMA TopSlots ==
  ASSUME Inv, Top.call \in {"all", "any", "post"}
  PROVE  /\ Top.hs \in Seq(Handles \cup {None}) /\ Top.n \in DOMAIN Top.hs /\ Top.n \in Nat
         /\ NextSlot \in DOMAIN Top.hs /\ NextSlot \in Nat
         /\ Slot = Top.hs[Top.n] /\ Slot \in Tasks \cup {None}
<1> QED
  BY LenProperties, TopFacts DEF Slot, NextSlot, FrameOK, Rounds, Frames

\* A frame that differs from the top one in what it is doing and where.
LEMMA ChangedFrame ==
  ASSUME Inv, NEW what \in Calls, NEW n \in Nat
  PROVE  LET f == [Top EXCEPT !.call = what, !.n = n]
         IN  f \in Frames /\ f.who = Self /\ f.hs = Top.hs /\ f.call = what /\ f.n = n
  BY TopFacts DEF Frames

\* await.any goes to its next slot.
LEMMA PostSlotKeeps ==
  ASSUME Inv, PostSlot
  PROVE  Inv'
<1>1. PICK f : f = [Top EXCEPT !.call = "any", !.n = NextSlot]
  OBVIOUS
<1>2. Top.call = "post" /\ Replace(f)
      /\ UNCHANGED <<ring, status, edge, promise, owner, yields, items, fault>>
  BY <1>1 DEF PostSlot, In
<1>3. f \in Frames /\ f.who = Self /\ f.hs = Top.hs /\ f.call = "any" /\ f.n = NextSlot
  BY <1>1, <1>2, TopSlots, ChangedFrame DEF Calls
<1>5. GoesOn({f})
  <2>3. GoesOn({f} \cup {})
    BY <1>2, <1>3, PlainGoesOn, TopFacts DEF Drives, Awaits, Rounds, Inv, Types
  <2> QED
    BY <2>3
<1> QED
  BY <1>2, <1>3, <1>5, MovedKeeps, TopFacts, TopSlots, Names DEF FrameOK, Waits, Rounds

\* The frame of a coroutine that has been resumed.
Resumed(h) == Frame(h, "resumed", << >>, 0)

\* h is withdrawn from the ring and resumed by the top call, which goes on as f.
LEMMA TargetKeeps ==
  ASSUME Inv, NEW h \in Coros, ~ item_ready[h], Remove(h),
         NEW f \in Frames, FrameOK(f), f.who = Self, f.hs = Top.hs,
         Top.call \notin {"item", "final"}, f.call \notin {"item", "final"},
         Top.call \in Awaits => f.call \in Awaits,
         ResumeFrom(<<f>> \o Below, h),
         UNCHANGED <<edge, complete, eos, item_ready, continuation, owner, yields, items>>,
         cancelled' \in [Coros -> BOOLEAN],
         \A c \in Coros : cancelled'[c] => cancelled[c] \/ status[c] # "none",
         child' \in [Coros -> Coros \cup {None}],
         \A c \in Coros : c # Self => child'[c] = child[c],
         Self \in Coros /\ child'[Self] # None => f.call \in Drives /\ Top.call \in Drives
  PROVE  Inv'
<1> USE DEF Inv
<1>1. CASE status[h] = "suspended" /\ stack' = <<Resumed(h)>> \o (<<f>> \o Below)
           /\ status' = [status EXCEPT ![h] = "running"] /\ UNCHANGED fault
  <2>3. GoesOn({f, Resumed(h)})
    <3>1. Resumed(h).hs = << >> /\ Resumed(h).call = "resumed"
      BY DEF Resumed, Frame
    <3>4. GoesOn({f} \cup {Resumed(h)})
      BY <3>1, SameGoesOn, <1>1, TopFacts DEF Types
    <3> QED
      BY <3>4
  <2> QED
    BY <1>1, <2>3, ResumeKeeps, QueueLoses DEF Resumed, Waiting, Types
<1>2. CASE status[h] # "suspended" /\ UNCHANGED <<stack, status>> /\ fault' = "resume"
  <2>3. GoesOn({Top})
    <3>2. GoesOn({Top} \cup {})
      BY <1>2, SameGoesOn, TopFacts
    <3> QED
      BY <3>2
  <2> QED
    BY <1>2, <2>3, RestedKeeps, QueueLoses DEF Waiting
<1> QED
  BY <1>1, <1>2 DEF ResumeFrom, Resumed

\* run_pending is called by the top call, which goes on as f.
LEMMA PumpKeeps ==
  ASSUME Inv, NEW f \in Frames, FrameOK(f), f.who = Self, f.hs = Top.hs,
         Top.call \notin {"item", "final"}, f.call \notin {"item", "final"},
         Top.call \in Awaits => f.call \in Awaits,
         Pump(<<f>> \o Below),
         UNCHANGED <<edge, complete, eos, item_ready, cancelled, continuation, owner, yields, items>>,
         child' \in [Coros -> Coros \cup {None}],
         \A c \in Coros : c # Self => child'[c] = child[c],
         Self \in Coros /\ child'[Self] # None => f.call \in Drives
  PROVE  Inv'
<1> USE DEF Inv
<1>1. PICK g : g = Frame(None, "pump", << >>, count)
  OBVIOUS
<1>2. g \in Frames /\ FrameOK(g) /\ g.who = None /\ g.hs = << >> /\ g.call = "pump"
  BY <1>1, PumpFrame, QueuedSeq DEF QueueInv, RingInv
<1>3. stack' = <<g>> \o (<<f>> \o Below) /\ UNCHANGED <<ring, status, fault>>
  BY <1>1 DEF Pump
<1>6. GoesOn({f, g})
  <2>3. GoesOn({f} \cup {g})
    BY <1>2, SameGoesOn, <1>3, TopFacts DEF Types
  <2> QED
    BY <2>3
<1> QED
  BY <1>3, <1>6, CalmKeeps, <1>2, Names, StackEnters, QueueRests DEF Waiting

\* What a drive loop waits for.
LEMMA TopTarget ==
  ASSUME Inv, Top.call \in Waits
  PROVE  /\ 1 \in DOMAIN Top.hs /\ DOMAIN Top.hs = {1} /\ Target = Top.hs[1] /\ Target \in Coros
         /\ owner[Target] = Self /\ status[Target] \notin {"none", "freed"}
         /\ Target \in (IF Top.call = "next" THEN Streams ELSE Tasks)
         /\ Self # None
<1> QED
  BY TopFacts, LenProperties, Names DEF Target, Frames, FrameOK

\* A turn of a loop that drives one handle.
LEMMA DriveOnKeeps ==
  ASSUME Inv, DriveOn
  PROVE  Inv'
<1>1. /\ Top.call \in Waits /\ ~ Arrived(Target)
      /\ UNCHANGED <<edge, promise, owner, yields, items>>
  BY DEF DriveOn, In, Waits
<1>2. stack = <<Top>> \o Below /\ Top \in Frames /\ FrameOK(Top) /\ Top.who = Self
  BY StackWhole, TopFacts
<1>4. /\ UNCHANGED <<complete, eos, item_ready, cancelled, continuation, child>>
      /\ child' \in [Coros -> Coros \cup {None}] /\ cancelled' \in [Coros -> BOOLEAN]
  BY <1>1 DEF promise, Inv, Types
<1>5. Self \in Coros /\ child'[Self] # None => Top.call \in Drives
  BY <1>4, TopFacts
<1>6. Top.call \notin {"item", "final"}
  BY <1>1 DEF Waits
<1>7. ~ item_ready[Target]
  <2>1. CASE Top.call = "next"
    BY <1>1, <2>1 DEF Arrived, In
  <2>2. CASE Top.call # "next"
    BY <1>1, <2>2, TopTarget DEF Inv, ItemsWait, Tasks
  <2> QED
    BY <2>1, <2>2
<1>8. CASE Pump(<<Top>> \o Below)
  BY <1>1, <1>2, <1>4, <1>5, <1>6, <1>8, PumpKeeps
<1>9. CASE ResumeTarget(<<Top>> \o Below, Target)
  BY <1>1, <1>2, <1>4, <1>5, <1>6, <1>7, <1>9, TargetKeeps, TopTarget DEF ResumeTarget
<1> QED
  BY <1>8, <1>9, <1>2 DEF DriveOn

\* Noting what the top call drives.
LEMMA DrivingOne ==
  ASSUME Inv, NEW h \in Coros, child' = Driving(h)
  PROVE  /\ child' \in [Coros -> Coros \cup {None}]
         /\ \A c \in Coros : c # Self => child'[c] = child[c]
  BY Names DEF Driving, InCoroutine, Inv, Types

\* A turn of a round, for the task of its slot.
LEMMA StepSlotKeeps ==
  ASSUME Inv, StepSlot
  PROVE  Inv'
<1>1. PICK f : f = [Top EXCEPT !.n    = IF In("all") THEN NextSlot ELSE @,
                               !.call = IF In("all") THEN "all" ELSE "post"]
  OBVIOUS
<1>2. /\ Top.call \in {"all", "any"} /\ Slot # None /\ child' = Driving(Slot)
      /\ Pump(<<f>> \o Below) \/ ResumeTarget(<<f>> \o Below, Slot)
      /\ UNCHANGED <<edge, complete, eos, item_ready, cancelled, continuation, owner, yields, items>>
  BY <1>1 DEF StepSlot, In
<1>3. /\ Top.n \in DOMAIN Top.hs /\ Top.n \in Nat /\ NextSlot \in DOMAIN Top.hs /\ NextSlot \in Nat
      /\ Slot \in Tasks /\ Slot \in Coros
  BY <1>2, TopSlots, Names
<1>4. /\ f \in Frames /\ f.who = Self /\ f.hs = Top.hs /\ f.n \in DOMAIN f.hs
      /\ f.call = IF Top.call = "all" THEN "all" ELSE "post"
  <2>1. CASE Top.call = "all"
    <3>1. f = [Top EXCEPT !.call = "all", !.n = NextSlot]
      BY <1>1, <2>1, TopFacts DEF In, Frames
    <3>2. f \in Frames /\ f.who = Self /\ f.hs = Top.hs /\ f.call = "all" /\ f.n = NextSlot
      BY <1>3, <3>1, ChangedFrame DEF Calls
    <3> QED
      BY <1>3, <2>1, <3>2
  <2>2. CASE Top.call # "all"
    <3>1. f = [Top EXCEPT !.call = "post", !.n = Top.n]
      BY <1>1, <2>2, TopFacts DEF In, Frames
    <3>2. f \in Frames /\ f.who = Self /\ f.hs = Top.hs /\ f.call = "post" /\ f.n = Top.n
      BY <1>3, <3>1, ChangedFrame DEF Calls
    <3> QED
      BY <1>3, <2>2, <3>2
  <2> QED
    BY <2>1, <2>2
<1>5. FrameOK(f)
  BY <1>2, <1>4, TopFacts DEF FrameOK, Waits, Rounds
<1>7. /\ child' \in [Coros -> Coros \cup {None}]
      /\ \A c \in Coros : c # Self => child'[c] = child[c]
      /\ cancelled' \in [Coros -> BOOLEAN]
  BY <1>2, <1>3, DrivingOne DEF Inv, Types
<1>8. /\ Top.call \notin {"item", "final"} /\ f.call \notin {"item", "final"}
      /\ Top.call \in Drives /\ f.call \in Drives /\ f.call \in Awaits
  BY <1>2, <1>4 DEF Drives, Awaits, Rounds
<1>9. CASE Pump(<<f>> \o Below)
  BY <1>2, <1>4, <1>5, <1>7, <1>8, <1>9, PumpKeeps
<1>10. CASE ResumeTarget(<<f>> \o Below, Slot)
  BY <1>2, <1>3, <1>4, <1>5, <1>7, <1>8, <1>10, TargetKeeps DEF ResumeTarget, Inv, ItemsWait, Tasks
<1> QED
  BY <1>2, <1>9, <1>10

\* run_pending resumes the oldest handle.
LEMMA PumpResumeKeeps ==
  ASSUME Inv, PumpResume
  PROVE  Inv'
<1> USE DEF Inv
<1>1. PICK f : f = [Top EXCEPT !.n = @ - 1]
  OBVIOUS
<1>2. /\ Top.call = "pump" /\ Top.n # 0 /\ Pending /\ TakeNext
      /\ ResumeFrom(<<f>> \o Below, Oldest)
      /\ UNCHANGED <<edge, promise, owner, yields, items>>
  BY <1>1 DEF PumpResume, In
<1>3. PICK h \in Coros : h = Oldest /\ h \in Listed /\ RingInv' /\ Listed' = Listed \ {h}
  BY <1>2, RingTakes DEF QueueInv, Coros
<1>4. status[h] = "suspended" /\ edge[h] = "now"
  BY <1>3 DEF QueueInv, Waiting
<1>6. /\ status' = [status EXCEPT ![h] = "running"] /\ UNCHANGED fault
      /\ stack' = <<Resumed(h)>> \o (<<f>> \o Below)
  BY <1>2, <1>3, <1>4 DEF ResumeFrom, Resumed
<1>7. f \in Frames /\ f.who = Self /\ f.hs = Top.hs /\ f.call = "pump" /\ FrameOK(f)
  BY <1>2, TopFacts, <1>1 DEF FrameOK, Waits, Rounds, Frames
<1>8. QueueInv'
  BY <1>3, <1>2, <1>6 DEF QueueInv, Waiting, Types
<1>9. GoesOn({f, Resumed(h)})
  <2>1. Resumed(h).hs = << >> /\ Resumed(h).call = "resumed"
    BY DEF Resumed, Frame
  <2>4. GoesOn({f} \cup {Resumed(h)})
    BY <1>2, <1>7, <2>1, PlainGoesOn, <1>6, TopFacts DEF Types
  <2> QED
    BY <2>4
<1> QED
  BY <1>4, <1>6, <1>7, <1>8, <1>9, ResumeKeeps DEF Resumed, ItemsWait, StackInv

\* A loser of await.any is one of its handles.
LEMMA LoserFacts ==
  ASSUME Inv, Top.call = "lose", Losers # {}
  PROVE  /\ FirstLoser \in Tasks /\ FirstLoser \in Coros /\ FirstLoser # None
         /\ \E k \in DOMAIN Top.hs : Top.hs[k] = FirstLoser
         /\ owner[FirstLoser] = Self /\ status[FirstLoser] \notin {"none", "freed"} /\ Self # None
<1>1. Top \in Frames /\ FrameOK(Top)
  BY TopFacts
<1>3. \E i \in Losers : \A j \in Losers : i <= j
  <2>1. Losers \in SUBSET Nat
    BY <1>1, LenProperties DEF Losers, Frames
  <2> QED
    BY <2>1, LeastOf
<1>4. PICK i \in Losers : FirstLoser = Top.hs[i]
  BY <1>3 DEF FirstLoser
<1> QED
  BY <1>4, Names, TopFacts, <1>1 DEF FrameOK, Rounds, Losers

\* A loser of await.any is cancelled, and resumed to its end.
LEMMA CancelLoserKeeps ==
  ASSUME Inv, CancelLoser
  PROVE  Inv'
<1>1. /\ Top.call = "lose" /\ Losers # {}
      /\ cancelled' = [cancelled EXCEPT ![FirstLoser] = TRUE]
      /\ ResumeTarget(<<Top>> \o Below, FirstLoser)
      /\ UNCHANGED <<edge, complete, eos, item_ready, continuation, child, owner, yields, items>>
  BY StackWhole DEF CancelLoser, In
<1> QED
  BY <1>1, TargetKeeps, TopFacts, LoserFacts DEF ResumeTarget, Inv, Types, ItemsWait, Tasks, Drives, Rounds

\* An awaiter runs: who is to wake it resumes a coroutine that is not suspended.
LEMMA WakeAwaiterKeeps ==
  ASSUME Inv, WakeAwaiter
  PROVE  Inv'
<1> USE DEF Inv
<1>1. /\ Top.call \in {"item", "final"} /\ continuation[Self] # None
      /\ Remove(continuation[Self]) /\ Self \in Coros
      /\ UNCHANGED <<edge, promise, owner, yields, items>>
  BY TopFacts DEF WakeAwaiter, In, FrameOK
<1>2. PICK c \in Coros : c = continuation[Self]
  BY <1>1 DEF Types
<1>3. status[c] = "running"
  BY <1>1, <1>2, Running DEF StackInv, ContinuationsWait
<1>4. UNCHANGED <<stack, status>> /\ fault' = "resume"
  BY <1>2, <1>3 DEF WakeAwaiter, ResumeFrom
<1>6. GoesOn({Top})
  <2>2. GoesOn({Top} \cup {})
    BY <1>1, <1>4, PlainGoesOn, TopFacts
  <2> QED
    BY <2>2
<1> QED
  BY <1>4, <1>6, RestedKeeps, <1>1, <1>2, QueueLoses, <1>3 DEF Waiting

\* stream.cancel and task.cancel only set a flag.
LEMMA CancelKeeps ==
  ASSUME Inv, NEW h \in Coros, Cancel(h)
  PROVE  Inv'
<1> USE DEF Inv
<1>1. /\ Top.call = "body" /\ owner[h] = Self
      /\ cancelled' = [cancelled EXCEPT ![h] = TRUE]
      /\ UNCHANGED <<ring, stack, status, edge, complete, eos, item_ready, continuation, child, owner, yields, items, fault>>
  BY DEF Cancel, May, In, Holds
<1>4. GoesOn({Top})
  <2>4. GoesOn({Top} \cup {})
    BY <1>1, SameGoesOn, TopFacts DEF Types, Owned
  <2> QED
    BY <2>4
<1> QED
  BY <1>1, <1>4, RestedKeeps, QueueRests DEF Waiting

\* stream.drop withdraws the handle and destroys the frame.
LEMMA StreamDropKeeps ==
  ASSUME Inv, NEW h \in Coros, StreamDrop(h)
  PROVE  Inv'
<1> USE DEF Inv
<1>1. /\ Top.call = "body" /\ owner[h] = Self /\ Remove(h) /\ Destroy(h)
      /\ UNCHANGED <<stack, edge, promise, owner, yields, items>>
  BY DEF StreamDrop, May, In, Holds
<1>2. Top.hs = << >> /\ Self # None
  BY <1>1, TopFacts DEF FrameOK, Waits, Rounds
<1>3. fault' \in {"none", "resume", "destroy", "assert"} => GoesOn({Top})
  <2> HAVE fault' \in {"none", "resume", "destroy", "assert"}
  <2>0. \A k \in DOMAIN Top.hs : Top.hs[k] # None => status'[Top.hs[k]] # "freed"
    BY <1>2
  <2> QED
    BY <1>1, <1>2, <2>0, PlainGoesOn, TopFacts
<1>4. CASE status[h] \in {"suspended", "final"}
  BY <1>1, <1>2, <1>4, DestroyKeeps, StackRests, <1>3 DEF Types, Destroy
<1>5. CASE status[h] \notin {"suspended", "final"}
  BY <1>1, <1>3, RestedKeeps, QueueLoses, <1>5 DEF Waiting, Destroy
<1> QED
  BY <1>4, <1>5

\* Who is complete, and not just ending, waits to be destroyed.
LEMMA CompleteIsFinal ==
  ASSUME Inv, NEW c \in Coros, complete[c], status[c] # "freed", Top.call # "final"
  PROVE  status[c] = "final"
<1> QED
  BY StackParts DEF Inv, Completed, StackInv, On

\* The top call destroys h and goes on as f.
LEMMA TakenKeeps ==
  ASSUME Inv, NEW h \in Coros, complete[h], status[h] # "freed", owner[h] = Self, Self # None,
         Top.call \notin {"item", "final"}, Remove(h), Destroy(h),
         NEW f \in Frames, FrameOK(f), f.who = Self, Replace(f),
         status' = [status EXCEPT ![h] = "freed"] /\ UNCHANGED fault => GoesOn({f})
  PROVE  Inv'
<1> QED
  BY DestroyKeeps, StackMoves, CompleteIsFinal DEF Inv, Types, Destroy

\* await and future.drop destroy a task that is complete.
LEMMA TaskDoneKeeps ==
  ASSUME Inv, TaskDone
  PROVE  Inv'
<1> USE DEF Inv
<1>1. /\ Top.call \in {"await", "drop"} /\ complete[Target] /\ Remove(Target) /\ Destroy(Target)
      /\ Replace(InBody(Self)) /\ child' = (IF In("await") THEN Driving(None) ELSE child)
      /\ UNCHANGED <<edge, complete, eos, item_ready, cancelled, continuation, owner, yields, items>>
  BY DEF TaskDone, In, Arrived, Return
<1>2. /\ Target \in Coros /\ owner[Target] = Self /\ status[Target] # "freed" /\ Self # None
      /\ Target = Top.hs[1] /\ DOMAIN Top.hs = {1}
  BY <1>1, TopTarget DEF Waits
<1>3. /\ InBody(Self) \in Frames /\ FrameOK(InBody(Self))
      /\ InBody(Self).who = Self /\ InBody(Self).hs = << >> /\ InBody(Self).call = "body"
  BY <1>2, TopFacts, BodyFrame DEF Callers
<1>4. /\ child' \in [Coros -> Coros \cup {None}]
      /\ \A c \in Coros : c # Self => child'[c] = child[c]
      /\ Self \in Coros => child'[Self] = None
  <2>1. CASE Top.call = "await"
    BY <1>1, <2>1, DrivingNone DEF In
  <2>2. CASE Top.call = "drop"
    BY <1>1, <2>2, TopFacts DEF In, Drives, Rounds, Types
  <2> QED
    BY <1>1, <2>1, <2>2
<1>5. ASSUME status' = [status EXCEPT ![Target] = "freed"], UNCHANGED fault
      PROVE  GoesOn({InBody(Self)})
  BY <1>1, <1>3, <1>4, <1>5, YieldsStay, <1>2 DEF GoesOn, Types, Owned, items, Awaiting
<1> QED
  BY <1>1, <1>2, <1>3, <1>5, TakenKeeps

\* A round takes the result of its slot, destroys the task and clears the slot.
LEMMA TakeSlotKeeps ==
  ASSUME Inv, TakeSlot
  PROVE  Inv'
<1> USE DEF Inv
<1>1. PICK hs : hs = [Top.hs EXCEPT ![Top.n] = None]
  OBVIOUS
<1>2. PICK f : f = IF In("all") THEN [Cleared EXCEPT !.n = NextSlot] ELSE [Cleared EXCEPT !.call = "lose"]
  OBVIOUS
<1>3. /\ Top.call \in {"all", "any", "post"} /\ Slot # None /\ complete[Slot]
      /\ Remove(Slot) /\ Destroy(Slot) /\ Replace(f)
      /\ UNCHANGED <<edge, promise, owner, yields, items>>
  BY <1>2 DEF TakeSlot, In
<1>4. /\ Top.hs \in Seq(Handles \cup {None}) /\ Top.n \in DOMAIN Top.hs /\ Top.n \in Nat
      /\ NextSlot \in DOMAIN Top.hs /\ NextSlot \in Nat
      /\ Slot = Top.hs[Top.n] /\ Slot \in Tasks /\ Slot \in Coros
      /\ owner[Slot] = Self /\ status[Slot] # "freed" /\ Self # None
  BY <1>3, TopSlots, TopFacts, Names
<1>5. /\ hs \in Seq(Handles \cup {None}) /\ DOMAIN hs = DOMAIN Top.hs
      /\ hs[Top.n] = None /\ \A k \in DOMAIN hs : k # Top.n => hs[k] = Top.hs[k]
  BY <1>1, <1>4, ExceptSeq
<1>6. Top \in Frames /\ FrameOK(Top) /\ Top.who = Self
  BY TopFacts
<1>7. /\ f \in Frames /\ f.who = Self /\ f.hs = hs
      /\ f.call = (IF Top.call = "all" THEN "all" ELSE "lose")
      /\ f.call = "all" => f.n \in DOMAIN hs
  BY <1>2, <1>4, <1>5, <1>6, <1>1 DEF Frames, In, Cleared, Calls
<1>8. \A k, l \in DOMAIN Top.hs : Top.hs[k] = Top.hs[l] /\ Top.hs[k] # None => k = l
  BY <1>6 DEF FrameOK
<1>9. FrameOK(f)
  <2>2. \A k, l \in DOMAIN hs : hs[k] = hs[l] /\ hs[k] # None => k = l
    BY <1>5, <1>8
  <2> QED
    BY <1>4, <1>7, <2>2, <1>3, <1>5, <1>6 DEF FrameOK, Waits, Rounds
<1>10. ASSUME status' = [status EXCEPT ![Slot] = "freed"], UNCHANGED fault
       PROVE  GoesOn({f})
  <2>1. \A k \in DOMAIN f.hs : f.hs[k] # None => owner[f.hs[k]] = f.who /\ status'[f.hs[k]] # "freed"
    <3> SUFFICES ASSUME NEW k \in DOMAIN hs, hs[k] # None
                 PROVE  owner[hs[k]] = Self /\ status'[hs[k]] # "freed"
      BY <1>7
    <3> QED
      BY <1>5, <1>10, TopFacts, <1>4, <1>8 DEF Types
  <2>2. ASSUME NEW c \in Coros, Awaiting(Top, c), status'[c] # "freed" PROVE Awaiting(f, c)
    <3>1. PICK k \in DOMAIN Top.hs : Top.hs[k] = c
      BY <2>2 DEF Awaiting
    <3> QED
      BY <1>5, <1>7, <3>1, <1>4, <1>10, <2>2 DEF Awaiting, Awaits, Rounds, Types
  <2> QED
    BY <1>3, <1>7, <1>10, <2>1, <2>2, YieldsStay DEF GoesOn, Types, Owned, promise, Drives, Rounds
<1> QED
  BY <1>3, <1>4, <1>7, <1>9, <1>10, TakenKeeps

\* A loser that is complete is destroyed, and its slot cleared.
LEMMA DropLoserKeeps ==
  ASSUME Inv, DropLoser
  PROVE  Inv'
<1> USE DEF Inv
<1>0. PICK h : h = FirstLoser
  OBVIOUS
<1>1. PICK hs : hs = [i \in DOMAIN Top.hs |-> IF Top.hs[i] = h THEN None ELSE Top.hs[i]]
  OBVIOUS
<1>2. PICK f : f = [Top EXCEPT !.hs = hs]
  OBVIOUS
<1>3. /\ Top.call = "lose" /\ Losers # {} /\ complete[h]
      /\ Remove(h) /\ Destroy(h)
      /\ cancelled' = [cancelled EXCEPT ![h] = TRUE]
      /\ UNCHANGED <<edge, complete, eos, item_ready, continuation, child, owner, yields, items>>
  BY <1>0 DEF DropLoser, In
<1>4. /\ h \in Tasks /\ h \in Coros /\ h # None
      /\ owner[h] = Self /\ status[h] \notin {"none", "freed"} /\ Self # None
  BY <1>0, <1>3, LoserFacts
<1>5. Top \in Frames /\ FrameOK(Top) /\ Top.who = Self /\ Top.hs \in Seq(Handles \cup {None})
  BY TopFacts DEF Frames
<1>6. Replace(f)
  BY <1>0, <1>1, <1>2, <1>5 DEF DropLoser, Frames
<1>7. /\ hs \in Seq(Handles \cup {None}) /\ DOMAIN hs = DOMAIN Top.hs
      /\ \A k \in DOMAIN hs : hs[k] = IF Top.hs[k] = h THEN None ELSE Top.hs[k]
  BY <1>1, SeqDef, <1>5, LenProperties
<1>8. f \in Frames /\ f.who = Self /\ f.hs = hs /\ f.call = "lose"
  BY <1>2, <1>3, <1>5, <1>7 DEF Frames
<1>9. FrameOK(f)
  BY <1>4, <1>8, <1>3, <1>5, <1>7 DEF FrameOK, Waits, Rounds
<1>10. ASSUME status' = [status EXCEPT ![h] = "freed"], UNCHANGED fault
       PROVE  GoesOn({f})
  <2>1. \A k \in DOMAIN f.hs : f.hs[k] # None => owner[f.hs[k]] = f.who /\ status'[f.hs[k]] # "freed"
    <3> SUFFICES ASSUME NEW k \in DOMAIN hs, hs[k] # None
                 PROVE  owner[hs[k]] = Self /\ status'[hs[k]] # "freed"
      BY <1>8
    <3> QED
      BY <1>7, <1>10, TopFacts DEF Types
  <2>2. ASSUME NEW c \in Coros, Awaiting(Top, c), status'[c] # "freed" PROVE Awaiting(f, c)
    <3>1. PICK k \in DOMAIN Top.hs : Top.hs[k] = c
      BY <2>2 DEF Awaiting
    <3> QED
      BY <1>7, <1>8, <3>1, <1>4, <1>10, <2>2 DEF Awaiting, Awaits, Rounds, Types
  <2> QED
    BY <1>3, <1>8, <1>10, <2>1, <2>2, YieldsStay, <1>4 DEF GoesOn, Types, Owned, Drives, Rounds
<1> QED
  BY <1>3, <1>4, <1>6, <1>8, <1>9, <1>10, TakenKeeps

\* Whoever is in a body that is not main's is a running coroutine that drives nothing.
LEMMA AtBody ==
  ASSUME Inv, Top.call = "body", Self # Main
  PROVE  /\ Self \in Coros /\ status[Self] = "running"
         /\ ~ item_ready[Self] /\ ~ complete[Self] /\ child[Self] = None
<1> QED
  BY Running, TopFacts DEF Drives, Rounds, Callers

\* A `yield;` counted, within its bound.
LEMMA YieldCounted ==
  ASSUME Inv, NEW c \in Coros, c \in Forever \/ yields[c] < MaxYields[c],
         yields' = IF c \in Forever THEN yields ELSE [yields EXCEPT ![c] = @ + 1]
  PROVE  /\ yields' \in [Coros -> Nat]
         /\ \A d \in Coros : yields[d] <= yields'[d] /\ yields'[d] <= MaxYields[d]
<1>1. MaxYields \in [Coros -> Nat] /\ yields \in [Coros -> Nat] /\ \A d \in Coros : yields[d] <= MaxYields[d]
  BY CoroutineAssumption DEF Coros, Inv, Types, ItemsCounted
<1>2. CASE c \in Forever
  BY <1>1, <1>2
<1>3. CASE c \notin Forever
  <2>1. yields[c] + 1 \in Nat /\ yields[c] + 1 <= MaxYields[c]
    BY <1>1, <1>3
  <2>2. yields' \in [Coros -> Nat] /\ yields' = [yields EXCEPT ![c] = yields[c] + 1]
    BY <1>1, <1>3, <2>1
  <2>3. ASSUME NEW d \in Coros PROVE yields[d] <= yields'[d] /\ yields'[d] <= MaxYields[d]
    <3>1. CASE d = c
      BY <1>1, <2>1, <2>2, <3>1
    <3>2. CASE d # c
      BY <1>1, <2>2, <3>2
    <3> QED
      BY <3>1, <3>2
  <2> QED
    BY <2>2, <2>3
<1> QED
  BY <1>2, <1>3

\* `yield;` puts a coroutine that runs, so is not queued yet, into the ring.
LEMMA YieldNowKeeps ==
  ASSUME Inv, YieldNow
  PROVE  Inv'
<1> USE DEF Inv
<1>1. /\ Top.call = "body" /\ Self # Main
      /\ Self \in Forever \/ yields[Self] < MaxYields[Self]
      /\ yields' = IF Self \in Forever THEN yields ELSE [yields EXCEPT ![Self] = @ + 1]
      /\ UNCHANGED <<promise, owner, items>>
  BY DEF YieldNow, May, In, InCoroutine
<1>2. /\ Self \in Coros /\ status[Self] = "running"
      /\ ~ item_ready[Self] /\ ~ complete[Self] /\ child[Self] = None
  BY <1>1, AtBody
<1>3. /\ yields' \in [Coros -> Nat]
      /\ \A d \in Coros : yields[d] <= yields'[d] /\ yields'[d] <= MaxYields[d]
  BY <1>1, <1>2, YieldCounted
<1>4. /\ UNCHANGED <<complete, eos, item_ready, continuation, owner, items>>
      /\ child' = child /\ cancelled' = cancelled
      /\ child' \in [Coros -> Coros \cup {None}] /\ cancelled' \in [Coros -> BOOLEAN]
      /\ \A c \in Coros : cancelled'[c] => status[c] # "none"
      /\ \A c \in Coros : ~ Awaiting(Top, c)
  BY <1>1 DEF promise, Types, Owned, Awaiting, Awaits, Rounds
<1>5. CASE /\ HasRoom /\ Enqueue(Self)
           /\ status' = [status EXCEPT ![Self] = "suspended"]
           /\ edge' = [edge EXCEPT ![Self] = "now"]
           /\ Back(Below) /\ UNCHANGED fault
  <2>2. QueueInv'
    BY <1>2, <1>5, RingGains DEF QueueInv, Waiting, Types, Coros
  <2> QED
    BY <2>2, GoesOnKeeps, <1>2, <1>5, <1>1, StackLeaves, <1>3, <1>4 DEF StatusGoesOn, Types, Back, GoesOn
<1>6. CASE ~ HasRoom /\ fault' = "assert" /\ UNCHANGED <<ring, status, edge, stack>>
  BY <1>6, RestedKeeps, QueueRests, <1>1, <1>2, <1>3, <1>4, TopFacts DEF Waiting, GoesOn, Types
<1> QED
  BY <1>5, <1>6 DEF YieldNow

\* The resume edge of a coroutine that is not cancelled.
LEMMA ResumeEdgeLiveKeeps ==
  ASSUME Inv, ResumeEdgeLive
  PROVE  Inv'
<1> USE DEF Inv
<1>1. /\ Top.call = "resumed"
      /\ item_ready' = (IF edge[Self] = "item" THEN [item_ready EXCEPT ![Self] = FALSE] ELSE item_ready)
      /\ edge' = [edge EXCEPT ![Self] = "none"]
      /\ Replace(InBody(Self))
      /\ UNCHANGED <<ring, status, complete, eos, cancelled, continuation, child, owner, yields, items, fault>>
  BY DEF ResumeEdgeLive, In, Return
<1>2. Self \in Coros
  BY <1>1, TopFacts DEF FrameOK
<1>3. status[Self] = "running" /\ ~ item_ready[Self] /\ child[Self] = None
  BY <1>1, <1>2, Running, TopFacts DEF Drives, Rounds
<1>5. /\ InBody(Self) \in Frames /\ FrameOK(InBody(Self))
      /\ InBody(Self).who = Self /\ InBody(Self).hs = << >> /\ InBody(Self).call = "body"
  BY <1>2, BodyFrame
<1>6. /\ edge' \in [Coros -> {"none", "item", "now"}]
      /\ \A c \in Coros : status[c] = "suspended" => edge'[c] = edge[c]
  BY <1>1, <1>3 DEF Types
<1>9. GoesOn({InBody(Self)})
  BY <1>1, <1>3, <1>5, <1>6, YieldsStay, <1>2 DEF GoesOn, Types, Owned, Awaiting, Awaits, Rounds
<1> QED
  BY <1>1, <1>5, <1>9, MovedKeeps

\* The promise says that a coroutine has ended before its awaiter is woken.
LEMMA FinishKeeps ==
  ASSUME Inv, Finish(Self), Self \in Coros, Top.call \in {"body", "resumed"},
         edge' \in [Coros -> {"none", "item", "now"}],
         \A c \in Coros : c # Self => edge'[c] = edge[c],
         UNCHANGED <<ring, status, cancelled, continuation, child, owner, yields, items, fault>>
  PROVE  Inv'
<1> USE DEF Inv
<1>1. status[Self] = "running" /\ ~ item_ready[Self] /\ child[Self] = None
  BY Running, TopFacts DEF Drives, Rounds
<1>2. /\ complete' = [complete EXCEPT ![Self] = TRUE]
      /\ eos' = [eos EXCEPT ![Self] = TRUE]
      /\ item_ready' = item_ready
  BY <1>1 DEF Finish, Types
<1>3. PICK f : f = [Top EXCEPT !.call = "final"]
  OBVIOUS
<1>4. /\ f \in Frames /\ FrameOK(f) /\ f.who = Self /\ f.hs = << >> /\ f.call = "final"
      /\ Top.call \notin Awaits
  BY Names, <1>3, TopFacts DEF FrameOK, Waits, Rounds, Frames, Calls, Awaits
<1>5. StackInv' /\ Shift({f})
  BY <1>4, StackMoves, <1>3 DEF Finish, Goto, Replace
<1>6. QueueInv'
  BY QueueRests, <1>1 DEF Waiting
<1>7. Types'
  BY <1>2 DEF Types, items
<1>8. Held'
  BY <1>4, <1>5, HeldKeeps
<1>9. Owned'
  BY DEF Owned
<1>10. Completed'
  BY <1>4, <1>5, CompletedKeeps, <1>2 DEF Types
<1>11. ChildrenDriven'
  BY <1>1, <1>5, ChildrenKeep
<1>12. ContinuationsWait'
  BY <1>5, ContinuationsStay, <1>4 DEF Awaiting
<1>13. ItemsWait'
  BY <1>5, ItemsKeep, <1>1, <1>2
<1>14. ItemsCounted'
  BY <1>2 DEF ItemsCounted, items
<1> QED
  BY <1>5, <1>6, <1>7, <1>8, <1>9, <1>10, <1>11, <1>12, <1>13, <1>14

\* A body returns.
LEMMA RetKeeps ==
  ASSUME Inv, Ret
  PROVE  Inv'
  BY FinishKeeps DEF Ret, In, Inv, Types

\* A coroutine that is at a resume edge drives nothing, so it cancels nothing.
LEMMA ResumeEdgeCancelledKeeps ==
  ASSUME Inv, ResumeEdgeCancelled
  PROVE  Inv'
<1> QED
  BY FinishKeeps, TopFacts DEF Inv, Types, Drives, Rounds, FrameOK, ResumeEdgeCancelled, In

\* A coroutine gives control back at a `yield expr;` or at its end.
LEMMA SuspendKeeps ==
  ASSUME Inv, Suspend
  PROVE  Inv'
<1> USE DEF Inv
<1>1. /\ Top.call \in {"item", "final"}
      /\ status' = [status EXCEPT ![Self] = IF Top.call = "final" THEN "final" ELSE "suspended"]
      /\ edge' = [edge EXCEPT ![Self] = IF Top.call = "final" THEN "none" ELSE "item"]
      /\ continuation' = (IF Top.call = "final" THEN [continuation EXCEPT ![Self] = None] ELSE continuation)
      /\ stack' = Below
      /\ UNCHANGED <<ring, complete, eos, item_ready, cancelled, child, owner, yields, items, fault>>
  BY DEF Suspend, In, Back
<1>2. /\ Self \in Coros /\ Self # Main /\ status[Self] = "running" /\ child[Self] = None
      /\ Top.call = "item" => Self \in Streams
      /\ \A c \in Coros : ~ Awaiting(Top, c)
  BY <1>1, Names, Running, TopFacts DEF Awaiting, Awaits, Rounds, Drives, FrameOK
<1>3. /\ status' \in [Coros -> {"none", "running", "suspended", "final", "freed"}]
      /\ status'[Self] = IF Top.call = "final" THEN "final" ELSE "suspended"
      /\ \A c \in Coros : c # Self => status'[c] = status[c] /\ edge'[c] = edge[c]
      /\ edge' \in [Coros -> {"none", "item", "now"}]
      /\ edge'[Self] = IF Top.call = "final" THEN "none" ELSE "item"
  BY <1>1, <1>2 DEF Types
<1>4. StackInv' /\ Shift({})
  BY <1>1, <1>2, StackLeaves, <1>3
<1>5. QueueInv'
  BY <1>1, QueueRests, <1>2, <1>3 DEF Waiting
<1>6. Types'
  BY <1>1, <1>3 DEF Types, items
<1>7. Held'
  BY <1>1, <1>3, <1>4, HeldKeeps
<1>8. Owned'
  BY <1>1, <1>2, <1>3 DEF Owned
<1>9. Completed'
  BY <1>1, <1>3, <1>4, CompletedKeeps, <1>2, TopFacts DEF Completed
<1>10. ChildrenDriven'
  BY <1>1, <1>2, <1>4, ChildrenKeep
<1>11. ContinuationsWait'
  BY <1>2, <1>4, ContinuationsStay, <1>1, <1>3 DEF Types
<1>12. ItemsWait'
  <2>1. ASSUME NEW c \in Coros, item_ready'[c]
        PROVE  \/ /\ item_ready[c] /\ status'[c] = status[c] /\ (status[c] = "suspended" => edge'[c] = edge[c])
                  /\ ~ (Self = c /\ Top.call = "item")
               \/ /\ c \in Streams
                  /\ status'[c] = "suspended" /\ edge'[c] = "item"
    <3>1. item_ready[c]
      BY <1>1, <2>1
    <3>2. CASE c = Self
      BY <1>1, <1>2, <1>3, <3>1, <3>2, Running
    <3> QED
      BY <1>3, <3>1, <3>2
  <2> QED
    BY <1>4, <2>1, ItemsKeep
<1>13. ItemsCounted'
  BY <1>1 DEF ItemsCounted, items
<1> QED
  BY <1>4, <1>5, <1>6, <1>7, <1>8, <1>9, <1>10, <1>11, <1>12, <1>13

\* `yield expr;` puts an item into the promise of a stream.
LEMMA YieldValueKeeps ==
  ASSUME Inv, YieldValue
  PROVE  Inv'
<1> USE DEF Inv
<1>1. /\ Top.call = "body" /\ Self \in Streams /\ yields[Self] < MaxYields[Self]
      /\ item_ready' = [item_ready EXCEPT ![Self] = TRUE]
      /\ produced' = [produced EXCEPT ![Self] = @ + 1]
      /\ yields' = [yields EXCEPT ![Self] = @ + 1]
      /\ stack' = Goto("item")
      /\ UNCHANGED <<ring, status, edge, complete, eos, cancelled, continuation, child, owner, consumed, fault>>
  BY DEF YieldValue, May, In
<1>2. Self \in Coros /\ Self # Main /\ status[Self] = "running" /\ ~ item_ready[Self] /\ child[Self] = None
  BY <1>1, Names, AtBody
<1>3. PICK f : f = [Top EXCEPT !.call = "item"]
  OBVIOUS
<1>4. /\ f \in Frames /\ FrameOK(f) /\ f.who = Self /\ f.hs = << >> /\ f.call = "item"
      /\ Replace(f) /\ \A c \in Coros : ~ Awaiting(Top, c)
  <2>1. Top \in Frames /\ FrameOK(Top) /\ Top.who = Self
    BY TopFacts
  <2>2. Top.hs = << >> /\ \A c \in Coros : ~ Awaiting(Top, c)
    BY <1>1, <2>1 DEF FrameOK, Waits, Rounds, Awaiting, Awaits
  <2> QED
    BY <1>1, <1>3, <2>2, <1>2, Names, <2>1 DEF Goto, Replace, FrameOK, Waits, Rounds, Frames, Calls
<1>5. StackInv' /\ Shift({f})
  BY <1>1, <1>4, StackMoves
<1>6. QueueInv'
  BY <1>1, QueueRests DEF Waiting
<1>8. /\ item_ready' \in [Coros -> BOOLEAN] /\ item_ready'[Self]
      /\ \A c \in Coros : c # Self => item_ready'[c] = item_ready[c]
      /\ produced' \in [Coros -> Nat] /\ produced'[Self] = produced[Self] + 1
      /\ \A c \in Coros : c # Self => produced'[c] = produced[c]
      /\ yields' \in [Coros -> Nat] /\ yields'[Self] = yields[Self] + 1
      /\ \A c \in Coros : c # Self => yields'[c] = yields[c]
  BY <1>1, <1>2 DEF Types
<1>9. Types'
  BY <1>1, <1>8 DEF Types
<1>10. Held'
  BY <1>1, <1>4, <1>5, HeldKeeps
<1>11. Owned'
  BY <1>1 DEF Owned
<1>12. Completed'
  BY <1>1, <1>4, <1>5, CompletedKeeps
<1>13. ChildrenDriven'
  BY <1>1, <1>2, <1>5, ChildrenKeep
<1>14. ContinuationsWait'
  BY <1>1, <1>4, <1>5, ContinuationsStay
<1>15. ItemsWait'
  BY <1>1, <1>4, <1>5, <1>8, ItemsKeep
<1>16. ItemsCounted'
  <2>1. ASSUME NEW c \in Coros
        PROVE  /\ produced'[c] = consumed'[c] + (IF item_ready'[c] THEN 1 ELSE 0)
               /\ produced'[c] <= yields'[c] /\ yields'[c] <= MaxYields[c]
    <3>1. /\ produced[c] = consumed[c] + (IF item_ready[c] THEN 1 ELSE 0)
          /\ produced[c] <= yields[c] /\ yields[c] <= MaxYields[c]
          /\ produced[c] \in Nat /\ consumed[c] \in Nat /\ yields[c] \in Nat /\ MaxYields[c] \in Nat
          /\ consumed'[c] = consumed[c]
      BY <1>1, CoroutineAssumption DEF ItemsCounted, Types, Coros
    <3>2. CASE c = Self
      BY <3>1, <1>8, <3>2, <1>1, <1>2
    <3>3. CASE c # Self
      BY <1>8, <3>1, <3>3
    <3> QED
      BY <3>2, <3>3
  <2> QED
    BY <2>1 DEF ItemsCounted
<1> QED
  BY <1>5, <1>6, <1>9, <1>10, <1>11, <1>12, <1>13, <1>14, <1>15, <1>16

\* await.next takes the item, or finds the end of the stream.
LEMMA NextDoneKeeps ==
  ASSUME Inv, NextDone
  PROVE  Inv'
<1> USE DEF Inv
<1>0. PICK h : h = Target
  OBVIOUS
<1>1. /\ Top.call = "next"
      /\ consumed' = (IF item_ready[h] THEN [consumed EXCEPT ![h] = @ + 1] ELSE consumed)
      /\ item_ready' = [item_ready EXCEPT ![h] = FALSE]
      /\ child' = Driving(None) /\ Replace(InBody(Self))
      /\ UNCHANGED <<ring, status, edge, complete, eos, cancelled, continuation, owner, yields, produced, fault>>
  BY <1>0 DEF NextDone, In, Return
<1>2. h \in Coros /\ Self # None
  BY <1>0, <1>1, TopTarget DEF Waits
<1>3. /\ InBody(Self) \in Frames /\ FrameOK(InBody(Self))
      /\ InBody(Self).who = Self /\ InBody(Self).hs = << >> /\ InBody(Self).call = "body"
  BY <1>2, TopFacts, BodyFrame DEF Callers
<1>4. /\ child' \in [Coros -> Coros \cup {None}]
      /\ \A c \in Coros : c # Self => child'[c] = child[c]
      /\ Self \in Coros => child'[Self] = None
  BY <1>1, DrivingNone
<1>5. StackInv' /\ Shift({InBody(Self)})
  BY <1>1, <1>3, StackMoves
<1>6. QueueInv'
  BY <1>1, QueueRests DEF Waiting
<1>7. /\ item_ready' \in [Coros -> BOOLEAN] /\ ~ item_ready'[h]
      /\ \A c \in Coros : c # h => item_ready'[c] = item_ready[c] /\ consumed'[c] = consumed[c]
      /\ consumed' \in [Coros -> Nat]
      /\ consumed'[h] = consumed[h] + (IF item_ready[h] THEN 1 ELSE 0)
  BY <1>1, <1>2 DEF Types
<1>8. Types'
  BY <1>1, <1>4, <1>7 DEF Types
<1>9. Held'
  BY <1>1, <1>3, <1>5, HeldKeeps
<1>10. Owned'
  BY <1>1 DEF Owned
<1>11. Completed'
  BY <1>1, <1>3, <1>5, CompletedKeeps
<1>12. ChildrenDriven'
  BY <1>4, <1>5, ChildrenKeep
<1>13. ContinuationsWait'
  BY <1>1, <1>5, ContinuationsStay DEF Awaiting, Awaits, Rounds
<1>14. ItemsWait'
  BY <1>5, ItemsKeep, <1>1, <1>7
<1>15. ItemsCounted'
  <2>1. ASSUME NEW c \in Coros
        PROVE  /\ produced'[c] = consumed'[c] + (IF item_ready'[c] THEN 1 ELSE 0)
               /\ produced'[c] <= yields'[c] /\ yields'[c] <= MaxYields[c]
    <3>1. /\ produced[c] = consumed[c] + (IF item_ready[c] THEN 1 ELSE 0)
          /\ produced[c] <= yields[c] /\ yields[c] <= MaxYields[c]
          /\ produced[c] \in Nat /\ consumed[c] \in Nat
          /\ produced'[c] = produced[c] /\ yields'[c] = yields[c]
      BY <1>1 DEF ItemsCounted, Types
    <3>2. consumed'[c] + (IF item_ready'[c] THEN 1 ELSE 0) = consumed[c] + (IF item_ready[c] THEN 1 ELSE 0)
      <4>1. CASE c = h
        BY <1>7, <3>1, <4>1
      <4>2. CASE c # h
        BY <1>7, <3>1, <4>2
      <4> QED
        BY <4>1, <4>2
    <3> QED
      BY <3>1, <3>2
  <2> QED
    BY <2>1 DEF ItemsCounted
<1> QED
  BY <1>5, <1>6, <1>8, <1>9, <1>10, <1>11, <1>12, <1>13, <1>14, <1>15

\* Calling an async fn: a new frame runs on top of the caller's body.
LEMMA SpawnKeeps ==
  ASSUME Inv, NEW h \in Coros, Spawn(h)
  PROVE  Inv'
<1> USE DEF Inv
<1>1. /\ Top.call = "body" /\ status[h] = "none"
      /\ status' = [status EXCEPT ![h] = "running"]
      /\ owner' = [owner EXCEPT ![h] = Self]
      /\ stack' = <<InBody(h)>> \o stack
      /\ UNCHANGED <<ring, edge, promise, yields, items, fault>>
  BY DEF Spawn, May, In
<1>2. /\ Top \in Frames /\ FrameOK(Top) /\ Top.who = Self /\ Self \in Callers /\ Self # None
      /\ Top.hs = << >> /\ Top.call \notin Drives /\ Top.call \notin Awaits
      /\ DOMAIN Top.hs = {}
  BY <1>1, TopFacts DEF Drives, Awaits, Rounds, FrameOK, Waits
<1>3. PICK g : g = InBody(h)
  OBVIOUS
<1>4. g \in Frames /\ FrameOK(g) /\ g.who = h /\ g.hs = << >> /\ g.call = "body" /\ DOMAIN g.hs = {}
  BY <1>3, BodyFrame
<1>5. /\ owner[h] = None /\ ~ cancelled[h] /\ ~ complete[h] /\ ~ item_ready[h]
      /\ owner' \in [Coros -> Coros \cup {Main, None}]
      /\ status' \in [Coros -> {"none", "running", "suspended", "final", "freed"}]
      /\ owner'[h] = Self /\ status'[h] = "running"
      /\ \A c \in Coros : c # h => owner'[c] = owner[c] /\ status'[c] = status[c]
  <2>1. /\ owner' \in [Coros -> Coros \cup {Main, None}]
        /\ status' \in [Coros -> {"none", "running", "suspended", "final", "freed"}]
        /\ owner'[h] = Self /\ status'[h] = "running"
        /\ \A c \in Coros : c # h => owner'[c] = owner[c] /\ status'[c] = status[c]
    BY <1>1, <1>2 DEF Types, Callers
  <2> QED
    BY <1>1, <2>1 DEF Owned, Completed, ItemsWait, StackInv
<1>6. StackInv' /\ Shift({Top, g})
  BY <1>1, <1>2, <1>4, StackEnters, <1>5, <1>3, StackWhole
<1>7. QueueInv'
  BY <1>1, QueueRests, <1>5 DEF Waiting
<1>8. Types'
  BY <1>1, <1>5 DEF Types, promise, items
<1>9. Held'
  BY <1>6, HeldKeeps, <1>2, <1>4, <1>5
<1>10. Owned'
  BY <1>1, <1>2, <1>5 DEF Owned, promise
<1>11. Completed'
  BY <1>1, <1>6, CompletedKeeps, <1>5, <1>4 DEF promise
<1>12. ChildrenDriven'
  BY <1>6, ChildrenKeep, <1>1, <1>2, TopFacts DEF promise
<1>13. ContinuationsWait'
  BY <1>6, ContinuationsStay, <1>1, <1>2, <1>5 DEF promise, Awaiting
<1>14. ItemsWait'
  BY <1>6, ItemsKeep, <1>1, <1>5 DEF promise
<1>15. ItemsCounted'
  BY <1>1 DEF ItemsCounted, promise, items
<1> QED
  BY <1>6, <1>7, <1>8, <1>9, <1>10, <1>11, <1>12, <1>13, <1>14, <1>15

\* The body starts to drive handles it holds: f is the call, and who awaits is noted.
LEMMA DrivesKeep ==
  ASSUME Inv, Top.call = "body", Self # None,
         NEW f \in Frames, FrameOK(f), f.who = Self, f.call # "final", Replace(f),
         UNCHANGED <<ring, status, edge, complete, eos, item_ready, cancelled, owner, yields, items, fault>>,
         \A k \in DOMAIN f.hs : f.hs[k] # None => owner[f.hs[k]] = Self /\ status[f.hs[k]] # "freed",
         child' \in [Coros -> Coros \cup {None}],
         \A c \in Coros : c # Self => child'[c] = child[c],
         Self \in Coros /\ child'[Self] # None => f.call \in Drives,
         continuation' \in [Coros -> Coros \cup {None}],
         \A c \in Coros : continuation'[c] = continuation[c] \/ (continuation'[c] = Self /\ Awaiting(f, c))
  PROVE  Inv'
<1> USE DEF Inv
<1>1. StackInv' /\ Shift({f})
  BY StackMoves
<1>2. QueueInv'
  BY QueueRests DEF Waiting
<1>3. Types'
  BY DEF Types, items
<1>4. Held'
  BY <1>1, HeldKeeps
<1>5. Owned'
  BY DEF Owned
<1>6. Completed'
  BY <1>1, CompletedKeeps
<1>7. ChildrenDriven'
  BY <1>1, ChildrenKeep
<1>8. ContinuationsWait'
  BY <1>1, ContinuationsKeep, ContinuationAtTop DEF Awaiting, Awaits, Rounds
<1>9. ItemsWait'
  BY <1>1, ItemsKeep
<1>10. ItemsCounted'
  BY DEF ItemsCounted, items
<1> QED
  BY <1>1, <1>2, <1>3, <1>4, <1>5, <1>6, <1>7, <1>8, <1>9, <1>10

\* A frame with its fields.
LEMMA FrameIs ==
  ASSUME NEW c, NEW what, NEW hs, NEW n
  PROVE  LET f == Frame(c, what, hs, n)
         IN  /\ f.who = c /\ f.call = what /\ f.hs = hs /\ f.n = n
             /\ f = [who |-> c, call |-> what, hs |-> hs, n |-> n]
  BY DEF Frame

\* A loop that drives one handle starts.
LEMMA DriveKeeps ==
  ASSUME Inv, NEW h \in Coros, NEW what \in Waits, Drive(what, h)
  PROVE  Inv'
<1> USE DEF Inv
<1>1. PICK f : f = Frame(Self, what, <<h>>, 0)
  OBVIOUS
<1>2. /\ Top.call = "body" /\ owner[h] = Self /\ status[h] # "freed"
      /\ h \in (IF what = "next" THEN Streams ELSE Tasks)
      /\ Replace(f)
      /\ child' = (IF what \in {"await", "next"} THEN Driving(h) ELSE child)
      /\ continuation' = (IF what = "await" /\ Self # Main THEN [continuation EXCEPT ![h] = Self]
                                                             ELSE continuation)
      /\ UNCHANGED <<ring, status, edge, complete, eos, item_ready, cancelled, owner, yields, items, fault>>
  BY <1>1 DEF Drive, May, In, Holds, InCoroutine
<1>3. Self # None /\ Self \in Callers /\ (Self \in Coros => child[Self] = None)
  BY <1>2, TopFacts DEF Drives, Rounds
<1>4. /\ f.who = Self /\ f.call = what /\ f.hs = <<h>> /\ f.n = 0
      /\ f = [who |-> Self, call |-> what, hs |-> <<h>>, n |-> 0]
  BY <1>1, FrameIs
<1>5. <<h>> \in Seq(Handles \cup {None}) /\ Len(<<h>>) = 1 /\ <<h>>[1] = h /\ DOMAIN <<h>> = {1}
  BY Names
<1>6. f \in Frames
  BY <1>3, <1>4, <1>5 DEF Frames, Waits, Calls
<1>7. FrameOK(f)
  BY <1>2, <1>3, <1>4, <1>5 DEF FrameOK, Waits, Rounds
<1>8. /\ child' \in [Coros -> Coros \cup {None}]
      /\ \A c \in Coros : c # Self => child'[c] = child[c]
      /\ Self \in Coros /\ child'[Self] # None => f.call \in Drives
  <2>1. CASE what \in {"await", "next"}
    BY <1>2, <1>4, <2>1, DrivingOne DEF Drives
  <2>2. CASE what \notin {"await", "next"}
    BY <1>2, <1>3, <2>2 DEF Types
  <2> QED
    BY <2>1, <2>2
<1>9. /\ continuation' \in [Coros -> Coros \cup {None}]
      /\ \A c \in Coros : continuation'[c] = continuation[c] \/ (continuation'[c] = Self /\ Awaiting(f, c))
  <2>1. CASE what = "await" /\ Self # Main
    BY <1>2, <1>3, <2>1, <1>4, <1>5 DEF Types, Callers, Awaiting, Awaits
  <2>2. CASE ~ (what = "await" /\ Self # Main)
    BY <1>2, <2>2 DEF Types
  <2> QED
    BY <2>1, <2>2
<1>10. f.call # "final"
  BY <1>4 DEF Waits
<1>11. \A k \in DOMAIN f.hs : f.hs[k] # None => owner[f.hs[k]] = Self /\ status[f.hs[k]] # "freed"
  BY <1>2, <1>4, <1>5
<1> QED
  BY <1>2, <1>3, <1>4, <1>6, <1>7, <1>8, <1>9, <1>10, <1>11, DrivesKeep

\* await.all or await.any of two tasks starts.
LEMMA CombineKeeps ==
  ASSUME Inv, NEW hs \in Pairs, NEW what \in {"all", "any"}, Combine(what, hs)
  PROVE  Inv'
<1> USE DEF Inv
<1>1. PICK f : f = Frame(Self, what, hs, 1)
  OBVIOUS
<1>2. /\ Top.call = "body"
      /\ \A i \in DOMAIN hs : owner[hs[i]] = Self /\ status[hs[i]] # "freed"
      /\ Replace(f)
      /\ continuation' = (IF ~ (Self # Main) THEN continuation
                          ELSE [h \in Coros |-> IF \E i \in DOMAIN hs : hs[i] = h THEN Self ELSE continuation[h]])
      /\ UNCHANGED <<ring, status, edge, complete, eos, item_ready, cancelled, child, owner, yields, items, fault>>
  BY <1>1 DEF Combine, May, In, Holds, InCoroutine
<1>3. Self # None /\ Self \in Callers /\ (Self \in Coros => child[Self] = None)
  BY <1>2, TopFacts DEF Drives, Rounds
<1>4. /\ f.who = Self /\ f.call = what /\ f.hs = hs /\ f.n = 1
      /\ f = [who |-> Self, call |-> what, hs |-> hs, n |-> 1]
  BY <1>1, FrameIs
<1>5. /\ hs \in Seq(Handles \cup {None}) /\ DOMAIN hs = {1, 2}
      /\ hs[1] \in Tasks /\ hs[2] \in Tasks /\ hs[1] # hs[2]
  <2>1. PICK t \in Tasks, u \in Tasks : hs = <<t, u>> /\ hs # <<t, t>>
    BY DEF Pairs
  <2> QED
    BY <2>1, Names
<1>6. f \in Frames
  BY <1>3, <1>4, <1>5 DEF Frames, Calls
<1>7. FrameOK(f)
  BY <1>3, <1>4, <1>5, Names DEF FrameOK, Waits, Rounds
<1>8. /\ child' \in [Coros -> Coros \cup {None}]
      /\ \A c \in Coros : c # Self => child'[c] = child[c]
      /\ Self \in Coros /\ child'[Self] # None => f.call \in Drives
  BY <1>2, <1>3 DEF Types
<1>9. /\ continuation' \in [Coros -> Coros \cup {None}]
      /\ \A c \in Coros : continuation'[c] = continuation[c] \/ (continuation'[c] = Self /\ Awaiting(f, c))
  <2>1. CASE Self # Main
    BY <1>2, <1>3, <2>1, <1>4 DEF Types, Callers, Awaiting, Awaits, Rounds
  <2>2. CASE Self = Main
    BY <1>2, <2>2 DEF Types
  <2> QED
    BY <2>1, <2>2
<1>10. f.call # "final"
  BY <1>4
<1>11. \A k \in DOMAIN f.hs : f.hs[k] # None => owner[f.hs[k]] = Self /\ status[f.hs[k]] # "freed"
  BY <1>2, <1>4
<1> QED
  BY <1>2, <1>3, <1>4, <1>6, <1>7, <1>8, <1>9, <1>10, <1>11, DrivesKeep

\* Nothing runs but main's body.
LEMMA InitInv ==
  ASSUME Init
  PROVE  Inv
<1> USE DEF Init, RingInit
<1>2. QueueInv
  <2>1. 0 \in 0 .. Cap - 1 /\ Cap \in Nat \ {0} /\ count \in 0 .. Cap
    BY ExecutorAssumption
  <2> QED
    BY <2>1 DEF QueueInv, RingInv, OnceEach, Listed, Waiting, RingConsistent, RingTypeOK
<1>3. /\ InBody(Main) \in Frames /\ FrameOK(InBody(Main))
      /\ InBody(Main).who = Main /\ InBody(Main).hs = << >> /\ InBody(Main).call = "body"
  BY BodyFrame
<1>4. /\ stack \in Seq(Frames) /\ stack # << >> /\ Len(stack) = 1 /\ stack[1] = InBody(Main)
      /\ Places = {1} /\ On = {InBody(Main)}
  BY <1>3 DEF Places, On
<1>5. StackInv
  BY <1>3, <1>4, Names DEF StackInv
<1>9. ItemsCounted
  <2>1. MaxYields \in [Coros -> Nat]
    BY CoroutineAssumption DEF Coros
  <2> QED
    BY <2>1 DEF ItemsCounted
<1> QED
  BY <1>2, <1>5, <1>9, <1>3, <1>4 DEF Inv, ChildrenDriven, ContinuationsWait, ItemsWait, Held, Owned,
     Completed, Types

\* A step of something else.
LEMMA StutterKeeps ==
  ASSUME Inv, UNCHANGED vars
  PROVE  Inv'
<1>1. /\ UNCHANGED <<ring, stack, status, edge, promise, owner, yields, items>> /\ fault' = fault
  BY DEF vars
<1>3. GoesOn({Top})
  <2>3. GoesOn({Top} \cup {})
    BY <1>1, PlainGoesOn, TopFacts DEF Inv, Types
  <2> QED
    BY <2>3
<1> QED
  BY <1>1, <1>3, RestedKeeps, QueueRests DEF Inv, Waiting

\* Every step keeps the invariant.
LEMMA StepKeeps ==
  ASSUME Inv, [Next]_vars
  PROVE  Inv'
<1>1. CASE Body
  BY <1>1, DriveKeeps, CombineKeeps, StreamDropKeeps, CancelKeeps, SpawnKeeps DEF Body, Waits
<1>2. CASE LeaveBody
  BY <1>2, YieldValueKeeps, YieldNowKeeps, RetKeeps DEF LeaveBody
<1>3. CASE Machinery
  BY <1>3, WakeAwaiterKeeps, SuspendKeeps, ResumeEdgeLiveKeeps, ResumeEdgeCancelledKeeps, DriveOnKeeps,
     PumpResumeKeeps, PumpReturnKeeps, TaskDoneKeeps, WaitDoneKeeps, NextDoneKeeps, SkipSlotKeeps,
     StepSlotKeeps, PostSlotKeeps, TakeSlotKeeps, CancelLoserKeeps, DropLoserKeeps, CombineDoneKeeps
     DEF Machinery
<1> QED
  BY <1>1, <1>2, <1>3, StutterKeeps DEF Next

\* The invariant always holds.
THEOREM InvAlways == Spec => []Inv
<1>1. Init => Inv
  BY InitInv
<1>2. Inv /\ [Next]_vars => Inv'
  BY StepKeeps
<1> QED
  BY <1>1, <1>2, PTL DEF Spec

-------------------------------------------------------------------------------
(* What follows *)

\* The variables of the coroutines, the ring and the stack keep their types.
THEOREM CoroutineTypeCorrect == Spec => []TypeOK
<1>1. ASSUME Inv PROVE TypeOK
  <2> USE <1>1 DEF Inv
  <2>2. \A i \in DOMAIN stack : stack[i].call \in Calls /\ stack[i].who \in Coros \cup {Main, None}
    <3>1. \A i \in DOMAIN stack : stack[i] \in Frames
      BY ElementOfSeq DEF StackInv
    <3> QED
      BY <3>1 DEF Frames, Callers
  <2>3. \A c \in Coros : {yields[c], produced[c], consumed[c]} \subseteq 0 .. MaxYields[c]
    <3> SUFFICES ASSUME NEW c \in Coros
                 PROVE  {yields[c], produced[c], consumed[c]} \subseteq 0 .. MaxYields[c]
      OBVIOUS
    <3> QED
      BY CoroutineAssumption DEF Types, ItemsCounted, Coros
  <2> QED
    BY <2>2, <2>3 DEF TypeOK, Types, QueueInv, RingInv
<1> QED
  BY <1>1, InvAlways, PTL

\* The ring holds exactly the frames that wait at a `yield;`, once each, a continuation is
\* always in the call that awaits, and a child is always being driven: no link goes stale.
THEOREM HandlesAlwaysTracked == Spec => []HandlesTracked
<1>1. ASSUME Inv PROVE HandlesTracked
  <2> USE <1>1 DEF Inv
  <2>1. QueueExact
    <3> SUFFICES ASSUME NEW c \in Coros
                 PROVE  LET places == {i \in 1 .. count : Queued[i] = c}
                        IN  /\ (places # {}) <=> (status[c] = "suspended" /\ edge[c] = "now")
                            /\ \A i, j \in places : i = j
      BY DEF QueueExact
    <3> QED
      BY DEF QueueInv, RingInv, OnceEach, Waiting, Listed
  <2>2. ContinuationRuns
    <3> SUFFICES ASSUME NEW c \in Coros, continuation[c] # None, status[c] # "freed"
                 PROVE  \E i \in DOMAIN stack :
                          stack[i].who = continuation[c] /\ \E k \in DOMAIN stack[i].hs : stack[i].hs[k] = c
      BY DEF ContinuationRuns
    <3>1. PICK f \in On : f.who = continuation[c] /\ Awaiting(f, c)
      BY DEF ContinuationsWait
    <3>2. PICK i \in Places : f = stack[i]
      BY DEF On
    <3> QED
      BY <3>1, <3>2, LenProperties DEF Awaiting, Places, StackInv
  <2> QED
    BY <2>1, <2>2 DEF HandlesTracked, ChildOnlyDriven, ChildrenDriven, StackInv
<1> QED
  BY <1>1, InvAlways, PTL

\* await.next returns every item that was yielded, once.
THEOREM ItemsAlwaysDelivered == Spec => []ItemsDelivered
<1>1. Inv => ItemsDelivered
  BY CoroutineAssumption DEF Inv, ItemsCounted, ItemsDelivered, Coros
<1> QED
  BY <1>1, InvAlways, PTL

\* No call holds the handle of a frame that has been freed.
THEOREM NeverStale == Spec => []NoStaleHandle
<1>1. ASSUME Inv PROVE NoStaleHandle
  BY <1>1, LenProperties DEF Inv, Held, NoStaleHandle, StackInv, On, Places
<1> QED
  BY <1>1, InvAlways, PTL

-------------------------------------------------------------------------------
(* Steps on the ring *)

\* h of a drive loop, or of a step of a round, is withdrawn or run_pending is called.
LEMMA TurnOnRing ==
  ASSUME NEW s, NEW h \in Handles, Pump(s) \/ ResumeTarget(s, h)
  PROVE  UNCHANGED ring \/ \E k \in Handles : Remove(k)
  BY DEF Pump, ResumeTarget

\* Every step does one operation on the ring at most.
LEMMA RingStep ==
  ASSUME Inv, Next
  PROVE  \/ UNCHANGED ring
         \/ \E h \in Handles : HasRoom /\ Enqueue(h)
         \/ \E h \in Handles : Remove(h)
         \/ Pending /\ TakeNext
<1>1. CASE Body
  BY <1>1 DEF Body, Spawn, StreamDrop, Cancel, Drive, Combine, Coros
<1>2. CASE LeaveBody
  <2>1. CASE YieldValue \/ Ret
    BY <2>1 DEF YieldValue, Ret
  <2>2. CASE YieldNow
    BY <2>2, AtBody DEF YieldNow, Coros, May, In, InCoroutine
  <2> QED
    BY <1>2, <2>1, <2>2 DEF LeaveBody
<1>3. CASE Machinery
  <2>1. CASE WakeAwaiter
    BY <2>1, TopFacts DEF WakeAwaiter, Inv, Types, Coros, In, FrameOK
  <2>2. CASE DriveOn
    BY <2>2, TurnOnRing, TopTarget DEF DriveOn, In, Waits, Coros
  <2>3. CASE TaskDone
    BY <2>3, TopTarget DEF TaskDone, In, Waits, Coros
  <2>4. CASE StepSlot
    BY <2>4, TurnOnRing, TopSlots DEF StepSlot, In, Tasks
  <2>5. CASE TakeSlot
    BY <2>5, TopSlots DEF TakeSlot, In, Tasks
  <2>6. CASE CancelLoser \/ DropLoser
    BY <2>6, TurnOnRing, LoserFacts DEF CancelLoser, DropLoser, In, Tasks
  <2>7. CASE PumpResume
    BY <2>7 DEF PumpResume
  <2>8. CASE Suspend \/ ResumeEdgeLive \/ ResumeEdgeCancelled \/ PumpReturn \/ WaitDone \/ NextDone
    BY <2>8 DEF Suspend, ResumeEdgeLive, ResumeEdgeCancelled, PumpReturn, WaitDone, NextDone
  <2>9. CASE SkipSlot \/ PostSlot \/ CombineDone
    BY <2>9 DEF SkipSlot, PostSlot, CombineDone
  <2> QED
    BY <1>3, <2>1, <2>2, <2>3, <2>4, <2>5, <2>6, <2>7, <2>8, <2>9 DEF Machinery
<1> QED
  BY <1>1, <1>2, <1>3 DEF Next

\* The ring is the queue that the executor promises: every step is one of its operations,
\* and a handle that is resumed from it is the oldest.
LEMMA RingStepIsQueueStep ==
  ASSUME Inv, [Next]_vars
  PROVE  [Abstract!Next]_Queued
<1>1. RingInv /\ RingTypeOK /\ RingConsistent
  BY DEF Inv, QueueInv, RingInv
<1>2. CASE UNCHANGED ring
  BY <1>1, <1>2, RingRests
<1>4. ASSUME NEW h \in Handles, Remove(h) PROVE Abstract!Remove(h)
  BY <1>1, <1>4, RemoveKeeps DEF Abstract!Remove, Kept, Without, Abstract!Without
<1>5. ASSUME Pending, TakeNext PROVE Oldest \in Handles /\ Abstract!Resume(Oldest)
  BY <1>1, QueuedSeq, <1>5, TakeNextTakes, RingTakes DEF Abstract!Resume
<1>6. CASE Next
  BY <1>2, <1>4, <1>5, <1>6, RingStep, <1>1, EnqueueAppends, QueuedSeq DEF Abstract!Next, Abstract!Enqueue,
     HasRoom
<1>7. CASE UNCHANGED vars
  BY <1>2, <1>7 DEF vars
<1> QED
  BY <1>6, <1>7

\* The ring implements the abstract queue.
THEOREM RingImplementsQueue == Spec => ImplementsQueue
<1>1. Init => Abstract!Init
  <2> SUFFICES ASSUME Init PROVE Queued = << >>
    BY DEF Abstract!Init
  <2> QED
    BY EmptySeq, InitInv, QueuedSeq DEF Inv, QueueInv, RingInv, Init, RingInit
<1>2. Inv /\ [Next]_vars => [Abstract!Next]_Queued
  BY RingStepIsQueueStep
<1>3. Spec => Abstract!Init /\ [][Abstract!Next]_Queued
  BY <1>1, <1>2, InvAlways, PTL DEF Spec
<1> QED
  BY <1>3 DEF ImplementsQueue, Abstract!Spec

-------------------------------------------------------------------------------
(* Steps on the native stack *)

\* The calls of a coroutine that is not in its body.
Edges == {"resumed", "final"}

\* f is what the top call goes on as: the body may start what it may do, and the end of a
\* coroutine that was cancelled stays one.
Follows(f) ==
  /\ f.who = Self
  /\ \/ f.call \in {Top.call, "body", "item", "final"}
     \/ Top.call \in Rounds /\ f.call \in Rounds
     \/ May(f.call)
  /\ Self \in Coros /\ cancelled[Self] /\ Top.call \in Edges => f.call \in Edges

\* g is called by a step: run_pending, a coroutine that is resumed by its owner or by who
\* wakes it, or a new one.
Enters(g) ==
  \/ g.who = None /\ Pumps
  \/ /\ g.call = "resumed" /\ g.who \in Coros
     /\ Self \in Coros => owner'[g.who] = Self \/ g.who = continuation[Self]
  \/ g.call = "body" /\ g.who \in Coros /\ status[g.who] = "none" /\ owner'[g.who] = Self

\* All that a step does to the stack.
StackStep ==
  \/ stack' = stack \/ stack' = Below
  \/ \E f : Follows(f) /\ stack' = <<f>> \o Below
  \/ \E f, g : Follows(f) /\ Enters(g) /\ stack' = <<g>> \o (<<f>> \o Below)

\* Resuming puts the coroutine on the stack, or fails.
LEMMA ResumeOnStack ==
  ASSUME NEW f, Follows(f), NEW h \in Coros, ResumeFrom(<<f>> \o Below, h),
         Self \in Coros => owner'[h] = Self \/ h = continuation[Self]
  PROVE  StackStep
<1>1. CASE stack' = stack
  BY <1>1 DEF StackStep
<1>2. CASE stack' = <<Frame(h, "resumed", << >>, 0)>> \o (<<f>> \o Below)
  <2>1. Enters(Frame(h, "resumed", << >>, 0))
    BY FrameIs DEF Enters
  <2> QED
    BY <1>2, <2>1 DEF StackStep
<1> QED
  BY <1>1, <1>2 DEF ResumeFrom

\* The same of a turn.
LEMMA TurnOnStack ==
  ASSUME NEW f, Follows(f), NEW h \in Coros, owner'[h] = Self, Pump(<<f>> \o Below) \/ ResumeTarget(<<f>> \o Below, h)
  PROVE  StackStep
<1>1. CASE Pump(<<f>> \o Below)
  <2>1. Enters(Frame(None, "pump", << >>, count))
    BY <1>1, FrameIs DEF Enters, Pump
  <2> QED
    BY <1>1, <2>1 DEF StackStep, Pump
<1>2. CASE ResumeTarget(<<f>> \o Below, h)
  BY <1>2, ResumeOnStack DEF ResumeTarget
<1> QED
  BY <1>1, <1>2

\* What a body does to the stack.
LEMMA BodyOnStack ==
  ASSUME Inv, Body
  PROVE  StackStep
<1>0. ASSUME Top.call = "body"
      PROVE  Follows(Top) /\ \A f : f.who = Self /\ May(f.call) => Follows(f)
  BY <1>0, TopFacts DEF Follows, Edges
<1>1. ASSUME NEW h \in Coros, Spawn(h) PROVE StackStep
  <2>1. /\ Top.call = "body" /\ status[h] = "none" /\ stack' = <<InBody(h)>> \o stack
        /\ owner' = [owner EXCEPT ![h] = Self]
    BY <1>1 DEF Spawn, May, In
  <2>3. Enters(InBody(h)) /\ Follows(Top)
    BY <1>0, <2>1, BodyFrame DEF Enters, Inv, Types
  <2> QED
    BY <2>1, <2>3, StackWhole DEF StackStep
<1>3. ASSUME NEW h \in Coros, NEW what, Drive(what, h) PROVE StackStep
  BY <1>0, FrameIs, <1>3 DEF StackStep, Drive, May, In, Replace
<1>4. ASSUME NEW hs, NEW what, Combine(what, hs) PROVE StackStep
  BY <1>0, FrameIs, <1>4 DEF StackStep, Combine, May, In, Replace
<1> QED
  BY <1>1, <1>3, <1>4 DEF Body, StreamDrop, Cancel, StackStep

\* What a coroutine that suspends or ends does to it.
LEMMA LeaveBodyOnStack ==
  ASSUME Inv, LeaveBody
  PROVE  StackStep
<1>1. ASSUME Top.call = "body", NEW what \in {"item", "final"}, stack' = Goto(what) PROVE StackStep
  BY <1>1, TopFacts DEF Goto, StackStep, Follows, Edges, Frames
<1>2. CASE YieldValue
  BY <1>1, <1>2 DEF YieldValue, May, In
<1>3. CASE YieldNow
  BY <1>3 DEF YieldNow, Back, StackStep
<1>4. CASE Ret
  BY <1>1, <1>4 DEF Ret, Finish, In
<1> QED
  BY <1>2, <1>3, <1>4 DEF LeaveBody

\* What the generated code beneath the bodies does to it.
LEMMA MachineryOnStack ==
  ASSUME Inv, Machinery
  PROVE  StackStep
<1>1. Top \in Frames /\ Top.who = Self
  BY TopFacts
<1>2. CASE WakeAwaiter
  <2>2. continuation[Self] \in Coros
    BY <1>2, TopFacts DEF WakeAwaiter, In, FrameOK, Inv, Types
  <2> QED
    BY <1>2, <2>2, ResumeOnStack, <1>1 DEF WakeAwaiter, Follows, Frames
<1>3. CASE Suspend \/ PumpReturn
  BY <1>3 DEF Suspend, PumpReturn, Back, StackStep
<1>4. CASE ResumeEdgeLive
  <2>1. Follows(InBody(Self))
    BY <1>4, FrameIs DEF ResumeEdgeLive, IsCancelled, Follows, InBody
  <2> QED
    BY <1>4, <2>1 DEF ResumeEdgeLive, Return, Replace, StackStep
<1>5. CASE ResumeEdgeCancelled
  BY <1>5, <1>1 DEF ResumeEdgeCancelled, Finish, Goto, StackStep, Follows, Edges, Frames
<1>6. ASSUME Top.call \notin Edges, Return PROVE StackStep
  <2>1. Follows(InBody(Self))
    BY <1>6, FrameIs DEF Follows, InBody
  <2> QED
    BY <1>6, <2>1 DEF Return, Replace, StackStep
<1>7. CASE TaskDone \/ WaitDone \/ NextDone \/ CombineDone
  BY <1>6, <1>7 DEF TaskDone, WaitDone, NextDone, CombineDone, In, Edges
<1>8. ASSUME Top.call \notin Edges
      PROVE  \A f : f.who = Self /\ (f.call = Top.call \/ (Top.call \in Rounds /\ f.call \in Rounds))
                      => Follows(f)
  BY <1>8 DEF Follows
<1>9. CASE DriveOn
  BY <1>9, TurnOnStack, <1>1, <1>8, StackWhole, TopTarget DEF DriveOn, In, Edges, Waits
<1>10. CASE PumpResume
  <2>1. Follows([Top EXCEPT !.n = @ - 1])
    BY <1>1, <1>8, <1>10 DEF PumpResume, In, Edges, Frames
  <2> QED
    BY <1>10, <2>1, ResumeOnStack, TopFacts, RingTakes, Names DEF PumpResume, In, FrameOK, Inv, QueueInv,
       Coros
<1>11. CASE SkipSlot
  BY <1>11, <1>1, <1>8 DEF SkipSlot, Replace, StackStep, In, Edges, Frames
<1>12. CASE PostSlot
  BY <1>12, <1>1, <1>8 DEF PostSlot, Replace, StackStep, In, Edges, Frames, Rounds
<1>13. CASE StepSlot
  <2>1. PICK f : f = [Top EXCEPT !.n    = IF In("all") THEN NextSlot ELSE @,
                                 !.call = IF In("all") THEN "all" ELSE "post"]
    OBVIOUS
  <2>2. Follows(f)
    BY <1>8, <1>1, <2>1, <1>13 DEF Edges, Rounds, Frames, StepSlot, In
  <2> QED
    BY <2>2, TurnOnStack, <1>13, <2>1, TopFacts, TopSlots DEF StepSlot, In
<1>14. CASE TakeSlot
  <2>1. PICK f : f = IF In("all") THEN [Cleared EXCEPT !.n = NextSlot] ELSE [Cleared EXCEPT !.call = "lose"]
    OBVIOUS
  <2> QED
    BY <1>8, <1>14, <2>1, <1>1 DEF Replace, StackStep, TakeSlot, Edges, Rounds, In, Cleared, Frames
<1>15. CASE CancelLoser
  BY <1>15, TurnOnStack, <1>1, <1>8, StackWhole, LoserFacts DEF CancelLoser, In, Edges
<1>16. CASE DropLoser
  <2>1. PICK f : f = [Top EXCEPT !.hs = [i \in DOMAIN @ |-> IF @[i] = FirstLoser THEN None ELSE @[i]]]
    OBVIOUS
  <2> QED
    BY <1>1, <1>8, <1>16, <2>1 DEF Replace, StackStep, DropLoser, In, Edges, Frames
<1> QED
  BY <1>2, <1>3, <1>4, <1>5, <1>7, <1>9, <1>10, <1>11, <1>12, <1>13, <1>14, <1>15, <1>16 DEF Machinery

\* A frame of a stack with one more at its head is that one or was there.
LEMMA PushedOne ==
  ASSUME NEW S, NEW s \in Seq(S), NEW f \in S, NEW i \in 1 .. Len(<<f>> \o s)
  PROVE  (<<f>> \o s)[i] = f \/ \E j \in 1 .. Len(s) : (<<f>> \o s)[i] = s[j]
<1>2. CASE i = 1
  BY <1>2, Pushed
<1>3. CASE i # 1
  BY Pushed, <1>3
<1> QED
  BY <1>2, <1>3

\* What is beneath the top call, as part of a stack with two more frames.
LEMMA BelowInto ==
  ASSUME Inv, NEW f, NEW g
  PROVE  Below \in Seq(Frames \cup {f, g})
<1> QED
  BY SeqDef, LenProperties, ElementOfSeq, StackParts DEF Inv

\* Every frame there is after a step was there, follows on the top one or has been entered.
LEMMA FramesAfter ==
  ASSUME Inv, StackStep, NEW x \in On'
  PROVE  x \in On \/ Follows(x) \/ Enters(x)
<1>1. PICK s : s = stack'
  OBVIOUS
<1>2. PICK i \in 1 .. Len(s) : x = s[i]
  BY <1>1 DEF On, Places
<1>4. \A j \in 1 .. Len(Below) : Below[j] \in On
  <2> SUFFICES ASSUME NEW j \in 1 .. Len(Below) PROVE Below[j] \in On
    OBVIOUS
  <2> QED
    BY StackParts DEF On, Places, Inv
<1>5. CASE s = stack
  BY <1>2, <1>5 DEF On, Places
<1>6. CASE s = Below
  BY <1>2, <1>4, <1>6
<1>7. ASSUME NEW S, Below \in Seq(S), NEW f \in S, NEW k \in 1 .. Len(<<f>> \o Below)
      PROVE  (<<f>> \o Below)[k] = f \/ (<<f>> \o Below)[k] \in On
  BY <1>4, <1>7, PushedOne
<1>8. \A f, g : Below \in Seq(Frames \cup {f, g})
  BY BelowInto
<1>10. ASSUME NEW f, NEW g, s = <<g>> \o (<<f>> \o Below) PROVE x = g \/ x = f \/ x \in On
  <2>1. f \in Frames \cup {f, g} /\ g \in Frames \cup {f, g}
    OBVIOUS
  <2>3. x = g \/ \E j \in 1 .. Len(<<f>> \o Below) : x = (<<f>> \o Below)[j]
    BY <1>2, <1>10, <2>1, PushedOne, <1>8, Pushed, SMTT(40)
  <2> QED
    BY <1>7, <1>8, <2>1, <2>3
<1> QED
  BY <1>1, <1>5, <1>6, <1>10, <1>2, <1>7, <1>8 DEF StackStep

-------------------------------------------------------------------------------
(* Cancelled coroutines *)

\* Nobody takes a cancel back.
LEMMA CancelStays ==
  ASSUME Inv, Next
  PROVE  \A c \in Coros : cancelled[c] => cancelled'[c]
<1> USE DEF Inv, Types, promise
<1>1. CASE Body
  BY <1>1 DEF Body, Spawn, StreamDrop, Cancel, Drive, Combine
<1>2. CASE LeaveBody
  BY <1>2 DEF LeaveBody, YieldValue, YieldNow, Ret
<1>3. CASE Machinery
  <2>1. CASE WakeAwaiter \/ Suspend \/ ResumeEdgeLive \/ ResumeEdgeCancelled
    BY <2>1 DEF WakeAwaiter, Suspend, ResumeEdgeLive, ResumeEdgeCancelled
  <2>2. CASE DriveOn \/ PumpResume \/ PumpReturn \/ TaskDone \/ WaitDone \/ NextDone
    BY <2>2 DEF DriveOn, PumpResume, PumpReturn, TaskDone, WaitDone, NextDone
  <2>3. CASE SkipSlot \/ StepSlot \/ PostSlot \/ TakeSlot \/ CombineDone
    BY <2>3 DEF SkipSlot, StepSlot, PostSlot, TakeSlot, CombineDone
  <2>4. CASE CancelLoser \/ DropLoser
    BY <2>4 DEF CancelLoser, DropLoser
  <2> QED
    BY <1>3, <2>1, <2>2, <2>3, <2>4 DEF Machinery
<1> QED
  BY <1>1, <1>2, <1>3 DEF Next

\* An item is yielded by the body that runs.
LEMMA ProducedInBody ==
  ASSUME Inv, Next, NEW c \in Coros, produced'[c] # produced[c]
  PROVE  c = Self /\ Top.call = "body"
<1> USE DEF Inv, Types, items
<1>1. CASE Body
  BY <1>1 DEF Body, Spawn, StreamDrop, Cancel, Drive, Combine
<1>2. CASE LeaveBody
  BY <1>2 DEF LeaveBody, YieldValue, YieldNow, Ret, May, In
<1>3. CASE Machinery
  <2>1. CASE WakeAwaiter \/ Suspend \/ ResumeEdgeLive \/ ResumeEdgeCancelled
    BY <2>1 DEF WakeAwaiter, Suspend, ResumeEdgeLive, ResumeEdgeCancelled
  <2>2. CASE DriveOn \/ PumpResume \/ PumpReturn \/ TaskDone \/ WaitDone \/ NextDone
    BY <2>2 DEF DriveOn, PumpResume, PumpReturn, TaskDone, WaitDone, NextDone
  <2>3. CASE SkipSlot \/ StepSlot \/ PostSlot \/ TakeSlot \/ CancelLoser \/ DropLoser \/ CombineDone
    BY <2>3 DEF SkipSlot, StepSlot, PostSlot, TakeSlot, CancelLoser, DropLoser, CombineDone
  <2> QED
    BY <1>3, <2>1, <2>2, <2>3 DEF Machinery
<1> QED
  BY <1>1, <1>2, <1>3 DEF Next

\* The one frame of an ending coroutine that runs is at a resume edge or at its end.
LEMMA EndingFrame ==
  ASSUME Inv, NEW c \in Coros, Ending(c), NEW f \in On, f.who = c
  PROVE  f.call \in Edges /\ status[c] = "running"
<1>1. status[c] = "running" /\ c # None
  BY Names DEF Inv, StackInv
<1>2. PICK i \in DOMAIN stack : stack[i].who = c /\ stack[i].call \in {"resumed", "final"}
  BY <1>1 DEF Ending
<1>3. PICK j \in Places : f = stack[j]
  BY DEF On
<1> QED
  BY <1>1, <1>2, <1>3, LenProperties DEF Inv, StackInv, Edges, Places

\* A cancelled coroutine that is suspended, or at a resume edge, never comes back into its body.
LEMMA EndingStays ==
  ASSUME Inv, Inv', Next, NEW c \in Coros, Ending(c)
  PROVE  Ending(c)' /\ produced'[c] = produced[c]
<1>1. cancelled[c] /\ cancelled'[c] /\ c # None
  BY CancelStays, Names DEF Ending
<1>3. Top \in On /\ Top.who = Self
  BY TopFacts
<1>4. ASSUME NEW f \in On', f.who = c PROVE f.call \in Edges
  <2>1. CASE f \in On
    BY <1>4, <2>1, EndingFrame
  <2>2. CASE Follows(f)
    BY <1>1, <1>3, <1>4, <2>2, EndingFrame DEF Follows
  <2>3. CASE Enters(f)
    BY <1>1, <1>4, <2>3 DEF Enters, Inv, Owned, Edges
  <2> QED
    BY <1>4, <2>1, <2>2, <2>3, FramesAfter, BodyOnStack, LeaveBodyOnStack, MachineryOnStack DEF Next
<1>5. Ending(c)'
  <2> SUFFICES ASSUME status'[c] = "running"
               PROVE  \E i \in DOMAIN stack' : stack'[i].who = c /\ stack'[i].call \in {"resumed", "final"}
    BY <1>1 DEF Ending
  <2>1. PICK f \in On' : f.who = c
    BY DEF Inv, StackInv
  <2>2. PICK i \in Places' : f = stack'[i]
    BY <2>1 DEF On
  <2> QED
    BY <1>4, <2>1, <2>2, LenProperties DEF Edges, Inv, StackInv, Places
<1> QED
  BY <1>5, <1>3, ProducedInBody, EndingFrame DEF Edges

\* Once a cancelled coroutine is suspended it never gets back into its body, and yields
\* nothing more.
THEOREM CancelAlwaysStops == Spec => CancelStops
<1>1. Inv /\ Inv' /\ [Next]_vars => [\A c \in Coros : Ending(c) => Ending(c)' /\ produced'[c] = produced[c]]_vars
  BY EndingStays
<1>2. Spec => [][\A c \in Coros : Ending(c) => Ending(c)' /\ produced'[c] = produced[c]]_vars
  BY <1>1, InvAlways, PTL DEF Spec
<1> QED
  BY <1>2 DEF CancelStops

-------------------------------------------------------------------------------
(* Coroutines that yield, handle others and wait for one, but never let queued ones run *)

\* What coroutines do where nothing is undefined: `await`, `await.next`, await.all and
\* await.any are left to main, and the ring has a slot for every handle.
FlatBodies ==
  /\ BodyOps \subseteq {"item", "now", "spawn", "drop", "wait", "cancel"}
  /\ IsFiniteSet(Handles) /\ Cardinality(Handles) <= Cap

FlatCalls == {"body", "item", "final", "resumed", "drop", "wait"}

\* Coroutines lie on top of what main and run_pending do, each called by the one that owns it.
CalledByOwner ==
  /\ \A i, j \in Places : i < j /\ stack[j].who \in Coros => stack[i].who \in Coros
  /\ \A i \in Places : i > 1 /\ stack[i].who \in Coros => owner[stack[i - 1].who] = stack[i].who

\* Nobody is, by a chain of owners, his own.
OwnersOrdered ==
  /\ \A S \in SUBSET Coros : S # {} => \E c \in S : owner[c] \notin S
  /\ \A c \in Coros : owner[c] \in Coros => status[owner[c]] # "none"

FlatInv ==
  /\ fault = "none"
  /\ \A c \in Coros : continuation[c] = None
  /\ \A f \in On : f.who \in Coros => f.call \in FlatCalls
  /\ CalledByOwner
  /\ OwnersOrdered

\* What the top call owns does not run.
LEMMA OwnedRests ==
  ASSUME Inv, FlatInv, NEW h \in Coros, owner[h] = Self, Self # None
  PROVE  status[h] # "running"
<1> SUFFICES ASSUME status[h] = "running" PROVE FALSE
  OBVIOUS
<1> USE DEF Inv
<1>1. PICK j \in Places : stack[j].who = h
  BY DEF StackInv, On
<1>2. Len(stack) \in Nat \ {0} /\ 1 \in Places /\ Self = stack[1].who /\ Self \in Callers
  BY StackParts, TopFacts
<1>3. CASE Self = Main
  <2>1. Len(stack) \in Places /\ stack[Len(stack)].who = Main
    BY <1>2 DEF StackInv, Places
  <2>2. Len(stack) = 1
    <3>1. stack[1].who = stack[Len(stack)].who /\ stack[1].who # None
      BY <1>2, <1>3, <2>1, Names
    <3> QED
      BY <1>2, <2>1, <3>1 DEF StackInv
  <2>3. j = 1
    BY <1>1, <2>2 DEF Places
  <2> QED
    BY <1>1, <1>2, <1>3, <2>3, Names
<1>4. CASE Self \in Coros
  <2>1. PICK S : S = {stack[i].who : i \in 1 .. j}
    OBVIOUS
  <2>2. \A i \in 1 .. j : i \in Places /\ stack[i].who \in Coros
    <3> SUFFICES ASSUME NEW i \in 1 .. j PROVE i \in Places /\ stack[i].who \in Coros
      OBVIOUS
    <3> QED
      BY <1>1, <1>2 DEF FlatInv, CalledByOwner, Places
  <2>3. S \in SUBSET Coros /\ S # {} /\ Self \in S
    BY <1>2, <2>1, <2>2, <1>1 DEF Places
  <2>4. ASSUME NEW c \in S PROVE owner[c] \in S
    <3>1. PICK i \in 1 .. j : c = stack[i].who
      BY <2>1
    <3>2. CASE i = j
      BY <1>1, <2>3, <3>1, <3>2
    <3>3. CASE i # j
      <4>1. i + 1 \in 1 .. j /\ i + 1 > 1 /\ (i + 1) - 1 = i
        BY <1>1, <3>1, <3>3 DEF Places
      <4> QED
        BY <2>1, <3>1, <4>1, <2>2 DEF FlatInv, CalledByOwner
    <3> QED
      BY <3>2, <3>3
  <2> QED
    BY <2>3, <2>4 DEF FlatInv, OwnersOrdered
<1> QED
  BY <1>2, <1>3, <1>4 DEF Callers

\* What the top call owns and has neither seen end nor freed can be resumed.
LEMMA OwnedSuspended ==
  ASSUME Inv, FlatInv, NEW h \in Coros, owner[h] = Self, Self # None, status[h] # "freed"
  PROVE  status[h] \in {"suspended", "final"}
  BY OwnedRests DEF Inv, Owned, Types

\* There is room for a coroutine that runs, because it is not in the ring.
LEMMA RoomForSelf ==
  ASSUME Inv, FlatBodies, Self \in Coros
  PROVE  HasRoom
<1>1. RingTypeOK /\ RingConsistent /\ OnceEach(Queued, count) /\ Self \notin Listed
  BY Running DEF Inv, QueueInv, RingInv, Waiting
<1>2. count \in Nat /\ \A i \in 1 .. count : Queued[i] \in Handles \ {Self}
  BY <1>1, QueuedSeq DEF Listed
<1>3. IsFiniteSet(Handles \ {Self}) /\ Cardinality(Handles \ {Self}) = Cardinality(Handles) - 1
  BY FS_RemoveElement DEF FlatBodies, Coros
<1>4. PICK f : f = [i \in 1 .. count |-> Queued[i]]
  OBVIOUS
<1>7. Cardinality(1 .. count) = count
  BY <1>2, FS_Interval
<1> QED
  BY <1>2, <1>3, <1>7, FS_CardinalityType, ExecutorAssumption, FS_Injection, <1>1, <1>4 DEF HasRoom,
     FlatBodies, Injection, OnceEach, IsInjective

\* The calls of s, from the innermost on, are those of coroutines called by who owns them
\* according to o, and then others.
Chained(s, o) ==
  /\ \A i, j \in 1 .. Len(s) : i < j /\ s[j].who \in Coros => s[i].who \in Coros
  /\ \A i \in 1 .. Len(s) : i > 1 /\ s[i].who \in Coros => o[s[i - 1].who] = s[i].who

\* More may be owned.
LEMMA ChainedMore ==
  ASSUME NEW s, Len(s) \in Nat, NEW o, Chained(s, o),
         NEW p, \A c \in Coros : o[c] # None => p[c] = o[c]
  PROVE  Chained(s, p)
<1> QED
  BY Names DEF Chained

\* The same who calls.
LEMMA ChainedSame ==
  ASSUME NEW s, NEW t, NEW o, Chained(s, o), Len(t) = Len(s), Len(s) \in Nat,
         \A i \in 1 .. Len(s) : t[i].who = s[i].who
  PROVE  Chained(t, o)
<1> QED
  BY DEF Chained

\* The innermost call returns.
LEMMA ChainedBelow ==
  ASSUME NEW s, NEW t, NEW o, Chained(s, o), Len(s) \in Nat \ {0}, Len(t) = Len(s) - 1,
         \A i \in 1 .. Len(t) : t[i] = s[i + 1]
  PROVE  Chained(t, o)
<1>1. \A i \in 1 .. Len(t) : i + 1 \in 1 .. Len(s) /\ (i + 1) - 1 = i
  OBVIOUS
<1>2. ASSUME NEW i \in 1 .. Len(t), NEW j \in 1 .. Len(t), i < j, t[j].who \in Coros
      PROVE  t[i].who \in Coros
  <2>1. /\ i + 1 \in 1 .. Len(s) /\ j + 1 \in 1 .. Len(s) /\ i + 1 < j + 1
        /\ t[i] = s[i + 1] /\ t[j] = s[j + 1]
    BY <1>1, <1>2, SMTT(40)
  <2> QED
    BY <1>2, <2>1 DEF Chained
<1>3. ASSUME NEW i \in 1 .. Len(t), i > 1, t[i].who \in Coros PROVE o[t[i - 1].who] = t[i].who
  <2>1. i - 1 \in 1 .. Len(t) /\ (i - 1) + 1 = i /\ i + 1 > 1
    BY <1>3
  <2>2. t[i - 1] = s[i] /\ t[i] = s[i + 1] /\ i + 1 \in 1 .. Len(s) /\ (i + 1) - 1 = i
    BY <1>1, <2>1
  <2>3. o[s[(i + 1) - 1].who] = s[i + 1].who
    BY <1>3, <2>1, <2>2 DEF Chained
  <2> QED
    BY <2>2, <2>3
<1> QED
  BY <1>2, <1>3 DEF Chained

\* A call is entered.
LEMMA ChainedCall ==
  ASSUME NEW s, NEW t, NEW o, Chained(s, o), Len(s) \in Nat \ {0}, Len(t) = Len(s) + 1,
         \A i \in 1 .. Len(s) : t[i + 1] = s[i],
         s[1].who \in Coros => t[1].who \in Coros /\ o[t[1].who] = s[1].who
  PROVE  Chained(t, o)
<1>1. ASSUME NEW i \in 1 .. Len(t), i # 1 PROVE i - 1 \in 1 .. Len(s) /\ t[i] = s[i - 1]
  BY <1>1
<1>2. ASSUME NEW i \in 1 .. Len(t), NEW j \in 1 .. Len(t), i < j, t[j].who \in Coros
      PROVE  t[i].who \in Coros
  <2>1. j - 1 \in 1 .. Len(s) /\ t[j] = s[j - 1]
    BY <1>1, <1>2
  <2>2. CASE i = 1
    <3>1. s[1].who \in Coros
      <4>1. CASE j = 2
        BY <1>2, <2>1, <4>1
      <4>2. CASE j # 2
        BY <1>2, <2>1, <2>2, <4>2 DEF Chained
      <4> QED
        BY <4>1, <4>2
    <3> QED
      BY <2>2, <3>1
  <2>3. CASE i # 1
    <3>1. i - 1 \in 1 .. Len(s) /\ t[i] = s[i - 1] /\ i - 1 < j - 1
      BY <1>1, <1>2, <2>3
    <3> QED
      BY <1>2, <2>1, <3>1 DEF Chained
  <2> QED
    BY <2>2, <2>3
<1>3. ASSUME NEW i \in 1 .. Len(t), i > 1, t[i].who \in Coros PROVE o[t[i - 1].who] = t[i].who
  <2>1. i - 1 \in 1 .. Len(s) /\ t[i] = s[i - 1]
    BY <1>1, <1>3
  <2>2. CASE i = 2
    BY <1>3, <2>1, <2>2
  <2>3. CASE i # 2
    BY <1>3, <2>1, <1>1, <2>3 DEF Chained
  <2> QED
    BY <2>2, <2>3
<1> QED
  BY <1>2, <1>3 DEF Chained

\* Only a new frame gets an owner.
LEMMA OwnerStep ==
  ASSUME Inv, Next
  PROVE  \/ owner' = owner /\ \A c \in Coros : status'[c] = "none" => status[c] = "none"
         \/ \E h \in Coros : /\ status[h] = "none" /\ owner' = [owner EXCEPT ![h] = Self]
                             /\ status' = [status EXCEPT ![h] = "running"] /\ Self # None
<1> USE DEF Inv, Types
<1>1. CASE Body
  BY <1>1, TopFacts DEF Body, Spawn, May, In, StreamDrop, Cancel, Destroy, Drive, Combine
<1>2. CASE LeaveBody
  BY <1>2 DEF LeaveBody, YieldValue, YieldNow, Ret
<1>3. ASSUME NEW s, NEW h, Pump(s) \/ ResumeTarget(s, h) \/ ResumeFrom(s, h) \/ Destroy(h)
      PROVE  \A c \in Coros : status'[c] = "none" => status[c] = "none"
  BY <1>3 DEF Pump, ResumeTarget, ResumeFrom, Destroy
<1>4. CASE Machinery
  <2>1. CASE WakeAwaiter \/ DriveOn \/ PumpResume \/ TaskDone
    BY <1>3, <2>1 DEF WakeAwaiter, DriveOn, PumpResume, TaskDone
  <2>2. CASE StepSlot \/ TakeSlot \/ CancelLoser \/ DropLoser
    BY <1>3, <2>2 DEF StepSlot, TakeSlot, CancelLoser, DropLoser
  <2>3. CASE Suspend
    BY <2>3 DEF Suspend
  <2>4. CASE ResumeEdgeLive \/ ResumeEdgeCancelled \/ PumpReturn \/ WaitDone \/ NextDone
    BY <2>4 DEF ResumeEdgeLive, ResumeEdgeCancelled, PumpReturn, WaitDone, NextDone
  <2>5. CASE SkipSlot \/ PostSlot \/ CombineDone
    BY <2>5 DEF SkipSlot, PostSlot, CombineDone
  <2> QED
    BY <1>4, <2>1, <2>2, <2>3, <2>4, <2>5 DEF Machinery
<1> QED
  BY <1>1, <1>2, <1>4 DEF Next

\* A coroutine that runs waits for one at most, and lets nothing that is queued run.
LEMMA FlatTop ==
  ASSUME Inv, FlatInv, Self \in Coros
  PROVE  Top.call \in FlatCalls /\ ~ Pumps /\ continuation[Self] = None
  BY TopFacts DEF FlatInv, FlatCalls, Pumps, In

\* Whoever is called is owned by its caller.
LEMMA OwnersKeepCalling ==
  ASSUME Inv, FlatInv, StackStep, \A c \in Coros : owner[c] # None => owner'[c] = owner[c]
  PROVE  CalledByOwner'
<1>1. PICK s : s = stack'
  OBVIOUS
<1>2. Chained(stack, owner) /\ Chained(stack, owner')
  <2>2. Len(stack) \in Nat
    BY StackParts DEF Inv
  <2> QED
    BY <2>2, ChainedMore DEF FlatInv, CalledByOwner, Chained, Places
<1>3. /\ Below \in Seq(Frames) /\ Len(Below) = Len(stack) - 1 /\ Len(stack) \in Nat \ {0}
      /\ \A j \in 1 .. Len(Below) : Below[j] = stack[j + 1]
      /\ stack[1].who = Self
  BY StackParts DEF Inv
<1>6. ASSUME NEW f, Follows(f), NEW t, t = <<f>> \o Below
      PROVE  Chained(t, owner') /\ Len(t) = Len(stack) /\ t[1].who = Self
  <2>2. Len(t) = Len(stack) /\ t[1] = f /\ \A j \in 1 .. Len(Below) : t[j + 1] = Below[j]
    BY <1>3, <1>6, Pushed, BelowInto
  <2>3. ASSUME NEW i \in 1 .. Len(stack) PROVE t[i].who = stack[i].who
    <3>1. CASE i = 1
      BY <1>3, <1>6, <2>2, <3>1 DEF Follows
    <3>2. CASE i # 1
      <4>1. i - 1 \in 1 .. Len(Below) /\ (i - 1) + 1 = i
        BY <1>3, <3>2
      <4> QED
        BY <1>3, <2>2, <4>1
    <3> QED
      BY <3>1, <3>2
  <2> QED
    BY <1>2, <1>3, <2>2, <2>3, ChainedSame, <1>6 DEF Follows
<1>7. ASSUME NEW f, NEW g, Follows(f), Enters(g), s = <<g>> \o (<<f>> \o Below) PROVE Chained(s, owner')
  <2>1. PICK t : t = <<f>> \o Below
    OBVIOUS
  <2>2. Chained(t, owner') /\ Len(t) = Len(stack) /\ t[1].who = Self
    BY <1>6, <1>7, <2>1
  <2>4. Len(s) = Len(t) + 1 /\ s[1] = g /\ \A i \in 1 .. Len(t) : s[i + 1] = t[i]
    BY <1>7, <2>1, Pushed, BelowInto
  <2>6. t[1].who \in Coros => s[1].who \in Coros /\ owner'[s[1].who] = t[1].who
    BY <2>2, <2>4, <1>7, FlatTop, Names DEF Enters
  <2> QED
    BY <2>2, <2>4, <2>6, ChainedCall, <1>3
<1>8. Chained(s, owner')
  BY <1>1, <1>6, <1>7, <1>2, <1>3, ChainedBelow DEF StackStep
<1> QED
  BY <1>1, <1>8 DEF Chained, CalledByOwner, Places

\* A new frame is owned by one that was there.
LEMMA OwnersStayOrdered ==
  ASSUME Inv, FlatInv, Next
  PROVE  OwnersOrdered' /\ \A c \in Coros : owner[c] # None => owner'[c] = owner[c]
<1> USE DEF Inv
<1>1. CASE owner' = owner /\ \A c \in Coros : status'[c] = "none" => status[c] = "none"
  BY <1>1 DEF FlatInv, OwnersOrdered
<1>2. ASSUME NEW h \in Coros, status[h] = "none", owner' = [owner EXCEPT ![h] = Self],
             status' = [status EXCEPT ![h] = "running"], Self # None
      PROVE  OwnersOrdered' /\ \A c \in Coros : owner[c] # None => owner'[c] = owner[c]
  <2>1. PICK me : me = Self
    OBVIOUS
  <2>2. /\ owner[h] = None /\ owner'[h] = me /\ status'[h] = "running"
        /\ \A c \in Coros : c # h => owner'[c] = owner[c] /\ status'[c] = status[c]
        /\ me \in Coros => status[me] = "running" /\ me # h
    BY <1>2, <2>1, Running DEF Types, Owned
  <2>3. ASSUME NEW S \in SUBSET Coros, S # {}, \A c \in S : owner'[c] \in S PROVE FALSE
    <3>1. CASE h \in S
      <4>2. ASSUME NEW c \in S \ {h} PROVE owner[c] \in S \ {h}
        BY <1>2, <2>2, <2>3 DEF FlatInv, OwnersOrdered
      <4> QED
        BY <4>2, <2>2, <2>3, <3>1 DEF FlatInv, OwnersOrdered
    <3>2. CASE h \notin S
      BY <2>2, <2>3, <3>2 DEF FlatInv, OwnersOrdered
    <3> QED
      BY <3>1, <3>2
  <2>4. ASSUME NEW c \in Coros, owner'[c] \in Coros PROVE status'[owner'[c]] # "none"
    <3>1. CASE c = h
      BY <2>2, <2>4, <3>1
    <3>2. CASE c # h
      BY <1>2, <2>2, <2>4, <3>2 DEF FlatInv, OwnersOrdered
    <3> QED
      BY <3>1, <3>2
  <2> QED
    BY <2>2, <2>3, <2>4 DEF OwnersOrdered
<1> QED
  BY <1>1, <1>2, OwnerStep

\* Only await makes its caller a continuation.
LEMMA NoContinuation ==
  ASSUME Inv, FlatInv, FlatBodies, Next
  PROVE  \A c \in Coros : continuation'[c] = None
<1> USE DEF FlatInv, promise
<1>2. CASE Body
  BY <1>2 DEF Body, Spawn, StreamDrop, Cancel, Combine, InCoroutine, Drive, May, FlatBodies
<1>3. CASE LeaveBody
  BY <1>3 DEF LeaveBody, YieldValue, YieldNow, Ret
<1>4. CASE Machinery
  <2>1. CASE Suspend
    BY <2>1 DEF Suspend, Inv, Types
  <2>2. CASE WakeAwaiter \/ ResumeEdgeLive \/ ResumeEdgeCancelled
    BY <2>2 DEF WakeAwaiter, ResumeEdgeLive, ResumeEdgeCancelled
  <2>3. CASE DriveOn \/ PumpResume \/ PumpReturn \/ TaskDone \/ WaitDone \/ NextDone
    BY <2>3 DEF DriveOn, PumpResume, PumpReturn, TaskDone, WaitDone, NextDone
  <2>4. CASE SkipSlot \/ StepSlot \/ PostSlot \/ TakeSlot \/ CancelLoser \/ DropLoser \/ CombineDone
    BY <2>4 DEF SkipSlot, StepSlot, PostSlot, TakeSlot, CancelLoser, DropLoser, CombineDone
  <2> QED
    BY <1>4, <2>1, <2>2, <2>3, <2>4 DEF Machinery
<1> QED
  BY <1>2, <1>3, <1>4 DEF Next

\* A coroutine's call is one of those it may be in.
LEMMA CallsStayFlat ==
  ASSUME Inv, Inv', FlatInv, FlatBodies, StackStep, NEW f \in On', f.who \in Coros
  PROVE  f.call \in FlatCalls
<1>0. f \in Frames
  <2>1. PICK i \in Places' : f = stack'[i]
    BY DEF On
  <2> QED
    BY <2>1, ElementOfSeq DEF Inv, StackInv, Places
<1>1. CASE f \in On
  BY <1>1 DEF FlatInv
<1>2. CASE Follows(f)
  BY <1>2, FlatTop, Names, <1>0 DEF Follows, FlatCalls, Calls, May, FlatBodies, Rounds, Frames
<1>3. CASE Enters(f)
  BY <1>3, Names DEF Enters, FlatCalls
<1> QED
  BY <1>1, <1>2, <1>3, FramesAfter

\* A drive loop resumes what has neither seen its end nor runs: its target is suspended.
LEMMA TargetSuspended ==
  ASSUME Inv, FlatInv, NEW h \in Coros, owner[h] = Self, Self # None, status[h] # "freed",
         ~ complete[h] \/ ~ eos[h]
  PROVE  status[h] = "suspended"
  BY OwnedSuspended DEF Inv, Completed

\* Resuming something suspended is defined.
LEMMA TurnDefined ==
  ASSUME FlatInv, NEW s, NEW h, status[h] = "suspended",
         Pump(s) \/ ResumeTarget(s, h) \/ ResumeFrom(s, h)
  PROVE  fault' = "none"
  BY DEF FlatInv, Pump, ResumeTarget, ResumeFrom

\* No step does anything undefined.
LEMMA StepDefined ==
  ASSUME Inv, FlatInv, FlatBodies, Next
  PROVE  fault' = "none"
<1> USE DEF FlatInv
<1>1. CASE Body
  BY <1>1, OwnedSuspended, TopFacts DEF Body, Spawn, Cancel, Drive, Combine, StreamDrop, Destroy, May, In,
     Holds
<1>2. CASE LeaveBody
  <2>1. CASE YieldNow
    BY <2>1, AtBody, RoomForSelf DEF YieldNow, May, In, InCoroutine
  <2> QED
    BY <1>2, <2>1 DEF LeaveBody, YieldValue, Ret
<1>3. CASE Machinery
  <2>1. CASE WakeAwaiter
    BY <2>1, TopFacts DEF WakeAwaiter, In, FrameOK
  <2>2. CASE DriveOn
    BY <2>2, TargetSuspended, TurnDefined, TopTarget DEF DriveOn, In, Waits, Arrived
  <2>3. CASE PumpResume
    BY <2>3, TurnDefined, RingTakes DEF PumpResume, Inv, QueueInv, Waiting, Coros
  <2>4. CASE TaskDone
    BY <2>4, CompleteIsFinal, TopTarget DEF TaskDone, Destroy, In, Waits, Arrived
  <2>5. CASE StepSlot
    BY <2>5, TurnDefined, TargetSuspended, TopFacts, TopSlots DEF StepSlot, In
  <2>6. CASE TakeSlot
    BY <2>6, CompleteIsFinal, TopFacts, TopSlots DEF TakeSlot, Destroy, In
  <2>7. CASE CancelLoser
    BY <2>7, TurnDefined, TargetSuspended, LoserFacts DEF CancelLoser, In
  <2>8. CASE DropLoser
    BY <2>8, CompleteIsFinal, LoserFacts DEF DropLoser, Destroy, In
  <2>9. CASE Suspend \/ ResumeEdgeLive \/ ResumeEdgeCancelled \/ PumpReturn \/ WaitDone \/ NextDone
    BY <2>9 DEF Suspend, ResumeEdgeLive, ResumeEdgeCancelled, PumpReturn, WaitDone, NextDone
  <2>10. CASE SkipSlot \/ PostSlot \/ CombineDone
    BY <2>10 DEF SkipSlot, PostSlot, CombineDone
  <2> QED
    BY <1>3, <2>1, <2>2, <2>3, <2>4, <2>5, <2>6, <2>7, <2>8, <2>9, <2>10 DEF Machinery
<1> QED
  BY <1>1, <1>2, <1>3 DEF Next

\* The invariant of such coroutines holds at first.
LEMMA InitFlat ==
  ASSUME Init
  PROVE  FlatInv
<1> QED
  BY Names, BodyFrame DEF FlatInv, Init, CalledByOwner, OwnersOrdered, On, Places

\* Every step keeps it.
LEMMA FlatKeeps ==
  ASSUME Inv, Inv', FlatInv, FlatBodies, [Next]_vars
  PROVE  FlatInv'
<1>1. CASE Next
  <2>1. StackStep
    BY <1>1, BodyOnStack, LeaveBodyOnStack, MachineryOnStack DEF Next
  <2> QED
    BY <1>1, <2>1, StepDefined, NoContinuation, CallsStayFlat, OwnersKeepCalling, OwnersStayOrdered
       DEF FlatInv
<1>2. CASE UNCHANGED vars
  BY <1>2 DEF vars, promise, FlatInv, CalledByOwner, OwnersOrdered, Places, On
<1> QED
  BY <1>1, <1>2

\* Where coroutines leave `await` and await.next to main and wait for one another by
\* future.wait and drop only, nothing the generated code does with a handle is undefined, however
\* bodies and the queue interleave, and the executor's ring of Cap slots never overflows.
THEOREM FlatHandlesDefined ==
  ASSUME FlatBodies
  PROVE  Spec => []HandlesDefined
<1>1. Init => FlatInv
  BY InitFlat
<1>2. Inv /\ Inv' /\ FlatInv /\ [Next]_vars => FlatInv'
  BY FlatKeeps
<1>3. Spec => []FlatInv
  BY <1>1, <1>2, InvAlways, PTL DEF Spec
<1>4. FlatInv /\ NoStaleHandle => HandlesDefined
  BY DEF FlatInv, HandlesDefined, DefinedBehaviour
<1> QED
  BY <1>3, <1>4, NeverStale, PTL
================================================================================
