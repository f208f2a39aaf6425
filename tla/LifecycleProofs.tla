---------------------------- MODULE LifecycleProofs ----------------------------
(* Lifecycle blocks, crash blocks and the cleanup of scopes: each comes in its turn. *)
(*                                                                                 *)
(* cg_lifecycle_topo_sort is right for any number of blocks, any titles and any    *)
(* constraints, those that make a cycle included.                                  *)
(*                                                                                 *)
(* The argument: the edges that are left are those whose first block is not done,  *)
(* and the indegree counts them.  A block is picked when it has none, so whatever  *)
(* has to precede it is done; and when no block can be picked, every block that is *)
(* left has one of those left before it, which is a cycle of the source.  The      *)
(* arguments about crashes and about scopes stand where their parts begin.         *)
EXTENDS LifecycleOrder, CrashRuntime, Cleanup, FiniteSetTheorems, SequenceTheorems, TLAPS

Sorting == lcPhase \in {"sort", "rest", "done"}

\* What has to precede a block, by the code's search for titles.
AskedBefore(j) == {i \in LcBlocks : Asks(i, j)}

EdgesExact ==
  lcPhase = "sort" => lcEdges = {e \in LcBlocks \X LcBlocks : Asks(e[1], e[2]) /\ e[1] \notin LcDone}

DegreesExact ==
  lcPhase = "sort" => \A j \in LcBlocks : lcIndegree[j] = Cardinality(LcEdgesInto(j))

\* The order so far has no block twice, and none before the sort begins.
OrderInjective ==
  /\ \A p, q \in DOMAIN lcOrder : lcOrder[p] = lcOrder[q] => p = q
  /\ Cardinality(LcDone) = Len(lcOrder)
  /\ ~Sorting => lcOrder = <<>>
  /\ lcPhase = "done" => Len(lcOrder) >= BlockCount

\* Unless the sort fell back, what has to precede a block in the order is before it.
PredecessorsFirst ==
  ~lcFell => \A q \in DOMAIN lcOrder : \A i \in AskedBefore(lcOrder[q]) :
               \E p \in DOMAIN lcOrder : p < q /\ lcOrder[p] = i

\* Blocks that nothing has to precede keep their source order, and those that are
\* still to be picked come after all that have been.
FreeInOrder ==
  /\ \A p, q \in DOMAIN lcOrder :
       p < q /\ AskedBefore(lcOrder[q]) = {} => lcOrder[p] < lcOrder[q]
  /\ \A j \in LcBlocks \ LcDone : AskedBefore(j) = {} => \A p \in DOMAIN lcOrder : lcOrder[p] < j

\* A fall back has a reason: blocks that ask to run before each other.
Looped == \E S \in SUBSET LcBlocks : S # {} /\ \A j \in S : \E i \in S : Asks(i, j)
FellForReason ==
  /\ lcFell => Looped
  /\ lcPhase \in {"collect", "count", "sort"} => ~lcFell
  /\ lcPhase = "rest" => lcFell /\ \A j \in LcBlocks \ LcDone : AskedBefore(j) # {}

LcInv ==
  /\ LifecycleTypeOK
  /\ EdgesExact /\ DegreesExact
  /\ OrderInjective /\ PredecessorsFirst /\ FreeInOrder /\ FellForReason

--------------------------------------------------------------------------------
(* Facts about the sets and the sequence. *)

LEMMA BlocksFinite ==
  /\ IsFiniteSet(LcBlocks) /\ Cardinality(LcBlocks) = BlockCount
  /\ IsFiniteSet(LcBlocks \X LcBlocks)
<1>2. IsFiniteSet(LcBlocks) /\ Cardinality(LcBlocks) = BlockCount
  BY FS_Interval, LifecycleAssumption DEF LcBlocks
<1>3. QED
  BY <1>2, FS_Product

LEMMA DoneFinite ==
  ASSUME lcOrder \in Seq(LcBlocks)
  PROVE  /\ Len(lcOrder) \in Nat /\ DOMAIN lcOrder = 1 .. Len(lcOrder)
         /\ \A p \in DOMAIN lcOrder : lcOrder[p] \in LcBlocks
         /\ LcDone \subseteq LcBlocks /\ IsFiniteSet(LcDone)
<1>5. QED
  BY BlocksFinite, FS_Subset, ElementOfSeq DEF LcDone

\* A block at the end of the order.
LEMMA PlaceOne ==
  ASSUME lcOrder \in Seq(LcBlocks), NEW i \in LcBlocks, lcOrder' = Append(lcOrder, i)
  PROVE  /\ lcOrder' \in Seq(LcBlocks) /\ Len(lcOrder') = Len(lcOrder) + 1
         /\ DOMAIN lcOrder' = DOMAIN lcOrder \cup {Len(lcOrder) + 1}
         /\ \A p \in DOMAIN lcOrder : p < Len(lcOrder) + 1 /\ lcOrder'[p] = lcOrder[p]
         /\ lcOrder'[Len(lcOrder) + 1] = i
         /\ LcDone' = LcDone \cup {i}
<1>7. QED
  BY AppendProperties DEF LcDone

\* A block that is not done keeps the order free of repetitions.
LEMMA PlaceOneOnce ==
  ASSUME lcOrder \in Seq(LcBlocks), NEW i \in LcBlocks \ LcDone, lcOrder' = Append(lcOrder, i),
         \A p, q \in DOMAIN lcOrder : lcOrder[p] = lcOrder[q] => p = q,
         Cardinality(LcDone) = Len(lcOrder)
  PROVE  /\ \A p, q \in DOMAIN lcOrder' : lcOrder'[p] = lcOrder'[q] => p = q
         /\ Cardinality(LcDone') = Len(lcOrder')
<1> DEFINE n == Len(lcOrder) + 1
<1>1. /\ Len(lcOrder') = n /\ DOMAIN lcOrder' = DOMAIN lcOrder \cup {n}
      /\ \A p \in DOMAIN lcOrder : p < n /\ lcOrder'[p] = lcOrder[p]
      /\ lcOrder'[n] = i /\ LcDone' = LcDone \cup {i}
  BY PlaceOne
<1>2. \A p \in DOMAIN lcOrder : lcOrder[p] # i
  BY DEF LcDone
<1>3. \A p, q \in DOMAIN lcOrder' : lcOrder'[p] = lcOrder'[q] => p = q
  <2> SUFFICES ASSUME NEW p \in DOMAIN lcOrder', NEW q \in DOMAIN lcOrder', lcOrder'[p] = lcOrder'[q]
               PROVE  p = q
    OBVIOUS
  <2> HIDE DEF n
  <2>1. CASE p \in DOMAIN lcOrder /\ q \in DOMAIN lcOrder
    BY <1>1, <2>1
  <2>2. CASE p = n /\ q \in DOMAIN lcOrder
    BY <1>1, <1>2, <2>2
  <2>3. CASE p \in DOMAIN lcOrder /\ q = n
    BY <1>1, <1>2, <2>3
  <2>4. CASE p = n /\ q = n
    BY <2>4
  <2>5. QED
    BY <1>1, <2>1, <2>2, <2>3, <2>4
<1>5. QED
  BY <1>3, <1>1, FS_AddElement, DoneFinite

\* What the source asks stays the same while it is sorted.
LEMMA SameSource ==
  ASSUME UNCHANGED lcSource
  PROVE  /\ \A i, j \in LcBlocks : Asks(i, j)' = Asks(i, j)
         /\ \A j \in LcBlocks : AskedBefore(j)' = AskedBefore(j)
         /\ \A q : AskedBefore(lcOrder[q])' = AskedBefore(lcOrder'[q])
<1>4. QED
  BY DEF AskedBefore, Asks, FoundByTitle, lcSource

\* The edges that lead to a block are finitely many, and none of them is one without
\* the block they come from.
LEMMA EdgesIntoFinite ==
  ASSUME lcEdges \subseteq LcBlocks \X LcBlocks, NEW j \in LcBlocks
  PROVE  /\ IsFiniteSet(LcEdgesInto(j)) /\ Cardinality(LcEdgesInto(j)) \in Nat
         /\ Cardinality(LcEdgesInto(j)) = 0 => LcEdgesInto(j) = {}
<1>3. QED
  BY FS_CardinalityType, FS_EmptySet, BlocksFinite, FS_Subset DEF LcEdgesInto

--------------------------------------------------------------------------------
(* The invariant holds at first and every step keeps it. *)

LEMMA LcInvInit == LifecycleInit => LcInv
<1> SUFFICES ASSUME LifecycleInit PROVE LcInv
  OBVIOUS
<1> USE DEF LifecycleInit
<1>1. lcOrder = <<>> /\ lcOrder \in Seq(LcBlocks) /\ Len(lcOrder) = 0 /\ DOMAIN lcOrder = {}
  OBVIOUS
<1>3. LifecycleTypeOK
  <2>1. lcIndegree \in [LcBlocks -> Int]
    OBVIOUS
  <2>3. QED
    BY <1>1, <2>1 DEF LifecycleTypeOK
<1>8. QED
  BY <1>3, <1>1, FS_EmptySet DEF LcInv, PredecessorsFirst, FreeInOrder, EdgesExact, DegreesExact,
     FellForReason, OrderInjective, LcDone

\* A step that leaves the order alone, and the source too or has no order yet.
LEMMA OrderUntouched ==
  ASSUME LcInv, UNCHANGED <<lcOrder, lcFell>>, UNCHANGED lcSource \/ lcOrder = <<>>
  PROVE  PredecessorsFirst' /\ FreeInOrder'
<1>2. CASE lcOrder = <<>>
  BY <1>2 DEF PredecessorsFirst, FreeInOrder
<1>3. CASE UNCHANGED lcSource
  <2>2. \A p \in DOMAIN lcOrder : lcOrder[p] \in LcBlocks
    BY DoneFinite DEF LcInv, LifecycleTypeOK
  <2>5. QED
    BY <2>2, <1>3, SameSource DEF LcInv, PredecessorsFirst, FreeInOrder, LcDone
<1>4. QED
  BY <1>2, <1>3

LEMMA CollectKeeps == LcInv /\ Collect => LcInv'
<1> SUFFICES ASSUME LcInv, Collect PROVE LcInv'
  OBVIOUS
<1> USE DEF Collect, LcInv
<1>1. lcOrder = <<>>
  BY DEF OrderInjective, Sorting
<1>8. QED
  BY <1>1, OrderUntouched DEF EdgesExact, DegreesExact, LifecycleTypeOK, FellForReason, OrderInjective,
     Sorting, LcDone

LEMMA CountKeeps == LcInv /\ CountEdges => LcInv'
<1> SUFFICES ASSUME LcInv, CountEdges PROVE LcInv'
  OBVIOUS
<1> USE DEF LcInv
<1>1. /\ lcOrder = <<>> /\ lcPhase' = "sort" /\ lcFell' = lcFell /\ lcOrder' = lcOrder
      /\ UNCHANGED lcSource /\ ~lcFell
  BY DEF CountEdges, OrderInjective, Sorting, FellForReason
<1>4. lcEdges' = AskedEdges /\ AskedEdges \subseteq LcBlocks \X LcBlocks
  BY DEF CountEdges, AskedEdges
<1>7. DegreesExact'
  BY <1>4 DEF DegreesExact, CountEdges, LcEdgesInto
<1>9. LifecycleTypeOK'
  BY <1>1, <1>4, BlocksFinite, FS_Subset, FS_CardinalityType DEF LifecycleTypeOK, lcSource, CountEdges
<1>13. QED
  BY <1>7, <1>9, <1>1, OrderUntouched, <1>4, SameSource DEF OrderInjective, Sorting, EdgesExact, AskedEdges,
     LcDone, FellForReason

LEMMA SortedKeeps == LcInv /\ Sorted => LcInv'
<1> SUFFICES ASSUME LcInv, Sorted PROVE LcInv'
  OBVIOUS
<1> USE DEF LcInv
<1>1. /\ lcPhase' = "done" /\ Len(lcOrder) >= BlockCount /\ lcPhase \in {"sort", "rest"}
      /\ UNCHANGED <<lcSource, lcEdges, lcIndegree, lcOrder, lcFell>>
  BY DEF Sorted
<1>8. FellForReason'
  BY <1>1, SameSource DEF FellForReason, Looped
<1>9. QED
  BY <1>8, <1>1, OrderUntouched DEF EdgesExact, DegreesExact, LifecycleTypeOK, lcSource, OrderInjective,
     Sorting, LcDone

\* Nothing is ready: each block that is left has an edge from one that is left.
LEMMA FallBackKeeps == LcInv /\ FallBack => LcInv'
<1> SUFFICES ASSUME LcInv, FallBack PROVE LcInv'
  OBVIOUS
<1> USE DEF LcInv
<1>1. /\ lcPhase = "sort" /\ lcPhase' = "rest" /\ lcFell' = TRUE /\ Len(lcOrder) < BlockCount
      /\ UNCHANGED <<lcSource, lcEdges, lcIndegree, lcOrder>>
      /\ \A i \in LcBlocks : i \in LcDone \/ lcIndegree[i] # 0
  BY DEF FallBack, Ready
<1>2. LcDone' = LcDone
  BY <1>1 DEF LcDone
<1>7. \A j \in LcBlocks : AskedBefore(j)' = AskedBefore(j)
  BY <1>1, SameSource
<1>9. \A j \in LcBlocks \ LcDone : \E i \in LcBlocks \ LcDone : Asks(i, j)
  <2> SUFFICES ASSUME NEW j \in LcBlocks \ LcDone PROVE \E i \in LcBlocks \ LcDone : Asks(i, j)
    OBVIOUS
  <2>3. PICK e \in lcEdges : e[2] = j
    BY FS_EmptySet, <1>1 DEF LcEdgesInto, DegreesExact
  <2>5. QED
    BY <2>3, <1>1 DEF EdgesExact
<1>10. LcBlocks \ LcDone # {}
  <2>1. CASE LcDone = LcBlocks
    BY <1>1, <2>1, BlocksFinite, LifecycleAssumption DEF OrderInjective
  <2>3. QED
    BY <2>1, DoneFinite DEF LifecycleTypeOK
<1>11. Looped
  BY <1>9, <1>10 DEF Looped
<1>14. FellForReason'
  BY <1>1, <1>2, <1>7, <1>9, <1>11, SameSource DEF FellForReason, AskedBefore, Looped
<1>15. QED
  BY <1>14, <1>1, <1>2, <1>7, DoneFinite DEF EdgesExact, DegreesExact, OrderInjective, Sorting,
     LifecycleTypeOK, lcSource, PredecessorsFirst, FreeInOrder

\* The steps that put one more block into the order, the one of PickReady and the one
\* of TakeRest.
LEMMA PickKeepsEdges ==
  ASSUME LcInv, NEW i \in LcBlocks, PickReady(i)
  PROVE  EdgesExact' /\ DegreesExact' /\ lcEdges' \subseteq lcEdges /\ lcIndegree' \in [LcBlocks -> Int]
<1> USE DEF LcInv
<1>1. /\ lcPhase = "sort" /\ lcPhase' = "sort" /\ lcOrder' = Append(lcOrder, i)
      /\ UNCHANGED lcSource /\ lcEdges' = {e \in lcEdges : e[1] # i}
      /\ lcIndegree' = [j \in LcBlocks |-> IF <<i, j>> \in lcEdges THEN lcIndegree[j] - 1 ELSE lcIndegree[j]]
  BY DEF PickReady
<1>6. lcEdges \subseteq LcBlocks \X LcBlocks /\ lcIndegree \in [LcBlocks -> Int]
  BY DEF LifecycleTypeOK
<1>8. ASSUME NEW j \in LcBlocks PROVE lcIndegree'[j] = Cardinality(LcEdgesInto(j)')
  <2>1. lcIndegree[j] = Cardinality(LcEdgesInto(j))
    BY <1>1 DEF DegreesExact
  <2>2. LcEdgesInto(j)' = LcEdgesInto(j) \ {<<i, j>>}
    BY <1>1, <1>6 DEF LcEdgesInto
  <2>4. CASE <<i, j>> \in lcEdges
    <3>1. <<i, j>> \in LcEdgesInto(j)
      BY <2>4 DEF LcEdgesInto
    <3>3. QED
      BY <1>1, <2>1, <2>2, <2>4, <3>1, FS_RemoveElement, <1>6, EdgesIntoFinite
  <2>5. CASE <<i, j>> \notin lcEdges
    BY <1>1, <2>1, <2>5, <2>2 DEF LcEdgesInto
  <2>6. QED
    BY <2>4, <2>5
<1>10. QED
  BY <1>1, <1>6, <1>8, SameSource, PlaceOne DEF DegreesExact, EdgesExact, LifecycleTypeOK

\* A block that is picked has all that must precede it in the order.
LEMMA PickedIsFree ==
  ASSUME LcInv, NEW i \in LcBlocks, PickReady(i)
  PROVE  /\ i \notin LcDone /\ AskedBefore(i) \subseteq LcDone
         /\ \A j \in LcBlocks \ LcDone : AskedBefore(j) = {} => i <= j
<1> USE DEF LcInv
<1>1. lcPhase = "sort" /\ i \notin LcDone /\ lcIndegree[i] = 0
      /\ \A j \in LcBlocks : j \notin LcDone /\ lcIndegree[j] = 0 => i <= j
  BY DEF PickReady, FirstReady, Ready
<1>4. ASSUME NEW k \in AskedBefore(i), k \notin LcDone PROVE FALSE
  <2>2. <<k, i>> \in lcEdges
    BY <1>1, <1>4 DEF EdgesExact, AskedBefore
  <2>3. QED
    BY <2>2, <1>1, EdgesIntoFinite DEF LcEdgesInto, DegreesExact, LifecycleTypeOK
<1>6. QED
  BY <1>1, <1>4, FS_EmptySet DEF DegreesExact, LcEdgesInto, EdgesExact, AskedBefore

LEMMA PickKeeps == ASSUME NEW i \in LcBlocks PROVE LcInv /\ PickReady(i) => LcInv'
<1> SUFFICES ASSUME LcInv, PickReady(i) PROVE LcInv'
  OBVIOUS
<1> USE DEF LcInv
<1> DEFINE n == Len(lcOrder) + 1
<1>1. /\ lcPhase = "sort" /\ lcOrder' = Append(lcOrder, i)
      /\ UNCHANGED <<lcPhase, lcSource, lcFell>>
  BY DEF PickReady
<1>2. lcOrder \in Seq(LcBlocks)
  BY DEF LifecycleTypeOK
<1>3. /\ lcOrder' \in Seq(LcBlocks) /\ Len(lcOrder') = n
      /\ DOMAIN lcOrder' = DOMAIN lcOrder \cup {n}
      /\ \A p \in DOMAIN lcOrder : p < n /\ lcOrder'[p] = lcOrder[p]
      /\ lcOrder'[n] = i /\ LcDone' = LcDone \cup {i}
  BY <1>1, <1>2, PlaceOne
<1>4. /\ i \notin LcDone /\ AskedBefore(i) \subseteq LcDone
      /\ \A j \in LcBlocks \ LcDone : AskedBefore(j) = {} => i <= j
  BY PickedIsFree
<1>6. /\ \A j \in LcBlocks : AskedBefore(j)' = AskedBefore(j)
      /\ \A q : AskedBefore(lcOrder[q])' = AskedBefore(lcOrder'[q])
  BY <1>1, SameSource
<1>7. /\ Len(lcOrder) \in Nat /\ DOMAIN lcOrder = 1 .. Len(lcOrder)
      /\ \A p \in DOMAIN lcOrder : lcOrder[p] \in LcBlocks /\ lcOrder[p] \in LcDone
  BY <1>2, DoneFinite DEF LcDone
<1> HIDE DEF n
<1>10. PredecessorsFirst'
  <2> SUFFICES ASSUME ~lcFell, NEW q \in DOMAIN lcOrder', NEW k \in AskedBefore(lcOrder[q])'
               PROVE  \E p \in DOMAIN lcOrder' : p < q /\ lcOrder'[p] = k
    BY <1>1 DEF PredecessorsFirst
  <2>1. CASE q \in DOMAIN lcOrder
    <3>2. PICK p \in DOMAIN lcOrder : p < q /\ lcOrder[p] = k
      BY <2>1, <1>3, <1>6, <1>7 DEF PredecessorsFirst
    <3>3. QED
      BY <1>3, <3>2
  <2>2. CASE q = n
    <3>2. PICK p \in DOMAIN lcOrder : lcOrder[p] = k
      BY <1>4, <1>3, <1>6, <2>2 DEF LcDone
    <3>3. QED
      BY <1>3, <2>2, <3>2
  <2>3. QED
    BY <1>3, <2>1, <2>2
<1>11. FreeInOrder'
  <2>1. ASSUME NEW p \in DOMAIN lcOrder', NEW q \in DOMAIN lcOrder', p < q, AskedBefore(lcOrder[q])' = {}
        PROVE  lcOrder'[p] < lcOrder'[q]
    <3>1. CASE q \in DOMAIN lcOrder
      <4>1. p \in DOMAIN lcOrder
        <5>1. CASE p = n
          BY <2>1, <5>1, <1>3, <1>7, <3>1 DEF n
        <5>2. QED
          BY <1>3, <5>1
      <4>3. QED
        BY <1>3, <2>1, <3>1, <4>1, <1>6, <1>7 DEF FreeInOrder
    <3>2. CASE q = n
      BY <1>3, <3>2, <1>4, <1>7, <2>1, <1>6 DEF FreeInOrder, n
    <3>3. QED
      BY <1>3, <3>1, <3>2
  <2>2. ASSUME NEW j \in LcBlocks \ LcDone', AskedBefore(j)' = {}, NEW p \in DOMAIN lcOrder'
        PROVE  lcOrder'[p] < j
    <3>1. j \in LcBlocks \ LcDone /\ j # i /\ AskedBefore(j) = {}
      BY <1>3, <1>6, <2>2
    <3>2. CASE p \in DOMAIN lcOrder
      BY <1>3, <3>1, <3>2 DEF FreeInOrder
    <3>3. CASE p = n
      BY <1>3, <3>1, <3>3, <1>4 DEF LcBlocks
    <3>4. QED
      BY <1>3, <3>2, <3>3
  <2>3. QED
    BY <2>1, <2>2 DEF FreeInOrder
<1>13. QED
  BY <1>10, <1>11, <1>1, <1>3, PickKeepsEdges, <1>2, PlaceOneOnce, <1>4 DEF LifecycleTypeOK, lcSource,
     FellForReason, OrderInjective, Sorting

LEMMA TakeRestKeeps == ASSUME NEW i \in LcBlocks PROVE LcInv /\ TakeRest(i) => LcInv'
<1> SUFFICES ASSUME LcInv, TakeRest(i) PROVE LcInv'
  OBVIOUS
<1> USE DEF LcInv
<1> DEFINE n == Len(lcOrder) + 1
<1>1. /\ lcPhase = "rest" /\ lcOrder' = Append(lcOrder, i)
      /\ i \in LcBlocks \ LcDone /\ \A j \in LcBlocks \ LcDone : i <= j
      /\ UNCHANGED <<lcPhase, lcSource, lcEdges, lcIndegree, lcFell>>
  BY DEF TakeRest, LeftOver
<1>2. lcOrder \in Seq(LcBlocks)
  BY DEF LifecycleTypeOK
<1>3. /\ lcOrder' \in Seq(LcBlocks) /\ Len(lcOrder') = n
      /\ DOMAIN lcOrder' = DOMAIN lcOrder \cup {n}
      /\ \A p \in DOMAIN lcOrder : p < n /\ lcOrder'[p] = lcOrder[p]
      /\ lcOrder'[n] = i /\ LcDone' = LcDone \cup {i}
  BY <1>1, <1>2, PlaceOne
<1>4. /\ \A j \in LcBlocks : AskedBefore(j)' = AskedBefore(j)
      /\ \A q : AskedBefore(lcOrder[q])' = AskedBefore(lcOrder'[q])
  BY <1>1, SameSource
<1>5. \A j \in LcBlocks \ LcDone : AskedBefore(j) # {}
  BY <1>1 DEF FellForReason
<1>10. PredecessorsFirst' /\ FreeInOrder'
  <2> HIDE DEF n
  <2>2. FreeInOrder'
    BY <1>3, <1>4, <1>5, <1>2, DoneFinite, <1>1 DEF FreeInOrder, n
  <2>3. QED
    BY <2>2, <1>1 DEF PredecessorsFirst, FellForReason
<1>11. FellForReason'
  BY <1>1, <1>3, <1>4, <1>5, SameSource DEF FellForReason, Looped
<1>12. QED
  BY <1>10, <1>11, <1>1, <1>3, <1>2, PlaceOneOnce DEF EdgesExact, DegreesExact, LifecycleTypeOK, lcSource,
     OrderInjective, Sorting

LEMMA LcInvKept == LcInv /\ [LifecycleNext]_lcVars => LcInv'
<1> SUFFICES ASSUME LcInv, [LifecycleNext]_lcVars PROVE LcInv'
  OBVIOUS
<1>1. CASE Collect
  BY <1>1, CollectKeeps
<1>2. CASE CountEdges
  BY <1>2, CountKeeps
<1>3. CASE FallBack
  BY <1>3, FallBackKeeps
<1>4. CASE Sorted
  BY <1>4, SortedKeeps
<1>5. CASE \E i \in LcBlocks : PickReady(i)
  BY <1>5, PickKeeps
<1>6. CASE \E i \in LcBlocks : TakeRest(i)
  BY <1>6, TakeRestKeeps
<1>7. CASE UNCHANGED lcVars
  <2>1. UNCHANGED <<lcPhase, lcSource, lcEdges, lcIndegree, lcOrder, lcFell>>
    BY <1>7 DEF lcVars
  <2>2. LcDone' = LcDone
    BY <2>1 DEF LcDone
  <2>3. \A i, j \in LcBlocks : Asks(i, j)' = Asks(i, j)
    BY <2>1, SameSource
  <2>9. FellForReason'
    BY <2>1, <2>2, SameSource, <2>3 DEF LcInv, FellForReason, Looped
  <2>10. QED
    BY <2>9, <2>1, <2>2, OrderUntouched, <2>3 DEF LcInv, OrderInjective, Sorting, LifecycleTypeOK, lcSource,
       DegreesExact, LcEdgesInto, EdgesExact
<1>8. QED
  BY <1>1, <1>2, <1>3, <1>4, <1>5, <1>6, <1>7 DEF LifecycleNext

\* The invariant the theorems below are read from.
THEOREM LcInvHolds == LifecycleSpec => []LcInv
<1>1. QED
  BY LcInvInit, LcInvKept, PTL DEF LifecycleSpec

--------------------------------------------------------------------------------
(* What it says of the dispatcher. *)

\* The code's search for titles finds what the source means.
LEMMA AsksIsMeant ==
  ASSUME NEW i \in LcBlocks, NEW j \in LcBlocks
  PROVE  Asks(i, j) <=> MustPrecede(i, j)
<1>1. BlockCount \in Nat /\ i \in Int /\ j \in Int /\ \A k \in LcBlocks : k \in Int
  BY LifecycleAssumption DEF LcBlocks
<1>2. \A k \in LcBlocks : k < j \/ j <= k
  BY <1>1
<1>3. \A k \in LcBlocks : k < i \/ i <= k
  BY <1>1
<1>4. \A k \in LcBlocks : ~(k < j /\ j <= k) /\ ~(k < i /\ i <= k)
  BY <1>1
<1> HIDE <1>1
<1>5. FoundByTitle(lcBefore[i], j)
        <=> /\ lcBefore[i] # Untitled /\ lcTitle[j] = lcBefore[i]
            /\ \A k \in LcBlocks : k < j => lcTitle[k] # lcTitle[j]
  BY <1>2, <1>4 DEF FoundByTitle
<1>6. FoundByTitle(lcAfter[j], i)
        <=> /\ lcAfter[j] # Untitled /\ lcTitle[i] = lcAfter[j]
            /\ \A k \in LcBlocks : k < i => lcTitle[k] # lcTitle[i]
  BY <1>3, <1>4 DEF FoundByTitle
<1>7. QED
  BY <1>5, <1>6 DEF Asks, MustPrecede

\* Every block of the source is in the order exactly once, whatever it asks for: the
\* dispatcher of cg_emit_lifecycle_array has no call twice, and none is missing when it is
\* emitted.
LEMMA BlocksRunOnce == LcInv => PlacedOnce /\ AllPlaced
<1> SUFFICES ASSUME LcInv PROVE PlacedOnce /\ AllPlaced
  OBVIOUS
<1>2. ASSUME lcPhase = "done" PROVE LcDone = LcBlocks
  <2>4. BlockCount \in Nat
    BY LifecycleAssumption
  <2>7. QED
    BY FS_Subset, <2>4, <1>2, DoneFinite, BlocksFinite DEF LcInv, OrderInjective, LifecycleTypeOK
<1>3. QED
  BY <1>2 DEF PlacedOnce, AllPlaced, LcInv, OrderInjective

\* No block is called twice; where no constraint is part of a cycle every block is called,
\* in an order the source asks for, and blocks that nothing has to precede keep their
\* source order (cg_fileheaders.c:133).
THEOREM OrderAlwaysKept == LifecycleSpec => []OrderKept
<1>1. LcInv => OrderKept
  <2> SUFFICES ASSUME LcInv PROVE OrderKept
    OBVIOUS
  <2>3. ASSUME ~Cyclic PROVE ConstraintsKept
    <3>1. /\ ~lcFell
          /\ \A i, j \in LcBlocks : MustPrecede(i, j) =>
               \A q \in Places(j) : \E p \in Places(i) : p < q
      BY <2>3, AsksIsMeant DEF LcInv, PredecessorsFirst, Places, AskedBefore, FellForReason, Looped, Cyclic
    <3>2. QED
      BY <3>1 DEF ConstraintsKept
  <2>4. SourceOrderKept
    <3> SUFFICES ASSUME NEW p \in DOMAIN lcOrder, NEW q \in DOMAIN lcOrder, p < q,
                        \A k \in LcBlocks : ~MustPrecede(k, lcOrder[q])
                 PROVE  lcOrder[p] < lcOrder[q]
      BY DEF SourceOrderKept
    <3>2. QED
      BY AsksIsMeant, DoneFinite DEF LcInv, FreeInOrder, AskedBefore, LifecycleTypeOK
  <2>5. QED
    BY <2>3, <2>4, BlocksRunOnce DEF OrderKept
<1>2. QED
  BY <1>1, LcInvHolds, PTL

--------------------------------------------------------------------------------
(* The blocks of a program that faults.  The argument: a thread begins with the    *)
(* crash blocks only while no thread has stored the flag, and never again, since   *)
(* the flag stays; so that a crash block has begun at most once for each thread    *)
(* that has been in the crash dispatcher, and each of those has faulted.           *)

\* The type invariant of the crash runtime.
CrPlaces == {"none", "start", "init", "code", "handler", "set", "crash", "exit"}
CrashTypeOK ==
  /\ crInstalled \in BOOLEAN /\ crActive \in BOOLEAN
  /\ crAt \in [CrashThreads -> CrPlaces]
  /\ crNext \in [CrashThreads -> Nat]
  /\ crBlocked \in [CrashThreads -> SUBSET FatalSignals]
  /\ crExiting \in Nat
  /\ crEnd \in {"no", "exit", "exit after crash", "killed", "_Exit", "undefined"}
  /\ DOMAIN crBegun = Kinds /\ \A kind \in Kinds : crBegun[kind] \in [1 .. BlocksOf(kind) -> Nat]
  /\ crFaulted \in SUBSET CrashThreads /\ IsFiniteSet(crFaulted)

\* The handlers are there before any code of the program, and who has faulted knows it.
HandlersFirst ==
  \A t \in CrashThreads :
    /\ ~crInstalled => crAt[t] \in {"none", "start"}
    /\ crAt[t] \in {"start", "init"} => t = MainThread
    /\ crBlocked[t] # {} => t \in crFaulted
    /\ crAt[t] \in {"handler", "set", "crash"} => crBlocked[t] # {}
    /\ crAt[t] \in {"none", "start", "init", "code"} => crBlocked[t] = {}

\* Two signals are blocked on the thread, so that it has faulted while handling a fault.
FaultedTwice(t) == \E s, u \in crBlocked[t] : s # u

\* The thread has begun with the crash blocks.
InCrash(t) ==
  \/ crAt[t] = "crash"
  \/ crAt[t] = "exit" /\ crBlocked[t] # {}
  \/ crAt[t] = "handler" /\ FaultedTwice(t)

\* The threads that may have begun crash block i.
BegunCrash(i) == {t \in CrashThreads : InCrash(t) /\ (crAt[t] = "crash" => i <= crNext[t])}

\* Init blocks begin on the main thread, in turn.
InitInTurn ==
  /\ \A i \in 1 .. InitBlocks : crBegun["init"][i] <= 1
  /\ crAt[MainThread] \in {"start", "init"} =>
       \A i \in 1 .. InitBlocks : i > crNext[MainThread] => crBegun["init"][i] = 0

\* Exit blocks begin in turn, on the one thread that has called exit.
ExitInTurn ==
  /\ \A i \in 1 .. ExitBlocks : crBegun["exit"][i] <= 1
  /\ crEnd = "no" =>
       /\ crExiting <= 1
       /\ crExiting = 0 => \A i \in 1 .. ExitBlocks : crBegun["exit"][i] = 0
       /\ \A t \in CrashThreads : crAt[t] = "exit" =>
            /\ crExiting = 1
            /\ \A u \in CrashThreads : crAt[u] = "exit" => u = t
            /\ \A i \in 1 .. ExitBlocks : crBegun["exit"][i] = IF i <= crNext[t] THEN 1 ELSE 0

\* Crash blocks begin in turn on each thread, under the flag.
CrashInTurn ==
  /\ \A i \in 1 .. CrashBlocks :
       crBegun["crash"][i] <= Cardinality(crFaulted)
  /\ crEnd = "no" =>
       /\ \A t \in CrashThreads : InCrash(t) => crActive
       /\ \A i \in 1 .. CrashBlocks :
            /\ IsFiniteSet(BegunCrash(i)) /\ crBegun["crash"][i] <= Cardinality(BegunCrash(i))
            /\ \A t \in CrashThreads :
                 t \in BegunCrash(i) /\ crAt[t] \in {"crash", "exit"} => crBegun["crash"][i] >= 1

CrashInv ==
  CrashTypeOK /\ HandlersFirst /\ InitInTurn /\ ExitInTurn /\ CrashInTurn /\ OneFaultIsHandled

LEMMA CrashInvInit == CrashInit => CrashInv
<1> SUFFICES ASSUME CrashInit PROVE CrashInv
  OBVIOUS
<1> USE CrashAssumption DEF CrashInit
<1>2. CrashTypeOK
  BY FS_EmptySet DEF CrashTypeOK, CrPlaces
<1>4. /\ \A i \in 1 .. InitBlocks : crBegun["init"][i] = 0
      /\ \A i \in 1 .. ExitBlocks : crBegun["exit"][i] = 0
      /\ \A i \in 1 .. CrashBlocks : crBegun["crash"][i] = 0
  BY DEF Kinds, BlocksOf
<1>5. HandlersFirst
  BY DEF HandlersFirst
<1>10. /\ crEnd = "no" /\ crExiting = 0 /\ crFaulted = {}
       /\ \A t \in CrashThreads : crAt[t] \notin {"exit", "crash", "handler"}
  OBVIOUS
<1> HIDE DEF CrashInit
<1>11. InitInTurn
  BY <1>4 DEF InitInTurn
<1> QED
  BY <1>2, <1>5, <1>11, <1>10, <1>4, FS_EmptySet DEF CrashInv, OneFaultIsHandled, ExitInTurn, CrashInTurn,
     BegunCrash, InCrash

\* Who has begun a crash block has faulted.
LEMMA BegunHaveFaulted ==
  ASSUME CrashTypeOK, HandlersFirst, NEW i \in 1 .. CrashBlocks
  PROVE  BegunCrash(i) \subseteq crFaulted
  BY DEF BegunCrash, InCrash, HandlersFirst, FaultedTwice

\* A step that begins no block keeps the account of the crash blocks, as long as no
\* thread begins to have begun them but one that faults again, and only under the flag.
LEMMA CrashTurnKept ==
  ASSUME CrashInv, crEnd = "no", UNCHANGED crBegun,
         CrashTypeOK', HandlersFirst', crFaulted \subseteq crFaulted',
         crEnd' = "no" => \A t \in CrashThreads :
           /\ InCrash(t)' => crActive'
           /\ \A i \in 1 .. CrashBlocks :
                /\ t \in BegunCrash(i) => t \in BegunCrash(i)'
                /\ t \in BegunCrash(i)' /\ crAt'[t] \in {"crash", "exit"} =>
                     t \in BegunCrash(i) /\ crAt[t] \in {"crash", "exit"}
  PROVE  CrashInTurn'
<1>1. /\ IsFiniteSet(crFaulted') /\ Cardinality(crFaulted) \in Nat /\ Cardinality(crFaulted') \in Nat
  BY FS_CardinalityType DEF CrashInv, CrashTypeOK
<1>3. \A i \in 1 .. CrashBlocks : crBegun["crash"][i] \in Nat
  BY DEF CrashInv, CrashTypeOK, Kinds, BlocksOf
<1>5. ASSUME crEnd' = "no", NEW i \in 1 .. CrashBlocks
      PROVE  /\ IsFiniteSet(BegunCrash(i)') /\ crBegun'["crash"][i] <= Cardinality(BegunCrash(i)')
             /\ \A t \in CrashThreads :
                  t \in BegunCrash(i)' /\ crAt'[t] \in {"crash", "exit"} => crBegun'["crash"][i] >= 1
  <2>3. IsFiniteSet(BegunCrash(i)')
    BY <1>1, FS_Subset DEF BegunCrash, InCrash, HandlersFirst, FaultedTwice
  <2>4. Cardinality(BegunCrash(i)) <= Cardinality(BegunCrash(i)')
    BY <2>3, FS_Subset, <1>5 DEF BegunCrash
  <2> QED
    BY <1>5, <2>3, <1>3, <2>4, FS_CardinalityType DEF CrashInv, CrashInTurn
<1> QED
  BY <1>5, <1>1, <1>3, FS_Subset DEF CrashInTurn, CrashInv

\* The steps that end the process or move one thread, without a block that begins.
LEMMA ExitTurnKept ==
  ASSUME CrashInv, crEnd = "no", UNCHANGED crBegun,
         crEnd' = "no" =>
           \/ /\ crExiting' = crExiting
              /\ \A t \in CrashThreads : crAt'[t] = "exit" => crAt[t] = "exit" /\ crNext'[t] = crNext[t]
           \/ /\ crExiting = 0 /\ crExiting' = 1
              /\ \E t \in CrashThreads : crNext'[t] = 0 /\ \A u \in CrashThreads : crAt'[u] = "exit" => u = t
  PROVE  ExitInTurn'
<1>1. \A i \in 1 .. ExitBlocks : crBegun'["exit"][i] <= 1
  BY DEF CrashInv, ExitInTurn
<1>2. CASE crEnd' # "no"
  BY <1>1, <1>2 DEF ExitInTurn
<1>3. CASE /\ crEnd' = "no" /\ crExiting' = crExiting
           /\ \A t \in CrashThreads : crAt'[t] = "exit" => crAt[t] = "exit" /\ crNext'[t] = crNext[t]
  BY <1>1, <1>3 DEF CrashInv, ExitInTurn
<1>4. CASE /\ crEnd' = "no" /\ crExiting = 0 /\ crExiting' = 1
           /\ \E t \in CrashThreads : crNext'[t] = 0 /\ \A u \in CrashThreads : crAt'[u] = "exit" => u = t
  BY <1>1, <1>4 DEF ExitInTurn, CrashInv
<1> QED
  BY <1>2, <1>3, <1>4

\* The steps before any fault: the constructor, the entry of main and of a thread.
LEMMA EntryKeeps ==
  ASSUME CrashInv, crEnd = "no", NEW t \in CrashThreads, NEW place \in {"init", "code"},
         crAt[t] \in {"none", "start", "init"}, place = "init" => crAt[t] = "start",
         crAt' = [crAt EXCEPT ![t] = place], crInstalled' = TRUE,
         UNCHANGED <<crActive, crNext, crBlocked, crExiting, crEnd, crBegun, crFaulted>>
  PROVE  CrashInv'
<1> USE CrashAssumption
<1>1. /\ crAt \in [CrashThreads -> CrPlaces] /\ crAt'[t] = place
      /\ \A u \in CrashThreads : u # t => crAt'[u] = crAt[u]
  BY DEF CrashInv, CrashTypeOK
<1>2. CrashTypeOK'
  BY DEF CrashInv, CrashTypeOK, CrPlaces
<1> QED
  BY <1>2, <1>1, ExitTurnKept, CrashTurnKept DEF CrashInv, OneFaultIsHandled, BegunCrash, CrashInTurn,
     InCrash, FaultedTwice, HandlersFirst, InitInTurn

LEMMA InstallFirstKeeps == CrashInv /\ crEnd = "no" /\ InstallFirst => CrashInv'
  BY CrashAssumption, EntryKeeps DEF InstallFirst, CrGoto

LEMMA EnterMainKeeps == CrashInv /\ crEnd = "no" /\ EnterMain => CrashInv'
<1> SUFFICES ASSUME CrashInv, crEnd = "no", EnterMain PROVE CrashInv'
  OBVIOUS
<1> QED
  BY CrashAssumption, EntryKeeps DEF EnterMain, CrGoto, CrHandler, CrashInv, CrashTypeOK, HandlersFirst,
     Finished

LEMMA StartThreadKeeps ==
  ASSUME NEW t \in CrashThreads
  PROVE  CrashInv /\ crEnd = "no" /\ StartThread(t) => CrashInv'
<1> SUFFICES ASSUME CrashInv, crEnd = "no", StartThread(t) PROVE CrashInv'
  OBVIOUS
<1> QED
  BY EntryKeeps, CrashAssumption DEF StartThread, CrGoto, CrHandler, CrashInv, CrashTypeOK, HandlersFirst

\* exit is called from the code, or by the handler when the crash blocks are done.
LEMMA CallExitKeeps ==
  ASSUME CrashInv, crEnd = "no", NEW t \in CrashThreads, CallExit(t),
         \/ crAt[t] = "code"
         \/ crAt[t] = "crash" /\ crNext[t] = CrashBlocks,
         UNCHANGED <<crInstalled, crActive, crBlocked, crFaulted, crBegun>>
  PROVE  CrashInv'
<1> USE CrashAssumption
<1>1. /\ crExiting' = crExiting + 1 /\ crExiting \in Nat
      /\ crEnd' = IF crExiting > 0 THEN "undefined" ELSE "no"
      /\ crAt' = [crAt EXCEPT ![t] = "exit"] /\ crNext' = [crNext EXCEPT ![t] = 0]
  BY DEF CallExit, CrGoto, CrashInv, CrashTypeOK
<1>2. /\ crAt'[t] = "exit" /\ crNext'[t] = 0
      /\ \A u \in CrashThreads : u # t => crAt'[u] = crAt[u] /\ crNext'[u] = crNext[u]
  BY <1>1 DEF CrashInv, CrashTypeOK
<1>3. CrashTypeOK'
  BY <1>1 DEF CrashInv, CrashTypeOK, CrPlaces
<1>4. HandlersFirst' /\ InitInTurn'
  BY <1>2 DEF CrashInv, HandlersFirst, InitInTurn
<1>6. \A u \in CrashThreads : InCrash(u)' <=> InCrash(u)
  BY <1>2 DEF InCrash, FaultedTwice, CrashInv, HandlersFirst
<1>7. CrashInTurn'
  <2>1. \A u \in CrashThreads : InCrash(u)' => crActive'
    BY <1>6 DEF CrashInv, CrashInTurn
  <2> QED
    BY <1>2, <1>3, <1>4, <2>1, CrashTurnKept, <1>6 DEF BegunCrash, InCrash
<1> QED
  BY <1>3, <1>4, <1>7, <1>1, <1>2, ExitTurnKept DEF CrashInv, OneFaultIsHandled, ExitInTurn

LEMMA LeaveMainKeeps ==
  ASSUME NEW t \in CrashThreads
  PROVE  CrashInv /\ crEnd = "no" /\ LeaveMain(t) => CrashInv'
  BY CallExitKeeps DEF LeaveMain, CrHandler

LEMMA HandlerExitsKeeps ==
  ASSUME NEW t \in CrashThreads
  PROVE  CrashInv /\ crEnd = "no" /\ HandlerExits(t) => CrashInv'
  BY CallExitKeeps DEF HandlerExits, CrHandler, Finished, BlocksOf

\* The process ends: with exit after the last exit block, killed by a signal that has no
\* handler to go to, or by _Exit.
LEMMA EndKeeps ==
  ASSUME CrashInv, crEnd = "no", crEnd' # "no",
         crEnd' \in {"exit", "exit after crash", "killed", "_Exit"},
         crFaulted' = crFaulted \/ \E t \in CrashThreads : crFaulted' = crFaulted \cup {t},
         UNCHANGED <<crInstalled, crActive, crAt, crNext, crBlocked, crExiting, crBegun>>,
         OneFaultIsHandled'
  PROVE  CrashInv'
<1>2. IsFiniteSet(crFaulted')
  <2>1. CASE crFaulted' = crFaulted
    BY <2>1 DEF CrashInv, CrashTypeOK
  <2>2. CASE \E t \in CrashThreads : crFaulted' = crFaulted \cup {t}
    <3>1. PICK t \in CrashThreads : crFaulted' = crFaulted \cup {t}
      BY <2>2
    <3> QED
      BY <3>1, FS_AddElement DEF CrashInv, CrashTypeOK
  <2> QED
    BY <2>1, <2>2
<1> QED
  BY CrashTurnKept, <1>2, ExitTurnKept DEF CrashInv, HandlersFirst, InitInTurn, CrashTypeOK

LEMMA ExitDoneKeeps ==
  ASSUME NEW t \in CrashThreads
  PROVE  CrashInv /\ crEnd = "no" /\ ExitDone(t) => CrashInv'
<1> SUFFICES ASSUME CrashInv, crEnd = "no", ExitDone(t) PROVE CrashInv'
  OBVIOUS
<1> USE CrashAssumption
<1>1. /\ crAt[t] = "exit" /\ crNext[t] = ExitBlocks
      /\ crEnd' = IF crBlocked[t] = {} THEN "exit" ELSE "exit after crash"
      /\ UNCHANGED <<crInstalled, crActive, crAt, crNext, crBlocked, crExiting, crBegun, crFaulted>>
  BY DEF ExitDone, Finished, BlocksOf, CrHandler
<1>2. \A i \in 1 .. ExitBlocks : crBegun["exit"][i] = 1
  <2>1. \A i \in 1 .. ExitBlocks : crBegun["exit"][i] = IF i <= ExitBlocks THEN 1 ELSE 0
    BY <1>1 DEF CrashInv, ExitInTurn
  <2> QED
    BY <2>1
<1>3. ASSUME crBlocked[t] # {}, Cardinality(crFaulted) = 1
      PROVE  \A i \in 1 .. CrashBlocks : crBegun["crash"][i] = 1
  <2> SUFFICES ASSUME NEW i \in 1 .. CrashBlocks PROVE crBegun["crash"][i] = 1
    OBVIOUS
  <2>3. crBegun["crash"][i] <= Cardinality(crFaulted) /\ crBegun["crash"][i] >= 1
    BY <1>1, <1>3 DEF CrashInv, CrashInTurn, BegunCrash, InCrash
  <2> QED
    BY <1>3, <2>3 DEF CrashInv, CrashTypeOK, Kinds, BlocksOf
<1> QED
  BY <1>1, EndKeeps, <1>2, <1>3 DEF OneFaultIsHandled, BlocksOf

LEMMA FaultKeeps ==
  ASSUME NEW t \in CrashThreads, NEW sig \in FatalSignals
  PROVE  CrashInv /\ crEnd = "no" /\ Fault(t, sig) => CrashInv'
<1> SUFFICES ASSUME CrashInv, crEnd = "no", Fault(t, sig) PROVE CrashInv'
  OBVIOUS
<1>1. /\ crAt[t] \in {"init", "code", "exit", "crash"}
      /\ crFaulted' = crFaulted \cup {t}
      /\ UNCHANGED <<crInstalled, crActive, crNext, crExiting, crBegun>>
  BY DEF Fault
<1>2. crInstalled
  BY <1>1 DEF CrashInv, HandlersFirst
<1>3. CASE sig \in crBlocked[t]
  BY <1>1, EndKeeps, <1>3, <1>2 DEF OneFaultIsHandled, Fault
<1>4. CASE sig \notin crBlocked[t]
  <2>1. /\ crAt' = [crAt EXCEPT ![t] = "handler"]
        /\ crBlocked' = [crBlocked EXCEPT ![t] = @ \cup {sig}]
        /\ crEnd' = "no"
    BY <1>2, <1>4 DEF Fault, CrGoto
  <2>2. /\ crAt'[t] = "handler" /\ crBlocked'[t] = crBlocked[t] \cup {sig}
        /\ \A u \in CrashThreads : u # t => crAt'[u] = crAt[u] /\ crBlocked'[u] = crBlocked[u]
    BY <2>1 DEF CrashInv, CrashTypeOK
  <2>4. CrashTypeOK'
    BY <1>1, <2>1, FS_AddElement DEF CrashInv, CrashTypeOK, CrPlaces
  <2>5. HandlersFirst'
    BY <1>1, <1>2, <2>2 DEF CrashInv, HandlersFirst
  <2>12. InitInTurn'
    BY <1>1, <2>1 DEF CrashInv, CrashTypeOK, InitInTurn
  <2>9. \A u \in CrashThreads : InCrash(u)' <=> InCrash(u)
    BY <2>2, <1>1, <1>4 DEF InCrash, FaultedTwice, CrashInv, HandlersFirst
  <2>10. CrashInTurn'
    BY <1>1, <2>4, <2>5, CrashTurnKept, <2>2, <2>9 DEF BegunCrash, CrashInv, CrashInTurn
  <2> QED
    BY <2>4, <2>5, <2>10, <2>12, <2>1, <1>1, <2>2, ExitTurnKept DEF CrashInv, OneFaultIsHandled
<1> QED
  BY <1>3, <1>4

LEMMA HandlerEntersKeeps ==
  ASSUME NEW t \in CrashThreads
  PROVE  CrashInv /\ crEnd = "no" /\ HandlerEnters(t) => CrashInv'
<1> SUFFICES ASSUME CrashInv, crEnd = "no", HandlerEnters(t) PROVE CrashInv'
  OBVIOUS
<1>1. /\ crAt[t] = "handler"
      /\ UNCHANGED <<crInstalled, crActive, crNext, crBlocked, crExiting, crBegun, crFaulted>>
  BY DEF HandlerEnters, CrHandler
<1>2. CASE crEnd' = "_Exit" /\ UNCHANGED crAt
  <2>1. OneFaultIsHandled'
    BY <1>2 DEF OneFaultIsHandled
  <2> QED
    BY <1>1, <1>2, <2>1, EndKeeps
<1>3. CASE ~crActive /\ crAt' = [crAt EXCEPT ![t] = "set"] /\ UNCHANGED crEnd
  <2>1. /\ crAt'[t] = "set" /\ \A u \in CrashThreads : u # t => crAt'[u] = crAt[u]
    BY <1>3 DEF CrashInv, CrashTypeOK
  <2>2. CrashTypeOK'
    BY <1>1, <1>3 DEF CrashInv, CrashTypeOK, CrPlaces
  <2>3. HandlersFirst' /\ InitInTurn'
    <3>1. HandlersFirst'
      BY <1>1, <2>1 DEF CrashInv, HandlersFirst
    <3>2. crAt'[MainThread] \in {"start", "init"} => crAt[MainThread] \in {"start", "init"}
      BY <2>1, CrashAssumption
    <3>3. InitInTurn'
      BY <1>1, <3>2 DEF CrashInv, InitInTurn
    <3> QED
      BY <3>1, <3>3
  <2>4. ExitInTurn'
    BY <1>1, <1>3, <2>1, ExitTurnKept
  <2>5. ~InCrash(t)
    BY <1>3 DEF CrashInv, CrashInTurn
  <2>6. \A u \in CrashThreads : InCrash(u)' <=> InCrash(u)
    BY <1>1, <2>1, <2>5 DEF InCrash, FaultedTwice
  <2>7. CrashInTurn'
    <3>1. \A u \in CrashThreads : InCrash(u)' => crActive'
      BY <1>1, <2>6 DEF CrashInv, CrashInTurn
    <3>2. \A u \in CrashThreads : \A i \in 1 .. CrashBlocks :
            /\ u \in BegunCrash(i) => u \in BegunCrash(i)'
            /\ u \in BegunCrash(i)' /\ crAt'[u] \in {"crash", "exit"} =>
                 u \in BegunCrash(i) /\ crAt[u] \in {"crash", "exit"}
      BY <1>1, <2>1, <2>6 DEF BegunCrash
    <3> QED
      BY <1>1, <2>2, <2>3, <3>1, <3>2, CrashTurnKept
  <2>8. OneFaultIsHandled'
    BY <1>3 DEF OneFaultIsHandled
  <2> QED
    BY <2>2, <2>3, <2>4, <2>7, <2>8 DEF CrashInv
<1> QED
  BY <1>2, <1>3 DEF HandlerEnters, CrGoto

LEMMA HandlerReportsKeeps ==
  ASSUME NEW t \in CrashThreads
  PROVE  CrashInv /\ crEnd = "no" /\ HandlerReports(t) => CrashInv'
<1> SUFFICES ASSUME CrashInv, crEnd = "no", HandlerReports(t) PROVE CrashInv'
  OBVIOUS
<1>1. /\ crAt[t] = "set" /\ crAt' = [crAt EXCEPT ![t] = "crash"]
      /\ crActive' = TRUE /\ crNext' = [crNext EXCEPT ![t] = 0]
      /\ UNCHANGED <<crInstalled, crBlocked, crFaulted, crExiting, crEnd, crBegun>>
  BY DEF HandlerReports, CrGoto
<1>2. /\ crAt'[t] = "crash" /\ crNext'[t] = 0
      /\ \A u \in CrashThreads : u # t => crAt'[u] = crAt[u] /\ crNext'[u] = crNext[u]
  BY <1>1 DEF CrashInv, CrashTypeOK
<1>3. CrashTypeOK'
  BY <1>1 DEF CrashInv, CrashTypeOK, CrPlaces
<1>4. HandlersFirst' /\ InitInTurn'
  BY <1>1, <1>2 DEF CrashInv, HandlersFirst, InitInTurn
<1> QED
  BY <1>3, <1>4, <1>1, <1>2, ExitTurnKept, CrashTurnKept DEF CrashInv, OneFaultIsHandled, BegunCrash,
     InCrash, FaultedTwice

\* A block begins: the next one of the dispatcher the thread is in.
LEMMA NextBlockKeeps ==
  ASSUME NEW t \in CrashThreads, NEW kind \in Kinds
  PROVE  CrashInv /\ crEnd = "no" /\ NextBlock(t, kind) => CrashInv'
<1> SUFFICES ASSUME CrashInv, crEnd = "no", NextBlock(t, kind) PROVE CrashInv'
  OBVIOUS
<1> USE CrashAssumption
<1>1. PICK n \in Nat : n = crNext[t]
  BY DEF CrashInv, CrashTypeOK
<1>2. /\ crAt[t] = kind /\ n < BlocksOf(kind) /\ crNext' = [crNext EXCEPT ![t] = n + 1]
      /\ crBegun' = [crBegun EXCEPT ![kind][n + 1] = @ + 1]
      /\ UNCHANGED <<crInstalled, crActive, crAt, crBlocked, crExiting, crEnd, crFaulted>>
  BY <1>1 DEF NextBlock, CrHandler
<1>4. n + 1 \in 1 .. BlocksOf(kind)
  BY <1>2 DEF Kinds, BlocksOf
<1>5. /\ DOMAIN crBegun = Kinds /\ crBegun[kind] \in [1 .. BlocksOf(kind) -> Nat]
      /\ crNext'[t] = n + 1 /\ \A u \in CrashThreads : u # t => crNext'[u] = crNext[u]
  BY <1>2 DEF CrashInv, CrashTypeOK
<1>6. /\ DOMAIN crBegun' = Kinds
      /\ crBegun'[kind] = [crBegun[kind] EXCEPT ![n + 1] = @ + 1]
      /\ \A k \in Kinds : k # kind => crBegun'[k] = crBegun[k]
  BY <1>2, <1>5
<1>7. CrashTypeOK'
  BY <1>2, <1>6, <1>4, <1>5 DEF CrashInv, CrashTypeOK
<1>8. HandlersFirst' /\ OneFaultIsHandled'
  BY <1>2 DEF CrashInv, HandlersFirst, OneFaultIsHandled
<1>9. CASE kind = "init"
  <2>1. /\ t = MainThread /\ BlocksOf(kind) = InitBlocks
        /\ crBegun'["exit"] = crBegun["exit"] /\ crBegun'["crash"] = crBegun["crash"]
    BY <1>2, <1>6, <1>9 DEF CrashInv, HandlersFirst, Kinds, BlocksOf
  <2>4. InitInTurn'
    BY <1>5, <2>1, <1>1, <1>2, <1>9, <1>4, <1>6 DEF InitInTurn, CrashInv
  <2>8. CrashInTurn'
    BY <1>2, <2>1, <1>5, <1>9 DEF CrashInv, CrashInTurn, BegunCrash, InCrash, FaultedTwice
  <2> QED
    BY <1>7, <1>8, <2>4, <2>8, <1>2, <1>5, <1>9, <2>1 DEF CrashInv, ExitInTurn
<1>10. CASE kind = "exit"
  <2>1. /\ BlocksOf(kind) = ExitBlocks
        /\ crBegun'["init"] = crBegun["init"] /\ crBegun'["crash"] = crBegun["crash"]
    BY <1>6, <1>10 DEF Kinds, BlocksOf
  <2>2. /\ crExiting = 1 /\ \A u \in CrashThreads : crAt[u] = "exit" => u = t
        /\ \A i \in 1 .. ExitBlocks : crBegun["exit"][i] = IF i <= n THEN 1 ELSE 0
    BY <1>1, <1>2, <1>10 DEF CrashInv, ExitInTurn
  <2>3. \A i \in 1 .. ExitBlocks : crBegun'["exit"][i] = IF i <= n + 1 THEN 1 ELSE 0
    BY <2>2, <1>4, <1>5, <1>6, <1>10, <2>1
  <2>5. InitInTurn'
    BY <1>2, <2>1, <1>5, <1>10 DEF CrashInv, InitInTurn
  <2>8. CrashInTurn'
    BY <1>2, <2>1, <1>5, <1>10 DEF CrashInv, CrashInTurn, BegunCrash, InCrash, FaultedTwice
  <2> QED
    BY <1>7, <1>8, <2>5, <2>8, <1>2, <1>5, <2>2, <2>3 DEF CrashInv, ExitInTurn
<1>11. CASE kind = "crash"
  <2>1. /\ BlocksOf(kind) = CrashBlocks
        /\ crBegun'["init"] = crBegun["init"] /\ crBegun'["exit"] = crBegun["exit"]
    BY <1>6, <1>11 DEF Kinds, BlocksOf
  <2>3. InCrash(t) /\ \A u \in CrashThreads : InCrash(u)' <=> InCrash(u)
    BY <1>2, <1>11 DEF InCrash, FaultedTwice
  <2>4. ASSUME NEW i \in 1 .. CrashBlocks
        PROVE  /\ crBegun'["crash"][i] <= Cardinality(crFaulted')
               /\ IsFiniteSet(BegunCrash(i)') /\ crBegun'["crash"][i] <= Cardinality(BegunCrash(i)')
               /\ \A u \in CrashThreads :
                    u \in BegunCrash(i)' /\ crAt'[u] \in {"crash", "exit"} => crBegun'["crash"][i] >= 1
    <3>1. /\ IsFiniteSet(BegunCrash(i)) /\ crBegun["crash"][i] <= Cardinality(BegunCrash(i))
          /\ \A u \in CrashThreads :
               u \in BegunCrash(i) /\ crAt[u] \in {"crash", "exit"} => crBegun["crash"][i] >= 1
          /\ crBegun["crash"][i] \in Nat
          /\ IsFiniteSet(crFaulted)
      BY <1>5, <1>11, <2>1 DEF CrashInv, CrashInTurn, CrashTypeOK
    <3>2. Cardinality(BegunCrash(i)) \in Nat
      BY <3>1, FS_CardinalityType
    <3>4. /\ IsFiniteSet(BegunCrash(i)') /\ Cardinality(BegunCrash(i)') <= Cardinality(crFaulted')
          /\ Cardinality(BegunCrash(i)') \in Nat /\ Cardinality(crFaulted') \in Nat
      BY FS_Subset, FS_CardinalityType, <1>7, <1>8, BegunHaveFaulted, <1>2, <3>1 DEF BegunCrash, InCrash,
         HandlersFirst, FaultedTwice
    <3>5. CASE i = n + 1
      <4>1. BegunCrash(i)' = BegunCrash(i) \cup {t} /\ t \notin BegunCrash(i)
        BY <1>1, <1>2, <1>5, <1>11, <2>3, <3>5 DEF BegunCrash
      <4>3. crBegun'["crash"][i] = crBegun["crash"][i] + 1
        BY <1>4, <1>5, <1>6, <1>11, <3>5
      <4> QED
        BY <3>1, <3>2, <3>4, <4>3, <4>1, FS_AddElement
    <3>6. CASE i # n + 1
      <4>1. BegunCrash(i)' = BegunCrash(i)
        BY <1>2, <1>5, <2>3, <1>1, <1>11, <3>6 DEF BegunCrash
      <4>2. crBegun'["crash"][i] = crBegun["crash"][i]
        BY <1>4, <1>5, <1>6, <1>11, <2>1, <3>6
      <4> QED
        BY <1>2, <3>1, <3>2, <3>4, <4>1, <4>2
    <3> QED
      BY <3>5, <3>6
  <2> QED
    BY <1>7, <1>8, <2>4, <1>2, <2>3, <2>1, <1>5, <1>11 DEF CrashInv, CrashInTurn, InitInTurn, ExitInTurn
<1> QED
  BY <1>9, <1>10, <1>11 DEF Kinds

\* The invariant of the crash runtime is inductive.
LEMMA CrashInvKept == CrashInv /\ [CrashNext]_crVars => CrashInv'
<1> SUFFICES ASSUME CrashInv, [CrashNext]_crVars PROVE CrashInv'
  OBVIOUS
<1>1. CASE crEnd = "no" /\ (InstallFirst \/ EnterMain)
  BY <1>1, InstallFirstKeeps, EnterMainKeeps
<1>2. ASSUME crEnd = "no", NEW t \in CrashThreads, CrashThreadStep(t) PROVE CrashInv'
  BY <1>2, StartThreadKeeps, LeaveMainKeeps, ExitDoneKeeps, NextBlockKeeps, FaultKeeps,
     HandlerEntersKeeps, HandlerReportsKeeps, HandlerExitsKeeps DEF CrashThreadStep
<1>3. CASE UNCHANGED crVars
  <2> USE <1>3 DEF crVars, CrashInv
  <2>4. CrashInTurn'
    BY DEF CrashInTurn, BegunCrash, InCrash, FaultedTwice
  <2> QED
    BY <2>4 DEF CrashTypeOK, HandlersFirst, InitInTurn, ExitInTurn, OneFaultIsHandled
<1> QED
  BY <1>1, <1>2, <1>3 DEF CrashNext

\* Whichever threads fault, whenever and however often: no init or exit block begins
\* twice, no crash block more often than threads have faulted, and a program of which one
\* thread has faulted ends with every crash block and every exit block begun once
\* (__stasha_crash_handler and the dispatchers of cg_fileheaders.c).
THEOREM CrashBlocksAlwaysRun == CrashSpec => []CrashBlocksRun
<1>1. CrashInv => NoBlockTwice
  <2> SUFFICES ASSUME CrashInv, NEW kind \in Kinds, NEW i \in 1 .. BlocksOf(kind)
               PROVE  crBegun[kind][i] <= IF kind = "crash" THEN Cardinality(crFaulted) ELSE 1
    BY DEF NoBlockTwice
  <2> QED
    BY DEF CrashInv, InitInTurn, ExitInTurn, CrashInTurn, Kinds, BlocksOf
<1>2. CrashInv => CrashBlocksRun
  BY <1>1 DEF CrashBlocksRun, CrashInv
<1> QED
  BY <1>2, CrashInvInit, CrashInvKept, PTL DEF CrashSpec


--------------------------------------------------------------------------------
(* Scope cleanup (Cleanup.tla): every registration is cleaned up once, in order,     *)
(* whatever function is generated and whatever way its code takes.                   *)
(*                                                                                   *)
(* The argument is that of a type system for the blocks.  Each block has a set of    *)
(* registrations it is entered with and one it is left with, whatever way leads to   *)
(* it; every edge joins equal sets, and every instruction between the two is one the *)
(* properties allow.  While the function is generated, the block that is filled is   *)
(* left with just what the open scopes hold, and a target, or a block of a construct *)
(* that is still to be filled, expects what the scopes it retains hold.              *)

\* The registrations, and what is generated of them.
Registrations ==
  [site : Nat, kind : {"var", "zone", "defer", "defer_block", "defer_leaves", "exit"}, depth : Nat]
Instructions == [op : {"make", "clean", "error"}, reg : Registrations]
CodeBlocks == [ins : Seq(Instructions), ended : BOOLEAN, to : SUBSET Nat, moved : SUBSET Registrations]
Scopes == [deferred : Seq(Registrations), vars : Seq(Registrations)]
Constructions == [bodies : Seq(Nat), back : Nat, end : Nat, outer : BOOLEAN,
                  brk : [block : Nat, depth : Nat], cont : [block : Nat, depth : Nat]]

\* c may be cleaned up while r is still there.
Precedes(r, c) ==
  \/ r.depth < c.depth
  \/ /\ r.depth = c.depth
     /\ \/ r.site < c.site /\ (c.kind \in {"var", "zone"} => r.kind \in {"var", "zone"})
        \/ c.kind \notin {"var", "zone"} /\ r.kind \in {"var", "zone"}

\* An instruction does what the properties ask when live is what is there before it.
Allowed(in, live, moved) ==
  /\ in.op = "make" => in.reg \notin live
  /\ in.op = "clean" => in.reg \in live /\ \A r \in live \ ({in.reg} \cup moved) : Precedes(r, in.reg)
After(in, live) == IF in.op = "make" THEN live \cup {in.reg} ELSE live \ {in.reg}

\* s tells what is there after each of the instructions: at first X, at last Y.
IsRun(s, ins, X, Y, moved) ==
  /\ s \in [0 .. Len(ins) -> SUBSET Registrations]
  /\ s[0] = X /\ s[Len(ins)] = Y
  /\ \A i \in 1 .. Len(ins) : Allowed(ins[i], s[i - 1], moved) /\ s[i] = After(ins[i], s[i - 1])
Runs(ins, X, Y, moved) == \E s : IsRun(s, ins, X, Y, moved)

\* What is there at the entry and at the exit of every block, whatever way leads there.
BlockRight(blocks, b, entry, exit) ==
  /\ Runs(blocks[b].ins, entry[b], exit[b], blocks[b].moved)
  /\ blocks[b].to \subseteq DOMAIN blocks /\ \A c \in blocks[b].to : entry[c] = exit[b]
  /\ blocks[b].ended => blocks[b].to # {} \/ exit[b] = blocks[b].moved
  /\ ~blocks[b].ended => blocks[b].to = {} /\ blocks[b].moved = {}
Graph(blocks, entry, exit) ==
  /\ blocks \in Seq(CodeBlocks)
  /\ entry \in [DOMAIN blocks -> SUBSET Registrations] /\ exit \in [DOMAIN blocks -> SUBSET Registrations]
  /\ \A b \in DOMAIN blocks : BlockRight(blocks, b, entry, exit)

\* What the scopes up to depth d have registered.
In(scope) == Range(scope.vars) \cup Range(scope.deferred)
Held(scopes, d) == UNION {In(scopes[k]) : k \in 1 .. d}

\* Registrations bear the depth of their scope, and those of a scope are in order.
Ordered(regs, d, sites) ==
  /\ \A k \in DOMAIN regs : regs[k].depth = d /\ regs[k].site < sites
  /\ \A j, k \in DOMAIN regs : j < k => regs[j].site < regs[k].site
ScopeRight(scope, d, sites) ==
  /\ Ordered(scope.vars, d, sites) /\ Ordered(scope.deferred, d, sites)
  /\ \A k \in DOMAIN scope.vars : scope.vars[k].kind \in {"var", "zone"}
  /\ \A k \in DOMAIN scope.deferred : scope.deferred[k].kind \in {"defer", "defer_block", "defer_leaves"}
ScopesRight(scopes, sites) ==
  /\ scopes \in Seq(Scopes) /\ scopes # << >> /\ sites \in Nat
  /\ \A d \in 1 .. Len(scopes) : ScopeRight(scopes[d], d, sites)

\* break and continue lead to a block that expects what the scopes they retain hold.
TargetRight(target, blocks, scopes, entry, d) ==
  /\ target \in [block : Nat, depth : Nat]
  /\ target.block # 0 => /\ target.block \in DOMAIN blocks /\ target.depth < d
                         /\ entry[target.block] = Held(scopes, target.depth)

\* The blocks of a construct that are still to be filled.
Pending(c) == Range(c.bodies) \cup (IF c.end = 0 THEN {} ELSE {c.end})

\* A construct that is open, whose body has its scope above depth below.
ConstructRight(c, blocks, scopes, entry, exit, base, below) ==
  /\ TargetRight(c.brk, blocks, scopes, entry, base) /\ TargetRight(c.cont, blocks, scopes, entry, base)
  /\ c.bodies = << >> \/ \E b \in Nat : c.bodies = <<b>> /\ b # c.end
  /\ \A b \in Pending(c) : b \in DOMAIN blocks /\ exit[b] = Held(scopes, below)
  /\ c.back = 0 => c.end = 0 /\ c.bodies = << >>
  /\ c.back # 0 => c.end # 0 /\ c.back \in DOMAIN blocks /\ entry[c.back] = Held(scopes, below)

\* The number of scopes below each construct.
Width(c) == IF c.outer THEN 2 ELSE 1
Widths(open, base, depth) ==
  /\ base \in [1 .. Len(open) + 1 -> Nat]
  /\ base[1] = 1 /\ base[Len(open) + 1] = depth
  /\ \A i \in 1 .. Len(open) : base[i + 1] = base[i] + Width(open[i])
  /\ \A i, j \in 1 .. Len(open) + 1 : i < j => base[i] < base[j]

OpenRight(blocks, at, scopes, open, entry, exit, base) ==
  /\ open \in Seq(Constructions) /\ Widths(open, base, Len(scopes))
  /\ \A i \in 1 .. Len(open) :
       ConstructRight(open[i], blocks, scopes, entry, exit, base[i], base[i + 1] - 1)
  /\ \A i \in 1 .. Len(open) : at \notin Pending(open[i])
  /\ \A i, j \in 1 .. Len(open) : i # j => Pending(open[i]) \cap Pending(open[j]) = {}
  /\ \A b \in DOMAIN blocks : ~blocks[b].ended => b = at \/ \E i \in 1 .. Len(open) : b \in Pending(open[i])

Generated(blocks, at, scopes, open, brk, cont, sites, entry, exit, base) ==
  /\ Graph(blocks, entry, exit) /\ ScopesRight(scopes, sites)
  /\ 1 \in DOMAIN blocks /\ entry[1] = {} /\ at \in DOMAIN blocks
  /\ ~blocks[at].ended => exit[at] = Held(scopes, Len(scopes))
  /\ TargetRight(brk, blocks, scopes, entry, Len(scopes)) /\ TargetRight(cont, blocks, scopes, entry, Len(scopes))
  /\ OpenRight(blocks, at, scopes, open, entry, exit, base)

GeneratedNow(entry, exit, base) ==
  Generated(clBlocks, clAt, clScopes, clOpen, clBreak, clContinue, clSimple + clCompound, entry, exit, base)

\* The run is at an instruction of a block and has what was foreseen for it.
RunsRight(entry, exit) ==
  /\ clPc \in [block : Nat, ins : Nat] /\ clPc.block \in DOMAIN clBlocks
  /\ clPc.ins \in 1 .. Len(Here.ins) + 1
  /\ \E s : /\ IsRun(s, Here.ins, entry[clPc.block], exit[clPc.block], Here.moved)
            /\ clLive = s[clPc.ins - 1]

CleanupInv ==
  /\ clSimple \in Nat /\ clCompound \in Nat
  /\ clPhase = "function" =>
       /\ clPc = [block |-> 1, ins |-> 1] /\ clLive = {}
       /\ \E entry, exit, base : GeneratedNow(entry, exit, base)
  /\ clPhase = "run" =>
       \E entry, exit : /\ Graph(clBlocks, entry, exit)
                        /\ \A b \in DOMAIN clBlocks : clBlocks[b].ended
                        /\ RunsRight(entry, exit)
  /\ clPhase = "returned" => clLive = Here.moved

--------------------------------------------------------------------------------
(* Runs of instructions. *)

\* Nothing is run in no time.
LEMMA RunOfNothing ==
  ASSUME NEW X \in SUBSET Registrations, NEW moved
  PROVE  Runs(<< >>, X, X, moved)
<1> DEFINE s == [i \in 0 .. 0 |-> X]
<1>3. IsRun(s, << >>, X, X, moved)
  BY DEF IsRun
<1> QED
  BY <1>3 DEF Runs

\* One instruction.
LEMMA RunOfOne ==
  ASSUME NEW in \in Instructions, NEW X \in SUBSET Registrations, NEW moved, Allowed(in, X, moved)
  PROVE  Runs(<<in>>, X, After(in, X), moved)
<1> DEFINE s == [i \in 0 .. 1 |-> IF i = 0 THEN X ELSE After(in, X)]
<1>3. s \in [0 .. 1 -> SUBSET Registrations] /\ s[0] = X /\ s[1] = After(in, X)
  BY DEF After, Instructions
<1> HIDE DEF s
<1> QED
  BY <1>3 DEF Runs, IsRun

\* One run after the other.
LEMMA RunOfBoth ==
  ASSUME NEW p \in Seq(Instructions), NEW q \in Seq(Instructions), NEW X, NEW Y, NEW Z, NEW moved,
         Runs(p, X, Y, moved), Runs(q, Y, Z, moved)
  PROVE  Runs(p \o q, X, Z, moved)
<1>1. PICK s : IsRun(s, p, X, Y, moved)
  BY DEF Runs
<1>2. PICK t : IsRun(t, q, Y, Z, moved)
  BY DEF Runs
<1>3. PICK m \in Nat : m = Len(p)
  BY LenProperties
<1>4. PICK n \in Nat : n = Len(q)
  BY LenProperties
<1>5. /\ p \o q \in Seq(Instructions) /\ Len(p \o q) = m + n
      /\ \A i \in 1 .. m : (p \o q)[i] = p[i]
      /\ \A i \in m + 1 .. m + n : (p \o q)[i] = q[i - m]
  BY <1>3, <1>4, ConcatProperties
<1> DEFINE u == [i \in 0 .. m + n |-> IF i <= m THEN s[i] ELSE t[i - m]]
<1>6. s \in [0 .. m -> SUBSET Registrations] /\ s[0] = X /\ s[m] = Y
  BY <1>1, <1>3 DEF IsRun
<1>7. t \in [0 .. n -> SUBSET Registrations] /\ t[0] = Y /\ t[n] = Z
  BY <1>2, <1>4 DEF IsRun
<1>8. u \in [0 .. m + n -> SUBSET Registrations]
  BY <1>6, <1>7
<1>9. u[0] = X /\ \A i \in 0 .. m : u[i] = s[i]
  BY <1>6
<1>10. ASSUME NEW i \in m .. m + n PROVE u[i] = t[i - m]
  <2>1. i \in 0 .. m + n /\ i - m \in 0 .. n
    OBVIOUS
  <2>2. CASE i = m
    BY <1>6, <1>7, <2>1, <2>2
  <2>3. CASE i # m
    BY <2>1, <2>3
  <2> QED
    BY <2>2, <2>3
<1>11. u[m + n] = Z
  <2> HIDE DEF u
  <2> QED
    BY <1>7, <1>10
<1> HIDE DEF u
<1>12. ASSUME NEW i \in 1 .. m + n
       PROVE  Allowed((p \o q)[i], u[i - 1], moved) /\ u[i] = After((p \o q)[i], u[i - 1])
  <2>1. CASE i <= m
    BY <1>5, <1>9, <1>1, <1>3, <2>1 DEF IsRun
  <2>2. CASE i > m
    <3>1. PICK k \in 1 .. n : k = i - m /\ k - 1 = (i - 1) - m
      BY <2>2
    <3>4. u[i] = t[k] /\ u[i - 1] = t[k - 1] /\ (p \o q)[i] = q[k]
      BY <1>5, <1>10, <3>1, <2>2
    <3> QED
      BY <3>4, <1>2, <1>4, <3>1 DEF IsRun
  <2>3. i <= m \/ i > m
    OBVIOUS
  <2> QED
    BY <2>1, <2>2, <2>3
<1> QED
  BY <1>5, <1>8, <1>9, <1>11, <1>12 DEF Runs, IsRun

\* What is moved out of a block only takes demands away.
LEMMA RunWithMoves ==
  ASSUME NEW p, NEW X, NEW Y, NEW moved, Runs(p, X, Y, {})
  PROVE  Runs(p, X, Y, moved)
<1>1. PICK s : IsRun(s, p, X, Y, {})
  BY DEF Runs
<1> QED
  BY <1>1 DEF Runs, IsRun, Allowed

\* The ends of a run are sets of registrations.
LEMMA RunEnds ==
  ASSUME NEW p \in Seq(Instructions), NEW X, NEW Y, NEW moved, Runs(p, X, Y, moved)
  PROVE  X \in SUBSET Registrations /\ Y \in SUBSET Registrations
<1>1. PICK s : IsRun(s, p, X, Y, moved)
  BY DEF Runs
<1>2. PICK n \in Nat : n = Len(p)
  BY LenProperties
<1> QED
  BY <1>1, <1>2 DEF IsRun

--------------------------------------------------------------------------------
(* The last part first. *)

\* A set of numbers that is not empty has a least one.
LEMMA LeastNumber ==
  ASSUME NEW T \in SUBSET Nat, T # {}
  PROVE  \E x \in T : \A y \in T : x <= y
<1>2. PICK x \in T : \A y \in T : ~(<<y, x>> \in OpToRel(<, Nat))
  BY WFMin, NatLessThanWellFounded
<1>3. \A y \in T : ~(y < x)
  BY <1>2 DEF OpToRel
<1> QED
  BY <1>3

\* What holds of 0 and passes from each number to the next holds up to n.
LEMMA UpTo ==
  ASSUME NEW n \in Nat, NEW G, 0 \in G, \A m \in 1 .. n : m - 1 \in G => m \in G
  PROVE  \A m \in 0 .. n : m \in G
<1> DEFINE Bad == {m \in 0 .. n : m \notin G}
<1> SUFFICES ASSUME Bad # {} PROVE FALSE
  OBVIOUS
<1>1. Bad \in SUBSET Nat
  OBVIOUS
<1>2. PICK m \in Bad : \A k \in Bad : m <= k
  <2> HIDE DEF Bad
  <2> QED
    BY <1>1, LeastNumber
<1> QED
  BY <1>2

\* F starts at b and goes on by st.
Steps(F, n, b, st) == F[0] = b /\ \A m \in 1 .. n : F[m] = st[<<m, F[m - 1]>>]

\* A function defined by recursion on the numbers up to n exists.
LEMMA RecursionUpTo ==
  ASSUME NEW n \in Nat, NEW V, NEW b \in V, NEW st \in [(1 .. n) \X V -> V]
  PROVE  \E F \in [0 .. n -> V] : Steps(F, n, b, st)
<1> DEFINE Good(F, k) == F[0] = b /\ \A m \in 1 .. k : F[m] = st[<<m, F[m - 1]>>]
           G == {k \in 0 .. n : \E F \in [0 .. k -> V] : Good(F, k)}
<1>1. 0 \in G
  <2>1. [m \in 0 .. 0 |-> b] \in [0 .. 0 -> V] /\ Good([m \in 0 .. 0 |-> b], 0)
    OBVIOUS
  <2> HIDE DEF Good
  <2> QED
    BY <2>1
<1>2. ASSUME NEW k \in 1 .. n, k - 1 \in G PROVE k \in G
  <2>1. PICK F \in [0 .. k - 1 -> V] : Good(F, k - 1)
    BY <1>2
  <2>2. PICK v \in V : v = st[<<k, F[k - 1]>>]
    OBVIOUS
  <2> DEFINE H == [m \in 0 .. k |-> IF m = k THEN v ELSE F[m]]
  <2>3. H \in [0 .. k -> V]
    OBVIOUS
  <2>4. H[0] = b
    BY <2>1
  <2>5. ASSUME NEW m \in 1 .. k PROVE H[m] = st[<<m, H[m - 1]>>]
    <3>1. m - 1 \in 0 .. k /\ m - 1 # k /\ m \in 0 .. k
      OBVIOUS
    <3>2. H[m - 1] = F[m - 1]
      BY <3>1
    <3>3. CASE m = k
      BY <2>2, <3>1, <3>2, <3>3
    <3>4. CASE m # k
      BY <2>1, <3>2, <3>1, <3>4
    <3> QED
      BY <3>3, <3>4
  <2> HIDE DEF H
  <2>6. Good(H, k)
    BY <2>4, <2>5
  <2> HIDE DEF Good
  <2> QED
    BY <2>3, <2>6
<1>3. \A k \in 0 .. n : k \in G
  <2> HIDE DEF G
  <2> QED
    BY <1>1, <1>2, UpTo
<1> QED
  BY <1>3 DEF Steps

\* The function by which LastFirst is computed.
DownOf(f, parts) == f = [k \in 0 .. Len(parts) |-> IF k = 0 THEN << >> ELSE parts[k] \o f[k - 1]]

\* The function that LastFirst chooses exists, and its values are instructions.
LEMMA DownExists ==
  ASSUME NEW parts \in Seq(Seq(Instructions))
  PROVE  \E f \in [0 .. Len(parts) -> Seq(Instructions)] : DownOf(f, parts)
<1>1. PICK n \in Nat : n = Len(parts) /\ DOMAIN parts = 1 .. n
  BY LenProperties
<1> DEFINE st == [q \in (1 .. n) \X Seq(Instructions) |-> parts[q[1]] \o q[2]]
<1>3. st \in [(1 .. n) \X Seq(Instructions) -> Seq(Instructions)]
  BY ConcatProperties, <1>1, ElementOfSeq
<1>4. \A k \in 1 .. n, w \in Seq(Instructions) : st[<<k, w>>] = parts[k] \o w
  OBVIOUS
<1>5. PICK F \in [0 .. n -> Seq(Instructions)] : Steps(F, n, << >>, st)
  <2> HIDE DEF st
  <2>1. << >> \in Seq(Instructions)
    OBVIOUS
  <2> QED
    BY <1>3, <2>1, RecursionUpTo
<1>6. ASSUME NEW k \in 0 .. n PROVE F[k] = IF k = 0 THEN << >> ELSE parts[k] \o F[k - 1]
  <2>1. CASE k = 0
    BY <1>5, <2>1 DEF Steps
  <2>2. CASE k # 0
    <3>1. k \in 1 .. n /\ k - 1 \in 0 .. n
      BY <2>2
    <3> HIDE DEF st
    <3> QED
      BY <1>4, <2>2, <3>1, <1>5 DEF Steps
  <2> QED
    BY <2>1, <2>2
<1> QED
  BY <1>1, <1>6 DEF DownOf

\* Runs of the parts make a run of the whole.
LEMMA RunLastFirst ==
  ASSUME NEW parts \in Seq(Seq(Instructions)), NEW live, NEW moved, live[0] \in SUBSET Registrations,
         \A k \in 1 .. Len(parts) : Runs(parts[k], live[k], live[k - 1], moved)
  PROVE  LastFirst(parts) \in Seq(Instructions) /\ Runs(LastFirst(parts), live[Len(parts)], live[0], moved)
<1>1. PICK n \in Nat : n = Len(parts) /\ DOMAIN parts = 1 .. n
  BY LenProperties
<1>2. PICK f : f = (CHOOSE g : DownOf(g, parts)) /\ DownOf(f, parts)
  BY DownExists
<1>4. \A k \in 0 .. n : f[k] = IF k = 0 THEN << >> ELSE parts[k] \o f[k - 1]
  BY <1>1, <1>2 DEF DownOf
<1> DEFINE G == {k \in 0 .. n : f[k] \in Seq(Instructions) /\ Runs(f[k], live[k], live[0], moved)}
<1>5. 0 \in G
  <2>1. f[0] = << >> /\ 0 \in 0 .. n
    BY <1>4
  <2>2. << >> \in Seq(Instructions)
    OBVIOUS
  <2> QED
    BY <2>1, <2>2, RunOfNothing
<1>6. ASSUME NEW k \in 1 .. n, k - 1 \in G PROVE k \in G
  <2>1. k \in 0 .. n /\ k # 0
    OBVIOUS
  <2>2. f[k - 1] \in Seq(Instructions) /\ Runs(f[k - 1], live[k - 1], live[0], moved)
    BY <1>6
  <2>3. parts[k] \in Seq(Instructions) /\ Runs(parts[k], live[k], live[k - 1], moved)
    BY <1>1, ElementOfSeq
  <2>4. Runs(parts[k] \o f[k - 1], live[k], live[0], moved)
    BY <2>2, <2>3, RunOfBoth
  <2>5. parts[k] \o f[k - 1] \in Seq(Instructions)
    BY <2>2, <2>3, ConcatProperties
  <2> QED
    BY <2>1, <2>4, <2>5, <1>4
<1>7. \A k \in 0 .. n : k \in G
  <2> HIDE DEF G
  <2> QED
    BY <1>5, <1>6, UpTo
<1>8. n \in G
  <2> HIDE DEF G
  <2> QED
    BY <1>7
<1> QED
  BY <1>1, <1>8, <1>2 DEF LastFirst, DownOf

--------------------------------------------------------------------------------
(* Scopes. *)

\* The scope of depth d, what it registers and how many scopes there are.
LEMMA ScopeParts ==
  ASSUME NEW scopes, NEW sites, ScopesRight(scopes, sites), NEW d \in 1 .. Len(scopes)
  PROVE  /\ scopes[d] \in Scopes /\ ScopeRight(scopes[d], d, sites)
         /\ In(scopes[d]) \in SUBSET Registrations
         /\ \A r \in In(scopes[d]) : r.depth = d /\ r.site < sites
         /\ Len(scopes) \in Nat \ {0} /\ DOMAIN scopes = 1 .. Len(scopes)
<1>1. Len(scopes) \in Nat \ {0} /\ DOMAIN scopes = 1 .. Len(scopes)
  BY EmptySeq, LenProperties DEF ScopesRight
<1>2. scopes[d] \in Scopes /\ ScopeRight(scopes[d], d, sites)
  BY <1>1, ElementOfSeq DEF ScopesRight
<1> QED
  BY <1>1, <1>2, RangeOfSeq DEF In, ScopeRight, Ordered, Range, Scopes

\* What is held bears a depth up to the one asked for and the site of an earlier statement.
LEMMA HeldFacts ==
  ASSUME NEW scopes, NEW sites, ScopesRight(scopes, sites), NEW d \in 0 .. Len(scopes)
  PROVE  /\ Held(scopes, d) \in SUBSET Registrations
         /\ \A r \in Held(scopes, d) : r.depth \in 1 .. d /\ r.site < sites
<1>2. ASSUME NEW r \in Held(scopes, d)
      PROVE  r \in Registrations /\ r.depth \in 1 .. d /\ r.site < sites
  <2>1. PICK k \in 1 .. d : r \in In(scopes[k])
    BY DEF Held
  <2>2. k \in 1 .. Len(scopes)
    BY EmptySeq, LenProperties DEF ScopesRight
  <2> QED
    BY <2>1, <2>2, ScopeParts
<1> QED
  BY <1>2

\* The next scope adds what it has registered itself.
LEMMA HeldNext ==
  ASSUME NEW scopes, NEW d \in Nat \ {0}
  PROVE  Held(scopes, d) = Held(scopes, d - 1) \cup In(scopes[d])
<1> QED
  BY DEF Held

\* No scope holds nothing.
LEMMA HeldNone == ASSUME NEW scopes PROVE Held(scopes, 0) = {}
<1> QED
  BY DEF Held

\* Only the scopes up to the depth matter.
LEMMA HeldSame ==
  ASSUME NEW p, NEW q, NEW d \in Nat, \A k \in 1 .. d : p[k] = q[k]
  PROVE  Held(p, d) = Held(q, d)
  BY DEF Held

--------------------------------------------------------------------------------
(* What one scope generates. *)

\* A deferred statement, with what it registers itself.
LEMMA DeferredRuns ==
  ASSUME NEW r \in Registrations, r.kind \in {"defer", "defer_block", "defer_leaves"},
         NEW X \in SUBSET Registrations, r \in X, NEW moved,
         \A q \in X \ ({r} \cup moved) : Precedes(q, r),
         \A q \in X : q.depth <= Depth, Depth \in Nat
  PROVE  RunDeferred(r) \in Seq(Instructions) /\ Runs(RunDeferred(r), X, X \ {r}, moved)
<1>1. Instr("clean", r) \in Instructions /\ Allowed(Instr("clean", r), X, moved)
      /\ After(Instr("clean", r), X) = X \ {r}
  BY DEF Instr, Instructions, Allowed, After
<1>2. CASE r.kind = "defer"
  <2>1. PICK a \in Instructions : a = Instr("clean", r)
    BY <1>1
  <2>3. Runs(<<a>>, X, X \ {r}, moved)
    BY <1>1, <2>1, RunOfOne
  <2> QED
    BY <2>3, <1>2, <2>1 DEF RunDeferred
<1>3. CASE r.kind = "defer_leaves"
  <2>1. Instr("error", r) \in Instructions /\ Allowed(Instr("error", r), X, moved)
        /\ After(Instr("error", r), X) = X \ {r}
    BY DEF Instr, Instructions, Allowed, After
  <2>2. PICK a \in Instructions : a = Instr("error", r)
    BY <2>1
  <2>4. Runs(<<a>>, X, X \ {r}, moved)
    BY <2>1, <2>2, RunOfOne
  <2> QED
    BY <2>4, <1>3, <2>2 DEF RunDeferred
<1>4. CASE r.kind = "defer_block"
  <2>1. PICK own : own = [site |-> r.site, kind |-> "var", depth |-> Depth + 1]
    OBVIOUS
  <2>2. own \in Registrations /\ own.depth = Depth + 1
    <3> HIDE DEF Depth
    <3> QED
      BY <2>1 DEF Registrations
  <2>3. PICK a \in Instructions : a = Instr("clean", r)
    BY <1>1
  <2>4. PICK b \in Instructions : b = Instr("make", own)
    BY <2>2 DEF Instr, Instructions
  <2>5. PICK c \in Instructions : c = Instr("clean", own)
    BY <2>2 DEF Instr, Instructions
  <2>7. <<a, b, c>> = <<a>> \o <<b, c>> /\ <<b, c>> = <<b>> \o <<c>>
    OBVIOUS
  <2>8. /\ <<a>> \in Seq(Instructions) /\ <<b>> \in Seq(Instructions) /\ <<c>> \in Seq(Instructions)
        /\ <<b, c>> \in Seq(Instructions)
    OBVIOUS
  <2>9. \A q \in X : q.depth < own.depth /\ q # own
    <3> TAKE q \in X
    <3> QED
      BY <2>2 DEF Registrations
  <2>10. Runs(<<a>>, X, X \ {r}, moved)
    BY <1>1, <2>3, RunOfOne
  <2>11. Runs(<<b>>, X \ {r}, (X \ {r}) \cup {own}, moved)
    BY RunOfOne, <2>4, <2>9 DEF Allowed, After, Instr
  <2>12. Runs(<<c>>, (X \ {r}) \cup {own}, X \ {r}, moved)
    <3> DEFINE Y == (X \ {r}) \cup {own}
    <3>1. Y \in SUBSET Registrations
      BY <2>2
    <3> QED
      BY <3>1, RunOfOne, <2>5, <2>9 DEF After, Instr, Allowed, Precedes
  <2>14. Runs(<<a, b, c>>, X, X \ {r}, moved)
    BY <2>7, <2>8, <2>10, RunOfBoth, <2>11, <2>12
  <2> QED
    BY <2>14, <1>4, <2>1, <2>3, <2>4, <2>5 DEF RunDeferred
<1> QED
  BY <1>2, <1>3, <1>4

\* What may be handed over by a return: variables of open scopes.
MovesRight(moved, scopes) ==
  moved \in SUBSET Registrations
  /\ \A v \in moved : v.kind \in {"var", "zone"} /\ v.depth \in 1 .. Len(scopes)

\* The deferred statements of a scope.
LEMMA DeferredOfScope ==
  ASSUME NEW sites, ScopesRight(clScopes, sites), NEW d \in 1 .. Depth, NEW moved, MovesRight(moved, clScopes),
         NEW low, low = Held(clScopes, d - 1) \cup Range(clScopes[d].vars) \cup moved,
         NEW ds, ds = clScopes[d].deferred
  PROVE  /\ LastFirst([k \in DOMAIN ds |-> RunDeferred(ds[k])]) \in Seq(Instructions)
         /\ Runs(LastFirst([k \in DOMAIN ds |-> RunDeferred(ds[k])]), low \cup Range(ds), low, moved)
<1>1. Depth \in Nat \ {0} /\ Depth = Len(clScopes) /\ ScopeRight(clScopes[d], d, sites) /\ clScopes[d] \in Scopes
  BY ScopeParts DEF Depth
<1>2. ds \in Seq(Registrations) /\ Range(clScopes[d].vars) \in SUBSET Registrations
  BY RangeOfSeq, <1>1 DEF Scopes
<1>3. PICK n \in Nat : n = Len(ds) /\ DOMAIN ds = 1 .. n
  BY <1>2, LenProperties
<1>4. d - 1 \in 0 .. Len(clScopes) /\ d \in Nat
  BY <1>1
<1>5. /\ Held(clScopes, d - 1) \in SUBSET Registrations
      /\ \A r \in Held(clScopes, d - 1) : r.depth \in 1 .. d - 1
  BY <1>4, HeldFacts
<1>6. low \in SUBSET Registrations /\ \A r \in low : r.depth <= Depth
  BY <1>1, <1>2, <1>5 DEF MovesRight, ScopeRight, Ordered, Range
<1> DEFINE live == [k \in 0 .. n |-> low \cup {ds[j] : j \in 1 .. k}]
           parts == [k \in DOMAIN ds |-> RunDeferred(ds[k])]
<1>7. ASSUME NEW k \in 1 .. n
      PROVE  /\ ds[k] \in Registrations /\ ds[k].depth = d
             /\ ds[k].kind \in {"defer", "defer_block", "defer_leaves"}
             /\ \A j \in 1 .. n : j < k => ds[j].site < ds[k].site
  BY <1>1, <1>2, <1>3, ElementOfSeq DEF ScopeRight, Ordered
<1>8. ASSUME NEW k \in 1 .. n
      PROVE  RunDeferred(ds[k]) \in Seq(Instructions) /\ Runs(RunDeferred(ds[k]), live[k], live[k - 1], moved)
  <2>1. k \in 0 .. n /\ k - 1 \in 0 .. n /\ 1 .. k = (1 .. k - 1) \cup {k} /\ k \in 1 .. k
    OBVIOUS
  <2>2. live[k] = low \cup {ds[j] : j \in 1 .. k} /\ live[k - 1] = low \cup {ds[j] : j \in 1 .. k - 1}
    BY <2>1
  <2> HIDE DEF live
  <2>3. PICK X : X = live[k]
    OBVIOUS
  <2>4. \A j \in 1 .. k : j \in 1 .. n
    OBVIOUS
  <2>5. X \in SUBSET Registrations /\ ds[k] \in X
    BY <1>6, <2>1, <2>2, <2>3, <1>7, <2>4
  <2>6. \A q \in X : q.depth <= Depth
    BY <1>6, <2>2, <2>3, <1>1, <1>7, <2>4
  <2>7. \A j \in 1 .. k - 1 : ds[j] # ds[k] /\ ds[j].site < ds[k].site /\ ds[j].depth = d
    <3> TAKE j \in 1 .. k - 1
    <3> QED
      BY <1>7 DEF Registrations
  <2>8. \A r \in Range(clScopes[d].vars) : r.depth = d /\ r.kind \in {"var", "zone"}
    BY <1>1 DEF ScopeRight, Ordered, Range
  <2>9. \A r \in Held(clScopes, d - 1) : r.depth < d
    BY <1>4, <1>5
  <2>11. ds[k] \notin low
    BY <1>4, <2>8, <2>9, <1>7 DEF MovesRight
  <2>12. X \ {ds[k]} = live[k - 1]
    BY <2>2, <2>3, <2>11, <2>1, <2>7
  <2>13. ASSUME NEW q \in X \ ({ds[k]} \cup moved) PROVE Precedes(q, ds[k])
    <3>2. CASE q \in Held(clScopes, d - 1)
      BY <1>7, <2>9, <3>2 DEF Precedes
    <3>3. CASE q \in Range(clScopes[d].vars)
      BY <1>7, <2>8, <3>3 DEF Precedes
    <3>4. CASE q \in {ds[j] : j \in 1 .. k - 1}
      BY <1>7, <2>7, <3>4 DEF Precedes
    <3> QED
      BY <2>2, <2>13, <3>2, <3>3, <3>4, <2>12
  <2>14. RunDeferred(ds[k]) \in Seq(Instructions) /\ Runs(RunDeferred(ds[k]), X, X \ {ds[k]}, moved)
    BY <1>1, <1>7, <2>5, <2>6, <2>13, DeferredRuns
  <2> QED
    BY <2>3, <2>12, <2>14
<1>9. parts \in Seq(Seq(Instructions)) /\ Len(parts) = n /\ \A k \in 1 .. n : parts[k] = RunDeferred(ds[k])
  <2>1. parts \in [1 .. n -> Seq(Instructions)]
    BY <1>3, <1>8
  <2> QED
    BY <1>3, <2>1
<1>10. live[0] = low /\ live[n] = low \cup Range(ds)
  BY <1>3 DEF Range
<1> HIDE DEF live, parts
<1>12. LastFirst(parts) \in Seq(Instructions) /\ Runs(LastFirst(parts), live[n], live[0], moved)
  BY <1>6, <1>9, <1>10, RunLastFirst, <1>8
<1> QED
  BY <1>10, <1>12 DEF parts

\* The variables and zones of a scope, without those that are moved.
LEMMA VarsOfScope ==
  ASSUME NEW sites, ScopesRight(clScopes, sites), NEW d \in 1 .. Depth, NEW moved, MovesRight(moved, clScopes),
         NEW low, low = Held(clScopes, d - 1) \cup moved,
         NEW vs, vs = clScopes[d].vars
  PROVE  /\ LastFirst([k \in DOMAIN vs |-> CleanVar(vs[k], moved)]) \in Seq(Instructions)
         /\ Runs(LastFirst([k \in DOMAIN vs |-> CleanVar(vs[k], moved)]), low \cup Range(vs), low, moved)
<1>1. Depth \in Nat \ {0} /\ Depth = Len(clScopes) /\ ScopeRight(clScopes[d], d, sites) /\ clScopes[d] \in Scopes
  BY ScopeParts DEF Depth
<1>2. vs \in Seq(Registrations)
  BY <1>1 DEF Scopes
<1>3. PICK n \in Nat : n = Len(vs) /\ DOMAIN vs = 1 .. n
  BY <1>2, LenProperties
<1>4. d - 1 \in 0 .. Len(clScopes) /\ d \in Nat
  BY <1>1
<1>5. /\ Held(clScopes, d - 1) \in SUBSET Registrations
      /\ \A r \in Held(clScopes, d - 1) : r.depth \in 1 .. d - 1
  BY <1>4, HeldFacts
<1>6. low \in SUBSET Registrations
  BY <1>5 DEF MovesRight
<1> DEFINE live == [k \in 0 .. n |-> low \cup {vs[j] : j \in 1 .. k}]
           parts == [k \in DOMAIN vs |-> CleanVar(vs[k], moved)]
<1>7. ASSUME NEW k \in 1 .. n
      PROVE  /\ vs[k] \in Registrations /\ vs[k].depth = d /\ vs[k].kind \in {"var", "zone"}
             /\ \A j \in 1 .. n : j < k => vs[j].site < vs[k].site
  BY <1>1, <1>2, <1>3, ElementOfSeq DEF ScopeRight, Ordered
<1>8. ASSUME NEW k \in 1 .. n
      PROVE  CleanVar(vs[k], moved) \in Seq(Instructions) /\ Runs(CleanVar(vs[k], moved), live[k], live[k - 1], moved)
  <2>1. k \in 0 .. n /\ k - 1 \in 0 .. n /\ 1 .. k = (1 .. k - 1) \cup {k} /\ k \in 1 .. k
    OBVIOUS
  <2>2. live[k] = low \cup {vs[j] : j \in 1 .. k} /\ live[k - 1] = low \cup {vs[j] : j \in 1 .. k - 1}
    BY <2>1
  <2> HIDE DEF live
  <2>3. PICK X : X = live[k]
    OBVIOUS
  <2>5. X \in SUBSET Registrations /\ vs[k] \in X
    BY <1>6, <2>1, <2>2, <2>3, <1>7
  <2>6. {vs[j] : j \in 1 .. k} = {vs[j] : j \in 1 .. k - 1} \cup {vs[k]}
    BY <2>1
  <2>7. \A j \in 1 .. k - 1 : vs[j] # vs[k] /\ vs[j].site < vs[k].site /\ vs[j].depth = d /\ vs[j].kind \in {"var", "zone"}
    <3> TAKE j \in 1 .. k - 1
    <3> QED
      BY <1>7 DEF Registrations
  <2>8. CASE vs[k] \in moved
    <3>2. live[k - 1] = X
      BY <2>2, <2>3, <2>6, <2>8
    <3> QED
      BY <2>3, <2>5, <3>2, RunOfNothing, <2>8 DEF CleanVar
  <2>9. CASE vs[k] \notin moved
    <3>2. PICK a \in Instructions : a = Instr("clean", vs[k])
      BY <1>7 DEF Instr, Instructions
    <3>3. CleanVar(vs[k], moved) = <<a>> /\ <<a>> \in Seq(Instructions)
      BY <2>9, <3>2 DEF CleanVar
    <3>4. \A r \in Held(clScopes, d - 1) : r.depth < d
      BY <1>4, <1>5
    <3>6. X \ {vs[k]} = live[k - 1]
      BY <2>2, <2>3, <2>6, <2>7, <1>4, <1>7, <2>9, <3>4
    <3>7. ASSUME NEW q \in X \ ({vs[k]} \cup moved) PROVE Precedes(q, vs[k])
      <4>2. CASE q \in Held(clScopes, d - 1)
        BY <1>7, <3>4, <4>2 DEF Precedes
      <4>3. CASE q \in {vs[j] : j \in 1 .. k - 1}
        BY <1>7, <2>7, <4>3 DEF Precedes
      <4> QED
        BY <2>2, <3>7, <4>2, <4>3, <3>6
    <3>9. Runs(<<a>>, X, X \ {vs[k]}, moved)
      BY <2>5, RunOfOne, <3>2, <3>7 DEF Allowed, After, Instr
    <3> QED
      BY <2>3, <3>3, <3>6, <3>9
  <2> QED
    BY <2>8, <2>9
<1>9. parts \in Seq(Seq(Instructions)) /\ Len(parts) = n /\ \A k \in 1 .. n : parts[k] = CleanVar(vs[k], moved)
  <2>1. parts \in [1 .. n -> Seq(Instructions)]
    BY <1>3, <1>8
  <2> QED
    BY <1>3, <2>1
<1>10. live[0] = low /\ live[n] = low \cup Range(vs)
  BY <1>3 DEF Range
<1> HIDE DEF live, parts
<1>12. LastFirst(parts) \in Seq(Instructions) /\ Runs(LastFirst(parts), live[n], live[0], moved)
  BY <1>6, <1>9, <1>10, RunLastFirst, <1>8
<1> QED
  BY <1>10, <1>12 DEF parts

\* One scope: whatever it holds is cleaned up, but for what is moved.
LEMMA ScopeRuns ==
  ASSUME NEW sites, ScopesRight(clScopes, sites), NEW d \in 1 .. Depth, NEW moved, MovesRight(moved, clScopes)
  PROVE  /\ ScopeCleanup(clScopes[d], moved) \in Seq(Instructions)
         /\ Runs(ScopeCleanup(clScopes[d], moved), Held(clScopes, d) \cup moved, Held(clScopes, d - 1) \cup moved, moved)
<1> DEFINE ds == clScopes[d].deferred
           vs == clScopes[d].vars
           p == LastFirst([k \in DOMAIN ds |-> RunDeferred(ds[k])])
           q == LastFirst([k \in DOMAIN vs |-> CleanVar(vs[k], moved)])
           X == Held(clScopes, d - 1) \cup Range(vs) \cup moved
           Y == Held(clScopes, d - 1) \cup moved
<1>2. p \in Seq(Instructions) /\ Runs(p, X \cup Range(ds), X, moved)
  BY DeferredOfScope
<1>3. q \in Seq(Instructions) /\ Runs(q, Y \cup Range(vs), Y, moved)
  BY VarsOfScope
<1>4. X = Y \cup Range(vs) /\ Held(clScopes, d) \cup moved = X \cup Range(ds)
  BY HeldNext, ScopeParts DEF In, Depth
<1>5. ScopeCleanup(clScopes[d], moved) = p \o q
  BY DEF ScopeCleanup
<1> HIDE DEF p, q, X, Y
<1>6. Runs(p \o q, X \cup Range(ds), Y, moved) /\ p \o q \in Seq(Instructions)
  BY <1>2, <1>3, <1>4, RunOfBoth, ConcatProperties
<1> QED
  BY <1>4, <1>5, <1>6 DEF Y

\* Leaving for a depth: the scopes above it are cleaned up.
LEMMA LeavingRuns ==
  ASSUME NEW sites, ScopesRight(clScopes, sites), NEW d \in 0 .. Depth, NEW moved, MovesRight(moved, clScopes)
  PROVE  /\ CleanupToDepth(d, moved) \in Seq(Instructions)
         /\ Runs(CleanupToDepth(d, moved), Held(clScopes, Depth) \cup moved, Held(clScopes, d) \cup moved, moved)
<1>1. Depth \in Nat \ {0} /\ Depth = Len(clScopes)
  BY EmptySeq, LenProperties DEF Depth, ScopesRight
<1>2. PICK n \in Nat : n = Depth - d
  <2>1. PICK e \in Nat : e = Depth
    BY <1>1
  <2> QED
    BY <2>1
<1> DEFINE parts == [k \in 1 .. n |-> ScopeCleanup(clScopes[d + k], moved)]
           live == [k \in 0 .. n |-> Held(clScopes, d + k) \cup moved]
<1>3. ASSUME NEW k \in 1 .. n
      PROVE  parts[k] \in Seq(Instructions) /\ Runs(parts[k], live[k], live[k - 1], moved)
  <2>1. d + k \in 1 .. Depth /\ (d + k) - 1 = d + (k - 1) /\ k \in 0 .. n /\ k - 1 \in 0 .. n
    BY <1>1, <1>2
  <2>2. parts[k] = ScopeCleanup(clScopes[d + k], moved)
        /\ live[k] = Held(clScopes, d + k) \cup moved /\ live[k - 1] = Held(clScopes, (d + k) - 1) \cup moved
    BY <2>1
  <2> HIDE DEF parts, live
  <2> QED
    BY <2>1, <2>2, ScopeRuns
<1>4. parts \in Seq(Seq(Instructions)) /\ Len(parts) = n
  <2> HIDE DEF live
  <2>2. parts = [k \in 1 .. n |-> parts[k]]
    OBVIOUS
  <2> HIDE DEF parts
  <2> QED
    BY LenProperties, <2>2, IsASeq, <1>3
<1>5. live[0] = Held(clScopes, d) \cup moved /\ live[n] = Held(clScopes, Depth) \cup moved
  BY <1>1, <1>2
<1>6. live[0] \in SUBSET Registrations
  BY <1>5, <1>1, HeldFacts DEF MovesRight
<1>7. CleanupToDepth(d, moved) = LastFirst(parts)
  BY <1>2 DEF CleanupToDepth
<1> HIDE DEF parts, live
<1> QED
  BY <1>5, <1>7, <1>3, <1>4, <1>6, RunLastFirst

\* Nothing needs to be moved.
LEMMA NoMoves == ASSUME NEW scopes PROVE MovesRight({}, scopes)
  BY DEF MovesRight

--------------------------------------------------------------------------------
(* The graph. *)

\* All the blocks but n are as they were.
SameBut(n, blocks, made) ==
  DOMAIN made = DOMAIN blocks /\ \A b \in DOMAIN blocks : b # n => made[b] = blocks[b]

\* Writing one block leaves a sequence of blocks, the others as they were.
LEMMA ChangedBlock ==
  ASSUME NEW blocks \in Seq(CodeBlocks), NEW n \in DOMAIN blocks, NEW new \in CodeBlocks
  PROVE  /\ [blocks EXCEPT ![n] = new] \in Seq(CodeBlocks)
         /\ SameBut(n, blocks, [blocks EXCEPT ![n] = new])
         /\ [blocks EXCEPT ![n] = new][n] = new
<1> QED
  BY ExceptSeq, LenProperties DEF SameBut

\* A block has its four parts and nothing else.
LEMMA BlockParts ==
  ASSUME NEW c \in CodeBlocks
  PROVE  /\ c.ins \in Seq(Instructions) /\ c.ended \in BOOLEAN /\ c.to \in SUBSET Nat
         /\ c.moved \in SUBSET Registrations
         /\ c = [ins |-> c.ins, ended |-> c.ended, to |-> c.to, moved |-> c.moved]
  BY DEF CodeBlocks

\* A change of one block that keeps it right keeps the graph right.
LEMMA GraphChanged ==
  ASSUME NEW blocks, NEW entry, NEW exit, Graph(blocks, entry, exit), NEW n \in DOMAIN blocks,
         NEW made \in Seq(CodeBlocks), SameBut(n, blocks, made),
         NEW Y \in SUBSET Registrations, BlockRight(made, n, entry, [exit EXCEPT ![n] = Y])
  PROVE  Graph(made, entry, [exit EXCEPT ![n] = Y])
<1> DEFINE exit2 == [exit EXCEPT ![n] = Y]
<1>2. ASSUME NEW b \in DOMAIN made, b # n PROVE BlockRight(made, b, entry, exit2)
  <2>1. b \in DOMAIN blocks /\ made[b] = blocks[b] /\ exit2[b] = exit[b] /\ DOMAIN made = DOMAIN blocks
    BY <1>2 DEF Graph, SameBut
  <2> HIDE DEF exit2
  <2> QED
    BY <2>1 DEF BlockRight, Graph
<1> QED
  BY <1>2 DEF Graph, SameBut

\* Emitting instructions moves the exit of the block.
LEMMA GraphEmit ==
  ASSUME NEW blocks, NEW entry, NEW exit, Graph(blocks, entry, exit), NEW n \in DOMAIN blocks,
         NEW p \in Seq(Instructions), NEW Y \in SUBSET Registrations, ~blocks[n].ended,
         Runs(p, exit[n], Y, {})
  PROVE  /\ Graph(Emit(blocks, n, p), entry, [exit EXCEPT ![n] = Y])
         /\ SameBut(n, blocks, Emit(blocks, n, p)) /\ ~Emit(blocks, n, p)[n].ended
<1>1. blocks \in Seq(CodeBlocks) /\ blocks[n] \in CodeBlocks /\ BlockRight(blocks, n, entry, exit)
  BY ElementOfSeq, LenProperties DEF Graph
<1>2. PICK q \in Seq(Instructions) : q = blocks[n].ins
  BY <1>1, BlockParts
<1>4. PICK new : new = [blocks[n] EXCEPT !.ins = q \o p]
  OBVIOUS
<1>5. new \in CodeBlocks /\ new.ins = q \o p /\ ~new.ended /\ new.to = {} /\ new.moved = {}
  BY <1>1, <1>4, <1>2, ConcatProperties DEF CodeBlocks, BlockRight
<1>7. PICK made \in Seq(CodeBlocks) : made = Emit(blocks, n, p) /\ SameBut(n, blocks, made) /\ made[n] = new
  BY <1>1, <1>5, ChangedBlock, <1>2, <1>4 DEF Emit, Ended
<1>8. [exit EXCEPT ![n] = Y][n] = Y
  BY DEF Graph
<1>9. Runs(q \o p, entry[n], Y, {})
  BY <1>2, RunOfBoth, <1>1 DEF BlockRight
<1> QED
  BY <1>5, <1>7, GraphChanged, <1>8, <1>9 DEF BlockRight

\* A block that has ended takes no instruction.
LEMMA EmitEnded ==
  ASSUME NEW blocks, NEW n, blocks[n].ended, NEW p
  PROVE  Emit(blocks, n, p) = blocks
  BY DEF Emit, Ended

\* Branching to blocks that expect what there is.
LEMMA GraphBranch ==
  ASSUME NEW blocks, NEW entry, NEW exit, Graph(blocks, entry, exit), NEW n \in DOMAIN blocks,
         NEW to \in SUBSET DOMAIN blocks, to # {}, ~blocks[n].ended => \A c \in to : entry[c] = exit[n]
  PROVE  /\ Graph(BranchTo(blocks, n, to), entry, exit)
         /\ SameBut(n, blocks, BranchTo(blocks, n, to)) /\ BranchTo(blocks, n, to)[n].ended
<1>1. blocks \in Seq(CodeBlocks) /\ blocks[n] \in CodeBlocks /\ BlockRight(blocks, n, entry, exit)
  BY ElementOfSeq, LenProperties DEF Graph
<1>2. CASE blocks[n].ended
  BY <1>2 DEF SameBut, BranchTo, Ended
<1>3. CASE ~blocks[n].ended
  <2>1. PICK new : new = [blocks[n] EXCEPT !.ended = TRUE, !.to = to]
    OBVIOUS
  <2>2. to \in SUBSET Nat
    BY <1>1, LenProperties
  <2>3. new \in CodeBlocks /\ new.ins = blocks[n].ins /\ new.ended /\ new.to = to /\ new.moved = {}
    BY <1>1, <1>3, <2>1, <2>2 DEF CodeBlocks, BlockRight
  <2>4. BranchTo(blocks, n, to) = [blocks EXCEPT ![n] = new]
    BY <1>1, <1>3, <2>1 DEF BranchTo, Ended
  <2>5. PICK made \in Seq(CodeBlocks) : made = BranchTo(blocks, n, to) /\ SameBut(n, blocks, made) /\ made[n] = new
    BY <1>1, <2>3, <2>4, ChangedBlock
  <2>6. exit = [exit EXCEPT ![n] = exit[n]] /\ exit[n] \in SUBSET Registrations
    BY DEF Graph
  <2>7. BlockRight(made, n, entry, exit)
    BY <1>1, <1>3, <2>3, <2>5 DEF BlockRight, SameBut
  <2>8. Graph(made, entry, [exit EXCEPT ![n] = exit[n]])
    BY <2>5, <2>6, <2>7, GraphChanged
  <2> QED
    BY <2>3, <2>5, <2>6, <2>8
<1> QED
  BY <1>2, <1>3

\* Returning where only what is moved is left.
LEMMA GraphReturn ==
  ASSUME NEW blocks, NEW entry, NEW exit, Graph(blocks, entry, exit), NEW n \in DOMAIN blocks,
         ~blocks[n].ended => exit[n] = {}
  PROVE  /\ Graph(BranchTo(blocks, n, {}), entry, exit)
         /\ SameBut(n, blocks, BranchTo(blocks, n, {})) /\ BranchTo(blocks, n, {})[n].ended
<1>1. blocks \in Seq(CodeBlocks) /\ blocks[n] \in CodeBlocks /\ BlockRight(blocks, n, entry, exit)
  BY ElementOfSeq, LenProperties DEF Graph
<1>2. CASE blocks[n].ended
  BY <1>2 DEF SameBut, BranchTo, Ended
<1>3. CASE ~blocks[n].ended
  <2>1. PICK new : new = [blocks[n] EXCEPT !.ended = TRUE, !.to = {}]
    OBVIOUS
  <2>3. new \in CodeBlocks /\ new.ins = blocks[n].ins /\ new.ended /\ new.to = {} /\ new.moved = {}
    BY <1>1, <1>3, <2>1 DEF CodeBlocks, BlockRight
  <2>4. BranchTo(blocks, n, {}) = [blocks EXCEPT ![n] = new]
    BY <1>1, <1>3, <2>1 DEF BranchTo, Ended
  <2>5. PICK made \in Seq(CodeBlocks) : made = BranchTo(blocks, n, {}) /\ SameBut(n, blocks, made) /\ made[n] = new
    BY <1>1, <2>3, <2>4, ChangedBlock
  <2>6. exit = [exit EXCEPT ![n] = exit[n]] /\ exit[n] \in SUBSET Registrations
    BY DEF Graph
  <2>7. BlockRight(made, n, entry, exit)
    BY <1>1, <1>3, <2>3, <2>5 DEF BlockRight, SameBut
  <2>8. Graph(made, entry, [exit EXCEPT ![n] = exit[n]])
    BY <2>5, <2>6, <2>7, GraphChanged
  <2> QED
    BY <2>3, <2>5, <2>6, <2>8
<1> QED
  BY <1>2, <1>3

\* ret: what is moved stays for the caller.
LEMMA GraphRet ==
  ASSUME NEW blocks, NEW entry, NEW exit, Graph(blocks, entry, exit), NEW n \in DOMAIN blocks,
         ~blocks[n].ended, NEW p \in Seq(Instructions), NEW moved \in SUBSET Registrations,
         Runs(p, exit[n], moved, moved),
         NEW made, made = [BranchTo(Emit(blocks, n, p), n, {}) EXCEPT ![n].moved = moved]
  PROVE  Graph(made, entry, [exit EXCEPT ![n] = moved]) /\ SameBut(n, blocks, made) /\ made[n].ended
<1>1. blocks \in Seq(CodeBlocks) /\ blocks[n] \in CodeBlocks /\ BlockRight(blocks, n, entry, exit)
  BY ElementOfSeq, LenProperties DEF Graph
<1>2. PICK q \in Seq(Instructions) : q = blocks[n].ins
  BY <1>1, BlockParts
<1>4. PICK one : one = [blocks[n] EXCEPT !.ins = q \o p]
  OBVIOUS
<1>5. one \in CodeBlocks /\ one.ins = q \o p /\ ~one.ended
  BY <1>1, <1>4, <1>2, ConcatProperties DEF CodeBlocks, BlockRight
<1>7. PICK new : new = [one EXCEPT !.ended = TRUE, !.to = {}, !.moved = moved]
  OBVIOUS
<1>8. new \in CodeBlocks /\ new.ins = q \o p /\ new.ended /\ new.to = {} /\ new.moved = moved
  BY <1>5, <1>7 DEF CodeBlocks
<1>9. made = [blocks EXCEPT ![n] = new]
  <2>1. PICK two : two = [one EXCEPT !.ended = TRUE, !.to = {}]
    OBVIOUS
  <2> QED
    BY <1>5, <2>1, <1>1, <1>2, <1>4, <1>7 DEF BranchTo, Ended, Emit, CodeBlocks
<1>10. made \in Seq(CodeBlocks) /\ SameBut(n, blocks, made) /\ made[n] = new
  <2>1. PICK w : w = [blocks EXCEPT ![n] = new]
    OBVIOUS
  <2>2. w \in Seq(CodeBlocks) /\ SameBut(n, blocks, w) /\ w[n] = new
    BY <1>1, <1>8, <2>1, ChangedBlock
  <2> QED
    BY <1>9, <2>1, <2>2
<1>12. Runs(q \o p, entry[n], moved, moved)
  BY <1>2, RunOfBoth, RunWithMoves, <1>1 DEF BlockRight
<1>13. BlockRight(made, n, entry, [exit EXCEPT ![n] = moved])
  BY <1>8, <1>10, <1>12 DEF BlockRight, Graph
<1> QED
  BY <1>8, <1>10, <1>13, GraphChanged

\* New blocks, behind the first m: empty, open or branching among themselves.
NewRight(new, m) ==
  /\ new \in Seq(CodeBlocks)
  /\ \A k \in 1 .. Len(new) :
       /\ new[k].ins = << >> /\ new[k].moved = {} /\ new[k].to \subseteq m + 1 .. m + Len(new)
       /\ new[k].ended => new[k].to # {}
       /\ ~new[k].ended => new[k].to = {}

\* f on the first m, e behind.
Extended(f, m, n, e) == [b \in 1 .. m + n |-> IF b <= m THEN f[b] ELSE e]

\* A function that is extended keeps its values and has e behind them.
LEMMA ExtendedFacts ==
  ASSUME NEW m \in Nat, NEW n \in Nat, NEW f \in [1 .. m -> SUBSET Registrations],
         NEW e \in SUBSET Registrations
  PROVE  /\ Extended(f, m, n, e) \in [1 .. m + n -> SUBSET Registrations]
         /\ \A b \in 1 .. m : Extended(f, m, n, e)[b] = f[b]
         /\ \A b \in m + 1 .. m + n : Extended(f, m, n, e)[b] = e
<1> QED
  BY DEF Extended

\* Where the kth of l new blocks stands behind m old ones.
LEMMA Shifted ==
  ASSUME NEW m \in Nat, NEW l \in Nat, NEW k \in 1 .. l
  PROVE  m + k \in m + 1 .. m + l /\ m + k \in 1 .. m + l /\ ~(m + k <= m) /\ (m + k) - m = k
  OBVIOUS

\* made has the blocks and the new ones, to which block n branches.
Opened(blocks, n, new, made) ==
  /\ DOMAIN made = 1 .. Len(blocks) + Len(new) /\ made[n].ended
  /\ \A b \in DOMAIN blocks : b # n => made[b] = blocks[b]
  /\ \A k \in 1 .. Len(new) : made[Len(blocks) + k] = new[k]
OpenedRight(blocks, n, new, made, entry, exit) == Graph(made, entry, exit) /\ Opened(blocks, n, new, made)

\* A construct opens: the block branches to new ones, which expect what it has.
LEMMA GraphOpen ==
  ASSUME NEW blocks, NEW entry, NEW exit, Graph(blocks, entry, exit), NEW n \in DOMAIN blocks,
         ~blocks[n].ended, NEW m, m = Len(blocks), NEW new, NewRight(new, m), NEW l, l = Len(new),
         NEW to, to \subseteq m + 1 .. m + l, to # {},
         NEW made, made = BranchTo(blocks, n, to) \o new,
         NEW entry2, entry2 = Extended(entry, m, l, exit[n]), NEW exit2, exit2 = Extended(exit, m, l, exit[n])
  PROVE  OpenedRight(blocks, n, new, made, entry2, exit2)
<1>1. /\ blocks \in Seq(CodeBlocks) /\ blocks[n] \in CodeBlocks /\ BlockRight(blocks, n, entry, exit)
      /\ m \in Nat /\ DOMAIN blocks = 1 .. m
  BY ElementOfSeq, LenProperties DEF Graph
<1>2. l \in Nat /\ new \in Seq(CodeBlocks) /\ DOMAIN new = 1 .. l
  BY LenProperties DEF NewRight
<1>22. m \in Nat /\ l \in Nat
  BY <1>1, <1>2
<1>3. PICK one : one = [blocks[n] EXCEPT !.ended = TRUE, !.to = to]
  OBVIOUS
<1>4. to \in SUBSET Nat
  BY <1>1, <1>2
<1>5. one \in CodeBlocks /\ one.ins = blocks[n].ins /\ one.ended /\ one.to = to /\ one.moved = {}
  BY <1>1, <1>3, <1>4 DEF CodeBlocks, BlockRight
<1>6. PICK w : w = [blocks EXCEPT ![n] = one]
  OBVIOUS
<1>7. w \in Seq(CodeBlocks) /\ SameBut(n, blocks, w) /\ w[n] = one
  BY <1>1, <1>5, <1>6, ChangedBlock
<1>9. Len(w) = m /\ DOMAIN w = 1 .. m
  BY <1>1, <1>7, LenProperties DEF SameBut
<1>10. /\ made \in Seq(CodeBlocks) /\ Len(made) = m + l
       /\ \A i \in 1 .. m + l : made[i] = IF i <= m THEN w[i] ELSE new[i - m]
  <2>2. /\ w \o new \in Seq(CodeBlocks) /\ Len(w \o new) = Len(w) + Len(new)
        /\ \A i \in 1 .. Len(w) + Len(new) : (w \o new)[i] = IF i <= Len(w) THEN w[i] ELSE new[i - Len(w)]
    BY <1>2, <1>7, ConcatProperties
  <2> QED
    BY <1>9, <2>2, <1>1, <1>3, <1>6 DEF BranchTo, Ended
<1>11. DOMAIN made = 1 .. m + l
  BY <1>10, LenProperties
<1>12. \A b \in 1 .. m : b \in 1 .. m + l /\ made[b] = w[b]
  BY <1>1, <1>2, <1>10
<1>13. \A k \in 1 .. l : m + k \in 1 .. m + l /\ made[m + k] = new[k]
  <2> TAKE k \in 1 .. l
  <2> QED
    BY <1>10, <1>1, <1>2
<1>14. /\ entry \in [1 .. m -> SUBSET Registrations] /\ exit \in [1 .. m -> SUBSET Registrations]
       /\ exit[n] \in SUBSET Registrations
  BY <1>1 DEF Graph
<1>15. /\ entry2 \in [1 .. m + l -> SUBSET Registrations] /\ exit2 \in [1 .. m + l -> SUBSET Registrations]
       /\ \A b \in 1 .. m : entry2[b] = entry[b] /\ exit2[b] = exit[b]
       /\ \A b \in m + 1 .. m + l : entry2[b] = exit[n] /\ exit2[b] = exit[n]
  <2>1. PICK e \in SUBSET Registrations : e = exit[n]
    BY <1>14
  <2>2. /\ entry2 \in [1 .. m + l -> SUBSET Registrations]
        /\ \A b \in 1 .. m : entry2[b] = entry[b]
        /\ \A b \in m + 1 .. m + l : entry2[b] = e
    <3>2. entry \in [1 .. m -> SUBSET Registrations]
      BY <1>14
    <3>3. Extended(entry, m, l, e) \in [1 .. m + l -> SUBSET Registrations]
      BY ONLY <1>22, <2>1, <3>2, ExtendedFacts
    <3>4. \A b \in 1 .. m : Extended(entry, m, l, e)[b] = entry[b]
      BY ONLY <1>22, <2>1, <3>2, ExtendedFacts
    <3>5. \A b \in m + 1 .. m + l : Extended(entry, m, l, e)[b] = e
      BY ONLY <1>22, <2>1, <3>2, ExtendedFacts
    <3> QED
      BY <3>3, <3>4, <3>5, <2>1
  <2>3. /\ exit2 \in [1 .. m + l -> SUBSET Registrations]
        /\ \A b \in 1 .. m : exit2[b] = exit[b]
        /\ \A b \in m + 1 .. m + l : exit2[b] = e
    <3>2. exit \in [1 .. m -> SUBSET Registrations]
      BY <1>14
    <3>3. Extended(exit, m, l, e) \in [1 .. m + l -> SUBSET Registrations]
      BY ONLY <1>22, <2>1, <3>2, ExtendedFacts
    <3>4. \A b \in 1 .. m : Extended(exit, m, l, e)[b] = exit[b]
      BY ONLY <1>22, <2>1, <3>2, ExtendedFacts
    <3>5. \A b \in m + 1 .. m + l : Extended(exit, m, l, e)[b] = e
      BY ONLY <1>22, <2>1, <3>2, ExtendedFacts
    <3> QED
      BY <3>3, <3>4, <3>5, <2>1
  <2> QED
    BY <2>1, <2>2, <2>3
<1>16. ASSUME NEW b \in 1 .. m, b # n PROVE BlockRight(made, b, entry2, exit2)
  <2>1. made[b] = blocks[b] /\ BlockRight(blocks, b, entry, exit)
    BY <1>1, <1>7, <1>12, <1>16 DEF Graph, SameBut
  <2>2. blocks[b].to \subseteq 1 .. m
    BY <1>1, <2>1 DEF BlockRight
  <2>3. 1 .. m \subseteq DOMAIN made
    BY <1>1, <1>2, <1>11
  <2> QED
    BY <1>15, <2>1, <2>2, <2>3 DEF BlockRight
<1>17. BlockRight(made, n, entry2, exit2)
  <2>1. made[n] = one /\ n \in 1 .. m
    BY <1>1, <1>7, <1>12
  <2>3. to \subseteq DOMAIN made
    BY <1>1, <1>2, <1>11
  <2>4. entry2[n] = entry[n] /\ exit2[n] = exit[n] /\ \A c \in to : entry2[c] = exit[n]
    BY <1>15, <2>1
  <2> QED
    BY <1>5, <2>1, <2>3, <2>4, <1>1 DEF BlockRight
<1>18. ASSUME NEW k \in 1 .. l PROVE BlockRight(made, m + k, entry2, exit2)
  <2>1. made[m + k] = new[k] /\ m + k \in m + 1 .. m + l
    BY <1>13, <1>22, Shifted
  <2>2. entry2[m + k] = exit[n] /\ exit2[m + k] = exit[n]
    BY <1>15, <2>1
  <2>3. /\ new[k].ins = << >> /\ new[k].moved = {} /\ new[k].to \subseteq m + 1 .. m + l
        /\ new[k].ended => new[k].to # {}
        /\ ~new[k].ended => new[k].to = {}
    BY DEF NewRight
  <2>4. Runs(<< >>, exit[n], exit[n], {})
    BY <1>14, RunOfNothing
  <2> QED
    BY <1>15, <2>1, <2>2, <2>3, <2>4, <1>1, <1>2, <1>11 DEF BlockRight
<1>19. ASSUME NEW b \in DOMAIN made PROVE BlockRight(made, b, entry2, exit2)
  <2>1. b \in 1 .. m \/ \E k \in 1 .. l : b = m + k
    <3>1. CASE b <= m
      BY <1>1, <1>2, <1>11, <3>1
    <3>2. CASE b > m
      <4>1. b - m \in 1 .. l /\ b = m + (b - m)
        BY <1>1, <1>2, <1>11, <3>2
      <4> QED
        BY <4>1
    <3> QED
      BY <1>1, <1>2, <1>11, <3>1, <3>2
  <2> QED
    BY <1>16, <1>17, <1>18, <2>1
<1>20. Graph(made, entry2, exit2)
  BY <1>10, <1>11, <1>15, <1>19 DEF Graph
<1> QED
  BY <1>11, <1>13, <1>20, <1>1, <1>5, <1>7, <1>12 DEF OpenedRight, Opened, SameBut

--------------------------------------------------------------------------------
(* What the constructs that are open rely on. *)

\* A target stays right while the scopes it retains and the entries stay.
LEMMA TargetKept ==
  ASSUME NEW target, NEW blocks, NEW scopes, NEW entry, NEW d \in Nat, TargetRight(target, blocks, scopes, entry, d),
         NEW blocks2, DOMAIN blocks \subseteq DOMAIN blocks2,
         NEW entry2, \A b \in DOMAIN blocks : entry2[b] = entry[b],
         NEW scopes2, \A k \in 1 .. d - 1 : scopes2[k] = scopes[k],
         NEW d2 \in Nat, d <= d2
  PROVE  TargetRight(target, blocks2, scopes2, entry2, d2)
<1>1. CASE target.block = 0
  BY <1>1 DEF TargetRight
<1>2. CASE target.block # 0
  <2>1. target \in [block : Nat, depth : Nat] /\ target.block \in DOMAIN blocks /\ target.depth < d
        /\ entry[target.block] = Held(scopes, target.depth)
    BY <1>2 DEF TargetRight
  <2>2. PICK t \in Nat : t = target.depth
    BY <2>1
  <2> QED
    BY <2>1, <2>2, HeldSame DEF TargetRight
<1> QED
  BY <1>1, <1>2

\* Nobody touches the pending blocks of a construct, nor the scopes it lies in.
Spared(c, blocks, scopes, entry, exit, blocks2, scopes2, entry2, exit2, d, e) ==
  /\ d - 1 <= e /\ \A k \in 1 .. e : scopes2[k] = scopes[k]
  /\ DOMAIN blocks \subseteq DOMAIN blocks2 /\ \A b \in DOMAIN blocks : entry2[b] = entry[b]
  /\ \A b \in Pending(c) : exit2[b] = exit[b]

\* So does a construct that is spared.
LEMMA ConstructKept ==
  ASSUME NEW c, NEW blocks, NEW scopes, NEW entry, NEW exit, NEW d \in Nat, NEW e \in Nat,
         ConstructRight(c, blocks, scopes, entry, exit, d, e),
         NEW blocks2, NEW scopes2, NEW entry2, NEW exit2,
         Spared(c, blocks, scopes, entry, exit, blocks2, scopes2, entry2, exit2, d, e)
  PROVE  ConstructRight(c, blocks2, scopes2, entry2, exit2, d, e)
<1>0. /\ d - 1 <= e /\ \A k \in 1 .. e : scopes2[k] = scopes[k]
      /\ DOMAIN blocks \subseteq DOMAIN blocks2 /\ \A b \in DOMAIN blocks : entry2[b] = entry[b]
      /\ \A b \in Pending(c) : exit2[b] = exit[b]
  BY DEF Spared
<1>1. \A k \in 1 .. d - 1 : scopes2[k] = scopes[k]
  BY <1>0
<1>2. TargetRight(c.brk, blocks2, scopes2, entry2, d) /\ TargetRight(c.cont, blocks2, scopes2, entry2, d)
  <2>1. TargetRight(c.brk, blocks, scopes, entry, d) /\ TargetRight(c.cont, blocks, scopes, entry, d)
    BY DEF ConstructRight
  <2>2. DOMAIN blocks \subseteq DOMAIN blocks2 /\ \A b \in DOMAIN blocks : entry2[b] = entry[b]
    BY <1>0
  <2>3. d \in Nat /\ d <= d
    OBVIOUS
  <2> QED
    BY ONLY <1>1, <2>1, <2>2, <2>3, TargetKept
<1> QED
  BY <1>0, <1>2, HeldSame DEF ConstructRight

\* The constructs that are open begin at rising depths below the present one.
LEMMA WidthFacts ==
  ASSUME NEW open \in Seq(Constructions), NEW base, NEW depth \in Nat, Widths(open, base, depth),
         NEW i \in 1 .. Len(open)
  PROVE  /\ Len(open) \in Nat /\ open[i] \in Constructions
         /\ base[i] \in Nat /\ base[i + 1] \in Nat /\ base[i + 1] - 1 \in Nat
         /\ base[i] <= base[i + 1] - 1 /\ base[i + 1] <= depth
<1>1. PICK n \in Nat : n = Len(open) /\ open[i] \in Constructions
  BY LenProperties, ElementOfSeq
<1>2. i \in 1 .. n + 1 /\ i + 1 \in 1 .. n + 1 /\ n + 1 \in 1 .. n + 1
  BY <1>1
<1>3. base[i] \in Nat /\ base[i + 1] \in Nat /\ base[n + 1] = depth
  BY <1>1, <1>2 DEF Widths
<1>5. base[i + 1] <= base[n + 1]
  <2>1. CASE i = n
    BY <1>3, <2>1
  <2>2. CASE i # n
    BY <1>1, <1>2, <1>3, <2>2 DEF Widths
  <2> QED
    BY <2>1, <2>2
<1> QED
  BY <1>1, <1>3, <1>5, <1>2 DEF Widths

--------------------------------------------------------------------------------
(* The scopes. *)

\* Registrations stay in order when statements are counted on.
LEMMA OrderedLater ==
  ASSUME NEW regs \in Seq(Registrations), NEW d, NEW sites \in Nat, Ordered(regs, d, sites),
         NEW sites2 \in Nat, sites <= sites2
  PROVE  Ordered(regs, d, sites2)
<1>1. ASSUME NEW k \in DOMAIN regs PROVE regs[k].site \in Nat
  <2>1. regs[k] \in Registrations
    BY ElementOfSeq, LenProperties
  <2> QED
    BY <2>1 DEF Registrations
<1> QED
  BY <1>1 DEF Ordered

\* A registration that bears the number of the next statement comes last.
LEMMA OrderedAppend ==
  ASSUME NEW regs \in Seq(Registrations), NEW d, NEW sites \in Nat, Ordered(regs, d, sites),
         NEW r \in Registrations, r.site = sites, r.depth = d
  PROVE  /\ Append(regs, r) \in Seq(Registrations) /\ Ordered(Append(regs, r), d, sites + 1)
         /\ Range(Append(regs, r)) = Range(regs) \cup {r}
         /\ \A k \in DOMAIN Append(regs, r) : Append(regs, r)[k] = r \/ \E j \in DOMAIN regs : Append(regs, r)[k] = regs[j]
<1>1. PICK n \in Nat : n = Len(regs) /\ DOMAIN regs = 1 .. n
  BY LenProperties
<1>2. PICK w \in Seq(Registrations) : w = Append(regs, r)
  BY AppendProperties
<1>3. DOMAIN w = 1 .. n + 1 /\ (\A k \in 1 .. n : w[k] = regs[k]) /\ w[n + 1] = r
  BY LenProperties, <1>1, <1>2, AppendProperties
<1>4. ASSUME NEW k \in 1 .. n PROVE regs[k].site \in Nat /\ regs[k].depth = d /\ regs[k].site < sites
  <2>1. regs[k] \in Registrations
    BY <1>1, ElementOfSeq
  <2> QED
    BY <1>1, <2>1 DEF Registrations, Ordered
<1>5. \A k \in 1 .. n + 1 : k \in 1 .. n \/ k = n + 1
  BY <1>1
<1>7. ASSUME NEW j \in DOMAIN w, NEW k \in DOMAIN w, j < k PROVE w[j].site < w[k].site
  <2>1. j \in 1 .. n
    BY <1>1, <1>3, <1>7
  <2>2. CASE k \in 1 .. n
    BY <1>1, <1>3, <1>7, <2>1, <2>2 DEF Ordered
  <2>3. CASE k = n + 1
    BY <1>3, <1>4, <2>1, <2>3
  <2> QED
    BY <1>3, <1>5, <2>2, <2>3
<1> QED
  BY <1>2, <1>1, <1>3, <1>5, <1>7, <1>4 DEF Ordered, Range

\* Scopes stay right when statements are counted on.
LEMMA ScopesLater ==
  ASSUME NEW scopes, NEW sites, ScopesRight(scopes, sites), NEW sites2 \in Nat, sites <= sites2
  PROVE  ScopesRight(scopes, sites2)
<1>1. ASSUME NEW d \in 1 .. Len(scopes) PROVE ScopeRight(scopes[d], d, sites2)
  <2>1. scopes[d] \in Scopes /\ ScopeRight(scopes[d], d, sites)
    BY ScopeParts
  <2> QED
    BY <2>1, OrderedLater DEF ScopeRight, Scopes, ScopesRight
<1> QED
  BY <1>1 DEF ScopesRight

\* A change of the innermost scope.
LEMMA InnermostChanged ==
  ASSUME NEW scopes, NEW sites, ScopesRight(scopes, sites), NEW sites2 \in Nat, sites <= sites2,
         NEW new \in Scopes, ScopeRight(new, Len(scopes), sites2),
         NEW scopes2, scopes2 = [scopes EXCEPT ![Len(scopes)] = new]
  PROVE  /\ ScopesRight(scopes2, sites2) /\ Len(scopes2) = Len(scopes)
         /\ \A k \in 1 .. Len(scopes) - 1 : scopes2[k] = scopes[k]
         /\ scopes2[Len(scopes)] = new
<1>1. PICK n \in Nat \ {0} : n = Len(scopes) /\ DOMAIN scopes = 1 .. n
  BY EmptySeq, LenProperties DEF ScopesRight
<1>2. scopes \in Seq(Scopes) /\ n \in 1 .. n
  BY <1>1 DEF ScopesRight
<1>4. scopes2[n] = new /\ \A k \in 1 .. n - 1 : scopes2[k] = scopes[k]
  BY <1>1, <1>2
<1>6. ASSUME NEW d \in 1 .. n PROVE ScopeRight(scopes2[d], d, sites2)
  <2>1. CASE d = n
    BY <1>1, <1>4, <2>1
  <2>2. CASE d # n
    BY <1>1, <1>4, ScopesLater, <2>2 DEF ScopesRight
  <2> QED
    BY <2>1, <2>2
<1> QED
  BY <1>1, <1>4, <1>6, EmptySeq, LenProperties, <1>2, ExceptSeq DEF ScopesRight

\* Registering a variable.
LEMMA VarRegistered ==
  ASSUME NEW scopes, NEW sites, ScopesRight(scopes, sites), NEW r \in Registrations,
         r.site = sites, r.depth = Len(scopes), r.kind = "var",
         NEW scopes2, scopes2 = [scopes EXCEPT ![Len(scopes)].vars = Append(@, r)]
  PROVE  /\ ScopesRight(scopes2, sites + 1) /\ Len(scopes2) = Len(scopes)
         /\ \A k \in 1 .. Len(scopes) - 1 : scopes2[k] = scopes[k]
         /\ Held(scopes2, Len(scopes2)) = Held(scopes, Len(scopes)) \cup {r}
<1>1. PICK n \in Nat \ {0} : n = Len(scopes) /\ DOMAIN scopes = 1 .. n
  BY EmptySeq, LenProperties DEF ScopesRight
<1>2. n \in 1 .. Len(scopes) /\ sites \in Nat /\ sites + 1 \in Nat /\ sites <= sites + 1
  BY <1>1 DEF ScopesRight
<1>3. scopes[n] \in Scopes /\ ScopeRight(scopes[n], n, sites)
  BY <1>2, ScopeParts
<1>4. PICK vs \in Seq(Registrations), ds \in Seq(Registrations) : vs = scopes[n].vars /\ ds = scopes[n].deferred
  BY <1>3 DEF Scopes
<1>5. Ordered(vs, n, sites) /\ Ordered(ds, n, sites)
      /\ (\A k \in DOMAIN vs : vs[k].kind \in {"var", "zone"})
      /\ (\A k \in DOMAIN ds : ds[k].kind \in {"defer", "defer_block", "defer_leaves"})
  BY <1>3, <1>4 DEF ScopeRight
<1>6. PICK ws : ws = Append(vs, r)
  OBVIOUS
<1>7. /\ ws \in Seq(Registrations) /\ Ordered(ws, n, sites + 1) /\ Range(ws) = Range(vs) \cup {r}
      /\ \A k \in DOMAIN ws : ws[k] = r \/ \E j \in DOMAIN vs : ws[k] = vs[j]
  BY <1>1, <1>2, <1>5, <1>6, OrderedAppend
<1>8. PICK new : new = [deferred |-> ds, vars |-> ws]
  OBVIOUS
<1>9. new \in Scopes /\ new.deferred = ds /\ new.vars = ws
  BY <1>7, <1>8 DEF Scopes
<1>10. Ordered(ds, n, sites + 1)
  BY <1>2, <1>5, OrderedLater
<1>13. scopes2 = [scopes EXCEPT ![n] = new]
  <2>1. PICK old \in Scopes : old = scopes[n]
    BY <1>3
  <2>4. scopes2 = [scopes EXCEPT ![n] = [old EXCEPT !.vars = Append(old.vars, r)]]
    BY <1>1, <2>1
  <2> QED
    BY <1>6, <2>4, <1>8, <1>4, <2>1 DEF Scopes
<1>14. /\ ScopesRight(scopes2, sites + 1) /\ Len(scopes2) = Len(scopes)
       /\ \A k \in 1 .. Len(scopes) - 1 : scopes2[k] = scopes[k]
       /\ Held(scopes2, Len(scopes2)) = Held(scopes, Len(scopes) - 1) \cup In(new)
  <2>1. ScopeRight(new, Len(scopes), sites + 1) /\ new \in Scopes /\ scopes2 = [scopes EXCEPT ![Len(scopes)] = new]
    BY <1>1, <1>9, <1>13, <1>5, <1>7, <1>10 DEF ScopeRight
  <2>2. PICK later \in Nat : later = sites + 1
    BY <1>2
  <2>3. sites <= later /\ ScopeRight(new, Len(scopes), later)
    BY <1>2, <2>1, <2>2
  <2>4. ScopesRight(scopes2, later)
    BY ONLY ScopesRight(scopes, sites), <2>1, <2>3, InnermostChanged
  <2>5. Len(scopes2) = Len(scopes)
    BY ONLY ScopesRight(scopes, sites), <2>1, <2>3, InnermostChanged
  <2>6. \A k \in 1 .. Len(scopes) - 1 : scopes2[k] = scopes[k]
    BY ONLY ScopesRight(scopes, sites), <2>1, <2>3, InnermostChanged
  <2>7. Held(scopes2, n) = Held(scopes, n - 1) \cup In(new)
    <3>2. n - 1 \in Nat
      OBVIOUS
    <3>3. Held(scopes2, n - 1) = Held(scopes, n - 1)
      <4>1. \A k \in 1 .. n - 1 : scopes2[k] = scopes[k]
        BY ONLY <1>1, <2>6
      <4>2. PICK m \in Nat : m = n - 1
        BY ONLY <3>2
      <4>3. Held(scopes2, m) = Held(scopes, m)
        BY ONLY <4>1, <4>2, HeldSame
      <4> QED
        BY ONLY <4>2, <4>3
    <3>4. scopes2[n] = new
      BY <1>1, <2>1
    <3> QED
      BY <3>3, <3>4, HeldNext
  <2> QED
    BY <1>1, <2>2, <2>4, <2>5, <2>6, <2>7
<1>16. Held(scopes, n) = Held(scopes, n - 1) \cup In(scopes[n])
  BY HeldNext
<1> QED
  BY <1>1, <1>14, <1>16, <1>4, <1>7, <1>9 DEF In

\* Registering a deferred statement.
LEMMA DeferRegistered ==
  ASSUME NEW scopes, NEW sites, ScopesRight(scopes, sites), NEW r \in Registrations,
         r.site = sites, r.depth = Len(scopes), r.kind \in {"defer", "defer_block", "defer_leaves"},
         NEW scopes2, scopes2 = [scopes EXCEPT ![Len(scopes)].deferred = Append(@, r)]
  PROVE  /\ ScopesRight(scopes2, sites + 1) /\ Len(scopes2) = Len(scopes)
         /\ \A k \in 1 .. Len(scopes) - 1 : scopes2[k] = scopes[k]
         /\ Held(scopes2, Len(scopes2)) = Held(scopes, Len(scopes)) \cup {r}
<1>1. PICK n \in Nat \ {0} : n = Len(scopes) /\ DOMAIN scopes = 1 .. n
  BY EmptySeq, LenProperties DEF ScopesRight
<1>2. n \in 1 .. Len(scopes) /\ sites \in Nat /\ sites + 1 \in Nat /\ sites <= sites + 1
  BY <1>1 DEF ScopesRight
<1>3. scopes[n] \in Scopes /\ ScopeRight(scopes[n], n, sites)
  BY <1>2, ScopeParts
<1>4. PICK vs \in Seq(Registrations), ds \in Seq(Registrations) : vs = scopes[n].vars /\ ds = scopes[n].deferred
  BY <1>3 DEF Scopes
<1>5. Ordered(vs, n, sites) /\ Ordered(ds, n, sites)
      /\ (\A k \in DOMAIN vs : vs[k].kind \in {"var", "zone"})
      /\ (\A k \in DOMAIN ds : ds[k].kind \in {"defer", "defer_block", "defer_leaves"})
  BY <1>3, <1>4 DEF ScopeRight
<1>6. PICK ws : ws = Append(ds, r)
  OBVIOUS
<1>7. /\ ws \in Seq(Registrations) /\ Ordered(ws, n, sites + 1) /\ Range(ws) = Range(ds) \cup {r}
      /\ \A k \in DOMAIN ws : ws[k] = r \/ \E j \in DOMAIN ds : ws[k] = ds[j]
  BY <1>1, <1>2, <1>5, <1>6, OrderedAppend
<1>8. PICK new : new = [deferred |-> ws, vars |-> vs]
  OBVIOUS
<1>9. new \in Scopes /\ new.deferred = ws /\ new.vars = vs
  BY <1>7, <1>8 DEF Scopes
<1>10. Ordered(vs, n, sites + 1)
  BY <1>2, <1>5, OrderedLater
<1>13. scopes2 = [scopes EXCEPT ![n] = new]
  <2>1. PICK old \in Scopes : old = scopes[n]
    BY <1>3
  <2>4. scopes2 = [scopes EXCEPT ![n] = [old EXCEPT !.deferred = Append(old.deferred, r)]]
    BY <1>1, <2>1
  <2> QED
    BY <1>6, <2>4, <1>8, <1>4, <2>1 DEF Scopes
<1>14. /\ ScopesRight(scopes2, sites + 1) /\ Len(scopes2) = Len(scopes)
       /\ \A k \in 1 .. Len(scopes) - 1 : scopes2[k] = scopes[k]
       /\ Held(scopes2, Len(scopes2)) = Held(scopes, Len(scopes) - 1) \cup In(new)
  <2>1. ScopeRight(new, Len(scopes), sites + 1) /\ new \in Scopes /\ scopes2 = [scopes EXCEPT ![Len(scopes)] = new]
    BY <1>1, <1>9, <1>13, <1>5, <1>7, <1>10 DEF ScopeRight
  <2>2. PICK later \in Nat : later = sites + 1
    BY <1>2
  <2>3. sites <= later /\ ScopeRight(new, Len(scopes), later)
    BY <1>2, <2>1, <2>2
  <2>4. ScopesRight(scopes2, later)
    BY ONLY ScopesRight(scopes, sites), <2>1, <2>3, InnermostChanged
  <2>5. Len(scopes2) = Len(scopes)
    BY ONLY ScopesRight(scopes, sites), <2>1, <2>3, InnermostChanged
  <2>6. \A k \in 1 .. Len(scopes) - 1 : scopes2[k] = scopes[k]
    BY ONLY ScopesRight(scopes, sites), <2>1, <2>3, InnermostChanged
  <2>7. Held(scopes2, n) = Held(scopes, n - 1) \cup In(new)
    <3>2. n - 1 \in Nat
      OBVIOUS
    <3>3. Held(scopes2, n - 1) = Held(scopes, n - 1)
      <4>1. \A k \in 1 .. n - 1 : scopes2[k] = scopes[k]
        BY ONLY <1>1, <2>6
      <4>2. PICK m \in Nat : m = n - 1
        BY ONLY <3>2
      <4>3. Held(scopes2, m) = Held(scopes, m)
        BY ONLY <4>1, <4>2, HeldSame
      <4> QED
        BY ONLY <4>2, <4>3
    <3>4. scopes2[n] = new
      BY <1>1, <2>1
    <3> QED
      BY <3>3, <3>4, HeldNext
  <2> QED
    BY <1>1, <2>2, <2>4, <2>5, <2>6, <2>7
<1>16. Held(scopes, n) = Held(scopes, n - 1) \cup In(scopes[n])
  BY HeldNext
<1> QED
  BY <1>1, <1>14, <1>16, <1>4, <1>7, <1>9 DEF In

--------------------------------------------------------------------------------
(* Simple statements. *)

\* The block the builder stands at and the innermost scope change, and nothing else.
LEMMA SimpleKeeps ==
  ASSUME NEW blocks, NEW at, NEW scopes, NEW open, NEW brk, NEW cont, NEW sites, NEW entry, NEW exit, NEW base,
         Generated(blocks, at, scopes, open, brk, cont, sites, entry, exit, base),
         NEW made, SameBut(at, blocks, made), NEW Y \in SUBSET Registrations,
         NEW exit2, exit2 = [exit EXCEPT ![at] = Y], Graph(made, entry, exit2),
         NEW scopes2, NEW sites2, ScopesRight(scopes2, sites2), Len(scopes2) = Len(scopes),
         \A k \in 1 .. Len(scopes) - 1 : scopes2[k] = scopes[k],
         ~made[at].ended => Y = Held(scopes2, Len(scopes2))
  PROVE  Generated(made, at, scopes2, open, brk, cont, sites2, entry, exit2, base)
<1>1. PICK n \in Nat \ {0} : n = Len(scopes) /\ n = Len(scopes2)
  BY EmptySeq, LenProperties DEF Generated, ScopesRight
<1>2. at \in DOMAIN blocks /\ DOMAIN made = DOMAIN blocks /\ (\A b \in DOMAIN blocks : b # at => made[b] = blocks[b])
  BY DEF Generated, SameBut
<1>3. exit2[at] = Y /\ \A b : b # at => exit2[b] = exit[b]
  BY <1>2 DEF Generated, Graph
<1>4. TargetRight(brk, made, scopes2, entry, n) /\ TargetRight(cont, made, scopes2, entry, n)
  <2>1. TargetRight(brk, blocks, scopes, entry, n) /\ TargetRight(cont, blocks, scopes, entry, n)
    BY <1>1 DEF Generated
  <2>2. \A k \in 1 .. n - 1 : scopes2[k] = scopes[k]
    BY <1>1
  <2>3. n \in Nat /\ n <= n /\ DOMAIN blocks \subseteq DOMAIN made
    BY <1>2
  <2> QED
    BY ONLY <2>1, <2>2, <2>3, TargetKept
<1>5. PICK w \in Nat : w = Len(open)
  BY LenProperties DEF Generated, OpenRight
<1>6. open \in Seq(Constructions) /\ Widths(open, base, n)
  BY <1>1 DEF Generated, OpenRight
<1>7. ASSUME NEW i \in 1 .. w
      PROVE  ConstructRight(open[i], made, scopes2, entry, exit2, base[i], base[i + 1] - 1)
  <2>1. base[i] \in Nat /\ base[i + 1] \in Nat /\ base[i + 1] - 1 \in Nat /\ base[i] <= base[i + 1] - 1 /\ base[i + 1] <= n
    BY <1>5, <1>6, WidthFacts
  <2>2. PICK d \in Nat : d = base[i]
    BY <2>1
  <2>3. PICK e \in Nat : e = base[i + 1] - 1
    BY <2>1
  <2>4. d - 1 <= e /\ e <= n - 1
    BY <2>1, <2>2, <2>3
  <2>5. ConstructRight(open[i], blocks, scopes, entry, exit, d, e)
    BY <1>5, <2>2, <2>3 DEF Generated, OpenRight
  <2>6. \A b \in Pending(open[i]) : exit2[b] = exit[b]
    BY <1>3, <1>5 DEF Generated, OpenRight
  <2>7. \A k \in 1 .. e : scopes2[k] = scopes[k]
    <3>1. \A k \in 1 .. n - 1 : scopes2[k] = scopes[k]
      BY <1>1
    <3> QED
      BY ONLY <2>4, <3>1
  <2>8. DOMAIN blocks \subseteq DOMAIN made
    BY <1>2
  <2>9. ConstructRight(open[i], made, scopes2, entry, exit2, d, e)
    <3>1. Spared(open[i], blocks, scopes, entry, exit, made, scopes2, entry, exit2, d, e)
      BY <2>4, <2>6, <2>7, <2>8 DEF Spared
    <3> QED
      BY ONLY <2>5, <3>1, d \in Nat, e \in Nat, ConstructKept
  <2> QED
    BY <2>2, <2>3, <2>9
<1> QED
  BY <1>1, <1>2, <1>4, <1>3, <1>5, <1>6, <1>7 DEF Generated, OpenRight

\* What a function in the making is like, in the terms the lemmas use.
LEMMA NowFacts ==
  ASSUME NEW entry, NEW exit, NEW base, GeneratedNow(entry, exit, base), Reachable,
         clSimple \in Nat, clCompound \in Nat
  PROVE  /\ Graph(clBlocks, entry, exit) /\ ScopesRight(clScopes, clSimple + clCompound)
         /\ clAt \in DOMAIN clBlocks /\ ~clBlocks[clAt].ended
         /\ exit[clAt] = Held(clScopes, Depth)
         /\ Depth = Len(clScopes) /\ Depth \in Nat \ {0}
         /\ Held(clScopes, Depth) \in SUBSET Registrations
         /\ \A r \in Held(clScopes, Depth) : r.depth \in 1 .. Depth /\ r.site < clSimple + clCompound
<1>1. ScopesRight(clScopes, clSimple + clCompound)
  BY DEF GeneratedNow, Generated
<1>2. Len(clScopes) \in Nat \ {0}
  BY <1>1, EmptySeq, LenProperties DEF ScopesRight
<1>3. Len(clScopes) \in 0 .. Len(clScopes)
  BY <1>2
<1>4. /\ Held(clScopes, Len(clScopes)) \in SUBSET Registrations
      /\ \A r \in Held(clScopes, Len(clScopes)) : r.depth \in 1 .. Len(clScopes) /\ r.site < clSimple + clCompound
  BY <1>1, <1>3, HeldFacts
<1> QED
  BY <1>1, <1>2, <1>4 DEF GeneratedNow, Generated, Reachable, Ended, Depth

\* A registration at this statement is a new one, so that it may be made.
LEMMA NewRegistration ==
  ASSUME NEW entry, NEW exit, NEW base, GeneratedNow(entry, exit, base), Reachable,
         clSimple \in Nat, clCompound \in Nat, NEW d \in Nat,
         NEW kind \in {"var", "zone", "defer", "defer_block", "defer_leaves", "exit"},
         NEW r, r = Registered(kind, d)
  PROVE  /\ r \in Registrations /\ r.site = clSimple + clCompound /\ r.depth = d /\ r.kind = kind
         /\ r \notin Held(clScopes, Depth)
         /\ <<Instr("make", r)>> \in Seq(Instructions)
         /\ Runs(<<Instr("make", r)>>, Held(clScopes, Depth), Held(clScopes, Depth) \cup {r}, {})
<1>1. PICK s \in Nat : s = clSimple + clCompound
  OBVIOUS
<1>2. r \in Registrations /\ r.site = s /\ r.depth = d /\ r.kind = kind
  BY <1>1 DEF Registered, Registrations
<1>3. r \notin Held(clScopes, Depth)
  BY <1>2, <1>1, NowFacts
<1>4. PICK in \in Instructions : in = Instr("make", r)
  BY <1>2 DEF Instr, Instructions
<1>7. Runs(<<in>>, Held(clScopes, Depth), Held(clScopes, Depth) \cup {r}, {})
  BY RunOfOne, <1>3, <1>4, NowFacts DEF Instr, Allowed, After
<1> QED
  BY <1>1, <1>2, <1>3, <1>4, <1>7

\* The generator goes on, or refuses the function.
LEMMA GoesOn ==
  ASSUME clPhase = "function", NEW blocks, Generate(blocks), CleanupInv,
         clSimple' \in Nat, clCompound' \in Nat,
         \E entry, exit, base : GeneratedNow(entry, exit, base)'
  PROVE  CleanupInv'
<1> QED
  BY DEF CleanupInv, Generate

\* A statement that registers something.
LEMMA RegisterKeeps ==
  ASSUME CleanupInv, Simple, NEW kind \in {"var", "zone", "defer", "defer_block", "defer_leaves", "exit"},
         NEW v, v = Registered(kind, Depth), Generate(Emit(clBlocks, clAt, <<Instr("make", v)>>)),
         clAt' = clAt, clOpen' = clOpen, clBreak' = clBreak, clContinue' = clContinue,
         NEW scopes2, scopes2 = clScopes', ScopesRight(scopes2, clSimple + clCompound + 1),
         Len(scopes2) = Len(clScopes), \A k \in 1 .. Len(clScopes) - 1 : scopes2[k] = clScopes[k],
         Held(scopes2, Len(scopes2)) = Held(clScopes, Len(clScopes)) \cup {v}
  PROVE  CleanupInv'
<1>2. /\ Reachable /\ clPhase = "function" /\ clSimple' = clSimple + 1 /\ clCompound' = clCompound
      /\ clSimple \in Nat /\ clCompound \in Nat
      /\ Generate(Emit(clBlocks, clAt, <<Instr("make", v)>>))
  BY DEF Simple, Reachable, CleanupInv
<1>3. PICK entry, exit, base : GeneratedNow(entry, exit, base)
  BY <1>2 DEF CleanupInv
<1>4. /\ Graph(clBlocks, entry, exit) /\ ScopesRight(clScopes, clSimple + clCompound)
      /\ clAt \in DOMAIN clBlocks /\ ~clBlocks[clAt].ended /\ exit[clAt] = Held(clScopes, Depth)
      /\ Depth = Len(clScopes) /\ Depth \in Nat \ {0} /\ Held(clScopes, Depth) \in SUBSET Registrations
  BY <1>2, <1>3, NowFacts
<1>5. /\ v \in Registrations /\ <<Instr("make", v)>> \in Seq(Instructions)
      /\ Runs(<<Instr("make", v)>>, Held(clScopes, Depth), Held(clScopes, Depth) \cup {v}, {})
  <2>1. Depth \in Nat
    BY <1>4
  <2>2. v \in Registrations
    BY ONLY v = Registered(kind, Depth), <1>2, <1>3, <2>1, NewRegistration
  <2>3. <<Instr("make", v)>> \in Seq(Instructions)
    BY ONLY v = Registered(kind, Depth), <1>2, <1>3, <2>1, NewRegistration
  <2>4. Runs(<<Instr("make", v)>>, Held(clScopes, Depth), Held(clScopes, Depth) \cup {v}, {})
    BY ONLY v = Registered(kind, Depth), <1>2, <1>3, <2>1, NewRegistration
  <2> QED
    BY <2>2, <2>3, <2>4
<1>6. PICK Y \in SUBSET Registrations : Y = Held(clScopes, Depth) \cup {v}
  BY <1>4, <1>5
<1>7. PICK p \in Seq(Instructions) : p = <<Instr("make", v)>>
  BY <1>5
<1>8. PICK exit2 : exit2 = [exit EXCEPT ![clAt] = Y]
  OBVIOUS
<1>9. Graph(clBlocks', entry, exit2) /\ SameBut(clAt, clBlocks, clBlocks')
  <2>1. clBlocks' = Emit(clBlocks, clAt, p)
    BY <1>2, <1>7 DEF Generate
  <2>2. Runs(p, exit[clAt], Y, {})
    BY <1>4, <1>5, <1>6, <1>7
  <2> QED
    BY <2>1, <1>4, <1>8, <2>2, GraphEmit
<1>11. PICK s : s = clSimple + clCompound
  OBVIOUS
<1>12. /\ ScopesRight(scopes2, s + 1) /\ Len(scopes2) = Len(clScopes)
       /\ \A k \in 1 .. Len(clScopes) - 1 : scopes2[k] = clScopes[k]
       /\ Held(scopes2, Len(scopes2)) = Y
  BY <1>4, <1>6, <1>11
<1>13. Generated(clBlocks', clAt, scopes2, clOpen, clBreak, clContinue, s + 1, entry, exit2, base)
  <2>1. Generated(clBlocks, clAt, clScopes, clOpen, clBreak, clContinue, s, entry, exit, base)
    BY <1>3, <1>11 DEF GeneratedNow
  <2> QED
    BY ONLY <2>1, <1>8, <1>9, <1>12, SimpleKeeps
<1> QED
  BY <1>2, GoesOn, <1>13, <1>11 DEF GeneratedNow

\* A variable with a destructor (add_dtor_var).
LEMMA DeclareKeeps ==
  ASSUME CleanupInv, DeclareVar
  PROVE  CleanupInv'
<1>1. PICK v : v = Registered("var", Depth)
  OBVIOUS
<1>2. /\ Simple /\ Generate(Emit(clBlocks, clAt, <<Instr("make", v)>>))
      /\ clScopes' = [clScopes EXCEPT ![Depth].vars = Append(@, v)]
      /\ clAt' = clAt /\ clOpen' = clOpen /\ clBreak' = clBreak /\ clContinue' = clContinue
  BY <1>1 DEF DeclareVar
<1>3. Reachable /\ clPhase = "function" /\ clSimple \in Nat /\ clCompound \in Nat
  BY <1>2 DEF Simple, Reachable, CleanupInv
<1>4. PICK entry, exit, base : GeneratedNow(entry, exit, base)
  BY <1>3 DEF CleanupInv
<1>5. ScopesRight(clScopes, clSimple + clCompound) /\ Depth = Len(clScopes) /\ Depth \in Nat \ {0}
  BY <1>3, <1>4, NowFacts
<1>6. PICK s \in Nat : s = clSimple + clCompound
  BY <1>3
<1>7. v \in Registrations /\ v.site = s /\ v.depth = Len(clScopes) /\ v.kind = "var"
  BY <1>1, <1>5, <1>6 DEF Registered, Registrations
<1>8. PICK scopes2 : scopes2 = [clScopes EXCEPT ![Len(clScopes)].vars = Append(@, v)] /\ scopes2 = clScopes'
  BY <1>2 DEF Depth
<1>9. ScopesRight(clScopes, s) /\ scopes2 = [clScopes EXCEPT ![Len(clScopes)].vars = Append(@, v)]
  BY <1>5, <1>6, <1>8
<1>10. ScopesRight(scopes2, s + 1)
  BY ONLY <1>7, <1>9, VarRegistered
<1>11. Len(scopes2) = Len(clScopes)
  BY ONLY <1>7, <1>9, VarRegistered
<1>12. \A k \in 1 .. Len(clScopes) - 1 : scopes2[k] = clScopes[k]
  BY ONLY <1>7, <1>9, VarRegistered
<1>13. Held(scopes2, Len(scopes2)) = Held(clScopes, Len(clScopes)) \cup {v}
  BY ONLY <1>7, <1>9, VarRegistered
<1>14. scopes2 = clScopes' /\ ScopesRight(scopes2, clSimple + clCompound + 1)
  BY <1>6, <1>8, <1>10
<1>15. "var" \in {"var", "zone", "defer", "defer_block", "defer_leaves", "exit"}
  OBVIOUS
<1> QED
  BY ONLY CleanupInv, <1>1, <1>2, <1>11, <1>12, <1>13, <1>14, <1>15, RegisterKeeps

\* A deferred statement, of each kind.
LEMMA DeferKeeps ==
  ASSUME CleanupInv, DeferStmt
  PROVE  CleanupInv'
<1>16. PICK kind \in {"defer", "defer_block", "defer_leaves"} :
         LET d == Registered(kind, Depth) IN
           /\ Generate(Emit(clBlocks, clAt, <<Instr("make", d)>>))
           /\ clScopes' = [clScopes EXCEPT ![Depth].deferred = Append(@, d)]
  BY DEF DeferStmt
<1>1. PICK v : v = Registered(kind, Depth)
  OBVIOUS
<1>2. /\ Simple /\ Generate(Emit(clBlocks, clAt, <<Instr("make", v)>>))
      /\ clScopes' = [clScopes EXCEPT ![Depth].deferred = Append(@, v)]
      /\ clAt' = clAt /\ clOpen' = clOpen /\ clBreak' = clBreak /\ clContinue' = clContinue
  BY <1>1, <1>16 DEF DeferStmt
<1>3. Reachable /\ clPhase = "function" /\ clSimple \in Nat /\ clCompound \in Nat
  BY <1>2 DEF Simple, Reachable, CleanupInv
<1>4. PICK entry, exit, base : GeneratedNow(entry, exit, base)
  BY <1>3 DEF CleanupInv
<1>5. ScopesRight(clScopes, clSimple + clCompound) /\ Depth = Len(clScopes) /\ Depth \in Nat \ {0}
  BY <1>3, <1>4, NowFacts
<1>6. PICK s \in Nat : s = clSimple + clCompound
  BY <1>3
<1>7. v \in Registrations /\ v.site = s /\ v.depth = Len(clScopes) /\ v.kind \in {"defer", "defer_block", "defer_leaves"}
  BY <1>1, <1>5, <1>6 DEF Registered, Registrations
<1>8. PICK scopes2 : scopes2 = [clScopes EXCEPT ![Len(clScopes)].deferred = Append(@, v)] /\ scopes2 = clScopes'
  BY <1>2 DEF Depth
<1>9. ScopesRight(clScopes, s) /\ scopes2 = [clScopes EXCEPT ![Len(clScopes)].deferred = Append(@, v)]
  BY <1>5, <1>6, <1>8
<1>10. ScopesRight(scopes2, s + 1)
  BY ONLY <1>7, <1>9, DeferRegistered
<1>11. Len(scopes2) = Len(clScopes)
  BY ONLY <1>7, <1>9, DeferRegistered
<1>12. \A k \in 1 .. Len(clScopes) - 1 : scopes2[k] = clScopes[k]
  BY ONLY <1>7, <1>9, DeferRegistered
<1>13. Held(scopes2, Len(scopes2)) = Held(clScopes, Len(clScopes)) \cup {v}
  BY ONLY <1>7, <1>9, DeferRegistered
<1>14. scopes2 = clScopes' /\ ScopesRight(scopes2, clSimple + clCompound + 1)
  BY <1>6, <1>8, <1>10
<1>15. kind \in {"var", "zone", "defer", "defer_block", "defer_leaves", "exit"}
  OBVIOUS
<1> QED
  BY ONLY CleanupInv, <1>1, <1>2, <1>11, <1>12, <1>13, <1>14, <1>15, RegisterKeeps

\* A statement that leaves, and registers nothing.
LEMMA LeavingKeeps ==
  ASSUME CleanupInv, Simple, NEW blocks, Generate(blocks),
         clAt' = clAt, clScopes' = clScopes, clOpen' = clOpen, clBreak' = clBreak, clContinue' = clContinue,
         NEW entry, NEW exit, NEW base, GeneratedNow(entry, exit, base),
         NEW Y \in SUBSET Registrations, Graph(blocks, entry, [exit EXCEPT ![clAt] = Y]),
         SameBut(clAt, clBlocks, blocks), ~blocks[clAt].ended => Y = Held(clScopes, Depth)
  PROVE  CleanupInv'
<1>1. /\ Reachable /\ clPhase = "function" /\ clSimple' = clSimple + 1 /\ clCompound' = clCompound
      /\ clSimple \in Nat /\ clCompound \in Nat
  BY DEF Simple, Reachable, CleanupInv
<1>2. PICK s \in Nat : s = clSimple + clCompound
  BY <1>1
<1>3. PICK exit2 : exit2 = [exit EXCEPT ![clAt] = Y]
  OBVIOUS
<1>4. Generated(clBlocks, clAt, clScopes, clOpen, clBreak, clContinue, s, entry, exit, base)
  BY <1>2 DEF GeneratedNow
<1>5. ScopesRight(clScopes, s + 1)
  BY ScopesLater, <1>2, <1>4 DEF Generated
<1>6. /\ Len(clScopes) = Len(clScopes) /\ \A k \in 1 .. Len(clScopes) - 1 : clScopes[k] = clScopes[k]
      /\ ~blocks[clAt].ended => Y = Held(clScopes, Len(clScopes))
  BY DEF Depth
<1>7. Graph(blocks, entry, exit2)
  BY <1>3
<1>8. Generated(blocks, clAt, clScopes, clOpen, clBreak, clContinue, s + 1, entry, exit2, base)
  BY ONLY <1>3, <1>4, <1>5, <1>6, <1>7, Y \in SUBSET Registrations, SameBut(clAt, clBlocks, blocks), SimpleKeeps
<1> QED
  BY <1>1, GoesOn, <1>8, <1>2 DEF GeneratedNow, Generate

\* Two changes of the same block.
LEMMA SameButBoth ==
  ASSUME NEW n, NEW p, NEW q, NEW r, SameBut(n, p, q), SameBut(n, q, r)
  PROVE  SameBut(n, p, r)
  BY DEF SameBut

\* A break or a continue: the blocks it branches to expect what its scopes retain.
LEMMA LeaveKeeps ==
  ASSUME CleanupInv, NEW target, target \in {clBreak, clContinue}, LeaveTo(target)
  PROVE  CleanupInv'
<1>1. PICK blocks : /\ blocks = IF target.block = 0
                                THEN Emit(clBlocks, clAt, <<Instr("error", Registered("exit", Depth))>>)
                                ELSE BranchTo(Emit(clBlocks, clAt, CleanupToDepth(target.depth, {})),
                                              clAt, {target.block})
                    /\ Generate(blocks)
  BY DEF LeaveTo
<1>2. /\ Simple /\ Reachable /\ clPhase = "function" /\ clSimple \in Nat /\ clCompound \in Nat
      /\ clAt' = clAt /\ clScopes' = clScopes /\ clOpen' = clOpen /\ clBreak' = clBreak /\ clContinue' = clContinue
  BY DEF LeaveTo, Simple, Reachable, CleanupInv
<1>3. PICK entry, exit, base : GeneratedNow(entry, exit, base)
  BY <1>2 DEF CleanupInv
<1>4. /\ Graph(clBlocks, entry, exit) /\ ScopesRight(clScopes, clSimple + clCompound)
      /\ clAt \in DOMAIN clBlocks /\ ~clBlocks[clAt].ended /\ exit[clAt] = Held(clScopes, Depth)
      /\ Depth = Len(clScopes) /\ Depth \in Nat \ {0} /\ Held(clScopes, Depth) \in SUBSET Registrations
  BY <1>2, <1>3, NowFacts
<1>5. PICK X \in SUBSET Registrations : X = Held(clScopes, Depth)
  BY <1>4
<1>6. TargetRight(target, clBlocks, clScopes, entry, Len(clScopes))
  BY <1>3 DEF GeneratedNow, Generated
<1>7. CASE target.block = 0
  <2>1. PICK r : r = Registered("exit", Depth)
    OBVIOUS
  <2>2. "exit" \in {"var", "zone", "defer", "defer_block", "defer_leaves", "exit"} /\ Depth \in Nat
    BY <1>4
  <2>3. r \in Registrations
    BY <1>2, <2>1, <2>2 DEF Registered, Registrations
  <2>4. r \notin X
    BY ONLY <1>2, <1>3, <1>5, <2>1, <2>2, NewRegistration
  <2>5. PICK in \in Instructions : in = Instr("error", r)
    BY <2>3 DEF Instr, Instructions
  <2>7. PICK p \in Seq(Instructions) : p = <<in>>
    <3>1. <<in>> \in Seq(Instructions)
      OBVIOUS
    <3> QED
      BY <3>1
  <2>9. Runs(p, exit[clAt], X, {})
    BY <1>4, <1>5, <2>7, RunOfOne, <2>4, <2>5 DEF Instr, Allowed, After
  <2>10. /\ Graph(Emit(clBlocks, clAt, p), entry, [exit EXCEPT ![clAt] = X])
         /\ SameBut(clAt, clBlocks, Emit(clBlocks, clAt, p))
    BY ONLY <1>4, <1>5, <2>9, GraphEmit
  <2>11. blocks = Emit(clBlocks, clAt, p)
    BY <1>1, <1>7, <2>1, <2>5, <2>7
  <2> QED
    BY ONLY CleanupInv, <1>1, <1>2, <1>3, <1>5, <2>10, <2>11, LeavingKeeps
<1>8. CASE target.block # 0
  <2>1. PICK t \in Nat : t = target.depth /\ t < Depth
    BY <1>4, <1>6, <1>8 DEF TargetRight
  <2>2. PICK c \in DOMAIN clBlocks : c = target.block /\ entry[c] = Held(clScopes, t)
    BY <1>6, <1>8, <2>1 DEF TargetRight
  <2>3. t \in 0 .. Depth
    BY <1>4, <2>1
  <2>5. PICK Y \in SUBSET Registrations : Y = Held(clScopes, t)
    BY <1>4, <2>3, HeldFacts
  <2>6. PICK p : p = CleanupToDepth(t, {})
    OBVIOUS
  <2>7. p \in Seq(Instructions) /\ Runs(p, X \cup {}, Y \cup {}, {})
    BY <1>4, <1>5, <2>3, <2>5, <2>6, NoMoves, LeavingRuns
  <2>8. Runs(p, exit[clAt], Y, {})
    BY <1>4, <1>5, <2>7
  <2>9. PICK one : one = Emit(clBlocks, clAt, p)
    OBVIOUS
  <2>10. PICK exit2 : exit2 = [exit EXCEPT ![clAt] = Y]
    OBVIOUS
  <2>11. Graph(one, entry, exit2) /\ SameBut(clAt, clBlocks, one) /\ ~one[clAt].ended
    BY ONLY <1>4, <2>7, <2>8, <2>9, <2>10, Y \in SUBSET Registrations, GraphEmit
  <2>12. {c} \in SUBSET DOMAIN one /\ {c} # {} /\ clAt \in DOMAIN one /\ exit2[clAt] = Y
    BY <1>4, <2>10, <2>11 DEF SameBut, Graph
  <2>13. \A b \in {c} : entry[b] = exit2[clAt]
    BY <2>2, <2>5, <2>12
  <2>14. /\ Graph(BranchTo(one, clAt, {c}), entry, exit2) /\ SameBut(clAt, one, BranchTo(one, clAt, {c}))
         /\ BranchTo(one, clAt, {c})[clAt].ended
    BY ONLY <2>11, <2>12, <2>13, GraphBranch
  <2>15. blocks = BranchTo(one, clAt, {c})
    BY <1>1, <1>8, <2>1, <2>2, <2>6, <2>9
  <2>16. Graph(blocks, entry, [exit EXCEPT ![clAt] = Y]) /\ SameBut(clAt, clBlocks, blocks) /\ blocks[clAt].ended
    BY <2>10, <2>11, <2>14, <2>15, SameButBoth
  <2> QED
    BY ONLY CleanupInv, <1>1, <1>2, <1>3, <2>5, <2>16, LeavingKeeps
<1> QED
  BY <1>7, <1>8

\* A return, which hands over locals (gen_ret).
LEMMA RetKeeps ==
  ASSUME CleanupInv, RetStmt
  PROVE  CleanupInv'
<1>1. PICK moved \in SUBSET {v \in Returnable : v.kind = "var"} :
        Generate([BranchTo(Emit(clBlocks, clAt, CleanupToDepth(0, moved)), clAt, {}) EXCEPT ![clAt].moved = moved])
  BY DEF RetStmt
<1>2. /\ Simple /\ Reachable /\ clPhase = "function" /\ clSimple \in Nat /\ clCompound \in Nat
      /\ clAt' = clAt /\ clScopes' = clScopes /\ clOpen' = clOpen /\ clBreak' = clBreak /\ clContinue' = clContinue
  BY DEF RetStmt, Simple, Reachable, CleanupInv
<1>3. PICK entry, exit, base : GeneratedNow(entry, exit, base)
  BY <1>2 DEF CleanupInv
<1>4. /\ Graph(clBlocks, entry, exit) /\ ScopesRight(clScopes, clSimple + clCompound)
      /\ clAt \in DOMAIN clBlocks /\ ~clBlocks[clAt].ended /\ exit[clAt] = Held(clScopes, Depth)
      /\ Depth = Len(clScopes) /\ Depth \in Nat \ {0} /\ Held(clScopes, Depth) \in SUBSET Registrations
      /\ \A r \in Held(clScopes, Depth) : r.depth \in 1 .. Depth
  BY <1>2, <1>3, NowFacts
<1>5. moved \subseteq Held(clScopes, Depth) /\ \A v \in moved : v.kind = "var"
  BY <1>1, <1>4, LenProperties DEF Returnable, Held, In, ScopesRight
<1>6. moved \in SUBSET Registrations /\ MovesRight(moved, clScopes)
  BY <1>4, <1>5 DEF MovesRight
<1>7. PICK p : p = CleanupToDepth(0, moved)
  OBVIOUS
<1>8. p \in Seq(Instructions) /\ Runs(p, Held(clScopes, Depth) \cup moved, Held(clScopes, 0) \cup moved, moved)
  BY <1>4, <1>6, <1>7, LeavingRuns
<1>9. Runs(p, exit[clAt], moved, moved)
  BY <1>4, <1>8, <1>5, HeldNone
<1>10. PICK blocks : blocks = [BranchTo(Emit(clBlocks, clAt, p), clAt, {}) EXCEPT ![clAt].moved = moved] /\ Generate(blocks)
  BY <1>1, <1>7
<1>11. Graph(blocks, entry, [exit EXCEPT ![clAt] = moved]) /\ SameBut(clAt, clBlocks, blocks) /\ blocks[clAt].ended
  BY ONLY <1>4, <1>6, <1>8, <1>9, <1>10, GraphRet
<1> QED
  BY ONLY CleanupInv, <1>2, <1>3, <1>6, <1>10, <1>11, LeavingKeeps

--------------------------------------------------------------------------------
(* A construct opens. *)

\* The fresh blocks all begin and end with what the scopes below the new body hold.
Opens(blocks, at, scopes, entry, exit, blocks2, at2, scopes2, entry2, exit2, X) ==
  /\ Graph(blocks2, entry2, exit2) /\ DOMAIN blocks \subseteq DOMAIN blocks2
  /\ \A b \in DOMAIN blocks : entry2[b] = entry[b]
  /\ \A b \in DOMAIN blocks : b # at => exit2[b] = exit[b] /\ blocks2[b] = blocks[b]
  /\ \A b \in DOMAIN blocks2 \ DOMAIN blocks : entry2[b] = X /\ exit2[b] = X
  /\ at2 \in (DOMAIN blocks2 \ DOMAIN blocks) \cup {at} /\ exit2[at2] = X
  /\ at2 # at => blocks2[at].ended
  /\ \A k \in 1 .. Len(scopes) : scopes2[k] = scopes[k]
  /\ Held(scopes2, Len(scopes2)) = X /\ Held(scopes2, Len(scopes2) - 1) = X

\* The construct knows its fresh blocks.
Known(c, brk, cont, blocks2, at2, N) ==
  /\ c \in Constructions /\ c.brk = brk /\ c.cont = cont
  /\ Pending(c) \subseteq N /\ at2 \notin Pending(c)
  /\ \A b \in N : ~blocks2[b].ended => b = at2 \/ b \in Pending(c)
  /\ c.bodies = << >> \/ \E b \in Nat : c.bodies = <<b>> /\ b # c.end
  /\ c.back = 0 => c.end = 0 /\ c.bodies = << >>
  /\ c.back # 0 => c.end # 0 /\ c.back \in N

Aims(target2, target, N, scopes) ==
  target2 = target \/ (target2 \in [block : N, depth : {Len(scopes) - 1}] /\ target2 \in [block : Nat, depth : Nat])

\* A target that a construct sets, or leaves alone, is right in its body.
LEMMA AimRight ==
  ASSUME NEW target, NEW target2, NEW blocks, NEW scopes, NEW entry, NEW d \in Nat,
         TargetRight(target, blocks, scopes, entry, d),
         NEW blocks2, DOMAIN blocks \subseteq DOMAIN blocks2,
         NEW entry2, \A b \in DOMAIN blocks : entry2[b] = entry[b],
         NEW scopes2, \A k \in 1 .. d : scopes2[k] = scopes[k],
         NEW d2 \in Nat, d < d2, d2 = Len(scopes2),
         NEW N, N \subseteq DOMAIN blocks2, \A b \in N : entry2[b] = Held(scopes2, d2 - 1),
         Aims(target2, target, N, scopes2)
  PROVE  TargetRight(target2, blocks2, scopes2, entry2, d2)
<1>1. CASE target2 = target
  BY <1>1, TargetKept
<1>2. CASE target2 \in [block : N, depth : {d2 - 1}] /\ target2 \in [block : Nat, depth : Nat]
  BY <1>2 DEF TargetRight
<1> QED
  BY <1>1, <1>2 DEF Aims

\* The construct is one more, and its body is above the scopes there were.
Grown(base, n, depth) == [i \in 1 .. n + 2 |-> IF i <= n + 1 THEN base[i] ELSE depth]

\* One construct more, with its depth behind those of the others.
LEMMA GrownFacts ==
  ASSUME NEW open \in Seq(Constructions), NEW base, NEW depth \in Nat, Widths(open, base, depth),
         NEW c \in Constructions, NEW depth2 \in Nat, depth2 - depth = Width(c),
         NEW n \in Nat, n = Len(open), NEW open2, open2 = Append(open, c),
         NEW base2, base2 = Grown(base, n, depth2)
  PROVE  /\ open2 \in Seq(Constructions) /\ Len(open2) = n + 1
         /\ \A i \in 1 .. n : open2[i] = open[i]
         /\ open2[n + 1] = c
         /\ \A i \in 1 .. n + 1 : base2[i] = base[i]
         /\ base2[n + 1] = depth /\ base2[n + 2] = depth2 /\ depth < depth2
<1> QED
  BY AppendProperties DEF Widths, Grown, Width

\* The depths of the constructs that are open go on increasing.
LEMMA WidthsGrow ==
  ASSUME NEW open \in Seq(Constructions), NEW base, NEW depth \in Nat, Widths(open, base, depth),
         NEW c \in Constructions, NEW depth2 \in Nat, depth2 - depth = Width(c),
         NEW n \in Nat, n = Len(open), NEW open2, open2 = Append(open, c),
         NEW base2, base2 = Grown(base, n, depth2)
  PROVE  Widths(open2, base2, depth2)
<1>1. open2 \in Seq(Constructions) /\ Len(open2) = n + 1 /\ (\A i \in 1 .. n : open2[i] = open[i]) /\ open2[n + 1] = c
  BY GrownFacts
<1>4. (\A i \in 1 .. n + 1 : base2[i] = base[i]) /\ base2[n + 2] = depth2
  BY GrownFacts
<1>5. \A i \in 1 .. n + 1 : base[i] \in Nat
  BY DEF Widths
<1>6. base[1] = 1 /\ base[n + 1] = depth
  BY DEF Widths
<1>7. depth < depth2
  BY GrownFacts
<1>8. base2 \in [1 .. n + 2 -> Nat]
  BY <1>5 DEF Grown
<1>9. ASSUME NEW i \in 1 .. n + 1 PROVE base2[i + 1] = base2[i] + Width(open2[i])
  <2>1. CASE i = n + 1
    BY <1>4, <1>1, <1>6, <2>1 DEF Width
  <2>2. CASE i # n + 1
    BY <1>1, <1>4, <2>2 DEF Widths
  <2> QED
    BY <2>1, <2>2
<1>10. ASSUME NEW i \in 1 .. n + 2, NEW j \in 1 .. n + 2, i < j PROVE base2[i] < base2[j]
  <2>1. i \in 1 .. n + 1
    BY <1>10
  <2>2. CASE j = n + 2
    <3>1. base[i] <= base[n + 1]
      <4>1. CASE i = n + 1
        BY <1>5, <4>1
      <4>2. CASE i # n + 1
        BY <1>5, <2>1, <4>2 DEF Widths
      <4> QED
        BY <4>1, <4>2
    <3> QED
      BY <1>4, <1>6, <1>7, <2>1, <2>2, <3>1, <1>5
  <2>3. CASE j # n + 2
    <3>1. j \in 1 .. n + 1
      BY <2>3
    <3> QED
      BY <1>4, <2>1, <3>1, <1>10 DEF Widths
  <2> QED
    BY <2>2, <2>3
<1> QED
  BY <1>1, <1>4, <1>8, <1>9, <1>10, <1>6 DEF Widths

\* A function that can be generated so far.
Goes(blocks, at, scopes, open, brk, cont, sites) ==
  \E entry, exit, base : Generated(blocks, at, scopes, open, brk, cont, sites, entry, exit, base)

\* With a construct more the function can be generated as before.
LEMMA OpenGrows ==
  ASSUME NEW blocks, NEW at, NEW scopes, NEW open, NEW brk, NEW cont, NEW sites, NEW entry, NEW exit, NEW base,
         Generated(blocks, at, scopes, open, brk, cont, sites, entry, exit, base),
         NEW blocks2, NEW at2, NEW scopes2, NEW entry2, NEW exit2, NEW X,
         Opens(blocks, at, scopes, entry, exit, blocks2, at2, scopes2, entry2, exit2, X),
         NEW N, N = DOMAIN blocks2 \ DOMAIN blocks,
         NEW sites2, ScopesRight(scopes2, sites2),
         NEW c, Known(c, brk, cont, blocks2, at2, N),
         Len(scopes2) = Len(scopes) + Width(c),
         NEW brk2, Aims(brk2, brk, N, scopes2), NEW cont2, Aims(cont2, cont, N, scopes2),
         NEW open2, open2 = Append(open, c)
  PROVE  Goes(blocks2, at2, scopes2, open2, brk2, cont2, sites2)
<1>1. PICK depth \in Nat : depth = Len(scopes)
  BY LenProperties DEF Generated, ScopesRight
<1>2. PICK depth2 \in Nat : depth2 = Len(scopes2)
  BY LenProperties DEF ScopesRight
<1>3. c \in Constructions /\ depth2 - depth = Width(c)
  BY <1>1, <1>2 DEF Known, Width
<1>4. open \in Seq(Constructions) /\ Widths(open, base, depth)
  BY <1>1 DEF Generated, OpenRight
<1>5. PICK n \in Nat : n = Len(open)
  BY <1>4, LenProperties
<1>6. PICK base2 : base2 = Grown(base, n, depth2)
  OBVIOUS
<1>7. /\ open2 \in Seq(Constructions) /\ Len(open2) = n + 1
      /\ \A i \in 1 .. n : open2[i] = open[i]
      /\ open2[n + 1] = c
      /\ \A i \in 1 .. n + 1 : base2[i] = base[i]
      /\ base2[n + 1] = depth /\ base2[n + 2] = depth2 /\ depth < depth2
      /\ Widths(open2, base2, depth2)
  <2>1. open2 = Append(open, c)
    OBVIOUS
  <2>2. open2 \in Seq(Constructions)
    BY ONLY <1>3, <1>4, <1>5, <1>6, <2>1, depth \in Nat, depth2 \in Nat, GrownFacts
  <2>3. Len(open2) = n + 1
    BY ONLY <1>3, <1>4, <1>5, <1>6, <2>1, depth \in Nat, depth2 \in Nat, GrownFacts
  <2>4. \A i \in 1 .. n : open2[i] = open[i]
    BY ONLY <1>3, <1>4, <1>5, <1>6, <2>1, depth \in Nat, depth2 \in Nat, GrownFacts
  <2>5. open2[n + 1] = c
    BY ONLY <1>3, <1>4, <1>5, <1>6, <2>1, depth \in Nat, depth2 \in Nat, GrownFacts
  <2>6. \A i \in 1 .. n + 1 : base2[i] = base[i]
    BY ONLY <1>3, <1>4, <1>5, <1>6, <2>1, depth \in Nat, depth2 \in Nat, GrownFacts
  <2>7. base2[n + 1] = depth
    BY ONLY <1>3, <1>4, <1>5, <1>6, <2>1, depth \in Nat, depth2 \in Nat, GrownFacts
  <2>8. base2[n + 2] = depth2
    BY ONLY <1>3, <1>4, <1>5, <1>6, <2>1, depth \in Nat, depth2 \in Nat, GrownFacts
  <2>9. depth < depth2
    BY ONLY <1>3, <1>4, <1>5, <1>6, <2>1, depth \in Nat, depth2 \in Nat, GrownFacts
  <2>10. Widths(open2, base2, depth2)
    BY ONLY <1>3, <1>4, <1>5, <1>6, <2>1, depth \in Nat, depth2 \in Nat, WidthsGrow
  <2> QED
    BY <2>2, <2>3, <2>4, <2>5, <2>6, <2>7, <2>8, <2>9, <2>10
<1>8. /\ DOMAIN blocks \subseteq DOMAIN blocks2 /\ N \subseteq DOMAIN blocks2 /\ N \cap DOMAIN blocks = {}
      /\ \A b \in DOMAIN blocks : entry2[b] = entry[b]
      /\ \A b \in DOMAIN blocks : b # at => exit2[b] = exit[b] /\ blocks2[b] = blocks[b]
      /\ \A b \in N : entry2[b] = X /\ exit2[b] = X
      /\ at2 \in N \cup {at} /\ exit2[at2] = X
      /\ at2 # at => blocks2[at].ended
      /\ \A k \in 1 .. depth : scopes2[k] = scopes[k]
      /\ Held(scopes2, depth2) = X /\ Held(scopes2, depth2 - 1) = X
  BY <1>1, <1>2 DEF Opens
<1>9. TargetRight(brk, blocks, scopes, entry, depth) /\ TargetRight(cont, blocks, scopes, entry, depth)
  BY <1>1 DEF Generated
<1>10. \A b \in N : entry2[b] = Held(scopes2, depth2 - 1)
  BY <1>8
<1>11. TargetRight(brk2, blocks2, scopes2, entry2, depth2)
  <2>1. Aims(brk2, brk, N, scopes2) /\ depth2 = Len(scopes2)
    BY <1>2
  <2> QED
    BY ONLY <1>7, <1>8, <1>9, <1>10, <2>1, depth \in Nat, depth2 \in Nat, AimRight
<1>12. TargetRight(cont2, blocks2, scopes2, entry2, depth2)
  <2>1. Aims(cont2, cont, N, scopes2) /\ depth2 = Len(scopes2)
    BY <1>2
  <2> QED
    BY ONLY <1>7, <1>8, <1>9, <1>10, <2>1, depth \in Nat, depth2 \in Nat, AimRight
<1>13. ASSUME NEW i \in 1 .. n
       PROVE  /\ ConstructRight(open2[i], blocks2, scopes2, entry2, exit2, base2[i], base2[i + 1] - 1)
              /\ open2[i] = open[i] /\ Pending(open2[i]) \subseteq DOMAIN blocks /\ at \notin Pending(open2[i])
  <2>1. base[i] \in Nat /\ base[i + 1] \in Nat /\ base[i + 1] - 1 \in Nat /\ base[i] <= base[i + 1] - 1 /\ base[i + 1] <= depth
    BY <1>4, <1>5, WidthFacts
  <2>2. PICK d \in Nat : d = base[i]
    BY <2>1
  <2>3. PICK e \in Nat : e = base[i + 1] - 1
    BY <2>1
  <2>4. d - 1 <= e /\ e <= depth
    BY <2>1, <2>2, <2>3
  <2>7. ConstructRight(open[i], blocks, scopes, entry, exit, d, e) /\ at \notin Pending(open[i])
    BY <1>5, <2>2, <2>3 DEF Generated, OpenRight
  <2>8. Pending(open[i]) \subseteq DOMAIN blocks
    BY <2>7 DEF ConstructRight
  <2>9. \A b \in Pending(open[i]) : exit2[b] = exit[b]
    BY <1>8, <2>7, <2>8
  <2>10. \A k \in 1 .. e : scopes2[k] = scopes[k]
    BY ONLY <1>8, <2>4, depth \in Nat, e \in Nat
  <2>11. DOMAIN blocks \subseteq DOMAIN blocks2 /\ \A b \in DOMAIN blocks : entry2[b] = entry[b]
    BY <1>8
  <2>12. ConstructRight(open[i], blocks2, scopes2, entry2, exit2, d, e)
    <3>1. Spared(open[i], blocks, scopes, entry, exit, blocks2, scopes2, entry2, exit2, d, e)
      BY <2>4, <2>9, <2>10, <2>11 DEF Spared
    <3> QED
      BY ONLY <2>7, <3>1, d \in Nat, e \in Nat, ConstructKept
  <2> QED
    BY <2>7, <2>8, <2>12, <1>7, <2>2, <2>3
<1>14. ConstructRight(c, blocks2, scopes2, entry2, exit2, depth, depth2 - 1)
  <2>1. \A k \in 1 .. depth - 1 : scopes2[k] = scopes[k]
    BY <1>8
  <2>2. depth <= depth /\ DOMAIN blocks \subseteq DOMAIN blocks2 /\ \A b \in DOMAIN blocks : entry2[b] = entry[b]
    BY <1>8
  <2>3. TargetRight(brk, blocks2, scopes2, entry2, depth) /\ TargetRight(cont, blocks2, scopes2, entry2, depth)
    BY ONLY <1>9, <2>1, <2>2, depth \in Nat, TargetKept
  <2> QED
    BY <2>3, <1>8 DEF ConstructRight, Known
<1>15. \A i \in 1 .. n + 1 : i \in 1 .. n \/ i = n + 1
  OBVIOUS
<1>16. ASSUME NEW i \in 1 .. n + 1
       PROVE  ConstructRight(open2[i], blocks2, scopes2, entry2, exit2, base2[i], base2[i + 1] - 1)
  <2>1. CASE i = n + 1
    BY <1>7, <1>14, <2>1
  <2> QED
    BY <1>13, <1>15, <2>1
<1>17. Pending(c) \subseteq N /\ at2 \notin Pending(c)
  BY DEF Known
<1>18. \A i \in 1 .. n + 1 : at2 \notin Pending(open2[i])
  BY <1>7, <1>8, <1>13, <1>15, <1>17
<1>19. \A i, j \in 1 .. n + 1 : i # j => Pending(open2[i]) \cap Pending(open2[j]) = {}
  <2> SUFFICES ASSUME NEW i \in 1 .. n + 1, NEW j \in 1 .. n + 1, i # j
               PROVE  Pending(open2[i]) \cap Pending(open2[j]) = {}
    OBVIOUS
  <2>1. CASE i \in 1 .. n /\ j \in 1 .. n
    BY <1>5, <1>13, <2>1 DEF Generated, OpenRight
  <2>2. CASE i = n + 1
    BY <1>7, <1>8, <1>13, <1>17, <2>2, <1>15
  <2>3. CASE j = n + 1
    BY <1>7, <1>8, <1>13, <1>17, <2>3, <1>15
  <2> QED
    BY <1>15, <2>1, <2>2, <2>3
<1>20. ASSUME NEW b \in DOMAIN blocks2, ~blocks2[b].ended
       PROVE  b = at2 \/ \E i \in 1 .. n + 1 : b \in Pending(open2[i])
  <2>1. CASE b \in N
    BY <1>7, <1>20, <2>1 DEF Known
  <2>2. CASE b \in DOMAIN blocks /\ b = at
    BY <1>8, <1>20, <2>2
  <2>3. CASE b \in DOMAIN blocks /\ b # at
    <3>2. PICK i \in 1 .. n : b \in Pending(open[i])
      BY <1>5, <2>3, <1>8, <1>20 DEF Generated, OpenRight
    <3> QED
      BY <3>2, <1>7
  <2> QED
    BY <2>1, <2>2, <2>3
<1>21. OpenRight(blocks2, at2, scopes2, open2, entry2, exit2, base2)
  BY <1>2, <1>7, <1>16, <1>18, <1>19, <1>20 DEF OpenRight
<1> QED
  BY <1>2, <1>11, <1>12, <1>21, <1>8 DEF Generated, Goes, Opens

--------------------------------------------------------------------------------
(* Scopes and blocks of a construct. *)

\* scopes2 has one scope more.
OneMore(scopes, scopes2, new, sites) ==
  /\ ScopesRight(scopes2, sites) /\ Len(scopes2) = Len(scopes) + 1
  /\ \A k \in 1 .. Len(scopes) : scopes2[k] = scopes[k]
  /\ scopes2[Len(scopes) + 1] = new

\* A scope that is pushed is right when its own registrations are.
LEMMA ScopePushed ==
  ASSUME NEW scopes, NEW sites, ScopesRight(scopes, sites), NEW new \in Scopes,
         ScopeRight(new, Len(scopes) + 1, sites), NEW scopes2, scopes2 = Append(scopes, new)
  PROVE  OneMore(scopes, scopes2, new, sites)
<1>1. scopes \in Seq(Scopes)
  BY DEF ScopesRight
<1>2. PICK n \in Nat : n = Len(scopes)
  BY <1>1, LenProperties
<1>3. scopes2 \in Seq(Scopes) /\ Len(scopes2) = n + 1 /\ (\A k \in 1 .. n : scopes2[k] = scopes[k]) /\ scopes2[n + 1] = new
  BY <1>1, <1>2, AppendProperties
<1>5. ASSUME NEW d \in 1 .. n + 1 PROVE ScopeRight(scopes2[d], d, sites)
  <2>1. CASE d = n + 1
    BY <1>2, <1>3, <2>1
  <2>2. CASE d # n + 1
    BY <1>2, <1>3, <2>2 DEF ScopesRight
  <2> QED
    BY <2>1, <2>2
<1> QED
  BY <1>2, <1>3, <1>5, EmptySeq DEF OneMore, ScopesRight

\* One scope more holds its own registrations more.
LEMMA MoreHeld ==
  ASSUME NEW scopes, NEW scopes2, NEW new, NEW sites, OneMore(scopes, scopes2, new, sites), Len(scopes) \in Nat
  PROVE  /\ Held(scopes2, Len(scopes)) = Held(scopes, Len(scopes))
         /\ Held(scopes2, Len(scopes2)) = Held(scopes, Len(scopes)) \cup In(new)
<1>1. PICK n \in Nat : n = Len(scopes)
  OBVIOUS
<1> QED
  BY <1>1, HeldSame, HeldNext DEF OneMore

\* A scope without registrations is right at every depth and holds nothing.
LEMMA EmptyScopeRight ==
  ASSUME NEW d, NEW sites
  PROVE  EmptyScope \in Scopes /\ ScopeRight(EmptyScope, d, sites) /\ In(EmptyScope) = {}
<1> QED
  BY DEF ScopeRight, Ordered, In, Range, EmptyScope, Scopes

\* The scope of a body.
LEMMA BodyPushed ==
  ASSUME NEW scopes, NEW sites, ScopesRight(scopes, sites),
         NEW scopes2, scopes2 = Append(scopes, EmptyScope)
  PROVE  OneMore(scopes, scopes2, EmptyScope, sites)
<1>1. PICK new \in Scopes : new = EmptyScope
  BY EmptyScopeRight
<1> QED
  BY <1>1, ScopePushed, EmptyScopeRight

\* The scopes a construct opens hold X below its body and in it.
Deeper(scopes, scopes2, more, sites, X) ==
  /\ ScopesRight(scopes2, sites) /\ Len(scopes2) = Len(scopes) + more
  /\ \A k \in 1 .. Len(scopes) : scopes2[k] = scopes[k]
  /\ Held(scopes2, Len(scopes2) - 1) = X
  /\ Held(scopes2, Len(scopes2)) = X

\* The scope of a body, empty, holds what the scopes below it hold.
LEMMA BodyDeeper ==
  ASSUME NEW scopes, NEW sites, ScopesRight(scopes, sites),
         NEW scopes2, scopes2 = scopes \o << >> \o <<EmptyScope>>
  PROVE  Deeper(scopes, scopes2, 1, sites, Held(scopes, Len(scopes)))
<1>1. PICK empty \in Scopes : empty = EmptyScope /\ In(empty) = {}
  BY EmptyScopeRight
<1>2. scopes \in Seq(Scopes)
  BY DEF ScopesRight
<1>3. PICK n \in Nat : n = Len(scopes)
  BY <1>2, LenProperties
<1>5. OneMore(scopes, scopes2, EmptyScope, sites)
  BY BodyPushed, <1>1, <1>2, AppendIsConcat, ConcatEmptySeq
<1>6. Held(scopes2, Len(scopes)) = Held(scopes, Len(scopes))
      /\ Held(scopes2, Len(scopes2)) = Held(scopes, Len(scopes)) \cup In(EmptyScope)
  BY <1>3, <1>5, MoreHeld
<1> QED
  BY <1>1, <1>3, <1>6, <1>5 DEF Deeper, OneMore

\* The scope of a construct, which begins with a registration, and that of its body.
LEMMA OuterDeeper ==
  ASSUME NEW scopes, NEW sites, ScopesRight(scopes, sites),
         NEW r \in Registrations, r.kind \in {"var", "zone"}, r.depth = Len(scopes) + 1, r.site < sites,
         NEW outer, outer = [EmptyScope EXCEPT !.vars = <<r>>],
         NEW scopes2, scopes2 = scopes \o <<outer, EmptyScope>>
  PROVE  Deeper(scopes, scopes2, 2, sites, Held(scopes, Len(scopes)) \cup {r})
<1>2. /\ <<r>> \in Seq(Registrations) /\ << >> \in Seq(Registrations) /\ DOMAIN << >> = {}
      /\ DOMAIN <<r>> = {1} /\ <<r>>[1] = r
  OBVIOUS
<1>3. PICK regs \in Seq(Registrations) : regs = <<r>>
  BY <1>2
<1>4. PICK none \in Seq(Registrations) : none = << >>
  BY <1>2
<1>5. outer \in Scopes /\ outer.deferred = none /\ outer.vars = regs
  <2>1. outer = [deferred |-> none, vars |-> regs]
    BY <1>3, <1>4 DEF EmptyScope
  <2> QED
    BY ONLY <2>1, none \in Seq(Registrations), regs \in Seq(Registrations) DEF Scopes
<1>6. PICK n \in Nat : n = Len(scopes)
  BY LenProperties DEF ScopesRight
<1>8. ScopeRight(outer, n + 1, sites)
  BY <1>2, <1>3, <1>4, <1>5, <1>6 DEF ScopeRight, Ordered
<1>9. In(outer) = {r}
  BY <1>5, <1>2, <1>3, <1>4 DEF In, Range
<1>10. PICK one : one = Append(scopes, outer)
  OBVIOUS
<1>11. OneMore(scopes, one, outer, sites)
  BY <1>5, <1>6, <1>8, <1>10, ScopePushed
<1>12. scopes2 = Append(one, EmptyScope)
  <2>1. PICK empty \in Scopes : empty = EmptyScope
    BY EmptyScopeRight
  <2>2. scopes \in Seq(Scopes)
    BY DEF ScopesRight
  <2>3. PICK o \in Scopes : o = outer
    BY <1>5
  <2>6. scopes \o <<o, empty>> = Append(scopes \o <<o>>, empty)
    BY <2>2
  <2> QED
    BY <1>10, <2>1, <2>3, <2>6, <2>2, AppendIsConcat
<1>13. OneMore(one, scopes2, EmptyScope, sites)
  BY <1>12, BodyPushed, <1>11 DEF OneMore
<1>14. Held(one, Len(one)) = Held(scopes, n) \cup {r}
  BY <1>6, <1>9, <1>11, MoreHeld
<1>15. Len(one) = n + 1 /\ Len(one) \in Nat /\ (\A k \in 1 .. n : one[k] = scopes[k])
  BY <1>6, <1>11 DEF OneMore
<1>16. Held(scopes2, Len(one)) = Held(one, Len(one)) /\ Held(scopes2, Len(scopes2)) = Held(one, Len(one)) \cup In(EmptyScope)
  BY <1>13, <1>15, MoreHeld
<1>17. ScopesRight(scopes2, sites) /\ Len(scopes2) = Len(one) + 1 /\ (\A k \in 1 .. Len(one) : scopes2[k] = one[k])
  BY <1>13 DEF OneMore
<1>18. Len(scopes2) = n + 2 /\ Len(scopes2) - 1 = Len(one) /\ (\A k \in 1 .. n : k \in 1 .. Len(one))
  BY <1>15, <1>17
<1> QED
  BY <1>6, <1>14, <1>15, <1>16, <1>17, <1>18, EmptyScopeRight DEF Deeper

\* The graph with the blocks of a construct.
OpensWith(blocks, at, scopes, entry, exit, new, blocks2, at2, scopes2, X) ==
  /\ \E entry2, exit2 : Opens(blocks, at, scopes, entry, exit, blocks2, at2, scopes2, entry2, exit2, X)
  /\ Opened(blocks, at, new, blocks2)

\* New blocks, to which the block branches, make a graph that opens a construct.
LEMMA OpensNew ==
  ASSUME NEW blocks, NEW entry, NEW exit, Graph(blocks, entry, exit), NEW at \in DOMAIN blocks,
         NEW X \in SUBSET Registrations, NEW made, Graph(made, entry, [exit EXCEPT ![at] = X]),
         SameBut(at, blocks, made), ~made[at].ended,
         NEW m \in Nat, m = Len(blocks), NEW new, NewRight(new, m), NEW l \in Nat, l = Len(new),
         NEW to, to \subseteq m + 1 .. m + l, to # {},
         NEW blocks2, blocks2 = BranchTo(made, at, to) \o new, NEW at2 \in m + 1 .. m + l,
         NEW scopes, NEW scopes2, NEW more, NEW sites, Deeper(scopes, scopes2, more, sites, X)
  PROVE  OpensWith(blocks, at, scopes, entry, exit, new, blocks2, at2, scopes2, X)
<1>1. PICK exit1 : exit1 = [exit EXCEPT ![at] = X]
  OBVIOUS
<1>2. /\ blocks \in Seq(CodeBlocks) /\ made \in Seq(CodeBlocks) /\ DOMAIN blocks = 1 .. m
      /\ exit \in [DOMAIN blocks -> SUBSET Registrations]
      /\ Graph(made, entry, exit1)
  BY <1>1, LenProperties DEF Graph
<1>3. DOMAIN made = 1 .. m /\ (\A b \in 1 .. m : b # at => made[b] = blocks[b]) /\ at \in DOMAIN made
  BY <1>2 DEF SameBut
<1>4. m = Len(made)
  BY <1>3, <1>2, LenProperties
<1>5. exit1[at] = X /\ \A b \in 1 .. m : b # at => exit1[b] = exit[b]
  BY <1>1, <1>2
<1>6. PICK entry2 : entry2 = Extended(entry, m, l, exit1[at])
  OBVIOUS
<1>7. PICK exit2 : exit2 = Extended(exit1, m, l, exit1[at])
  OBVIOUS
<1>8. OpenedRight(made, at, new, blocks2, entry2, exit2)
  BY ONLY <1>2, <1>3, <1>4, <1>6, <1>7, ~made[at].ended, NewRight(new, m), l = Len(new), to \subseteq m + 1 .. m + l,
     to # {}, blocks2 = BranchTo(made, at, to) \o new, GraphOpen
<1>9. DOMAIN blocks2 = 1 .. m + l
  BY <1>4, <1>8 DEF OpenedRight, Opened
<1>10. blocks2[at].ended /\ Graph(blocks2, entry2, exit2)
  BY <1>8 DEF OpenedRight, Opened
<1>13. DOMAIN blocks2 \ DOMAIN blocks = m + 1 .. m + l /\ DOMAIN blocks \subseteq DOMAIN blocks2
  BY <1>2, <1>9
<1>14. entry \in [1 .. m -> SUBSET Registrations] /\ exit1 \in [1 .. m -> SUBSET Registrations]
  BY <1>2, <1>3 DEF Graph
<1>15. PICK e \in SUBSET Registrations : e = exit1[at] /\ e = X
  BY <1>5
<1>16. entry2 = Extended(entry, m, l, e) /\ exit2 = Extended(exit1, m, l, e)
  BY <1>6, <1>7, <1>15
<1>17. \A b \in 1 .. m : entry2[b] = entry[b]
  BY ONLY <1>14, <1>16, m \in Nat, l \in Nat, e \in SUBSET Registrations, ExtendedFacts
<1>18. \A b \in 1 .. m : exit2[b] = exit1[b]
  BY ONLY <1>14, <1>16, m \in Nat, l \in Nat, e \in SUBSET Registrations, ExtendedFacts
<1>19. \A b \in m + 1 .. m + l : entry2[b] = e
  BY ONLY <1>14, <1>16, m \in Nat, l \in Nat, e \in SUBSET Registrations, ExtendedFacts
<1>20. \A b \in m + 1 .. m + l : exit2[b] = e
  BY ONLY <1>14, <1>16, m \in Nat, l \in Nat, e \in SUBSET Registrations, ExtendedFacts
<1>21. \A b \in 1 .. m : b # at => exit2[b] = exit[b] /\ blocks2[b] = blocks[b]
  BY <1>3, <1>5, <1>18, <1>8 DEF OpenedRight, Opened
<1>22. exit2[at2] = X
  BY <1>15, <1>20
<1>23. /\ \A k \in 1 .. Len(scopes) : scopes2[k] = scopes[k]
       /\ Held(scopes2, Len(scopes2) - 1) = X
       /\ Held(scopes2, Len(scopes2)) = X
  BY DEF Deeper
<1>24. Opens(blocks, at, scopes, entry, exit, blocks2, at2, scopes2, entry2, exit2, X)
  BY <1>2, <1>10, <1>13, <1>15, <1>17, <1>19, <1>20, <1>21, <1>22, <1>23 DEF Opens
<1> QED
  BY <1>24, <1>2, <1>9, <1>10, <1>21, <1>4, <1>8 DEF OpensWith, Opened, OpenedRight

\* What a construct brings, behind the first m blocks.
Fits(new, to, at2, c, m) ==
  LET N == m + 1 .. m + Len(new) IN
  /\ NewRight(new, m) /\ to # {} /\ to \subseteq N /\ at2 \in N
  /\ Pending(c) \subseteq N /\ at2 \notin Pending(c) /\ c.back \in N /\ c.end \in N
  /\ \A k \in 1 .. Len(new) : ~new[k].ended => m + k = at2 \/ m + k \in Pending(c)
  /\ c.bodies = << >> \/ \E b \in Nat : c.bodies = <<b>> /\ b # c.end

\* A construct that fits its blocks keeps the invariant when it opens.
LEMMA OpenKeeps ==
  ASSUME CleanupInv, Reachable, clSimple' = clSimple, clCompound' = clCompound + 1,
         NEW entry, NEW exit, NEW base, GeneratedNow(entry, exit, base),
         NEW X \in SUBSET Registrations, NEW made, Graph(made, entry, [exit EXCEPT ![clAt] = X]),
         SameBut(clAt, clBlocks, made), ~made[clAt].ended,
         NEW m, m = Len(clBlocks), NEW new, NEW to, NEW blocks2, blocks2 = BranchTo(made, clAt, to) \o new,
         Generate(blocks2), NEW c \in Constructions, c.brk = clBreak, c.cont = clContinue,
         clOpen' = Append(clOpen, c), NEW at2, clAt' = at2, Fits(new, to, at2, c, m),
         NEW scopes2, scopes2 = clScopes', Deeper(clScopes, scopes2, Width(c), clSimple + clCompound + 1, X),
         NEW N, N = m + 1 .. m + Len(new),
         NEW brk2, brk2 = clBreak', Aims(brk2, clBreak, N, scopes2),
         NEW cont2, cont2 = clContinue', Aims(cont2, clContinue, N, scopes2)
  PROVE  CleanupInv'
<1>1. clPhase = "function" /\ clSimple \in Nat /\ clCompound \in Nat
  BY DEF Reachable, CleanupInv
<1>2. PICK s \in Nat : s = clSimple + clCompound
  BY <1>1
<1>3. Generated(clBlocks, clAt, clScopes, clOpen, clBreak, clContinue, s, entry, exit, base)
  BY <1>2 DEF GeneratedNow
<1>4. Graph(clBlocks, entry, exit) /\ clAt \in DOMAIN clBlocks
  BY <1>3 DEF Generated
<1>5. m \in Nat /\ DOMAIN clBlocks = 1 .. m
  BY <1>4, LenProperties DEF Graph
<1>6. PICK l \in Nat : l = Len(new)
  BY LenProperties DEF Fits, NewRight
<1>7. /\ NewRight(new, m) /\ to # {} /\ to \subseteq m + 1 .. m + l /\ at2 \in m + 1 .. m + l
  BY <1>6 DEF Fits
<1>8. PICK scopes, more, sites : scopes = clScopes /\ Deeper(scopes, scopes2, more, sites, X)
  OBVIOUS
<1>9. OpensWith(clBlocks, clAt, clScopes, entry, exit, new, blocks2, at2, scopes2, X)
  <2>1. OpensWith(clBlocks, clAt, scopes, entry, exit, new, blocks2, at2, scopes2, X)
    BY ONLY <1>4, <1>5, <1>6, <1>7, <1>8, X \in SUBSET Registrations, Graph(made, entry, [exit EXCEPT ![clAt] = X]),
       SameBut(clAt, clBlocks, made), ~made[clAt].ended, m = Len(clBlocks),
       blocks2 = BranchTo(made, clAt, to) \o new, OpensNew
  <2> QED
    BY <1>8, <2>1
<1>12. N = DOMAIN blocks2 \ DOMAIN clBlocks
  BY <1>6, <1>5, <1>9 DEF OpensWith, Opened
<1>13. PICK entry2, exit2 : Opens(clBlocks, clAt, clScopes, entry, exit, blocks2, at2, scopes2, entry2, exit2, X)
  BY <1>9 DEF OpensWith
<1>14. ASSUME NEW b \in N, ~blocks2[b].ended PROVE b = at2 \/ b \in Pending(c)
  <2>1. PICK k \in 1 .. l : b = m + k
    <3>1. b - m \in 1 .. l /\ b = m + (b - m)
      BY <1>5, <1>6
    <3> QED
      BY <3>1
  <2> QED
    BY <2>1, <1>6, <1>14, <1>9 DEF Fits, OpensWith, Opened
<1>16. Known(c, clBreak, clContinue, blocks2, at2, N)
  <2>1. Pending(c) \subseteq N /\ at2 \notin Pending(c) /\ c.back \in N /\ c.end \in N
    BY DEF Fits
  <2>3. c.back # 0 /\ c.end # 0
    BY <2>1, <1>5, <1>6
  <2> QED
    BY <1>14, <2>1, <2>3 DEF Known, Fits
<1>17. ScopesRight(scopes2, s + 1) /\ Len(scopes2) = Len(clScopes) + Width(c)
  BY <1>2 DEF Deeper
<1>18. PICK open2 : open2 = Append(clOpen, c)
  OBVIOUS
<1>19. Goes(blocks2, at2, scopes2, open2, brk2, cont2, s + 1)
  <2>1. PICK s1 : s1 = s + 1
    OBVIOUS
  <2>2. ScopesRight(scopes2, s1)
    BY <1>17, <2>1
  <2>3. Goes(blocks2, at2, scopes2, open2, brk2, cont2, s1)
    BY ONLY <1>3, <1>12, <1>13, <1>16, <1>17, <1>18, <2>2, Aims(brk2, clBreak, N, scopes2),
       Aims(cont2, clContinue, N, scopes2), OpenGrows
  <2> QED
    BY <2>1, <2>3
<1>20. PICK entry3, exit3, base3 : Generated(blocks2, at2, scopes2, open2, brk2, cont2, s + 1, entry3, exit3, base3)
  BY <1>19 DEF Goes
<1>22. GeneratedNow(entry3, exit3, base3)'
  BY <1>18, <1>20, <1>1, <1>2 DEF GeneratedNow, Generate
<1> QED
  BY <1>1, <1>22, GoesOn

\* The blocks constructs bring.
FreshBlock(c, m, l) ==
  /\ c \in CodeBlocks /\ c.ins = << >> /\ c.moved = {} /\ c.to \subseteq m + 1 .. m + l
  /\ c.ended => c.to # {}
  /\ ~c.ended => c.to = {}

\* An empty open block is fresh.
LEMMA OpenFresh ==
  ASSUME NEW m \in Nat, NEW l \in Nat
  PROVE  FreshBlock(OpenBlock, m, l)
  BY DEF FreshBlock, OpenBlock, CodeBlocks

\* So is an empty block that branches among the new ones.
LEMMA BranchFresh ==
  ASSUME NEW m \in Nat, NEW l \in Nat, NEW to, to \subseteq m + 1 .. m + l, to # {}
  PROVE  FreshBlock(BranchBlock(to), m, l)
<1>1. to \in SUBSET Nat
  OBVIOUS
<1>2. OpenBlock \in CodeBlocks /\ OpenBlock.ins = << >> /\ OpenBlock.moved = {}
  BY DEF OpenBlock, CodeBlocks
<1>3. PICK w \in CodeBlocks : w = OpenBlock /\ w.ins = << >> /\ w.moved = {}
  BY <1>2
<1>4. PICK b : b = [w EXCEPT !.ended = TRUE, !.to = to]
  OBVIOUS
<1>5. b \in CodeBlocks /\ b.ins = << >> /\ b.moved = {} /\ b.ended /\ b.to = to
  BY <1>1, <1>3, <1>4 DEF CodeBlocks
<1> QED
  BY <1>5, <1>3, <1>4 DEF FreshBlock, BranchBlock

\* A block that branches is terminated.
LEMMA BranchEnded == ASSUME NEW to PROVE BranchBlock(to).ended
  BY DEF BranchBlock, OpenBlock

\* Fresh blocks are right as new ones.
LEMMA FreshRight ==
  ASSUME NEW new, NEW m \in Nat, NEW l \in Nat, new \in [1 .. l -> CodeBlocks],
         \A k \in 1 .. l : FreshBlock(new[k], m, l)
  PROVE  NewRight(new, m)
<1> QED
  BY DEF NewRight, FreshBlock

\* Two fresh blocks.
LEMMA NewOfTwo ==
  ASSUME NEW m \in Nat, NEW a, NEW b, FreshBlock(a, m, 2), FreshBlock(b, m, 2)
  PROVE  NewRight(<<a, b>>, m)
<1>2. PICK new : new = <<a, b>>
  OBVIOUS
<1>3. new \in [1 .. 2 -> CodeBlocks] /\ new[1] = a /\ new[2] = b
  BY <1>2 DEF FreshBlock
<1>4. \A k \in 1 .. 2 : k = 1 \/ k = 2
  OBVIOUS
<1> QED
  BY <1>2, <1>3, FreshRight, <1>4

\* Three fresh blocks.
LEMMA NewOfThree ==
  ASSUME NEW m \in Nat, NEW a, NEW b, NEW c, FreshBlock(a, m, 3), FreshBlock(b, m, 3), FreshBlock(c, m, 3)
  PROVE  NewRight(<<a, b, c>>, m)
<1>2. PICK new : new = <<a, b, c>>
  OBVIOUS
<1>3. new \in [1 .. 3 -> CodeBlocks] /\ new[1] = a /\ new[2] = b /\ new[3] = c
  BY <1>2 DEF FreshBlock
<1>4. \A k \in 1 .. 3 : k = 1 \/ k = 2 \/ k = 3
  OBVIOUS
<1> QED
  BY <1>2, <1>3, FreshRight, <1>4

\* Four fresh blocks.
LEMMA NewOfFour ==
  ASSUME NEW m \in Nat, NEW a, NEW b, NEW c, NEW d,
         FreshBlock(a, m, 4), FreshBlock(b, m, 4), FreshBlock(c, m, 4), FreshBlock(d, m, 4)
  PROVE  NewRight(<<a, b, c, d>>, m)
<1>2. PICK new : new = <<a, b, c, d>>
  OBVIOUS
<1>3. new \in [1 .. 4 -> CodeBlocks] /\ new[1] = a /\ new[2] = b /\ new[3] = c /\ new[4] = d
  BY <1>2 DEF FreshBlock
<1>5. \A k \in 1 .. 4 : FreshBlock(new[k], m, 4)
  BY <1>3
<1> QED
  BY <1>2, <1>3, <1>5, FreshRight

\* Without a further body only the end of a construct is still to be filled.
LEMMA PendingOfNone ==
  ASSUME NEW c, c.bodies = << >>
  PROVE  Pending(c) \subseteq {c.end} /\ (c.end # 0 => Pending(c) = {c.end})
<1> QED
  BY DEF Pending, Range

\* With a further body, that one and the end.
LEMMA PendingOfOne ==
  ASSUME NEW c, NEW b, c.bodies = <<b>>
  PROVE  Pending(c) \subseteq {b, c.end} /\ (c.end # 0 => Pending(c) = {b, c.end})
<1> QED
  BY DEF Pending, Range

\* A construct as the statement that opens it describes it.
NewConstruct(bodies, back, end, outer) ==
  [bodies |-> Tail(bodies), back |-> back, end |-> end, outer |-> outer, brk |-> clBreak, cont |-> clContinue]

\* With one body, or with two.
Shape(bodies, back, end, m, l) ==
  LET N == m + 1 .. m + l IN
  /\ back \in N /\ end \in N
  /\ \/ \E a \in N : bodies = <<a>> /\ a # end
     \/ \E a, b \in N : bodies = <<a, b>> /\ a # end /\ b # end /\ a # b

\* Every new block that is open is a body or the end of the construct.
Covered(new, bodies, end, m) ==
  \A k \in 1 .. Len(new) : ~new[k].ended => m + k \in Range(bodies) \cup {end}

\* A construct of a good shape, whose open blocks are all bodies or its end, fits.
LEMMA ConstructFits ==
  ASSUME NEW m \in Nat, NEW new, NewRight(new, m), NEW to, to # {}, to \subseteq m + 1 .. m + Len(new),
         NEW bodies, NEW back, NEW end, NEW outer \in BOOLEAN,
         Shape(bodies, back, end, m, Len(new)), Covered(new, bodies, end, m),
         clBreak \in [block : Nat, depth : Nat],
         clContinue \in [block : Nat, depth : Nat], NEW c, c = NewConstruct(bodies, back, end, outer)
  PROVE  Fits(new, to, Head(bodies), c, m) /\ c \in Constructions
<1>1. PICK l \in Nat : l = Len(new)
  BY LenProperties DEF NewRight
<1>2. PICK N : N = m + 1 .. m + l
  OBVIOUS
<1>3. back \in N /\ end \in N /\ (\A b \in N : b \in Nat /\ b # 0)
  BY <1>1, <1>2 DEF Shape
<1>4. /\ c.bodies = Tail(bodies) /\ c.back = back /\ c.end = end /\ c.brk = clBreak /\ c.cont = clContinue
  BY DEF NewConstruct
<1>5. clBreak \in [block : Nat, depth : Nat]
  OBVIOUS
<1>6. CASE \E a \in N : bodies = <<a>> /\ a # end
  <2>1. PICK a \in N : bodies = <<a>> /\ a # end
    BY <1>6
  <2>2. Head(bodies) = a /\ Tail(bodies) = << >> /\ << >> \in Seq(Nat)
    BY <2>1
  <2>4. Range(bodies) = {a}
    BY <2>1 DEF Range
  <2>6. Fits(new, to, a, c, m)
    BY <1>1, <1>2, <1>3, <1>4, <2>1, <2>2, <2>4, PendingOfNone DEF Fits, Covered
  <2> QED
    BY <2>2, <2>6, <1>3, <1>5 DEF NewConstruct, Constructions
<1>7. CASE \E a, b \in N : bodies = <<a, b>> /\ a # end /\ b # end /\ a # b
  <2>1. PICK a \in N, b \in N : bodies = <<a, b>> /\ a # end /\ b # end /\ a # b
    BY <1>7
  <2>2. Head(bodies) = a /\ Tail(bodies) = <<b>>
    BY <2>1
  <2>3. Pending(c) = {b, end}
    BY <1>3, <1>4, <2>2, PendingOfOne, ZenonT(40)
  <2>4. Range(bodies) = {a, b}
    BY <2>1 DEF Range
  <2>6. Fits(new, to, a, c, m)
    BY <1>1, <1>2, <1>3, <1>4, <2>1, <2>2, <2>3, <2>4 DEF Fits, Covered
  <2>7. c \in Constructions
    <3>2. <<b>> \in Seq(Nat)
      BY <1>3
    <3> QED
      BY <1>3, <1>5, <2>2, <3>2 DEF NewConstruct, Constructions
  <2> QED
    BY <2>2, <2>6, <2>7
<1> QED
  BY <1>1, <1>2, <1>6, <1>7 DEF Shape

\* The blocks a construct brings, and where its bodies and their ends are.
Brings(new, to, bodies, back, end, m) ==
  /\ NewRight(new, m) /\ to # {} /\ to \subseteq m + 1 .. m + Len(new)
  /\ Shape(bodies, back, end, m, Len(new)) /\ Covered(new, bodies, end, m)

\* A target of a construct: as around it, or one of its own blocks.
Steers(target2, target, new, m, depth) ==
  target2 = target \/ \E b \in m + 1 .. m + Len(new) : target2 = [block |-> b, depth |-> depth]

\* A target set to a new block retains the scopes below the body.
LEMMA SteersAims ==
  ASSUME NEW target, NEW target2, NEW new, NEW m \in Nat, NEW depth \in Nat, Steers(target2, target, new, m, depth),
         Len(new) \in Nat, NEW scopes, Len(scopes) - 1 = depth, NEW N, N = m + 1 .. m + Len(new)
  PROVE  Aims(target2, target, N, scopes)
<1> QED
  BY DEF Steers, Aims

\* A compound statement with new blocks, and no scope but that of its body.
LEMMA OpenedKeeps ==
  ASSUME CleanupInv, NEW construct, Compound(construct), NEW new, NEW to, NEW bodies, NEW back, NEW end,
         Open(new, to, bodies, back, end, << >>), NEW m, m = Len(clBlocks), Brings(new, to, bodies, back, end, m),
         Steers(clBreak', clBreak, new, m, Depth), Steers(clContinue', clContinue, new, m, Depth)
  PROVE  CleanupInv'
<1>1. /\ Reachable /\ clPhase = "function" /\ clSimple' = clSimple /\ clCompound' = clCompound + 1
      /\ clSimple \in Nat /\ clCompound \in Nat
  BY DEF Compound, Reachable, CleanupInv
<1>2. PICK entry, exit, base : GeneratedNow(entry, exit, base)
  BY <1>1 DEF CleanupInv
<1>3. /\ Graph(clBlocks, entry, exit) /\ ScopesRight(clScopes, clSimple + clCompound)
      /\ clAt \in DOMAIN clBlocks /\ ~clBlocks[clAt].ended /\ exit[clAt] = Held(clScopes, Depth)
      /\ Depth = Len(clScopes) /\ Depth \in Nat \ {0} /\ Held(clScopes, Depth) \in SUBSET Registrations
  BY <1>1, <1>2, NowFacts
<1>4. PICK X \in SUBSET Registrations : X = Held(clScopes, Depth) /\ X = exit[clAt]
  BY <1>3
<1>5. Graph(clBlocks, entry, [exit EXCEPT ![clAt] = X]) /\ SameBut(clAt, clBlocks, clBlocks)
  BY <1>3, <1>4 DEF SameBut, Graph
<1>6. m \in Nat /\ NewRight(new, m) /\ to # {} /\ to \subseteq m + 1 .. m + Len(new) /\ Len(new) \in Nat
      /\ Shape(bodies, back, end, m, Len(new)) /\ Covered(new, bodies, end, m)
  BY <1>3, LenProperties DEF Graph, Brings, NewRight
<1>7. clBreak \in [block : Nat, depth : Nat] /\ clContinue \in [block : Nat, depth : Nat]
  BY <1>2 DEF GeneratedNow, Generated, TargetRight
<1>8. PICK c : c = NewConstruct(bodies, back, end, FALSE)
  OBVIOUS
<1>9. Fits(new, to, Head(bodies), c, m) /\ c \in Constructions
  <2>1. FALSE \in BOOLEAN
    OBVIOUS
  <2>2. Fits(new, to, Head(bodies), c, m)
    BY ONLY <1>6, <1>7, <1>8, <2>1, ConstructFits
  <2>3. c \in Constructions
    BY ONLY <1>6, <1>7, <1>8, <2>1, ConstructFits
  <2> QED
    BY <2>2, <2>3
<1>10. PICK at2 : at2 = Head(bodies)
  OBVIOUS
<1>11. Fits(new, to, at2, c, m) /\ at2 \in m + 1 .. m + Len(new)
  BY <1>9, <1>10 DEF Fits
<1>12. PICK blocks2 : blocks2 = BranchTo(clBlocks, clAt, to) \o new
  OBVIOUS
<1>13. Generate(blocks2) /\ clAt' = at2
  <2>1. at2 # 0
    BY <1>6, <1>11
  <2> QED
    BY <1>6, <1>10, <1>12, <2>1 DEF Open
<1>14. c.brk = clBreak /\ c.cont = clContinue /\ clOpen' = Append(clOpen, c)
  BY <1>8 DEF Open, NewConstruct
<1>15. PICK scopes2 : scopes2 = clScopes'
  OBVIOUS
<1>16. Width(c) = 1
  BY <1>8 DEF Width, NewConstruct
<1>17. PICK s \in Nat : s = clSimple + clCompound
  BY <1>1
<1>18. Deeper(clScopes, scopes2, Width(c), clSimple + clCompound + 1, X)
  <2>1. PICK s1 \in Nat : s1 = s + 1
    OBVIOUS
  <2>2. ScopesRight(clScopes, s1)
    BY ScopesLater, <1>3, <1>17, <2>1
  <2> QED
    BY <1>3, <1>4, <1>16, <1>17, <2>1, <2>2, BodyDeeper, <1>15 DEF Open
<1>19. PICK N : N = m + 1 .. m + Len(new)
  OBVIOUS
<1>20. Len(scopes2) - 1 = Depth /\ Depth \in Nat
  BY <1>3, <1>16, <1>18 DEF Deeper
<1>21. PICK brk2 : brk2 = clBreak'
  OBVIOUS
<1>22. PICK cont2 : cont2 = clContinue'
  OBVIOUS
<1>23. Aims(brk2, clBreak, N, scopes2)
  BY <1>6, <1>19, <1>20, <1>21, SteersAims
<1>24. Aims(cont2, clContinue, N, scopes2)
  BY <1>6, <1>19, <1>20, <1>22, SteersAims
<1>25. ~clBlocks[clAt].ended
  BY <1>3
<1> QED
  BY ONLY CleanupInv, <1>1, <1>2, <1>5, <1>9, <1>11, <1>12, <1>13, <1>14, <1>15, <1>18, <1>19, <1>21, <1>22, <1>23, <1>24,
     <1>25, X \in SUBSET Registrations, m = Len(clBlocks), OpenKeeps

\* A compound statement with new blocks and a scope around that of its body.
LEMMA OpenedWithKeeps ==
  ASSUME CleanupInv, NEW construct, Compound(construct), NEW new, NEW to, NEW bodies, NEW back, NEW end,
         NEW kind \in {"var", "zone"}, NEW outer, outer = [EmptyScope EXCEPT !.vars = <<Registered(kind, Depth + 1)>>],
         OpenWith(outer, new, to, bodies, back, end), NEW m, m = Len(clBlocks), Brings(new, to, bodies, back, end, m),
         Steers(clBreak', clBreak, new, m, Depth + 1), Steers(clContinue', clContinue, new, m, Depth + 1)
  PROVE  CleanupInv'
<1>1. /\ Reachable /\ clPhase = "function" /\ clSimple' = clSimple /\ clCompound' = clCompound + 1
      /\ clSimple \in Nat /\ clCompound \in Nat
  BY DEF Compound, Reachable, CleanupInv
<1>2. PICK entry, exit, base : GeneratedNow(entry, exit, base)
  BY <1>1 DEF CleanupInv
<1>3. /\ Graph(clBlocks, entry, exit) /\ ScopesRight(clScopes, clSimple + clCompound)
      /\ clAt \in DOMAIN clBlocks /\ ~clBlocks[clAt].ended /\ exit[clAt] = Held(clScopes, Depth)
      /\ Depth = Len(clScopes) /\ Depth \in Nat \ {0} /\ Held(clScopes, Depth) \in SUBSET Registrations
  BY <1>1, <1>2, NowFacts
<1>4. PICK d \in Nat : d = Depth + 1
  BY <1>3
<1>26. PICK r : r = Registered(kind, d)
  OBVIOUS
<1>17. PICK s \in Nat : s = clSimple + clCompound
  BY <1>1
<1>27. r \in Registrations /\ r.kind = kind /\ r.depth = d /\ r.site = s
  BY <1>17, <1>26 DEF Registered, Registrations
<1>28. PICK p \in Seq(Instructions) : p = <<Instr("make", r)>>
  <2>2. <<Instr("make", r)>> \in Seq(Instructions)
    BY <1>27 DEF Instr, Instructions
  <2> QED
    BY <2>2
<1>29. PICK X \in SUBSET Registrations : X = Held(clScopes, Depth) \cup {r}
  BY <1>3, <1>27
<1>30. Runs(p, exit[clAt], X, {})
  <2>1. kind \in {"var", "zone", "defer", "defer_block", "defer_leaves", "exit"}
    OBVIOUS
  <2>2. Runs(<<Instr("make", r)>>, Held(clScopes, Depth), Held(clScopes, Depth) \cup {r}, {})
    BY ONLY <1>1, <1>2, <1>26, <2>1, d \in Nat, NewRegistration
  <2> QED
    BY <1>3, <1>28, <1>29, <2>2
<1>31. PICK made : made = Emit(clBlocks, clAt, p)
  OBVIOUS
<1>5. /\ Graph(made, entry, [exit EXCEPT ![clAt] = X]) /\ SameBut(clAt, clBlocks, made)
      /\ ~made[clAt].ended
  BY <1>3, <1>30, <1>31, GraphEmit
<1>6. m \in Nat /\ NewRight(new, m) /\ to # {} /\ to \subseteq m + 1 .. m + Len(new) /\ Len(new) \in Nat
      /\ Shape(bodies, back, end, m, Len(new)) /\ Covered(new, bodies, end, m)
  BY <1>3, LenProperties DEF Graph, Brings, NewRight
<1>7. clBreak \in [block : Nat, depth : Nat] /\ clContinue \in [block : Nat, depth : Nat]
  BY <1>2 DEF GeneratedNow, Generated, TargetRight
<1>8. PICK c : c = NewConstruct(bodies, back, end, TRUE)
  OBVIOUS
<1>9. Fits(new, to, Head(bodies), c, m) /\ c \in Constructions
  <2>1. TRUE \in BOOLEAN
    OBVIOUS
  <2>2. Fits(new, to, Head(bodies), c, m)
    BY ONLY <1>6, <1>7, <1>8, <2>1, ConstructFits
  <2>3. c \in Constructions
    BY ONLY <1>6, <1>7, <1>8, <2>1, ConstructFits
  <2> QED
    BY <2>2, <2>3
<1>10. PICK at2 : at2 = Head(bodies)
  OBVIOUS
<1>11. Fits(new, to, at2, c, m) /\ at2 \in m + 1 .. m + Len(new)
  BY <1>9, <1>10 DEF Fits
<1>12. PICK blocks2 : blocks2 = BranchTo(made, clAt, to) \o new
  OBVIOUS
<1>13. Generate(blocks2) /\ clAt' = at2
  <2>1. at2 # 0
    BY <1>6, <1>11
  <2> QED
    BY <1>6, <1>10, <1>12, <1>28, <1>31, <2>1, <1>4, <1>26 DEF OpenWith, EmptyScope
<1>14. c.brk = clBreak /\ c.cont = clContinue /\ clOpen' = Append(clOpen, c)
  BY <1>8 DEF OpenWith, NewConstruct
<1>15. PICK scopes2 : scopes2 = clScopes'
  OBVIOUS
<1>16. Width(c) = 2
  BY <1>8 DEF Width, NewConstruct
<1>18. Deeper(clScopes, scopes2, Width(c), clSimple + clCompound + 1, X)
  <2>1. PICK s1 \in Nat : s1 = s + 1
    OBVIOUS
  <2>2. ScopesRight(clScopes, s1)
    BY ScopesLater, <1>3, <1>17, <2>1
  <2>3. scopes2 = clScopes \o <<outer, EmptyScope>> /\ outer = [EmptyScope EXCEPT !.vars = <<r>>]
    BY <1>4, <1>15, <1>26 DEF OpenWith
  <2>5. r.kind \in {"var", "zone"} /\ r.depth = Len(clScopes) + 1 /\ r.site < s1 /\ r \in Registrations
    BY <1>3, <1>4, <1>27, <2>1
  <2>4. Deeper(clScopes, scopes2, 2, s1, Held(clScopes, Len(clScopes)) \cup {r})
    BY ONLY <2>2, <2>3, <2>5, OuterDeeper
  <2> QED
    BY <1>3, <1>16, <1>17, <1>29, <2>1, <2>4
<1>19. PICK N : N = m + 1 .. m + Len(new)
  OBVIOUS
<1>20. Len(scopes2) - 1 = d
  BY <1>3, <1>4, <1>16, <1>18 DEF Deeper
<1>21. PICK brk2 : brk2 = clBreak' /\ Steers(brk2, clBreak, new, m, d)
  BY <1>4
<1>22. PICK cont2 : cont2 = clContinue' /\ Steers(cont2, clContinue, new, m, d)
  BY <1>4
<1>23. Aims(brk2, clBreak, N, scopes2)
  BY <1>6, <1>19, <1>20, <1>21, SteersAims
<1>24. Aims(cont2, clContinue, N, scopes2)
  BY <1>6, <1>19, <1>20, <1>22, SteersAims
<1> QED
  BY ONLY CleanupInv, <1>1, <1>2, <1>5, <1>9, <1>11, <1>12, <1>13, <1>14, <1>15, <1>18, <1>19, <1>21, <1>22, <1>23, <1>24,
     X \in SUBSET Registrations, m = Len(clBlocks), OpenKeeps

\* A compound statement that goes on in the block there is.
LEMMA OpenHereKeeps ==
  ASSUME CleanupInv, Reachable, clSimple' = clSimple, clCompound' = clCompound + 1,
         NEW entry, NEW exit, NEW base, GeneratedNow(entry, exit, base),
         NEW X \in SUBSET Registrations, NEW made, Graph(made, entry, [exit EXCEPT ![clAt] = X]),
         SameBut(clAt, clBlocks, made), ~made[clAt].ended, Generate(made \o << >>),
         NEW outer \in BOOLEAN, NEW c, c = NewConstruct(<< 0 >>, 0, 0, outer),
         clOpen' = Append(clOpen, c), clAt' = clAt, clBreak' = clBreak, clContinue' = clContinue,
         NEW scopes2, scopes2 = clScopes', Deeper(clScopes, scopes2, Width(c), clSimple + clCompound + 1, X)
  PROVE  CleanupInv'
<1>1. clPhase = "function" /\ clSimple \in Nat /\ clCompound \in Nat
  BY DEF Reachable, CleanupInv
<1>2. PICK s \in Nat : s = clSimple + clCompound
  BY <1>1
<1>3. Generated(clBlocks, clAt, clScopes, clOpen, clBreak, clContinue, s, entry, exit, base)
  BY <1>2 DEF GeneratedNow
<1>5. PICK exit2 : exit2 = [exit EXCEPT ![clAt] = X] /\ Graph(made, entry, exit2)
  OBVIOUS
<1>7. PICK N : N = DOMAIN made \ DOMAIN clBlocks /\ N = {} /\ DOMAIN clBlocks \subseteq DOMAIN made
  BY DEF SameBut
<1>8. /\ \A k \in 1 .. Len(clScopes) : scopes2[k] = clScopes[k]
      /\ Held(scopes2, Len(scopes2) - 1) = X
      /\ Held(scopes2, Len(scopes2)) = X
      /\ ScopesRight(scopes2, s + 1) /\ Len(scopes2) = Len(clScopes) + Width(c)
  BY <1>2 DEF Deeper
<1>9. Opens(clBlocks, clAt, clScopes, entry, exit, made, clAt, scopes2, entry, exit2, X)
  BY <1>5, <1>7, <1>8, <1>3 DEF Opens, SameBut, Graph, Generated
<1>14. Known(c, clBreak, clContinue, made, clAt, N)
  BY <1>7, <1>3 DEF Known, Pending, Range, NewConstruct, Constructions, Generated, TargetRight
<1>15. Aims(clBreak, clBreak, N, scopes2) /\ Aims(clContinue, clContinue, N, scopes2)
  BY DEF Aims
<1>16. PICK open2 : open2 = Append(clOpen, c)
  OBVIOUS
<1>17. N = DOMAIN made \ DOMAIN clBlocks
  BY <1>7
<1>18. PICK s1 : s1 = s + 1
  OBVIOUS
<1>19. ScopesRight(scopes2, s1) /\ Len(scopes2) = Len(clScopes) + Width(c)
  BY <1>8, <1>18
<1>20. Goes(made, clAt, scopes2, open2, clBreak, clContinue, s1)
  BY ONLY <1>3, <1>9, <1>14, <1>15, <1>16, <1>17, <1>19, OpenGrows
<1>21. PICK entry3, exit3, base3 : Generated(made, clAt, scopes2, open2, clBreak, clContinue, s1, entry3, exit3, base3)
  BY <1>20 DEF Goes
<1> QED
  BY <1>1, GoesOn, <1>16, <1>21, <1>2, <1>18, ConcatEmptySeq, <1>5 DEF GeneratedNow, Generate, Graph

\* A block statement, whose body goes on in the same basic block.
LEMMA BlockKeeps ==
  ASSUME CleanupInv, OpenBlockStmt
  PROVE  CleanupInv'
<1>1. /\ Reachable /\ clPhase = "function" /\ clSimple' = clSimple /\ clCompound' = clCompound + 1
      /\ clSimple \in Nat /\ clCompound \in Nat
  BY DEF OpenBlockStmt, Compound, Reachable, CleanupInv
<1>2. PICK entry, exit, base : GeneratedNow(entry, exit, base)
  BY <1>1 DEF CleanupInv
<1>3. /\ Graph(clBlocks, entry, exit) /\ ScopesRight(clScopes, clSimple + clCompound)
      /\ clAt \in DOMAIN clBlocks /\ ~clBlocks[clAt].ended /\ exit[clAt] = Held(clScopes, Depth)
      /\ Depth = Len(clScopes) /\ Depth \in Nat \ {0} /\ Held(clScopes, Depth) \in SUBSET Registrations
  BY <1>1, <1>2, NowFacts
<1>4. PICK X \in SUBSET Registrations : X = Held(clScopes, Depth) /\ X = exit[clAt]
  BY <1>3
<1>5. Graph(clBlocks, entry, [exit EXCEPT ![clAt] = X]) /\ SameBut(clAt, clBlocks, clBlocks)
  BY <1>3, <1>4 DEF SameBut, Graph
<1>6. PICK c : c = NewConstruct(<<0>>, 0, 0, FALSE)
  OBVIOUS
<1>7. Open(<< >>, {}, <<0>>, 0, 0, << >>) /\ clBreak' = clBreak /\ clContinue' = clContinue
  BY DEF OpenBlockStmt, NoLoop
<1>8. Head(<<0>>) = 0
  OBVIOUS
<1>9. Generate(clBlocks \o << >>) /\ clAt' = clAt /\ clOpen' = Append(clOpen, c)
  BY <1>7, <1>8, <1>6 DEF Open, NewConstruct
<1>10. PICK scopes2 : scopes2 = clScopes'
  OBVIOUS
<1>12. PICK s \in Nat : s = clSimple + clCompound
  BY <1>1
<1>13. Deeper(clScopes, scopes2, Width(c), clSimple + clCompound + 1, X)
  <2>1. PICK s1 \in Nat : s1 = s + 1
    OBVIOUS
  <2>2. ScopesRight(clScopes, s1)
    BY ScopesLater, <1>3, <1>12, <2>1
  <2>3. scopes2 = clScopes \o << >> \o <<EmptyScope>>
    BY <1>7, <1>10 DEF Open
  <2> QED
    BY <1>3, <1>4, <1>12, <2>1, <2>2, <2>3, BodyDeeper, <1>6 DEF Width, NewConstruct
<1>14. ~clBlocks[clAt].ended /\ FALSE \in BOOLEAN
  BY <1>3
<1> QED
  BY ONLY CleanupInv, <1>1, <1>2, <1>5, <1>6, <1>7, <1>9, <1>10, <1>13, <1>14, X \in SUBSET Registrations, OpenHereKeeps

\* A zone, whose body does likewise.
LEMMA ZoneKeeps ==
  ASSUME CleanupInv, OpenZone
  PROVE  CleanupInv'
<1>1. /\ Reachable /\ clPhase = "function" /\ clSimple' = clSimple /\ clCompound' = clCompound + 1
      /\ clSimple \in Nat /\ clCompound \in Nat
  BY DEF OpenZone, Compound, Reachable, CleanupInv
<1>2. PICK entry, exit, base : GeneratedNow(entry, exit, base)
  BY <1>1 DEF CleanupInv
<1>3. /\ Graph(clBlocks, entry, exit) /\ ScopesRight(clScopes, clSimple + clCompound)
      /\ clAt \in DOMAIN clBlocks /\ ~clBlocks[clAt].ended /\ exit[clAt] = Held(clScopes, Depth)
      /\ Depth = Len(clScopes) /\ Depth \in Nat \ {0} /\ Held(clScopes, Depth) \in SUBSET Registrations
  BY <1>1, <1>2, NowFacts
<1>4. PICK d \in Nat : d = Depth + 1
  BY <1>3
<1>5. PICK r : r = Registered("zone", d)
  OBVIOUS
<1>6. PICK s \in Nat : s = clSimple + clCompound
  BY <1>1
<1>7. r \in Registrations /\ r.kind = "zone" /\ r.depth = d /\ r.site = s
  BY <1>5, <1>6 DEF Registered, Registrations
<1>8. PICK p \in Seq(Instructions) : p = <<Instr("make", r)>>
  <2>2. <<Instr("make", r)>> \in Seq(Instructions)
    BY <1>7 DEF Instr, Instructions
  <2> QED
    BY <2>2
<1>9. PICK X \in SUBSET Registrations : X = Held(clScopes, Depth) \cup {r}
  BY <1>3, <1>7
<1>10. Runs(p, exit[clAt], X, {})
  <2>1. "zone" \in {"var", "zone", "defer", "defer_block", "defer_leaves", "exit"}
    OBVIOUS
  <2>2. Runs(<<Instr("make", r)>>, Held(clScopes, Depth), Held(clScopes, Depth) \cup {r}, {})
    BY ONLY <1>1, <1>2, <1>5, <2>1, d \in Nat, NewRegistration
  <2> QED
    BY <1>3, <1>8, <1>9, <2>2
<1>11. PICK made : made = Emit(clBlocks, clAt, p)
  OBVIOUS
<1>12. /\ Graph(made, entry, [exit EXCEPT ![clAt] = X]) /\ SameBut(clAt, clBlocks, made)
       /\ ~made[clAt].ended
  BY <1>3, <1>10, <1>11, GraphEmit
<1>13. PICK c : c = NewConstruct(<<0>>, 0, 0, TRUE)
  OBVIOUS
<1>14. PICK outer : outer = [EmptyScope EXCEPT !.vars = <<r>>] /\ outer = OuterZone
  BY <1>4, <1>5 DEF OuterZone
<1>15. OpenWith(outer, << >>, {}, <<0>>, 0, 0) /\ clBreak' = clBreak /\ clContinue' = clContinue
  BY <1>14 DEF OpenZone, NoLoop
<1>18. Generate(made \o << >>) /\ clAt' = clAt /\ clOpen' = Append(clOpen, c)
  BY <1>8, <1>11, <1>15, <1>13, <1>14 DEF OpenWith, NewConstruct, EmptyScope
<1>19. PICK scopes2 : scopes2 = clScopes'
  OBVIOUS
<1>21. Deeper(clScopes, scopes2, Width(c), clSimple + clCompound + 1, X)
  <2>1. PICK s1 \in Nat : s1 = s + 1
    OBVIOUS
  <2>2. ScopesRight(clScopes, s1)
    BY ScopesLater, <1>3, <1>6, <2>1
  <2>3. scopes2 = clScopes \o <<outer, EmptyScope>> /\ outer = [EmptyScope EXCEPT !.vars = <<r>>]
    BY <1>14, <1>15, <1>19 DEF OpenWith
  <2>4. r.kind \in {"var", "zone"} /\ r.depth = Len(clScopes) + 1 /\ r.site < s1 /\ r \in Registrations
    BY <1>3, <1>4, <1>7, <2>1
  <2>5. Deeper(clScopes, scopes2, 2, s1, Held(clScopes, Len(clScopes)) \cup {r})
    BY ONLY <2>2, <2>3, <2>4, OuterDeeper
  <2> QED
    BY <1>3, <1>6, <1>9, <2>1, <2>5, <1>13 DEF Width, NewConstruct
<1>22. TRUE \in BOOLEAN
  OBVIOUS
<1> QED
  BY ONLY CleanupInv, <1>1, <1>2, <1>12, <1>13, <1>15, <1>18, <1>19, <1>21, <1>22, X \in SUBSET Registrations, OpenHereKeeps

\* The blocks are finite in number.
LEMMA BlocksNumber ==
  ASSUME CleanupInv, Reachable
  PROVE  Len(clBlocks) \in Nat
<1>1. PICK entry, exit, base : GeneratedNow(entry, exit, base)
  BY DEF CleanupInv, Reachable
<1> QED
  BY <1>1, LenProperties DEF GeneratedNow, Generated, Graph

\* if without else.
LEMMA IfBrings ==
  ASSUME NEW m \in Nat
  PROVE  Brings(<<OpenBlock, OpenBlock>>, {m + 1, m + 2}, <<m + 1>>, m + 2, m + 2, m)
<1>1. PICK a : a = OpenBlock /\ FreshBlock(a, m, 2)
  BY OpenFresh
<1>2. PICK b : b = OpenBlock /\ FreshBlock(b, m, 2)
  BY OpenFresh
<1>3. PICK new : new = <<a, b>>
  OBVIOUS
<1>5. Len(new) = 2 /\ new[1] = a /\ new[2] = b
  BY <1>3
<1> QED
  BY <1>5, <1>1, <1>2, <1>3, NewOfTwo DEF Brings, Shape, Covered, Range

\* Two bodies and what follows: if with else, with, switch.
LEMMA ElseBrings ==
  ASSUME NEW m \in Nat
  PROVE  Brings(<<OpenBlock, OpenBlock, OpenBlock>>, {m + 1, m + 2}, <<m + 1, m + 2>>, m + 3, m + 3, m)
<1>1. PICK a : a = OpenBlock /\ FreshBlock(a, m, 3)
  BY OpenFresh
<1>2. PICK b : b = OpenBlock /\ FreshBlock(b, m, 3)
  BY OpenFresh
<1>3. PICK c : c = OpenBlock /\ FreshBlock(c, m, 3)
  BY OpenFresh
<1>4. PICK new : new = <<a, b, c>>
  OBVIOUS
<1>6. Len(new) = 3 /\ new[1] = a /\ new[2] = b /\ new[3] = c
  BY <1>4
<1> QED
  BY <1>6, <1>1, <1>2, <1>3, <1>4, NewOfThree DEF Brings, Shape, Covered, Range

\* while.
LEMMA WhileBrings ==
  ASSUME NEW m \in Nat
  PROVE  Brings(<<BranchBlock({m + 2, m + 3}), OpenBlock, OpenBlock>>, {m + 1}, <<m + 2>>, m + 1, m + 3, m)
<1>1. PICK a : a = BranchBlock({m + 2, m + 3}) /\ FreshBlock(a, m, 3) /\ a.ended
  BY BranchEnded, BranchFresh
<1>2. PICK b : b = OpenBlock /\ FreshBlock(b, m, 3)
  BY OpenFresh
<1>3. PICK c : c = OpenBlock /\ FreshBlock(c, m, 3)
  BY OpenFresh
<1>4. PICK new : new = <<a, b, c>>
  OBVIOUS
<1>6. Len(new) = 3 /\ new[1] = a /\ new[2] = b /\ new[3] = c
  BY <1>4
<1> QED
  BY <1>1, <1>2, <1>3, <1>4, <1>6, NewOfThree DEF Brings, Shape, Covered, Range

\* foreach and for.
LEMMA EachBrings ==
  ASSUME NEW m \in Nat
  PROVE  Brings(<<BranchBlock({m + 2, m + 4}), OpenBlock, BranchBlock({m + 1}), OpenBlock>>, {m + 1}, <<m + 2>>, m + 3, m + 4, m)
<1>1. PICK a : a = BranchBlock({m + 2, m + 4}) /\ FreshBlock(a, m, 4) /\ a.ended
  <2>2. FreshBlock(BranchBlock({m + 2, m + 4}), m, 4)
    BY BranchFresh
  <2> QED
    BY <2>2, BranchEnded
<1>2. PICK b : b = OpenBlock /\ FreshBlock(b, m, 4)
  BY OpenFresh
<1>3. PICK c : c = BranchBlock({m + 1}) /\ FreshBlock(c, m, 4) /\ c.ended
  BY BranchEnded, BranchFresh
<1>4. PICK d : d = OpenBlock /\ FreshBlock(d, m, 4)
  BY OpenFresh
<1>5. PICK new : new = <<a, b, c, d>>
  OBVIOUS
<1>7. Len(new) = 4 /\ new[1] = a /\ new[2] = b /\ new[3] = c /\ new[4] = d
  BY <1>5
<1>10. Covered(new, <<m + 2>>, m + 4, m)
  BY <1>7, <1>1, <1>3 DEF Covered, Range
<1> QED
  BY <1>10, <1>7, <1>1, <1>2, <1>3, <1>4, <1>5, NewOfFour DEF Brings, Shape

\* do.
LEMMA DoBrings ==
  ASSUME NEW m \in Nat
  PROVE  Brings(<<OpenBlock, BranchBlock({m + 1, m + 3}), OpenBlock>>, {m + 1}, <<m + 1>>, m + 2, m + 3, m)
<1>1. PICK a : a = OpenBlock /\ FreshBlock(a, m, 3)
  BY OpenFresh
<1>2. PICK b : b = BranchBlock({m + 1, m + 3}) /\ FreshBlock(b, m, 3) /\ b.ended
  <2>2. FreshBlock(BranchBlock({m + 1, m + 3}), m, 3)
    BY BranchFresh
  <2> QED
    BY <2>2, BranchEnded
<1>3. PICK c : c = OpenBlock /\ FreshBlock(c, m, 3)
  BY OpenFresh
<1>4. PICK new : new = <<a, b, c>>
  OBVIOUS
<1>6. Len(new) = 3 /\ new[1] = a /\ new[2] = b /\ new[3] = c
  BY <1>4
<1> QED
  BY <1>1, <1>2, <1>3, <1>4, <1>6, NewOfThree DEF Brings, Shape, Covered, Range

\* inf.
LEMMA InfBrings ==
  ASSUME NEW m \in Nat
  PROVE  Brings(<<OpenBlock, OpenBlock>>, {m + 1}, <<m + 1>>, m + 1, m + 2, m)
<1>1. PICK a : a = OpenBlock /\ FreshBlock(a, m, 2)
  BY OpenFresh
<1>2. PICK b : b = OpenBlock /\ FreshBlock(b, m, 2)
  BY OpenFresh
<1>3. PICK new : new = <<a, b>>
  OBVIOUS
<1>5. Len(new) = 2 /\ new[1] = a /\ new[2] = b
  BY <1>3
<1> QED
  BY <1>5, <1>1, <1>2, <1>3, NewOfTwo DEF Brings, Shape, Covered, Range

\* match.
LEMMA MatchBrings ==
  ASSUME NEW m \in Nat
  PROVE  Brings(<<BranchBlock({m + 2, m + 3}), OpenBlock, OpenBlock, OpenBlock>>, {m + 1, m + 3}, <<m + 2, m + 3>>, m + 4, m + 4, m)
<1>1. PICK a : a = BranchBlock({m + 2, m + 3}) /\ FreshBlock(a, m, 4) /\ a.ended
  <2>2. FreshBlock(BranchBlock({m + 2, m + 3}), m, 4)
    BY BranchFresh
  <2> QED
    BY <2>2, BranchEnded
<1>2. PICK b : b = OpenBlock /\ FreshBlock(b, m, 4)
  BY OpenFresh
<1>3. PICK c : c = OpenBlock /\ FreshBlock(c, m, 4)
  BY OpenFresh
<1>4. PICK d : d = OpenBlock /\ FreshBlock(d, m, 4)
  BY OpenFresh
<1>5. PICK new : new = <<a, b, c, d>>
  OBVIOUS
<1>7. Len(new) = 4 /\ new[1] = a /\ new[2] = b /\ new[3] = c /\ new[4] = d
  BY <1>5
<1>10. Covered(new, <<m + 2, m + 3>>, m + 4, m)
  BY <1>7, <1>1 DEF Covered, Range
<1> QED
  BY <1>10, <1>7, <1>1, <1>2, <1>3, <1>4, <1>5, NewOfFour DEF Brings, Shape

\* if.
LEMMA IfKeeps ==
  ASSUME CleanupInv, OpenIf
  PROVE  CleanupInv'
<1>1. Compound("if") /\ Reachable
  BY DEF OpenIf, Compound
<1>2. PICK m \in Nat : m = Len(clBlocks)
  BY <1>1, BlocksNumber
<1>3. PICK new : new = <<OpenBlock, OpenBlock>>
  OBVIOUS
<1>5. Open(new, {m + 1, m + 2}, <<m + 1>>, m + 2, m + 2, << >>)
  BY <1>2, <1>3 DEF OpenIf, B
<1>6. Brings(new, {m + 1, m + 2}, <<m + 1>>, m + 2, m + 2, m)
  BY <1>3, IfBrings
<1>8. Steers(clBreak', clBreak, new, m, Depth)
  BY DEF OpenIf, NoLoop, Steers
<1>9. Steers(clContinue', clContinue, new, m, Depth)
  BY DEF OpenIf, NoLoop, Steers
<1> QED
  BY ONLY CleanupInv, <1>1, <1>2, <1>5, <1>6, <1>8, <1>9, OpenedKeeps

\* if with else.
LEMMA IfElseKeeps ==
  ASSUME CleanupInv, OpenIfElse
  PROVE  CleanupInv'
<1>1. Compound("else") /\ Reachable
  BY DEF OpenIfElse, Compound
<1>2. PICK m \in Nat : m = Len(clBlocks)
  BY <1>1, BlocksNumber
<1>3. PICK new : new = <<OpenBlock, OpenBlock, OpenBlock>>
  OBVIOUS
<1>5. Open(new, {m + 1, m + 2}, <<m + 1, m + 2>>, m + 3, m + 3, << >>)
  BY <1>2, <1>3 DEF OpenIfElse, B
<1>6. Brings(new, {m + 1, m + 2}, <<m + 1, m + 2>>, m + 3, m + 3, m)
  BY <1>3, ElseBrings
<1>8. Steers(clBreak', clBreak, new, m, Depth)
  BY DEF OpenIfElse, NoLoop, Steers
<1>9. Steers(clContinue', clContinue, new, m, Depth)
  BY DEF OpenIfElse, NoLoop, Steers
<1> QED
  BY ONLY CleanupInv, <1>1, <1>2, <1>5, <1>6, <1>8, <1>9, OpenedKeeps

\* while.
LEMMA WhileKeeps ==
  ASSUME CleanupInv, OpenWhile
  PROVE  CleanupInv'
<1>1. Compound("while") /\ Reachable
  BY DEF OpenWhile, Compound
<1>2. PICK m \in Nat : m = Len(clBlocks)
  BY <1>1, BlocksNumber
<1>3. PICK new : new = <<BranchBlock({m + 2, m + 3}), OpenBlock, OpenBlock>>
  OBVIOUS
<1>5. Open(new, {m + 1}, <<m + 2>>, m + 1, m + 3, << >>)
  BY <1>2, <1>3 DEF OpenWhile, B
<1>6. Brings(new, {m + 1}, <<m + 2>>, m + 1, m + 3, m)
  BY <1>3, WhileBrings
<1>7. Len(new) = 3
  BY <1>3
<1>8. Steers(clBreak', clBreak, new, m, Depth)
  BY <1>2, <1>7 DEF Steers, OpenWhile, Breaks, B
<1>9. Steers(clContinue', clContinue, new, m, Depth)
  BY <1>2, <1>7 DEF Steers, OpenWhile, Continues, B
<1> QED
  BY ONLY CleanupInv, <1>1, <1>2, <1>5, <1>6, <1>8, <1>9, OpenedKeeps

\* foreach.
LEMMA ForeachKeeps ==
  ASSUME CleanupInv, OpenForeach
  PROVE  CleanupInv'
<1>1. Compound("foreach") /\ Reachable
  BY DEF OpenForeach, Compound
<1>2. PICK m \in Nat : m = Len(clBlocks)
  BY <1>1, BlocksNumber
<1>3. PICK new : new = <<BranchBlock({m + 2, m + 4}), OpenBlock, BranchBlock({m + 1}), OpenBlock>>
  OBVIOUS
<1>5. Open(new, {m + 1}, <<m + 2>>, m + 3, m + 4, << >>)
  BY <1>2, <1>3 DEF OpenForeach, B
<1>6. Brings(new, {m + 1}, <<m + 2>>, m + 3, m + 4, m)
  BY <1>3, EachBrings
<1>7. Len(new) = 4
  BY <1>3
<1>8. Steers(clBreak', clBreak, new, m, Depth)
  <2>2. m + 4 \in m + 1 .. m + Len(new)
    BY <1>7
  <2> QED
    BY <2>2, <1>2 DEF Steers, OpenForeach, Breaks, B
<1>9. Steers(clContinue', clContinue, new, m, Depth)
  <2>2. m + 3 \in m + 1 .. m + Len(new)
    BY <1>7
  <2> QED
    BY <2>2, <1>2 DEF Steers, OpenForeach, Continues, B
<1> QED
  BY ONLY CleanupInv, <1>1, <1>2, <1>5, <1>6, <1>8, <1>9, OpenedKeeps

\* do-while.
LEMMA DoWhileKeeps ==
  ASSUME CleanupInv, OpenDoWhile
  PROVE  CleanupInv'
<1>1. Compound("do") /\ Reachable
  BY DEF OpenDoWhile, Compound
<1>2. PICK m \in Nat : m = Len(clBlocks)
  BY <1>1, BlocksNumber
<1>3. PICK new : new = <<OpenBlock, BranchBlock({m + 1, m + 3}), OpenBlock>>
  OBVIOUS
<1>5. Open(new, {m + 1}, <<m + 1>>, m + 2, m + 3, << >>)
  BY <1>2, <1>3 DEF OpenDoWhile, B
<1>6. Brings(new, {m + 1}, <<m + 1>>, m + 2, m + 3, m)
  BY <1>3, DoBrings
<1>7. Len(new) = 3
  BY <1>3
<1>8. Steers(clBreak', clBreak, new, m, Depth)
  BY <1>2, <1>7 DEF Steers, OpenDoWhile, Breaks, B
<1>9. Steers(clContinue', clContinue, new, m, Depth)
  BY <1>2, <1>7 DEF Steers, OpenDoWhile, Continues, B
<1> QED
  BY ONLY CleanupInv, <1>1, <1>2, <1>5, <1>6, <1>8, <1>9, OpenedKeeps

\* inf.
LEMMA InfKeeps ==
  ASSUME CleanupInv, OpenInf
  PROVE  CleanupInv'
<1>1. Compound("inf") /\ Reachable
  BY DEF OpenInf, Compound
<1>2. PICK m \in Nat : m = Len(clBlocks)
  BY <1>1, BlocksNumber
<1>3. PICK new : new = <<OpenBlock, OpenBlock>>
  OBVIOUS
<1>5. Open(new, {m + 1}, <<m + 1>>, m + 1, m + 2, << >>)
  BY <1>2, <1>3 DEF OpenInf, B
<1>6. Brings(new, {m + 1}, <<m + 1>>, m + 1, m + 2, m)
  BY <1>3, InfBrings
<1>7. Len(new) = 2
  BY <1>3
<1>8. Steers(clBreak', clBreak, new, m, Depth)
  BY <1>2, <1>7 DEF Steers, OpenInf, Breaks, B
<1>9. Steers(clContinue', clContinue, new, m, Depth)
  <2>2. m + 1 \in m + 1 .. m + Len(new)
    BY <1>7
  <2> QED
    BY <2>2, <1>2 DEF Steers, OpenInf, Continues, B
<1> QED
  BY ONLY CleanupInv, <1>1, <1>2, <1>5, <1>6, <1>8, <1>9, OpenedKeeps

\* for: break and continue retain the scope of the initializer.
LEMMA ForKeeps ==
  ASSUME CleanupInv, OpenFor
  PROVE  CleanupInv'
<1>1. Compound("for") /\ Reachable
  BY DEF OpenFor, Compound
<1>2. PICK m \in Nat : m = Len(clBlocks)
  BY <1>1, BlocksNumber
<1>3. PICK new : new = <<BranchBlock({m + 2, m + 4}), OpenBlock, BranchBlock({m + 1}), OpenBlock>>
  OBVIOUS
<1>4. PICK outer : outer = [EmptyScope EXCEPT !.vars = <<Registered("var", Depth + 1)>>]
  OBVIOUS
<1>5. OpenWith(outer, new, {m + 1}, <<m + 2>>, m + 3, m + 4)
  BY <1>2, <1>3, <1>4 DEF OpenFor, B, OuterVar
<1>6. Brings(new, {m + 1}, <<m + 2>>, m + 3, m + 4, m)
  BY <1>3, EachBrings
<1>7. Len(new) = 4
  BY <1>3
<1>8. Steers(clBreak', clBreak, new, m, Depth + 1)
  BY <1>2, <1>7 DEF Steers, OpenFor, Breaks, B
<1>9. Steers(clContinue', clContinue, new, m, Depth + 1)
  BY <1>2, <1>7 DEF Steers, OpenFor, Continues, B
<1>10. "var" \in {"var", "zone"}
  OBVIOUS
<1> QED
  BY ONLY CleanupInv, <1>1, <1>2, <1>4, <1>5, <1>6, <1>8, <1>9, <1>10, OpenedWithKeeps

\* with.
LEMMA WithKeeps ==
  ASSUME CleanupInv, OpenWithStmt
  PROVE  CleanupInv'
<1>1. Compound("with") /\ Reachable
  BY DEF OpenWithStmt, Compound
<1>2. PICK m \in Nat : m = Len(clBlocks)
  BY <1>1, BlocksNumber
<1>3. PICK new : new = <<OpenBlock, OpenBlock, OpenBlock>>
  OBVIOUS
<1>4. PICK outer : outer = [EmptyScope EXCEPT !.vars = <<Registered("var", Depth + 1)>>]
  OBVIOUS
<1>5. OpenWith(outer, new, {m + 1, m + 2}, <<m + 1, m + 2>>, m + 3, m + 3)
  BY <1>2, <1>3, <1>4 DEF OpenWithStmt, B, OuterVar
<1>6. Brings(new, {m + 1, m + 2}, <<m + 1, m + 2>>, m + 3, m + 3, m)
  BY <1>3, ElseBrings
<1>8. Steers(clBreak', clBreak, new, m, Depth + 1)
  BY DEF OpenWithStmt, NoLoop, Steers
<1>9. Steers(clContinue', clContinue, new, m, Depth + 1)
  BY DEF OpenWithStmt, NoLoop, Steers
<1>10. "var" \in {"var", "zone"}
  OBVIOUS
<1> QED
  BY ONLY CleanupInv, <1>1, <1>2, <1>4, <1>5, <1>6, <1>8, <1>9, <1>10, OpenedWithKeeps

\* switch: break is its own, continue that of the loop around it.
LEMMA SwitchKeeps ==
  ASSUME CleanupInv, OpenSwitch
  PROVE  CleanupInv'
<1>1. Compound("switch") /\ Reachable
  BY DEF OpenSwitch, Compound
<1>2. PICK m \in Nat : m = Len(clBlocks)
  BY <1>1, BlocksNumber
<1>3. PICK new : new = <<OpenBlock, OpenBlock, OpenBlock>>
  OBVIOUS
<1>5. Open(new, {m + 1, m + 2}, <<m + 1, m + 2>>, m + 3, m + 3, << >>)
  BY <1>2, <1>3 DEF OpenSwitch, B
<1>6. Brings(new, {m + 1, m + 2}, <<m + 1, m + 2>>, m + 3, m + 3, m)
  BY <1>3, ElseBrings
<1>8. Steers(clBreak', clBreak, new, m, Depth)
  BY <1>2, <1>3 DEF Steers, OpenSwitch, Breaks, B
<1>9. Steers(clContinue', clContinue, new, m, Depth)
  BY DEF OpenSwitch, NoLoop, Steers
<1> QED
  BY ONLY CleanupInv, <1>1, <1>2, <1>5, <1>6, <1>8, <1>9, OpenedKeeps

\* match.
LEMMA MatchKeeps ==
  ASSUME CleanupInv, OpenMatch
  PROVE  CleanupInv'
<1>1. Compound("match") /\ Reachable
  BY DEF OpenMatch, Compound
<1>2. PICK m \in Nat : m = Len(clBlocks)
  BY <1>1, BlocksNumber
<1>3. PICK new : new = <<BranchBlock({m + 2, m + 3}), OpenBlock, OpenBlock, OpenBlock>>
  OBVIOUS
<1>5. Open(new, {m + 1, m + 3}, <<m + 2, m + 3>>, m + 4, m + 4, << >>)
  BY <1>2, <1>3 DEF OpenMatch, B
<1>6. Brings(new, {m + 1, m + 3}, <<m + 2, m + 3>>, m + 4, m + 4, m)
  BY <1>3, MatchBrings
<1>8. Steers(clBreak', clBreak, new, m, Depth)
  BY DEF OpenMatch, NoLoop, Steers
<1>9. Steers(clContinue', clContinue, new, m, Depth)
  BY DEF OpenMatch, NoLoop, Steers
<1> QED
  BY ONLY CleanupInv, <1>1, <1>2, <1>5, <1>6, <1>8, <1>9, OpenedKeeps

--------------------------------------------------------------------------------
(* A body ends. *)

\* What the innermost construct relies on.
InnermostRight(n, c, entry, exit, base) ==
  /\ n \in Nat \ {0} /\ c \in Constructions /\ clOpen \in Seq(Constructions)
  /\ base[n] \in Nat /\ base[n + 1] = Len(clScopes) /\ Len(clScopes) \in Nat
  /\ Len(clScopes) = base[n] + Width(c) /\ 1 <= base[n]
  /\ ConstructRight(c, clBlocks, clScopes, entry, exit, base[n], Len(clScopes) - 1)
  /\ clAt \notin Pending(c)

\* It holds of the construct opened last.
LEMMA InnermostFacts ==
  ASSUME NEW entry, NEW exit, NEW base, GeneratedNow(entry, exit, base), clOpen # << >>,
         NEW n, n = Len(clOpen), NEW c, c = clOpen[n]
  PROVE  InnermostRight(n, c, entry, exit, base)
<1>1. OpenRight(clBlocks, clAt, clScopes, clOpen, entry, exit, base) /\ ScopesRight(clScopes, clSimple + clCompound)
  BY DEF GeneratedNow, Generated
<1>2. clOpen \in Seq(Constructions) /\ Widths(clOpen, base, Len(clScopes))
  BY <1>1 DEF OpenRight
<1>3. n \in Nat \ {0} /\ Len(clScopes) \in Nat
  BY <1>1, <1>2, EmptySeq, LenProperties DEF ScopesRight
<1>4. n \in 1 .. Len(clOpen) /\ n \in 1 .. Len(clOpen) + 1 /\ 1 \in 1 .. Len(clOpen) + 1
  BY <1>3
<1>6. base[n] \in Nat /\ base[n + 1] = Len(clScopes)
  BY <1>2, <1>4 DEF Widths
<1>8. 1 <= base[n]
  <2>1. base[1] = 1
    BY <1>2 DEF Widths
  <2>2. CASE n = 1
    BY <2>1, <2>2
  <2>3. CASE n # 1
    BY <1>6, <2>1, <1>2, <1>4, <1>3, <2>3 DEF Widths
  <2> QED
    BY <2>2, <2>3
<1> QED
  BY <1>2, <1>3, <1>6, <1>8, <1>1, <1>4, ElementOfSeq DEF InnermostRight, OpenRight, Widths

\* made is what the end of a body makes of the blocks, with Y at its end.
Ends(made, Y, entry, exit, c) ==
  /\ Y \in SUBSET Registrations
  /\ Graph(made, entry, [exit EXCEPT ![clAt] = Y]) /\ SameBut(clAt, clBlocks, made)
  /\ c.back # 0 => made[clAt].ended
  /\ ~made[clAt].ended => Y = Held(clScopes, Len(clScopes) - 1)

\* What the body has registered is cleaned up where its end is reached.
LEMMA BodyEndsRight ==
  ASSUME NEW entry, NEW exit, NEW base, GeneratedNow(entry, exit, base), clOpen # << >>
  PROVE  \E Y : Ends(BodyEnded, Y, entry, exit, Construct)
<1>1. PICK n : n = Len(clOpen)
  OBVIOUS
<1>2. PICK c : c = clOpen[n] /\ c = Construct
  BY <1>1 DEF Construct
<1>4. ConstructRight(c, clBlocks, clScopes, entry, exit, base[n], Len(clScopes) - 1)
  BY <1>1, <1>2, InnermostFacts DEF InnermostRight
<1>5. /\ Graph(clBlocks, entry, exit) /\ ScopesRight(clScopes, clSimple + clCompound)
      /\ clAt \in DOMAIN clBlocks
      /\ ~clBlocks[clAt].ended => exit[clAt] = Held(clScopes, Len(clScopes))
  BY DEF GeneratedNow, Generated
<1>6. Len(clScopes) \in Nat \ {0} /\ Depth = Len(clScopes)
  BY <1>5, EmptySeq, LenProperties DEF Depth, ScopesRight
<1>7. PICK p : p = ScopeCleanup(clScopes[Depth], {})
  OBVIOUS
<1>8. PICK cleaned : cleaned = Emit(clBlocks, clAt, p)
  OBVIOUS
<1>9. BodyEnded = IF c.back = 0 THEN cleaned ELSE BranchTo(cleaned, clAt, {c.back})
  BY <1>2, <1>7, <1>8 DEF BodyEnded
<1>10. exit \in [DOMAIN clBlocks -> SUBSET Registrations]
  BY <1>5 DEF Graph
<1>12. CASE clBlocks[clAt].ended
  <2>4. PICK Y \in SUBSET Registrations : Y = exit[clAt]
    BY <1>5, <1>10
  <2> QED
    BY <1>2, <1>5, <1>12, <2>4, <1>10, <1>9, <1>8, EmitEnded DEF Ends, SameBut, BranchTo, Ended
<1>13. CASE ~clBlocks[clAt].ended
  <2>1. Depth \in 1 .. Depth /\ Depth - 1 \in 0 .. Len(clScopes)
    BY <1>6
  <2>2. p \in Seq(Instructions) /\ Runs(p, Held(clScopes, Depth) \cup {}, Held(clScopes, Depth - 1) \cup {}, {})
    BY <1>5, <1>7, <2>1, NoMoves, ScopeRuns
  <2>4. PICK Y \in SUBSET Registrations : Y = Held(clScopes, Depth - 1)
    BY <1>5, <2>1, HeldFacts
  <2>5. Runs(p, exit[clAt], Y, {})
    BY <1>5, <1>6, <1>13, <2>2, <2>4
  <2>6. PICK exit2 : exit2 = [exit EXCEPT ![clAt] = Y]
    OBVIOUS
  <2>7. Graph(cleaned, entry, exit2) /\ SameBut(clAt, clBlocks, cleaned) /\ ~cleaned[clAt].ended
    BY ONLY <1>5, <1>8, <1>13, <2>2, <2>5, <2>6, Y \in SUBSET Registrations, GraphEmit
  <2>8. CASE c.back = 0
    BY <1>2, <2>6, <2>7, <2>8, <1>6, <2>4, <1>9 DEF Ends
  <2>9. CASE c.back # 0
    <3>1. PICK b \in DOMAIN clBlocks : b = c.back /\ entry[b] = Y
      BY <1>6, <2>4, <2>9, <1>4 DEF ConstructRight
    <3>3. {b} \in SUBSET DOMAIN cleaned /\ {b} # {} /\ clAt \in DOMAIN cleaned /\ exit2[clAt] = Y
      BY <1>5, <1>10, <2>6, <2>7 DEF SameBut
    <3>4. \A k \in {b} : entry[k] = exit2[clAt]
      BY <3>1, <3>3
    <3>5. /\ Graph(BranchTo(cleaned, clAt, {b}), entry, exit2) /\ SameBut(clAt, cleaned, BranchTo(cleaned, clAt, {b}))
          /\ BranchTo(cleaned, clAt, {b})[clAt].ended
      BY ONLY <2>7, <3>3, <3>4, GraphBranch
    <3> QED
      BY <1>2, <2>6, <2>7, <3>5, SameButBoth, <1>9, <2>9, <3>1 DEF Ends
  <2> QED
    BY <2>8, <2>9
<1> QED
  BY <1>12, <1>13

\* The generator goes on without a statement more.
LEMMA NextKeeps ==
  ASSUME CleanupInv, NextBody
  PROVE  CleanupInv'
<1>1. /\ clPhase = "function" /\ clOpen # << >> /\ Construct.bodies # << >> /\ Generate(BodyEnded)
      /\ clBreak' = clBreak /\ clContinue' = clContinue /\ clSimple' = clSimple /\ clCompound' = clCompound
      /\ clSimple \in Nat /\ clCompound \in Nat
  BY DEF NextBody, CleanupInv
<1>2. PICK entry, exit, base : GeneratedNow(entry, exit, base)
  BY <1>1 DEF CleanupInv
<1>3. PICK n : n = Len(clOpen)
  OBVIOUS
<1>4. PICK c : c = clOpen[n] /\ c = Construct
  BY <1>3 DEF Construct
<1>5. /\ n \in Nat \ {0} /\ c \in Constructions /\ clOpen \in Seq(Constructions)
      /\ base[n] \in Nat /\ base[n + 1] = Len(clScopes) /\ Len(clScopes) \in Nat
      /\ Len(clScopes) = base[n] + Width(c)
      /\ ConstructRight(c, clBlocks, clScopes, entry, exit, base[n], Len(clScopes) - 1)
      /\ clAt \notin Pending(c)
  <2>1. InnermostRight(n, c, entry, exit, base)
    BY <1>1, <1>2, <1>3, <1>4, InnermostFacts
  <2> QED
    BY <2>1 DEF InnermostRight
<1>6. PICK Y : Ends(BodyEnded, Y, entry, exit, c)
  BY <1>1, <1>2, <1>4, BodyEndsRight
<1>7. PICK b \in Nat : c.bodies = <<b>> /\ b # c.end
  BY <1>1, <1>4, <1>5 DEF ConstructRight
<1>8. c.back # 0
  BY <1>1, <1>4, <1>5 DEF ConstructRight
<1>9. PICK made : made = BodyEnded
  OBVIOUS
<1>10. PICK exit2 : exit2 = [exit EXCEPT ![clAt] = Y]
  OBVIOUS
<1>11. /\ Graph(made, entry, exit2) /\ DOMAIN made = DOMAIN clBlocks /\ made[clAt].ended
       /\ \A k \in DOMAIN clBlocks : k # clAt => made[k] = clBlocks[k]
  BY <1>6, <1>8, <1>9, <1>10 DEF Ends, SameBut
<1>12. /\ Graph(clBlocks, entry, exit) /\ ScopesRight(clScopes, clSimple + clCompound)
       /\ clAt \in DOMAIN clBlocks /\ 1 \in DOMAIN clBlocks /\ entry[1] = {}
       /\ OpenRight(clBlocks, clAt, clScopes, clOpen, entry, exit, base)
       /\ TargetRight(clBreak, clBlocks, clScopes, entry, Len(clScopes))
       /\ TargetRight(clContinue, clBlocks, clScopes, entry, Len(clScopes))
  BY <1>2 DEF GeneratedNow, Generated
<1>13. \A k \in DOMAIN clBlocks : k # clAt => exit2[k] = exit[k]
  BY <1>10, <1>12 DEF Graph
<1>14. PICK d \in Nat \ {0} : d = Len(clScopes) /\ d = Depth
  BY <1>12, EmptySeq, LenProperties DEF ScopesRight, Depth
<1>15. PICK s \in Nat : s = clSimple + clCompound
  BY <1>1
<1>16. PICK scopes2 : scopes2 = clScopes'
  OBVIOUS
<1>17. ScopesRight(scopes2, s) /\ Len(scopes2) = d /\ (\A k \in 1 .. d - 1 : scopes2[k] = clScopes[k]) /\ scopes2[d] = EmptyScope
  <2>1. PICK new \in Scopes : new = EmptyScope
    BY EmptyScopeRight
  <2>2. ScopeRight(new, Len(clScopes), s)
    BY <2>1, EmptyScopeRight
  <2>3. scopes2 = [clScopes EXCEPT ![Len(clScopes)] = new]
    BY <1>14, <1>16, <2>1 DEF NextBody
  <2>4. ScopesRight(clScopes, s) /\ s <= s
    BY <1>12, <1>15
  <2>5. ScopesRight(scopes2, s)
    BY ONLY <2>2, <2>3, <2>4, s \in Nat, new \in Scopes, InnermostChanged
  <2>6. Len(scopes2) = Len(clScopes)
    BY ONLY <2>2, <2>3, <2>4, s \in Nat, new \in Scopes, InnermostChanged
  <2>7. \A k \in 1 .. Len(clScopes) - 1 : scopes2[k] = clScopes[k]
    BY ONLY <2>2, <2>3, <2>4, s \in Nat, new \in Scopes, InnermostChanged
  <2>8. scopes2[Len(clScopes)] = new
    <3>1. DOMAIN clScopes = 1 .. Len(clScopes)
      BY <2>4, LenProperties DEF ScopesRight
    <3> QED
      BY <1>14, <2>3, <3>1
  <2> QED
    BY <1>14, <2>1, <2>5, <2>6, <2>7, <2>8
<1>18. PICK e \in Nat : e = d - 1
  OBVIOUS
<1>19. Held(scopes2, e) = Held(clScopes, e) /\ Held(scopes2, d) = Held(clScopes, e)
  <2>3. Held(scopes2, d) = Held(scopes2, d - 1) \cup In(scopes2[d])
    BY HeldNext
  <2> QED
    BY <1>17, <1>18, <2>3, HeldSame, EmptyScopeRight
<1>20. TargetRight(clBreak, made, scopes2, entry, d) /\ TargetRight(clContinue, made, scopes2, entry, d)
  <2>1. TargetRight(clBreak, clBlocks, clScopes, entry, d) /\ TargetRight(clContinue, clBlocks, clScopes, entry, d)
    BY <1>12, <1>14
  <2>2. d \in Nat /\ d <= d /\ DOMAIN clBlocks \subseteq DOMAIN made /\ (\A k \in 1 .. d - 1 : scopes2[k] = clScopes[k])
    BY <1>11, <1>17
  <2> QED
    BY ONLY <2>1, <2>2, TargetKept
<1>21. b \in Pending(c) /\ Pending(c) \subseteq {b, c.end}
  BY <1>7, PendingOfOne DEF Pending, Range
<1>22. b \in DOMAIN clBlocks /\ exit[b] = Held(clScopes, e) /\ b # clAt
  BY <1>5, <1>14, <1>18, <1>21 DEF ConstructRight
<1>24. PICK c2 : c2 = [c EXCEPT !.bodies = << >>]
  OBVIOUS
<1>25. /\ c2 \in Constructions /\ c2.bodies = << >> /\ c2.back = c.back /\ c2.end = c.end
       /\ c2.brk = c.brk /\ c2.cont = c.cont
  <2>1. << >> \in Seq(Nat)
    OBVIOUS
  <2> QED
    BY <1>5, <1>24, <2>1 DEF Constructions
<1>41. Width(c2) = Width(c)
  BY <1>5, <1>24 DEF Width, Constructions
<1>26. PICK open2 : open2 = clOpen'
  OBVIOUS
<1>27. open2 \in Seq(Constructions) /\ Len(open2) = n /\ open2[n] = c2 /\ \A i \in 1 .. n : i # n => open2[i] = clOpen[i]
  <2>1. n \in 1 .. Len(clOpen)
    BY <1>3, <1>5
  <2>2. Tail(c.bodies) = << >>
    BY <1>7
  <2>3. open2 = [clOpen EXCEPT ![n] = c2]
    BY <1>3, <1>4, <1>24, <1>26, <2>1, <2>2 DEF NextBody
  <2> QED
    BY <1>3, <2>1, <1>5, <1>25, <2>3, ExceptSeq
<1>28. Pending(c2) \subseteq Pending(c) /\ b \notin Pending(c2)
  BY <1>7, <1>25 DEF Pending, Range
<1>29. \A k \in Pending(c) : k = b \/ k \in Pending(c2)
  BY <1>21, <1>25, PendingOfNone, <1>5, <1>8 DEF ConstructRight
<1>30. Widths(clOpen, base, d) /\ \A i \in 1 .. n : Width(open2[i]) = Width(clOpen[i])
  BY <1>4, <1>12, <1>14, <1>27, <1>41 DEF OpenRight
<1>31. Widths(open2, base, d)
  BY <1>3, <1>27, <1>30 DEF Widths
<1>32. ASSUME NEW i \in 1 .. n
       PROVE  /\ ConstructRight(clOpen[i], made, scopes2, entry, exit2, base[i], base[i + 1] - 1)
              /\ Pending(clOpen[i]) \subseteq DOMAIN clBlocks /\ clAt \notin Pending(clOpen[i])
  <2>1. base[i] \in Nat /\ base[i + 1] \in Nat /\ base[i + 1] - 1 \in Nat /\ base[i] <= base[i + 1] - 1 /\ base[i + 1] <= d
    BY <1>3, <1>5, <1>30, WidthFacts
  <2>2. PICK f \in Nat : f = base[i]
    BY <2>1
  <2>3. PICK g \in Nat : g = base[i + 1] - 1
    BY <2>1
  <2>4. f - 1 <= g /\ g <= d - 1
    BY <2>1, <2>2, <2>3
  <2>5. ConstructRight(clOpen[i], clBlocks, clScopes, entry, exit, f, g) /\ clAt \notin Pending(clOpen[i])
    BY <1>3, <1>12, <2>2, <2>3 DEF OpenRight
  <2>6. Pending(clOpen[i]) \subseteq DOMAIN clBlocks
    BY <2>5 DEF ConstructRight
  <2>7. \A k \in Pending(clOpen[i]) : exit2[k] = exit[k]
    BY <1>13, <2>5, <2>6
  <2>8. \A k \in 1 .. g : scopes2[k] = clScopes[k]
    BY ONLY <1>17, <2>4, d \in Nat \ {0}, g \in Nat
  <2>9. DOMAIN clBlocks \subseteq DOMAIN made /\ \A k \in DOMAIN clBlocks : entry[k] = entry[k]
    BY <1>11
  <2>10. ConstructRight(clOpen[i], made, scopes2, entry, exit2, f, g)
    <3>1. Spared(clOpen[i], clBlocks, clScopes, entry, exit, made, scopes2, entry, exit2, f, g)
      BY <2>4, <2>7, <2>8, <2>9 DEF Spared
    <3> QED
      BY ONLY <2>5, <3>1, f \in Nat, g \in Nat, ConstructKept
  <2> QED
    BY <2>2, <2>3, <2>5, <2>6, <2>10
<1>33. ASSUME NEW i \in 1 .. n
       PROVE  ConstructRight(open2[i], made, scopes2, entry, exit2, base[i], base[i + 1] - 1)
  <2>1. CASE i = n
    <3>1. ConstructRight(c, made, scopes2, entry, exit2, base[n], base[n + 1] - 1)
      BY <1>4, <1>32, <2>1
    <3> QED
      BY <1>27, <2>1, <1>25, <1>28, <3>1 DEF ConstructRight
  <2>2. CASE i # n
    BY <1>27, <1>32, <2>2
  <2> QED
    BY <2>1, <2>2
<1>34. \A i \in 1 .. n : Pending(open2[i]) \subseteq Pending(clOpen[i])
  BY <1>4, <1>27, <1>28
<1>35. \A i, j \in 1 .. n : i # j => Pending(clOpen[i]) \cap Pending(clOpen[j]) = {}
  BY <1>3, <1>12 DEF OpenRight
<1>37. \A i \in 1 .. n : b \notin Pending(open2[i])
  <2> TAKE i \in 1 .. n
  <2>1. CASE i = n
    BY <1>27, <1>28, <2>1
  <2>2. CASE i # n
    <3>1. n \in 1 .. n
      BY <1>5
    <3> QED
      BY <1>4, <1>21, <1>34, <1>35, <2>2, <3>1
  <2> QED
    BY <2>1, <2>2
<1>38. ASSUME NEW k \in DOMAIN made, ~made[k].ended
       PROVE  k = b \/ \E i \in 1 .. n : k \in Pending(open2[i])
  <2>2. PICK i \in 1 .. n : k \in Pending(clOpen[i])
    BY <1>3, <1>12, <1>11, <1>38 DEF OpenRight
  <2>3. CASE i = n
    BY <1>4, <1>27, <1>29, <2>2, <2>3
  <2>4. CASE i # n
    BY <1>27, <2>2, <2>4
  <2> QED
    BY <2>3, <2>4
<1>39. OpenRight(made, b, scopes2, open2, entry, exit2, base)
  BY <1>17, <1>27, <1>31, <1>33, <1>37, <1>38, <1>34, <1>35 DEF OpenRight
<1>40. Generated(made, b, scopes2, open2, clBreak, clContinue, s, entry, exit2, base)
  BY <1>11, <1>12, <1>17, <1>20, <1>22, <1>39, <1>13, <1>19 DEF Generated
<1>42. clBlocks' = made /\ clAt' = b
  BY <1>4, <1>7, <1>9 DEF NextBody, Generate
<1> QED
  BY <1>1, GoesOn, <1>15, <1>16, <1>26, <1>40, <1>42 DEF GeneratedNow

\* made is what the end of a construct whose scopes lie above depth f makes of the
\* blocks; generation goes on at end.
Closes(made, end, f, entry, exit, exit2) ==
  /\ Graph(made, entry, exit2) /\ DOMAIN made = DOMAIN clBlocks /\ end \in DOMAIN clBlocks
  /\ \A k \in DOMAIN clBlocks : k # clAt /\ k # end => made[k] = clBlocks[k] /\ exit2[k] = exit[k]
  /\ ~made[end].ended => exit2[end] = Held(clScopes, f)
  /\ end # clAt => made[clAt].ended

\* The cleanup of an outer scope stands at the end of the construct.
LEMMA CloseEndsRight ==
  ASSUME NEW entry, NEW exit, NEW base, GeneratedNow(entry, exit, base), clOpen # << >>,
         NEW n, n = Len(clOpen), NEW c, c = Construct, c.bodies = << >>,
         NEW end, end = IF c.end = 0 THEN clAt ELSE c.end,
         NEW made, made = IF c.outer THEN Emit(BodyEnded, end, ScopeCleanup(clScopes[Depth - 1], {}))
                                     ELSE BodyEnded
  PROVE  \E exit2 : Closes(made, end, base[n], entry, exit, exit2)
<1>2. InnermostRight(n, c, entry, exit, base)
  BY InnermostFacts DEF Construct
<1>3. /\ Graph(clBlocks, entry, exit) /\ ScopesRight(clScopes, clSimple + clCompound)
      /\ clAt \in DOMAIN clBlocks
  BY DEF GeneratedNow, Generated
<1>4. PICK d \in Nat \ {0} : d = Len(clScopes) /\ d = Depth
  BY <1>3, EmptySeq, LenProperties DEF ScopesRight, Depth
<1>5. PICK Y : Ends(BodyEnded, Y, entry, exit, c)
  BY BodyEndsRight
<1>6. PICK made1 : made1 = BodyEnded
  OBVIOUS
<1>7. PICK exit1 : exit1 = [exit EXCEPT ![clAt] = Y]
  OBVIOUS
<1>8. /\ Graph(made1, entry, exit1) /\ DOMAIN made1 = DOMAIN clBlocks
      /\ \A k \in DOMAIN clBlocks : k # clAt => made1[k] = clBlocks[k]
      /\ c.back # 0 => made1[clAt].ended
      /\ ~made1[clAt].ended => Y = Held(clScopes, d - 1)
  BY <1>4, <1>5, <1>6, <1>7 DEF Ends, SameBut
<1>10. exit1[clAt] = Y /\ \A k \in DOMAIN clBlocks : k # clAt => exit1[k] = exit[k]
  BY <1>3, <1>7 DEF Graph
<1>11. ConstructRight(c, clBlocks, clScopes, entry, exit, base[n], d - 1) /\ clAt \notin Pending(c)
  BY <1>2, <1>4 DEF InnermostRight
<1>12. c.end # 0 => end = c.end /\ end \in Pending(c) /\ c.back # 0
  BY <1>11 DEF ConstructRight, Pending
<1>13. end \in DOMAIN clBlocks /\ (end # clAt => made1[clAt].ended)
  <2>1. CASE c.end = 0
    BY <1>3, <2>1
  <2>2. CASE c.end # 0
    BY <1>8, <1>11, <1>12, <2>2 DEF ConstructRight
  <2> QED
    BY <2>1, <2>2
<1>14. ~made1[end].ended => exit1[end] = Held(clScopes, d - 1)
  <2>1. CASE c.end = 0
    BY <1>8, <1>10, <2>1
  <2>2. CASE c.end # 0
    BY <1>10, <1>13, <1>11, <1>12, <2>2 DEF ConstructRight
  <2> QED
    BY <2>1, <2>2
<1>15. base[n] \in Nat /\ d = base[n] + Width(c) /\ 1 <= base[n]
  BY <1>2, <1>4 DEF InnermostRight
<1>16. PICK f \in Nat : f = base[n]
  BY <1>15
<1>17. CASE ~c.outer
  BY <1>16, <1>8, <1>10, <1>13, <1>14, <1>15, <1>17, <1>6 DEF Closes, Width
<1>18. CASE c.outer
  <2>1. f = d - 2 /\ d - 1 \in 1 .. d /\ d - 1 \in 1 .. Depth /\ (d - 1) - 1 = f /\ f \in 0 .. Len(clScopes)
    BY <1>4, <1>15, <1>16, <1>18 DEF Width
  <2>2. PICK e \in 1 .. Depth : e = d - 1
    BY <2>1
  <2>3. PICK p : p = ScopeCleanup(clScopes[e], {})
    OBVIOUS
  <2>4. made = Emit(made1, end, p)
    BY <1>4, <1>6, <1>18, <2>2, <2>3
  <2>5. CASE made1[end].ended
    BY <1>16, <1>8, <1>10, <1>13, <2>5, <2>4, EmitEnded DEF Closes
  <2>6. CASE ~made1[end].ended
    <3>1. p \in Seq(Instructions) /\ Runs(p, Held(clScopes, e) \cup {}, Held(clScopes, e - 1) \cup {}, {})
      BY <1>3, <2>3, NoMoves, ScopeRuns
    <3>3. PICK Z \in SUBSET Registrations : Z = Held(clScopes, f)
      BY <1>3, <2>1, HeldFacts
    <3>6. Runs(p, exit1[end], Z, {})
      BY <3>1, <3>3, <1>14, <2>2, <2>6, <2>1
    <3>7. PICK exit2 : exit2 = [exit1 EXCEPT ![end] = Z]
      OBVIOUS
    <3>8. Graph(made1, entry, exit1) /\ end \in DOMAIN made1 /\ ~made1[end].ended
      BY <1>8, <1>13, <2>6
    <3>9. Graph(made, entry, exit2) /\ SameBut(end, made1, made)
      BY ONLY <2>4, <3>1, <3>6, <3>7, <3>8, Z \in SUBSET Registrations, GraphEmit
    <3>15. Closes(made, end, f, entry, exit, exit2)
      BY <1>13, <3>3, <3>9, <1>8, <1>10, <1>3, <3>7, <3>8 DEF Closes, SameBut, Graph
    <3> QED
      BY <1>16, <3>15
  <2> QED
    BY <2>5, <2>6
<1> QED
  BY <1>17, <1>18

\* The first f of some scopes are right.
LEMMA ScopesFewer ==
  ASSUME NEW scopes, NEW s, ScopesRight(scopes, s), NEW f \in Nat \ {0}, f <= Len(scopes),
         NEW scopes2, scopes2 = SubSeq(scopes, 1, f)
  PROVE  /\ ScopesRight(scopes2, s) /\ Len(scopes2) = f
         /\ \A k \in 1 .. f : scopes2[k] = scopes[k]
<1>1. PICK d \in Nat : d = Len(scopes)
  BY LenProperties DEF ScopesRight
<1> QED
  BY <1>1, ElementOfSeq DEF ScopesRight

\* The end of a construct gives back what was there before it.
LEMMA CloseKeeps ==
  ASSUME CleanupInv, CloseConstruct
  PROVE  CleanupInv'
<1>1. /\ clPhase = "function" /\ clOpen # << >> /\ Construct.bodies = << >>
      /\ clBreak' = Construct.brk /\ clContinue' = Construct.cont
      /\ clSimple' = clSimple /\ clCompound' = clCompound
      /\ clSimple \in Nat /\ clCompound \in Nat
  BY DEF CloseConstruct, CleanupInv
<1>2. PICK entry, exit, base : GeneratedNow(entry, exit, base)
  BY <1>1 DEF CleanupInv
<1>3. PICK n : n = Len(clOpen)
  OBVIOUS
<1>4. PICK c : c = clOpen[n] /\ c = Construct
  BY <1>3 DEF Construct
<1>5. InnermostRight(n, c, entry, exit, base)
  BY <1>1, <1>2, <1>3, <1>4, InnermostFacts
<1>6. PICK end : end = IF c.end = 0 THEN clAt ELSE c.end
  OBVIOUS
<1>7. PICK made : made = IF c.outer THEN Emit(BodyEnded, end, ScopeCleanup(clScopes[Depth - 1], {}))
                                    ELSE BodyEnded
  OBVIOUS
<1>8. Generate(made) /\ clAt' = end
  BY <1>4, <1>6, <1>7 DEF CloseConstruct
<1>9. PICK exit2 : Closes(made, end, base[n], entry, exit, exit2)
  BY <1>1, <1>2, <1>3, <1>4, <1>6, <1>7, CloseEndsRight
<1>10. /\ Graph(clBlocks, entry, exit) /\ ScopesRight(clScopes, clSimple + clCompound)
       /\ clAt \in DOMAIN clBlocks /\ 1 \in DOMAIN clBlocks /\ entry[1] = {}
       /\ OpenRight(clBlocks, clAt, clScopes, clOpen, entry, exit, base)
  BY <1>2 DEF GeneratedNow, Generated
<1>11. PICK d \in Nat \ {0} : d = Len(clScopes) /\ d = Depth
  BY <1>10, EmptySeq, LenProperties DEF ScopesRight, Depth
<1>12. PICK s \in Nat : s = clSimple + clCompound
  BY <1>1
<1>13. n \in Nat \ {0} /\ c \in Constructions /\ clOpen \in Seq(Constructions)
  BY <1>5 DEF InnermostRight
<1>14. PICK f \in Nat \ {0} : f = base[n] /\ d = f + Width(c)
  BY <1>5, <1>11 DEF InnermostRight
<1>17. /\ Graph(made, entry, exit2) /\ DOMAIN made = DOMAIN clBlocks /\ end \in DOMAIN clBlocks
       /\ \A k \in DOMAIN clBlocks : k # clAt /\ k # end => made[k] = clBlocks[k] /\ exit2[k] = exit[k]
       /\ ~made[end].ended => exit2[end] = Held(clScopes, f)
       /\ end # clAt => made[clAt].ended
  BY <1>9, <1>14 DEF Closes
<1>18. PICK scopes2 : scopes2 = clScopes'
  OBVIOUS
<1>19. scopes2 = SubSeq(clScopes, 1, f)
  BY <1>4, <1>18, <1>11, <1>14 DEF CloseConstruct, Width
<1>20. f <= Len(clScopes) /\ ScopesRight(clScopes, s)
  BY <1>10, <1>11, <1>12, <1>14 DEF Width
<1>21. ScopesRight(scopes2, s)
  BY ONLY <1>19, <1>20, f \in Nat \ {0}, ScopesFewer
<1>22. Len(scopes2) = f
  BY ONLY <1>19, <1>20, f \in Nat \ {0}, ScopesFewer
<1>23. \A k \in 1 .. f : scopes2[k] = clScopes[k]
  BY ONLY <1>19, <1>20, f \in Nat \ {0}, ScopesFewer
<1>25. TargetRight(c.brk, made, scopes2, entry, f) /\ TargetRight(c.cont, made, scopes2, entry, f)
  <2>1. TargetRight(c.brk, clBlocks, clScopes, entry, f) /\ TargetRight(c.cont, clBlocks, clScopes, entry, f)
    BY <1>5, <1>11, <1>14 DEF ConstructRight, InnermostRight
  <2>2. f \in Nat /\ f <= f /\ DOMAIN clBlocks \subseteq DOMAIN made /\ (\A k \in 1 .. f - 1 : scopes2[k] = clScopes[k])
    BY <1>17, <1>23
  <2> QED
    BY ONLY <2>1, <2>2, TargetKept
<1>26. PICK open2 : open2 = clOpen'
  OBVIOUS
<1>27. PICK m \in Nat : n = m + 1
  BY <1>13
<1>28. open2 \in Seq(Constructions) /\ Len(open2) = m /\ \A i \in 1 .. m : open2[i] = clOpen[i]
  <2>1. open2 = SubSeq(clOpen, 1, m)
    BY <1>26, <1>3, <1>27 DEF CloseConstruct
  <2>2. \A i \in 1 .. m : clOpen[i] \in Constructions
    <3> TAKE i \in 1 .. m
    <3>1. i \in 1 .. Len(clOpen)
      BY <1>3, <1>27
    <3> QED
      BY <1>13, <3>1, ElementOfSeq
  <2> QED
    BY <1>13, <2>1, <2>2, <1>3, <1>27
<1>29. Widths(clOpen, base, d)
  BY <1>10, <1>11 DEF OpenRight
<1>30. PICK base2 : base2 = [i \in 1 .. m + 1 |-> base[i]]
  OBVIOUS
<1>31. base2 \in [1 .. m + 1 -> Nat] /\ \A i \in 1 .. m + 1 : base2[i] = base[i]
  BY <1>3, <1>27, <1>29, <1>30 DEF Widths
<1>32. Widths(open2, base2, f)
  <2>2. \A i \in 1 .. m : base2[i + 1] = base2[i] + Width(open2[i])
    <3> TAKE i \in 1 .. m
    <3>1. i \in 1 .. n /\ i \in 1 .. m + 1 /\ i + 1 \in 1 .. m + 1
      BY <1>27
    <3> QED
      BY <1>28, <1>31, <3>1, <1>3, <1>29 DEF Widths
  <2> QED
    BY <1>28, <1>31, <2>2, <1>14, <1>27, <1>29, <1>3 DEF Widths
<1>33. \A i, j \in 1 .. n : i # j => Pending(clOpen[i]) \cap Pending(clOpen[j]) = {}
  BY <1>3, <1>10 DEF OpenRight
<1>35. ASSUME NEW i \in 1 .. m
       PROVE  /\ ConstructRight(open2[i], made, scopes2, entry, exit2, base2[i], base2[i + 1] - 1)
              /\ end \notin Pending(open2[i])
  <2>0. i \in 1 .. n /\ i \in 1 .. Len(clOpen) /\ n \in 1 .. n /\ i # n /\ i \in 1 .. m + 1 /\ i + 1 \in 1 .. m + 1
    BY <1>3, <1>27
  <2>1. base[i] \in Nat /\ base[i + 1] - 1 \in Nat /\ base[i] <= base[i + 1] - 1
    BY <1>13, <1>29, <2>0, WidthFacts
  <2>2. PICK f1 \in Nat : f1 = base[i]
    BY <2>1
  <2>3. PICK g \in Nat : g = base[i + 1] - 1
    BY <2>1
  <2>4. f1 - 1 <= g /\ g <= f - 1
    <3>1. base2[i + 1] \in Nat /\ base2[i + 1] <= f
      <4>2. base2[m + 1] = f /\ m + 1 \in 1 .. m + 1
        BY <1>28, <1>32 DEF Widths
      <4>3. i + 1 < m + 1 => base2[i + 1] < base2[m + 1]
        BY <1>28, <1>32, <2>0, <4>2 DEF Widths
      <4> QED
        BY <2>0, <4>2, <4>3, <1>31
    <3> QED
      BY <1>31, <2>0, <2>1, <2>2, <2>3, <3>1
  <2>5. ConstructRight(clOpen[i], clBlocks, clScopes, entry, exit, f1, g) /\ clAt \notin Pending(clOpen[i])
    BY <1>10, <2>0, <2>2, <2>3 DEF OpenRight
  <2>7. end \notin Pending(clOpen[i])
    <3>1. CASE c.end = 0
      BY <1>6, <2>5, <3>1
    <3>2. CASE c.end # 0
      BY <1>4, <1>33, <2>0, <3>2, <1>6 DEF Pending
    <3> QED
      BY <3>1, <3>2
  <2>8. \A k \in Pending(clOpen[i]) : exit2[k] = exit[k]
    BY <1>17, <2>5, <2>7 DEF ConstructRight
  <2>9. \A k \in 1 .. g : scopes2[k] = clScopes[k]
    BY ONLY <1>23, <2>4, f \in Nat \ {0}, g \in Nat
  <2>10. DOMAIN clBlocks \subseteq DOMAIN made /\ \A k \in DOMAIN clBlocks : entry[k] = entry[k]
    BY <1>17
  <2>11. ConstructRight(clOpen[i], made, scopes2, entry, exit2, f1, g)
    <3>1. Spared(clOpen[i], clBlocks, clScopes, entry, exit, made, scopes2, entry, exit2, f1, g)
      BY <2>4, <2>8, <2>9, <2>10 DEF Spared
    <3> QED
      BY ONLY <2>5, <3>1, f1 \in Nat, g \in Nat, ConstructKept
  <2> QED
    BY <1>28, <1>31, <2>0, <2>2, <2>3, <2>7, <2>11
<1>36. \A i, j \in 1 .. m : i # j => Pending(open2[i]) \cap Pending(open2[j]) = {}
  <2>1. \A i \in 1 .. m : i \in 1 .. n
    BY <1>27
  <2> QED
    BY <1>28, <1>33, <2>1
<1>37. ASSUME NEW k \in DOMAIN made, ~made[k].ended
       PROVE  k = end \/ \E i \in 1 .. m : k \in Pending(open2[i])
  <2> SUFFICES ASSUME k # end
               PROVE  \E i \in 1 .. m : k \in Pending(open2[i])
    OBVIOUS
  <2>2. PICK i \in 1 .. n : k \in Pending(clOpen[i])
    BY <1>3, <1>10, <1>17, <1>37 DEF OpenRight
  <2>3. Pending(c) \subseteq {c.end} /\ (c.end = 0 => Pending(c) = {})
    BY <1>1, <1>4 DEF Pending, Range
  <2>4. i # n
    BY <1>4, <1>6, <2>2, <2>3
  <2> QED
    BY <1>28, <2>2, <1>27, <2>4
<1>38. OpenRight(made, end, scopes2, open2, entry, exit2, base2)
  BY <1>22, <1>28, <1>32, <1>35, <1>36, <1>37 DEF OpenRight
<1>39. Generated(made, end, scopes2, open2, c.brk, c.cont, s, entry, exit2, base2)
  BY <1>10, <1>17, <1>21, <1>22, <1>25, <1>38, <1>23, HeldSame DEF Generated
<1> QED
  BY <1>1, <1>8, GoesOn, <1>4, <1>12, <1>18, <1>26, <1>39 DEF GeneratedNow, Generate

--------------------------------------------------------------------------------
(* The function ends, and its code runs. *)

\* A block that is entered with what was foreseen for it.
LEMMA BlockEntered ==
  ASSUME NEW blocks, NEW entry, NEW exit, Graph(blocks, entry, exit), NEW b \in DOMAIN blocks
  PROVE  /\ b \in Nat /\ 1 \in 1 .. Len(blocks[b].ins) + 1
         /\ \E s : IsRun(s, blocks[b].ins, entry[b], exit[b], blocks[b].moved) /\ entry[b] = s[1 - 1]
<1>1. blocks \in Seq(CodeBlocks) /\ BlockRight(blocks, b, entry, exit)
  BY DEF Graph
<1>2. PICK m \in Nat : m = Len(blocks)
  BY <1>1, LenProperties
<1>3. b \in 1 .. m
  BY <1>1, <1>2, LenProperties
<1>4. blocks[b] \in CodeBlocks
  BY <1>1, <1>2, <1>3, ElementOfSeq
<1>5. PICK ins \in Seq(Instructions) : ins = blocks[b].ins
  BY <1>4 DEF CodeBlocks
<1>6. PICK l \in Nat : l = Len(ins)
  BY LenProperties
<1>7. PICK s : IsRun(s, ins, entry[b], exit[b], blocks[b].moved)
  BY <1>1, <1>5 DEF BlockRight, Runs
<1>8. s[0] = entry[b] /\ 1 - 1 = 0
  BY <1>7 DEF IsRun
<1> QED
  BY <1>5, <1>6, <1>7, <1>8, <1>3

\* Behind the end of the function every block is terminated, and the run begins with
\* nothing registered.
LEMMA FunctionEndKeeps ==
  ASSUME CleanupInv, EndFunction
  PROVE  CleanupInv'
<1>1. clPhase = "function" /\ clOpen = << >> /\ clPc' = clPc /\ clLive' = clLive
      /\ clSimple' = 0 /\ clCompound' = 0 /\ clSimple \in Nat /\ clCompound \in Nat
      /\ clPc = [block |-> 1, ins |-> 1] /\ clLive = {}
  BY DEF EndFunction, CleanupInv
<1>2. PICK entry, exit, base : GeneratedNow(entry, exit, base)
  BY <1>1 DEF CleanupInv
<1>3. /\ Graph(clBlocks, entry, exit) /\ ScopesRight(clScopes, clSimple + clCompound)
      /\ clAt \in DOMAIN clBlocks /\ 1 \in DOMAIN clBlocks /\ entry[1] = {}
      /\ ~clBlocks[clAt].ended => exit[clAt] = Held(clScopes, Len(clScopes))
      /\ OpenRight(clBlocks, clAt, clScopes, clOpen, entry, exit, base)
  BY <1>2 DEF GeneratedNow, Generated
<1>4. PICK d \in Nat \ {0} : d = Len(clScopes) /\ d = Depth
  BY <1>3, EmptySeq, LenProperties DEF ScopesRight, Depth
<1>5. Len(clOpen) = 0 /\ Len(clOpen) + 1 = 1 /\ 1 .. Len(clOpen) = {}
  BY <1>1
<1>6. d = 1
  BY <1>5, <1>3, <1>4 DEF Widths, OpenRight
<1>8. PICK p : p = ScopeCleanup(clScopes[1], {})
  OBVIOUS
<1>9. PICK made1 : made1 = Emit(clBlocks, clAt, p)
  OBVIOUS
<1>10. PICK made : made = BranchTo(made1, clAt, {})
  OBVIOUS
<1>11. clBlocks' = made /\ clPhase' \in {"run", "refused"}
  BY <1>8, <1>9, <1>10 DEF EndFunction
<1>12. \E exit1 : Graph(made1, entry, exit1) /\ SameBut(clAt, clBlocks, made1) /\ (~made1[clAt].ended => exit1[clAt] = {})
  <2>1. CASE clBlocks[clAt].ended
    BY <1>3, <2>1, <1>9, EmitEnded DEF SameBut
  <2>2. CASE ~clBlocks[clAt].ended
    <3>1. 1 \in 1 .. Depth /\ 1 - 1 = 0
      BY <1>4, <1>6
    <3>2. p \in Seq(Instructions) /\ Runs(p, Held(clScopes, 1) \cup {}, Held(clScopes, 1 - 1) \cup {}, {})
      BY <1>3, <1>8, <3>1, NoMoves, ScopeRuns
    <3>4. PICK Y \in SUBSET Registrations : Y = {}
      OBVIOUS
    <3>6. Runs(p, exit[clAt], Y, {})
      BY <3>2, <3>1, <3>4, <1>3, <1>4, <1>6, <2>2, HeldNone
    <3>7. PICK exit1 : exit1 = [exit EXCEPT ![clAt] = Y]
      OBVIOUS
    <3>8. Graph(made1, entry, exit1) /\ SameBut(clAt, clBlocks, made1)
      BY ONLY <1>3, <1>9, <2>2, <3>2, <3>6, <3>7, Y \in SUBSET Registrations, GraphEmit
    <3> QED
      BY <3>8, <1>3, <3>4, <3>7 DEF Graph
  <2> QED
    BY <2>1, <2>2
<1>13. PICK exit1 : Graph(made1, entry, exit1) /\ SameBut(clAt, clBlocks, made1) /\ (~made1[clAt].ended => exit1[clAt] = {})
  BY <1>12
<1>14. clAt \in DOMAIN made1
  BY <1>3, <1>13 DEF SameBut
<1>15. Graph(made, entry, exit1)
  BY ONLY <1>10, <1>13, <1>14, GraphReturn
<1>16. SameBut(clAt, made1, made)
  BY ONLY <1>10, <1>13, <1>14, GraphReturn
<1>17. made[clAt].ended
  BY ONLY <1>10, <1>13, <1>14, GraphReturn
<1>18. DOMAIN made = DOMAIN clBlocks /\ \A k \in DOMAIN made : made[k].ended
  BY <1>13, <1>16, <1>17, <1>3, <1>5 DEF SameBut, OpenRight
<1>19. 1 \in DOMAIN made
  BY <1>3, <1>18
<1>20. PICK t : IsRun(t, made[1].ins, entry[1], exit1[1], made[1].moved) /\ entry[1] = t[1 - 1]
  BY <1>15, <1>19, BlockEntered
<1>22. RunsRight(entry, exit1)'
  BY <1>3, <1>11, <1>19, <1>20, <1>15, BlockEntered, <1>1 DEF RunsRight, Here
<1> QED
  BY <1>1, <1>11, <1>22, <1>15, <1>18 DEF CleanupInv

\* Where the run of the code is.
Running(entry, exit, s) ==
  /\ Graph(clBlocks, entry, exit) /\ \A b \in DOMAIN clBlocks : clBlocks[b].ended
  /\ clPc \in [block : Nat, ins : Nat] /\ clPc.block \in DOMAIN clBlocks
  /\ clPc.ins \in 1 .. Len(Here.ins) + 1 /\ Len(Here.ins) \in Nat
  /\ IsRun(s, Here.ins, entry[clPc.block], exit[clPc.block], Here.moved)
  /\ clLive = s[clPc.ins - 1]

\* A run that is right has a place in a block.
LEMMA RunningFacts ==
  ASSUME CleanupInv, clPhase = "run"
  PROVE  \E entry, exit, s : Running(entry, exit, s)
<1>1. PICK entry, exit : /\ Graph(clBlocks, entry, exit)
                         /\ \A b \in DOMAIN clBlocks : clBlocks[b].ended
                         /\ RunsRight(entry, exit)
  BY DEF CleanupInv
<1>2. PICK s : /\ IsRun(s, Here.ins, entry[clPc.block], exit[clPc.block], Here.moved)
               /\ clLive = s[clPc.ins - 1]
  BY <1>1 DEF RunsRight
<1> QED
  BY <1>1, <1>2, LenProperties, ElementOfSeq DEF Running, RunsRight, CodeBlocks, Here, Graph

\* One instruction.
LEMMA InstructionKeeps ==
  ASSUME CleanupInv, RunInstruction
  PROVE  CleanupInv'
<1>1. clPhase = "run" /\ clPhase' = clPhase /\ clBlocks' = clBlocks /\ clSimple' = clSimple /\ clCompound' = clCompound
  BY DEF RunInstruction, CodeRuns, clGenerator
<1>2. PICK entry, exit, s : Running(entry, exit, s)
  BY <1>1, RunningFacts
<1>3. PICK l \in Nat : l = Len(Here.ins)
  BY <1>2 DEF Running
<1>4. PICK b : b = clPc.block
  OBVIOUS
<1>5. PICK i \in Nat : i = clPc.ins
  BY <1>2 DEF Running
<1>6. i \in 1 .. l
  BY <1>2, <1>3, <1>5 DEF Running, RunInstruction, AtEnd
<1>8. clPc'.block = b /\ clPc'.ins = i + 1 /\ clPc' \in [block : Nat, ins : Nat]
  BY <1>2, <1>4, <1>5 DEF Running, RunInstruction
<1>9. Here' = Here
  BY <1>1, <1>4, <1>8 DEF Here
<1>11. IsRun(s, Here.ins, entry[b], exit[b], Here.moved) /\ clLive = s[i - 1]
  BY <1>2, <1>4, <1>5 DEF Running
<1>14. clLive' = s[i]
  BY <1>11, <1>5, <1>3, <1>6 DEF RunInstruction, Instruction, After, IsRun
<1>15. RunsRight(entry, exit)'
  <2>1. b \in DOMAIN clBlocks'
    BY <1>1, <1>2, <1>4 DEF Running
  <2> QED
    BY <1>8, <2>1, <1>9, <1>11, <1>3, <1>14, <1>6 DEF RunsRight
<1> QED
  BY <1>1, <1>15, <1>2 DEF CleanupInv, Running

\* Every way on from a block leads to one that expects what there is.
LEMMA BranchKeeps ==
  ASSUME CleanupInv, RunBranch
  PROVE  CleanupInv'
<1>1. /\ clPhase = "run" /\ clPhase' = clPhase /\ clBlocks' = clBlocks /\ clLive' = clLive
      /\ clSimple' = clSimple /\ clCompound' = clCompound
  BY DEF RunBranch, CodeRuns, clGenerator
<1>2. PICK entry, exit, s : Running(entry, exit, s)
  BY <1>1, RunningFacts
<1>3. PICK l \in Nat : l = Len(Here.ins)
  BY <1>2 DEF Running
<1>4. PICK c \in Here.to : clPc' = [block |-> c, ins |-> 1]
  BY DEF RunBranch
<1>6. clLive = exit[clPc.block]
  BY <1>2, <1>3 DEF Running, IsRun, RunBranch, AtEnd
<1>7. c \in DOMAIN clBlocks /\ entry[c] = exit[clPc.block]
  BY <1>4, <1>2 DEF BlockRight, Here, Running, Graph
<1>8. Graph(clBlocks, entry, exit)
  BY <1>2 DEF Running
<1>9. PICK t : IsRun(t, clBlocks[c].ins, entry[c], exit[c], clBlocks[c].moved) /\ entry[c] = t[1 - 1]
  BY <1>7, <1>8, BlockEntered
<1> QED
  BY <1>1, <1>2, <1>6, <1>7, <1>9, <1>4, <1>8, BlockEntered DEF CleanupInv, Running, RunsRight, Here

\* A return leaves nothing but what it hands over.
LEMMA ReturnKeeps ==
  ASSUME CleanupInv, RunReturn
  PROVE  CleanupInv'
<1>1. /\ clPhase = "run" /\ clPhase' = "returned" /\ clBlocks' = clBlocks /\ clLive' = clLive /\ clPc' = clPc
      /\ clSimple' = clSimple /\ clCompound' = clCompound /\ Here.to = {}
  BY DEF RunReturn, CodeRuns, clGenerator
<1>2. PICK entry, exit, s : Running(entry, exit, s)
  BY <1>1, RunningFacts
<1>3. PICK l \in Nat : l = Len(Here.ins)
  BY <1>2 DEF Running
<1> QED
  BY <1>1, <1>2, <1>3 DEF CleanupInv, BlockRight, Here, Running, Graph, IsRun, RunReturn, AtEnd

--------------------------------------------------------------------------------
(* All of it. *)

\* At first there is one empty block, one scope and no construct.
LEMMA CleanupInitRight == CleanupInit => CleanupInv
<1> SUFFICES ASSUME CleanupInit PROVE CleanupInv
  OBVIOUS
<1> DEFINE entry == [b \in {1} |-> {}]
           base == [i \in 1 .. 1 |-> 1]
<1>1. /\ clBlocks = <<OpenBlock>> /\ clAt = 1 /\ clScopes = <<EmptyScope>> /\ clOpen = << >>
      /\ clBreak = NoTarget /\ clContinue = NoTarget /\ clSimple = 0 /\ clCompound = 0
      /\ clPhase = "function" /\ clPc = [block |-> 1, ins |-> 1] /\ clLive = {}
  BY DEF CleanupInit
<1>2. DOMAIN clBlocks = {1} /\ clBlocks[1] = OpenBlock
  BY <1>1
<1>3. /\ OpenBlock.ins = << >> /\ OpenBlock.ended = FALSE /\ OpenBlock.to = {} /\ OpenBlock.moved = {}
      /\ OpenBlock \in CodeBlocks
  BY DEF OpenBlock, CodeBlocks
<1>4. clBlocks \in Seq(CodeBlocks)
  BY <1>1, <1>3
<1>5. entry \in [{1} -> SUBSET Registrations] /\ entry[1] = {}
  OBVIOUS
<1> HIDE DEF entry
<1>6. Runs(OpenBlock.ins, entry[1], entry[1], OpenBlock.moved)
  <2>1. PICK X \in SUBSET Registrations : X = entry[1]
    BY <1>5
  <2> QED
    BY <1>3, <2>1, RunOfNothing
<1>8. Graph(clBlocks, entry, entry)
  BY <1>2, <1>4, <1>5, <1>3, <1>6 DEF Graph, BlockRight
<1>9. PICK new \in Scopes : new = EmptyScope
  BY EmptyScopeRight
<1>10. clScopes \in Seq(Scopes) /\ clScopes # << >> /\ Len(clScopes) = 1 /\ clScopes[1] = new
  BY <1>1, <1>9
<1>12. ScopesRight(clScopes, clSimple + clCompound)
  BY <1>10, <1>1, <1>9 DEF ScopesRight, ScopeRight, EmptyScope, Ordered
<1>13. Held(clScopes, Len(clScopes)) = {}
  BY <1>10, <1>9, EmptyScopeRight DEF Held
<1>16. base \in [1 .. 1 -> Nat] /\ base[1] = 1
  OBVIOUS
<1> HIDE DEF base
<1>19. OpenRight(clBlocks, 1, clScopes, clOpen, entry, entry, base)
  BY <1>2, <1>10, <1>16, <1>1 DEF OpenRight, Widths
<1> QED
  BY <1>1, <1>2, <1>5, <1>8, <1>12, <1>13, <1>19 DEF CleanupInv, GeneratedNow, Generated, TargetRight,
     NoTarget

\* Every step keeps the invariant.
LEMMA CleanupStep == CleanupInv /\ [CleanupNext]_clVars => CleanupInv'
<1> SUFFICES ASSUME CleanupInv, [CleanupNext]_clVars PROVE CleanupInv'
  OBVIOUS
<1>1. CASE DeclareVar \/ DeferStmt
  BY <1>1, DeclareKeeps, DeferKeeps
<1>2. CASE BreakStmt
  BY <1>2, LeaveKeeps DEF BreakStmt
<1>3. CASE ContinueStmt
  BY <1>3, LeaveKeeps DEF ContinueStmt
<1>4. CASE RetStmt
  BY <1>4, RetKeeps
<1>5. CASE OpenBlockStmt \/ OpenZone
  BY <1>5, BlockKeeps, ZoneKeeps
<1>6. CASE OpenIf \/ OpenIfElse
  BY <1>6, IfKeeps, IfElseKeeps
<1>7. CASE OpenWhile \/ OpenForeach \/ OpenDoWhile \/ OpenInf \/ OpenFor
  BY <1>7, WhileKeeps, ForeachKeeps, DoWhileKeeps, InfKeeps, ForKeeps
<1>8. CASE OpenWithStmt \/ OpenSwitch \/ OpenMatch
  BY <1>8, WithKeeps, SwitchKeeps, MatchKeeps
<1>9. CASE NextBody \/ CloseConstruct \/ EndFunction
  BY <1>9, NextKeeps, CloseKeeps, FunctionEndKeeps
<1>10. CASE RunInstruction \/ RunBranch \/ RunReturn
  BY <1>10, InstructionKeeps, BranchKeeps, ReturnKeeps
<1>11. CASE UNCHANGED clVars
  <2>1. /\ clPhase' = clPhase /\ clBlocks' = clBlocks /\ clAt' = clAt /\ clScopes' = clScopes
        /\ clOpen' = clOpen /\ clBreak' = clBreak /\ clContinue' = clContinue
        /\ clSimple' = clSimple /\ clCompound' = clCompound /\ clPc' = clPc /\ clLive' = clLive
    BY <1>11 DEF clVars, clGenerator
  <2>2. Here' = Here
    BY <2>1 DEF Here
  <2>3. ASSUME clPhase = "function"
        PROVE  \E entry, exit, base : GeneratedNow(entry, exit, base)'
    <3>1. PICK entry, exit, base : GeneratedNow(entry, exit, base)
      BY <2>3 DEF CleanupInv
    <3> QED
      BY <2>1, <3>1 DEF GeneratedNow
  <2>4. ASSUME clPhase = "run"
        PROVE  \E entry, exit : /\ Graph(clBlocks', entry, exit)
                                /\ \A b \in DOMAIN clBlocks' : clBlocks'[b].ended
                                /\ RunsRight(entry, exit)'
    <3>1. PICK entry, exit : /\ Graph(clBlocks, entry, exit)
                             /\ \A b \in DOMAIN clBlocks : clBlocks[b].ended
                             /\ RunsRight(entry, exit)
      BY <2>4 DEF CleanupInv
    <3> QED
      BY <2>1, <3>1, <2>2 DEF RunsRight
  <2> QED
    BY <2>1, <2>2, <2>3, <2>4 DEF CleanupInv
<1> QED
  BY <1>1, <1>2, <1>3, <1>4, <1>5, <1>6, <1>7, <1>8, <1>9, <1>10, <1>11 DEF CleanupNext

\* What was foreseen for an instruction is what the properties ask of it.
LEMMA CleanupInvSuffices == CleanupInv => CleanupSound
<1> SUFFICES ASSUME CleanupInv PROVE CleanupSound
  OBVIOUS
<1>2. ASSUME clPhase = "run", ~AtEnd
      PROVE  Allowed(Instruction, clLive, Here.moved)
  <2>1. PICK entry, exit, s : Running(entry, exit, s)
    BY <1>2, RunningFacts
  <2>2. clPc.ins \in 1 .. Len(Here.ins)
    BY <1>2, <2>1 DEF Running, AtEnd
  <2> QED
    BY <2>1, <2>2 DEF Running, Instruction, IsRun
<1> QED
  BY <1>2 DEF CleanupSound, InnermostFirst, AboutTo, Allowed, Precedes, NothingLeftBehind, CleanupInv,
     CleanedOnce

\* In whatever function is generated from the statements, with any number of them, and
\* on whatever way its code takes, everything registered is cleaned up once, in order,
\* and nothing is left behind by a return (cg_dtors.c, cg_stmt.c).
THEOREM CleanupAlwaysSound == CleanupSpec => []CleanupSound
<1>1. CleanupSpec => []CleanupInv
  BY CleanupInitRight, CleanupStep, PTL DEF CleanupSpec
<1> QED
  BY <1>1, CleanupInvSuffices, PTL

================================================================================
