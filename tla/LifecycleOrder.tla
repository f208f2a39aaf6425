---------------------------- MODULE LifecycleOrder -----------------------------
(* The order in which the init or crash blocks of a program run:                   *)
(* cg_lifecycle_topo_sort of src/codegen/cg_fileheaders.c.  A block may have a     *)
(* title and may ask to run before, or after, the block with some title.  The      *)
(* blocks are sorted by Kahn's method, the first block in the source that is       *)
(* ready going first; where nothing is ready the rest keeps its source order.      *)
(* The blocks of each kind are sorted by themselves; exit blocks too, and they are *)
(* called in the order of the sort, not in its reverse as wiki/File-Headers.md:327 *)
(* has it, so that the properties below say nothing of when exit blocks run.       *)
EXTENDS Integers, Sequences, FiniteSets

CONSTANTS BlockCount,   \* the blocks of one kind are 1 .. BlockCount, in source order
          Titles,
          Untitled      \* no title; no constraint

ASSUME LifecycleAssumption == BlockCount \in Nat /\ Untitled \notin Titles

LcBlocks == 1 .. BlockCount

VARIABLES
  lcPhase,                      \* "collect", "count", "sort", "rest", "done"
  lcTitle, lcBefore, lcAfter,   \* what the source says of each block
  lcEdges,                      \* the adjacency matrix, as the set of its ones
  lcIndegree,
  lcOrder,                      \* order_out
  lcFell                        \* history: the rest was taken in source order

lcSource == <<lcTitle, lcBefore, lcAfter>>
lcVars == <<lcPhase, lcSource, lcEdges, lcIndegree, lcOrder, lcFell>>

LcDone == {lcOrder[k] : k \in DOMAIN lcOrder}
LcEdgesInto(i) == {e \in lcEdges : e[2] = i}

LifecycleTypeOK ==
  /\ lcPhase \in {"collect", "count", "sort", "rest", "done"}
  /\ lcTitle \in [LcBlocks -> Titles \cup {Untitled}]
  /\ lcBefore \in [LcBlocks -> Titles \cup {Untitled}]
  /\ lcAfter \in [LcBlocks -> Titles \cup {Untitled}]
  /\ lcEdges \subseteq LcBlocks \X LcBlocks
  /\ lcIndegree \in [LcBlocks -> Int]
  /\ lcOrder \in Seq(LcBlocks)
  /\ lcFell \in BOOLEAN

LifecycleInit ==
  /\ lcPhase = "collect"
  /\ lcTitle = [i \in LcBlocks |-> Untitled]
  /\ lcBefore = [i \in LcBlocks |-> Untitled]
  /\ lcAfter = [i \in LcBlocks |-> Untitled]
  /\ lcEdges = {} /\ lcIndegree = [i \in LcBlocks |-> 0]
  /\ lcOrder = <<>> /\ lcFell = FALSE

--------------------------------------------------------------------------------

\* The parser has collected the blocks.
Collect ==
  /\ lcPhase = "collect" /\ lcPhase' = "count"
  /\ lcTitle' \in [LcBlocks -> Titles \cup {Untitled}]
  /\ lcBefore' \in [LcBlocks -> Titles \cup {Untitled}]
  /\ lcAfter' \in [LcBlocks -> Titles \cup {Untitled}]
  /\ UNCHANGED <<lcEdges, lcIndegree, lcOrder, lcFell>>

\* cg_lifecycle_find_by_title: the first block that has the title; a title that no
\* block has asks for nothing.
FoundByTitle(t, j) ==
  t # Untitled /\ lcTitle[j] = t /\ \A k \in LcBlocks : lcTitle[k] = t => j <= k

\* (Fault: after is taken for before.)
Asks_Swapped(i, j) == i # j /\ (FoundByTitle(lcBefore[i], j) \/ FoundByTitle(lcAfter[i], j))

\* An edge from i to j: i asks to run before j, or j after i.
Asks(i, j) == i # j /\ (FoundByTitle(lcBefore[i], j) \/ FoundByTitle(lcAfter[j], i))

AskedEdges == {e \in LcBlocks \X LcBlocks : Asks(e[1], e[2])}

\* The edges are counted once each.
CountEdges ==
  /\ lcPhase = "count" /\ lcPhase' = "sort"
  /\ lcEdges' = AskedEdges
  /\ lcIndegree' = [i \in LcBlocks |-> Cardinality({e \in AskedEdges : e[2] = i})]
  /\ UNCHANGED <<lcSource, lcOrder, lcFell>>

Ready(i) == i \notin LcDone /\ lcIndegree[i] = 0

\* The ready block that is taken.  (Fault: the last one in the source.)
FirstReady_Last(i) == Ready(i) /\ \A j \in LcBlocks : Ready(j) => j <= i
FirstReady(i) == Ready(i) /\ \A j \in LcBlocks : Ready(j) => i <= j

\* Its edges are struck out and the blocks behind them counted down.
PickReady(i) ==
  /\ lcPhase = "sort" /\ Len(lcOrder) < BlockCount /\ FirstReady(i)
  /\ lcOrder' = Append(lcOrder, i)
  /\ lcEdges' = {e \in lcEdges : e[1] # i}
  /\ lcIndegree' = [j \in LcBlocks |-> IF <<i, j>> \in lcEdges THEN lcIndegree[j] - 1 ELSE lcIndegree[j]]
  /\ UNCHANGED <<lcPhase, lcSource, lcFell>>

\* Nothing is ready although blocks are left: there is a cycle among them.
FallBack ==
  /\ lcPhase = "sort" /\ Len(lcOrder) < BlockCount
  /\ \A i \in LcBlocks : ~Ready(i)
  /\ lcPhase' = "rest" /\ lcFell' = TRUE
  /\ UNCHANGED <<lcSource, lcEdges, lcIndegree, lcOrder>>

\* (Fault: the rest starts again with the first block.)
LeftOver_All == LcBlocks
LeftOver == LcBlocks \ LcDone

\* Everything left is taken in source order.
TakeRest(i) ==
  /\ lcPhase = "rest" /\ Len(lcOrder) < BlockCount
  /\ i \in LeftOver /\ \A j \in LeftOver : i <= j
  /\ lcOrder' = Append(lcOrder, i)
  /\ UNCHANGED <<lcPhase, lcSource, lcEdges, lcIndegree, lcFell>>

\* The dispatcher is emitted with the calls in this order.
Sorted ==
  /\ lcPhase \in {"sort", "rest"} /\ Len(lcOrder) >= BlockCount
  /\ lcPhase' = "done"
  /\ UNCHANGED <<lcSource, lcEdges, lcIndegree, lcOrder, lcFell>>

LifecycleNext ==
  \/ Collect \/ CountEdges \/ FallBack \/ Sorted
  \/ \E i \in LcBlocks : PickReady(i) \/ TakeRest(i)

LifecycleSpec == LifecycleInit /\ [][LifecycleNext]_lcVars

--------------------------------------------------------------------------------
(* Properties. *)

\* The blocks are in the order that the source asks for (wiki/File-Headers.md:320, "The
\* compiler topologically sorts blocks using the before/after graph").
Places(i) == {k \in DOMAIN lcOrder : lcOrder[k] = i}
MustPrecede(i, j) ==
  /\ i # j
  /\ \/ lcBefore[i] # Untitled /\ lcTitle[j] = lcBefore[i]
        /\ \A k \in LcBlocks : k < j => lcTitle[k] # lcTitle[j]
     \/ lcAfter[j] # Untitled /\ lcTitle[i] = lcAfter[j]
        /\ \A k \in LcBlocks : k < i => lcTitle[k] # lcTitle[i]
Cyclic == \E S \in SUBSET LcBlocks : S # {} /\ \A j \in S : \E i \in S : MustPrecede(i, j)
ConstraintsKept ==
  /\ ~lcFell
  /\ \A i, j \in LcBlocks : MustPrecede(i, j) =>
       \A q \in Places(j) : \E p \in Places(i) : p < q

\* No block is there twice; at the end every one is.
PlacedOnce == \A p, q \in DOMAIN lcOrder : lcOrder[p] = lcOrder[q] => p = q
AllPlaced == lcPhase = "done" => LcDone = LcBlocks

\* cg_fileheaders.c:133, "Blocks without ordering constraints retain their source
\* order": a block that no other has to precede waits only for blocks before it.
SourceOrderKept ==
  \A p, q \in DOMAIN lcOrder :
    p < q /\ (\A k \in LcBlocks : ~MustPrecede(k, lcOrder[q])) => lcOrder[p] < lcOrder[q]

\* Where no constraint is part of a cycle, the dispatcher of the init or of the crash
\* blocks calls every block, in an order the source asks for, and in the source's own
\* where it asks nothing.  Of a cycle, which wiki/File-Headers.md:320 calls an error and
\* the code compiles, only that no block is called twice.
OrderKept ==
  /\ PlacedOnce
  /\ ~Cyclic => AllPlaced /\ ConstraintsKept /\ SourceOrderKept

================================================================================
