--------------------------------- MODULE Zone ----------------------------------
(* A zone: a bump allocator over a chain of blocks, src/runtime/zone_runtime.c.    *)
(* A zone starts as a null pointer, gets its state at the first allocation and     *)
(* blocks as they are needed; freeing it takes all blocks and makes the pointer    *)
(* null again.  Any malloc may fail.  __zone_move, which copies out of a zone,     *)
(* changes no zone and is left out.                                                *)
(*                                                                                 *)
(* size_t ends at SizeMax.  The chain is the sequence of its blocks, the current   *)
(* one last; an address is a block and an offset into its data.                    *)
EXTENDS Integers, Sequences

CONSTANTS SizeMax,      \* SIZE_MAX
          Alignment,    \* alignof(max_align_t)
          Header,       \* sizeof(zone_block_t)
          BlockSize,    \* ZONE_BLOCK_SIZE
          MaxBlocks     \* bound: blocks of one zone

ASSUME ZoneAssumption ==
  /\ SizeMax \in Nat /\ Alignment \in Nat \ {0} /\ Header \in Nat /\ BlockSize \in Nat
  /\ MaxBlocks \in Nat
  /\ BlockSize + Header <= SizeMax /\ Alignment <= SizeMax

VARIABLES
  zoneNull,     \* *zone_ptr is a null pointer
  zoneChain,    \* the blocks
  zoneGiven     \* history: what the zone has handed out since it was null

zoneVars == <<zoneNull, zoneChain, zoneGiven>>

ZoneSizes == 0 .. SizeMax
Block == [cap : ZoneSizes, used : ZoneSizes]
Given == [block : Nat \ {0}, at : ZoneSizes, size : ZoneSizes, reserved : ZoneSizes]

ZoneTypeOK ==
  /\ zoneNull \in BOOLEAN
  /\ zoneChain \in Seq(Block)
  /\ zoneGiven \subseteq Given
  /\ zoneNull => zoneChain = <<>>

ZoneInit == zoneNull = TRUE /\ zoneChain = <<>> /\ zoneGiven = {}

--------------------------------------------------------------------------------
(* __zone_alloc. *)

\* Addition of two sizes.
Plus(m, n) == IF m + n > SizeMax THEN m + n - (SizeMax + 1) ELSE m + n

\* (Fault: the padding of a size is what it is over by.)
Padding_Over(size) == size % Alignment
AtLeastOne(size) == IF size = 0 THEN 1 ELSE size
Padding(size) == IF size % Alignment = 0 THEN 0 ELSE Alignment - (size % Alignment)
Aligned(size) == Plus(AtLeastOne(size), Padding(AtLeastOne(size)))

\* Whether the rounded size, and a header before it, are representable.
\* (Fault: the padding is not allowed for.)
Representable_NoPadding(size) == Aligned(size) <= SizeMax - Header
Representable(size) ==
  /\ AtLeastOne(size) <= SizeMax - Padding(AtLeastOne(size))
  /\ Aligned(size) <= SizeMax - Header

\* Whether the current block has room.
Last == zoneChain[Len(zoneChain)]
Fits(aligned) == zoneChain # <<>> /\ aligned <= Last.cap - Last.used

\* A block for a request; larger ones get a block of their own size.
NewBlock(aligned) == [cap |-> IF aligned > BlockSize THEN aligned ELSE BlockSize, used |-> 0]

\* (Fault: the block moves on by the size asked for.)
Bump_ByRequest(chain, size) ==
  LET n == Len(chain) IN
    /\ zoneChain' = [chain EXCEPT ![n] = [cap |-> @.cap, used |-> @.used + size]]
    /\ zoneGiven' = zoneGiven \cup
         {[block |-> n, at |-> chain[n].used, size |-> size, reserved |-> Aligned(size)]}

\* The pointer that is returned is the end of what the last block of the chain has used.
Bump(chain, size) ==
  LET n == Len(chain) IN
    /\ zoneChain' = [chain EXCEPT ![n] = [cap |-> @.cap, used |-> @.used + Aligned(size)]]
    /\ zoneGiven' = zoneGiven \cup
         {[block |-> n, at |-> chain[n].used, size |-> size, reserved |-> Aligned(size)]}

AllocFits(size) ==
  /\ Representable(size) /\ Fits(Aligned(size))
  /\ Bump(zoneChain, size)
  /\ UNCHANGED zoneNull

\* A new block becomes the current one; what the old one had left is given up.
AllocGrows(size) ==
  /\ Representable(size) /\ ~Fits(Aligned(size))
  /\ Len(zoneChain) < MaxBlocks
  /\ zoneNull' = FALSE
  /\ Bump(Append(zoneChain, NewBlock(Aligned(size))), size)

\* malloc gives the zone its state but no block.
AllocFails(size) ==
  /\ Representable(size) /\ ~Fits(Aligned(size))
  /\ zoneNull' = FALSE
  /\ UNCHANGED <<zoneChain, zoneGiven>>

\* __zone_free takes the blocks and the state.
ZoneFree == zoneNull = FALSE /\ zoneNull' = TRUE /\ zoneChain' = <<>> /\ zoneGiven' = {}

ZoneNext ==
  \/ \E size \in ZoneSizes : AllocFits(size) \/ AllocGrows(size) \/ AllocFails(size)
  \/ ZoneFree

ZoneSpec == ZoneInit /\ [][ZoneNext]_zoneVars

--------------------------------------------------------------------------------
(* Properties. *)

\* Whatever sizes are asked for, zero and those near SIZE_MAX included, an allocation
\* has room for what was asked for, lies within the used part of its block, and the
\* block with its header is an object malloc can give.
AllocationsFit ==
  /\ \A g \in zoneGiven :
       /\ g.block <= Len(zoneChain)
       /\ g.size <= g.reserved /\ 0 < g.reserved
       /\ g.at + g.reserved <= zoneChain[g.block].used
  /\ \A b \in DOMAIN zoneChain :
       zoneChain[b].used <= zoneChain[b].cap /\ zoneChain[b].cap + Header <= SizeMax

\* No two live allocations of a zone share a byte.
AllocationsDisjoint ==
  \A g, h \in zoneGiven :
    g = h \/ g.block # h.block \/ g.at + g.reserved <= h.at \/ h.at + h.reserved <= g.at

\* zone_runtime.h, "Results satisfy alignof(max_align_t)": every address is aligned, as
\* the data of a block is.
AllocationsAligned == \A g \in zoneGiven : g.at % Alignment = 0

\* What __zone_alloc returns is memory its caller can use and nobody else has.
AllocationsSound == AllocationsFit /\ AllocationsDisjoint /\ AllocationsAligned

================================================================================
