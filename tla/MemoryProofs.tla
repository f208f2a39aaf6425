----------------------------- MODULE MemoryProofs ------------------------------
(* What the code promises of sizes, alignments and places in memory: Zone of the    *)
(* allocations of a zone, for every size of the address space, of a block and of a  *)
(* header, every alignment and any number of blocks; Layout of the members of every *)
(* declared type, for any declarations and any shapes of the builtin types.         *)
EXTENDS Zone, Layout, FiniteSetTheorems, SequenceTheorems, WellFoundedInduction, TLAPS

--------------------------------------------------------------------------------
(* Numbers. *)

\* A set of naturals has a least element.
LEMMA LeastNumber ==
  ASSUME NEW T \in SUBSET Nat, T # {}
  PROVE  \E x \in T : \A y \in T : x <= y
<1>2. PICK x \in T : \A y \in T : ~(<<y, x>> \in OpToRel(<, Nat))
  BY WFMin, NatLessThanWellFounded
<1>3. \A y \in T : ~(y < x)
  BY <1>2 DEF OpToRel
<1> QED
  BY <1>3

--------------------------------------------------------------------------------
(* Remainders. *)

\* A number is a multiple and a remainder.
LEMMA Remainder ==
  ASSUME NEW x \in Nat, NEW a \in Nat \ {0}
  PROVE  x % a \in 0 .. a - 1 /\ x \div a \in Nat /\ x = a * (x \div a) + (x % a)
<1>1. x % a \in 0 .. a - 1
  BY SMTT(30)
<1>3. x = a * (x \div a) + (x % a)
  BY SMTT(30)
<1>2. x \div a \in Nat
  <2>1. PICK q : q = x \div a /\ q \in Int
    BY SMT
  <2>3. ASSUME q < 0 PROVE FALSE
    <3>2. PICK z \in Nat : q = 0 - 1 - z
      BY <2>1, <2>3
    <3>3. a * q = 0 - a - a * z /\ a * z \in Nat
      BY <3>2, SMT
    <3>4. PICK e \in Nat : e = a * z
      BY <3>3
    <3>5. PICK r \in 0 .. a - 1 : r = x % a
      BY <1>1
    <3> QED
      BY <3>4, <3>5, <3>3, <1>3, <2>1
  <2> QED
    BY <2>1, <2>3
<1> QED
  BY <1>1, <1>2, <1>3

\* A multiple leaves no remainder.
LEMMA MultipleIsDivisible ==
  ASSUME NEW q \in Nat, NEW a \in Nat \ {0}
  PROVE  (a * q) % a = 0 /\ a * q \in Nat
<1>1. a * q \in Nat
  BY SMT
<1>2. PICK x \in Nat : x = a * q
  BY <1>1
<1>3. PICK d \in Nat : d = x \div a
  BY Remainder
<1>4. PICK r \in 0 .. a - 1 : r = x % a
  BY Remainder
<1>5. a * q = a * d + r
  BY <1>2, <1>3, <1>4, Remainder
<1>6. q = d
  <2>1. CASE q > d
    <3>1. a * q >= a * (d + 1)
      BY <2>1, SMT
    <3>2. a * (d + 1) = a * d + a
      BY SMT
    <3> QED
      BY <1>4, <1>5, <3>1, <3>2, <1>1
  <2>2. CASE q < d
    <3>1. a * d >= a * (q + 1)
      BY <2>2, SMT
    <3>2. a * (q + 1) = a * q + a
      BY SMT
    <3> QED
      BY <1>4, <1>5, <3>1, <3>2, <1>1
  <2> QED
    BY <2>1, <2>2
<1> QED
  BY <1>1, <1>2, <1>4, <1>5, <1>6

\* What leaves no remainder is a multiple.
LEMMA Quotient ==
  ASSUME NEW x \in Nat, NEW a \in Nat \ {0}, x % a = 0
  PROVE  \E q \in Nat : x = a * q
<1>1. PICK q \in Nat : x = a * q + (x % a)
  BY Remainder
<1>2. a * q \in Nat
  BY SMT
<1> QED
  BY <1>1, <1>2

\* The sum of two numbers that leave no remainder leaves none.
LEMMA SumIsDivisible ==
  ASSUME NEW x \in Nat, NEW y \in Nat, NEW a \in Nat \ {0}, x % a = 0, y % a = 0
  PROVE  (x + y) % a = 0
<1>1. PICK p \in Nat : x = a * p
  BY Quotient
<1>2. PICK q \in Nat : y = a * q
  BY Quotient
<1>3. x + y = a * (p + q)
  BY <1>1, <1>2, SMT
<1>4. p + q \in Nat
  OBVIOUS
<1> QED
  BY <1>3, <1>4, MultipleIsDivisible

\* Divisibility is transitive.
LEMMA DivisibleTransitive ==
  ASSUME NEW x \in Nat, NEW a \in Nat \ {0}, NEW b \in Nat \ {0}, x % a = 0, a % b = 0
  PROVE  x % b = 0
<1>1. PICK p \in Nat : x = a * p
  BY Quotient
<1>2. PICK q \in Nat : a = b * q
  BY Quotient
<1>3. x = b * (q * p)
  BY <1>1, <1>2, SMT
<1>4. q * p \in Nat
  BY SMT
<1> QED
  BY <1>3, <1>4, MultipleIsDivisible

\* One divides every number.
LEMMA ByOne ==
  ASSUME NEW x \in Nat
  PROVE  x % 1 = 0
  BY SMT

\* Every number divides zero and itself.
LEMMA ZeroAndSelf ==
  ASSUME NEW a \in Nat \ {0}
  PROVE  0 % a = 0 /\ a % a = 0
<1> QED
  BY MultipleIsDivisible

--------------------------------------------------------------------------------
(* Zone: the sizes of requests. *)

LEMMA PaddingIsSmall ==
  ASSUME NEW size \in ZoneSizes
  PROVE  Padding(size) \in Nat
<1>1. Alignment \in Nat \ {0} /\ size \in Nat
  BY ZoneAssumption DEF ZoneSizes
<1>2. size % Alignment \in 0 .. (Alignment - 1)
  BY <1>1, SMT
<1>3. QED
  BY <1>1, <1>2 DEF Padding

\* A request that is not empty stays what it is; an empty one becomes one byte.
LEMMA AtLeastOneIsSize ==
  ASSUME NEW size \in ZoneSizes
  PROVE  /\ AtLeastOne(size) \in ZoneSizes
         /\ 0 < AtLeastOne(size) /\ size <= AtLeastOne(size)
<1>2. QED
  BY ZoneAssumption DEF AtLeastOne, ZoneSizes

\* A representable request is rounded up without wrapping.
LEMMA RoundedUp ==
  ASSUME NEW size \in ZoneSizes, Representable(size)
  PROVE  /\ Aligned(size) = AtLeastOne(size) + Padding(AtLeastOne(size))
         /\ Aligned(size) \in ZoneSizes
         /\ 0 < Aligned(size) /\ size <= Aligned(size)
         /\ Aligned(size) + Header <= SizeMax
<1> DEFINE m == AtLeastOne(size)
<1>2. m \in ZoneSizes /\ 0 < m /\ size <= m
  BY AtLeastOneIsSize
<1> HIDE DEF m
<1>6. QED
  BY <1>2, ZoneAssumption, PaddingIsSmall DEF ZoneSizes, m, Aligned, Plus, Representable

LEMMA RoundedUpIsAligned ==
  ASSUME NEW size \in ZoneSizes, Representable(size)
  PROVE  Aligned(size) % Alignment = 0
<1> DEFINE m == AtLeastOne(size)
<1>1. Alignment \in Nat \ {0}
  BY ZoneAssumption
<1>2. m \in Nat
  BY AtLeastOneIsSize DEF ZoneSizes
<1>3. Aligned(size) = m + Padding(m)
  BY RoundedUp
<1> HIDE DEF m
<1>4. CASE m % Alignment = 0
  BY <1>2, <1>3, <1>4 DEF Padding
<1>5. CASE m % Alignment # 0
  <2>1. m = Alignment * (m \div Alignment) + (m % Alignment) /\ m \div Alignment \in Nat
    BY <1>1, <1>2, SMT
  <2>3. m % Alignment \in Nat
    BY <1>1, <1>2, SMT
  <2>4. ASSUME NEW k \in Nat PROVE Alignment * k + Alignment = Alignment * (k + 1)
    BY <1>1, SMT
  <2>5. ASSUME NEW k \in Nat PROVE (Alignment * k) % Alignment = 0
    BY <1>1, SMT
  <2>6. ASSUME NEW p \in Nat, NEW r \in Nat, NEW s \in Nat, m = p + r, s = Alignment - r
        PROVE  m + s = p + Alignment
    BY <1>1, <2>6, SMT
  <2>7. Alignment * (m \div Alignment) \in Nat /\ Padding(m) \in Nat
    <3>2. Padding(m) \in Nat
      BY PaddingIsSmall, AtLeastOneIsSize DEF m
    <3>3. QED
      BY <1>1, <2>1, <3>2, SMT
  <2>11. QED
    BY <1>3, <2>5, <2>1, <2>4, <2>3, <2>6, <2>7, <1>5 DEF Padding
<1>6. QED
  BY <1>4, <1>5

--------------------------------------------------------------------------------
(* Zone: the invariant.  Besides what the runs check: what is used of a block    *)
(* and what is reserved in it are multiples of the alignment.                       *)

\* The part of AllocationsFit that is about a chain and not about the variable.
ChainFit(chain) ==
  /\ \A g \in zoneGiven :
       /\ g.block <= Len(chain)
       /\ g.size <= g.reserved /\ 0 < g.reserved
       /\ g.at + g.reserved <= chain[g.block].used
  /\ \A b \in DOMAIN chain :
       chain[b].used <= chain[b].cap /\ chain[b].cap + Header <= SizeMax

ChainAligned(chain) == \A b \in DOMAIN chain : chain[b].used % Alignment = 0

ZoneInv ==
  /\ ZoneTypeOK
  /\ ChainFit(zoneChain)
  /\ ChainAligned(zoneChain)
  /\ AllocationsAligned
  /\ AllocationsDisjoint

\* Handing out the end of the last block, which has room for it, disturbs nothing.
LEMMA BumpKeepsAll ==
  ASSUME NEW chain \in Seq(Block), chain # <<>>,
         ChainFit(chain), ChainAligned(chain), AllocationsAligned, AllocationsDisjoint,
         zoneGiven \subseteq Given,
         NEW size \in ZoneSizes, Representable(size),
         Aligned(size) <= chain[Len(chain)].cap - chain[Len(chain)].used,
         Bump(chain, size)
  PROVE  /\ zoneChain' \in Seq(Block) /\ zoneGiven' \subseteq Given
         /\ ChainFit(zoneChain)' /\ ChainAligned(zoneChain)'
         /\ AllocationsAligned' /\ AllocationsDisjoint'
<1> DEFINE n == Len(chain)
           a == Aligned(size)
           new == [block |-> n, at |-> chain[n].used, size |-> size, reserved |-> a]
<1>1. n \in Nat \ {0} /\ n \in DOMAIN chain /\ DOMAIN chain = 1 .. n /\ chain[n] \in Block
  BY ElementOfSeq, EmptySeq DEF n
<1>2. SizeMax \in Nat /\ Header \in Nat /\ Alignment \in Nat \ {0}
  BY ZoneAssumption
<1>3. a \in ZoneSizes /\ 0 < a /\ size <= a
  BY RoundedUp
<1>4. a % Alignment = 0
  BY RoundedUpIsAligned
<1>5. chain[n].used \in ZoneSizes /\ chain[n].cap \in ZoneSizes
  BY <1>1 DEF Block
<1>6. a <= chain[n].cap - chain[n].used
  OBVIOUS
<1>7. zoneChain' = [chain EXCEPT ![n] = [cap |-> @.cap, used |-> @.used + a]] /\ zoneGiven' = zoneGiven \cup {new}
  BY DEF Bump
<1> HIDE DEF n, a
<1>8. chain[n].used + a \in ZoneSizes /\ chain[n].used + a <= chain[n].cap
  BY <1>2, <1>3, <1>5, <1>6 DEF ZoneSizes
<1>10. /\ DOMAIN zoneChain' = 1 .. n
       /\ Len(zoneChain') = n
       /\ zoneChain'[n] = [cap |-> chain[n].cap, used |-> chain[n].used + a]
       /\ \A b \in (1 .. n) \ {n} : zoneChain'[b] = chain[b]
       /\ zoneChain' \in Seq(Block)
  <2> DEFINE last == [cap |-> chain[n].cap, used |-> chain[n].used + a]
  <2> HIDE DEF last
  <2>7. QED
    BY <1>1, ExceptSeq, <1>7, <1>5, <1>8 DEF last, n, Block
<1> HIDE DEF new
\* A block may have more used than before, never less.
<1>12. ASSUME NEW g \in zoneGiven
       PROVE  /\ g \in Given /\ g.block \in 1 .. n
              /\ g.at + g.reserved <= chain[g.block].used
              /\ chain[g.block].used \in Nat
              /\ chain[g.block].used <= zoneChain'[g.block].used
              /\ zoneChain'[g.block].used \in Nat
  <2>1. g \in Given /\ g.block <= n /\ g.at + g.reserved <= chain[g.block].used
    BY DEF ChainFit, n
  <2>2. g.block \in 1 .. n
    BY <1>1, <2>1 DEF Given
  <2>3. chain[g.block] \in Block
    BY <1>1, <2>2, ElementOfSeq DEF n
  <2>4. chain[g.block].used \in Nat
    BY <2>3 DEF Block, ZoneSizes
  <2>5. zoneChain'[g.block].used \in Nat /\ chain[g.block].used <= zoneChain'[g.block].used
    <3>1. CASE g.block = n
      BY <1>3, <1>5, <1>8, <1>10, <3>1 DEF ZoneSizes
    <3>2. CASE g.block # n
      BY <1>10, <2>2, <2>4, <3>2
    <3>3. QED
      BY <3>1, <3>2
  <2>6. QED
    BY <2>1, <2>2, <2>4, <2>5
<1>13. ChainFit(zoneChain)'
  <2>1. ASSUME NEW g \in zoneGiven'
        PROVE  /\ g.block <= n /\ g.size <= g.reserved /\ 0 < g.reserved
               /\ g.at + g.reserved <= zoneChain'[g.block].used
    <3>1. CASE g \in zoneGiven
      BY <1>1, <1>12, <3>1 DEF Given, ZoneSizes, ChainFit
    <3>2. CASE g = new
      BY <1>1, <1>3, <1>5, <3>2, <1>10 DEF new, ZoneSizes
    <3>3. QED
      BY <1>7, <3>1, <3>2
  <2>3. QED
    BY <1>10, <2>1, <1>8, <1>1 DEF ChainFit
<1>14. ChainAligned(zoneChain)'
  <2>1. chain[n].used % Alignment = 0
    BY <1>1 DEF ChainAligned
  <2>2. (chain[n].used + a) % Alignment = 0
    BY <1>2, <1>3, <1>4, <1>5, <2>1, SumIsDivisible DEF ZoneSizes
  <2>4. QED
    BY <1>10, <1>1, <2>2 DEF ChainAligned
<1>17. QED
  BY <1>10, <1>13, <1>14, <1>7, <1>12, <1>1, <1>3, <1>5 DEF AllocationsDisjoint, new, AllocationsAligned,
     ChainAligned, Given

--------------------------------------------------------------------------------

\* A new block has room for the request it was made for.
LEMMA NewBlockFits ==
  ASSUME NEW a \in ZoneSizes, a + Header <= SizeMax
  PROVE  /\ NewBlock(a) \in Block
         /\ NewBlock(a).used = 0 /\ a <= NewBlock(a).cap - NewBlock(a).used
         /\ NewBlock(a).cap + Header <= SizeMax
<1>2. QED
  BY ZoneAssumption DEF NewBlock, Block, ZoneSizes

\* A block added at the end leaves the others as they are.
LEMMA GrowKeepsFit ==
  ASSUME ZoneInv, NEW block \in Block, block.used = 0, block.cap + Header <= SizeMax
  PROVE  LET chain == Append(zoneChain, block) IN
           /\ chain \in Seq(Block) /\ chain # <<>> /\ chain[Len(chain)] = block
           /\ ChainFit(chain) /\ ChainAligned(chain)
<1> DEFINE chain == Append(zoneChain, block)
           n == Len(zoneChain)
<1>1. zoneChain \in Seq(Block) /\ zoneGiven \subseteq Given /\ ChainFit(zoneChain) /\ ChainAligned(zoneChain)
  BY DEF ZoneInv, ZoneTypeOK
<1>2. n \in Nat /\ DOMAIN zoneChain = 1 .. n
  BY <1>1
<1>3. /\ chain \in Seq(Block) /\ chain # <<>> /\ Len(chain) = n + 1
      /\ \A b \in 1 .. n : chain[b] = zoneChain[b]
      /\ chain[n + 1] = block
  BY <1>1, AppendProperties
<1>4. DOMAIN chain = 1 .. (n + 1)
  BY <1>3
<1> HIDE DEF chain, n
<1>6. ASSUME NEW b \in 1 .. (n + 1)
      PROVE  chain[b].used <= chain[b].cap /\ chain[b].cap + Header <= SizeMax /\ chain[b].used % Alignment = 0
  <2>1. CASE b \in 1 .. n
    BY <1>1, <1>2, <1>3, <2>1 DEF ChainFit, ChainAligned
  <2>2. CASE b = n + 1
    <3>2. 0 % Alignment = 0
      BY ZoneAssumption, SMT
    <3>3. QED
      BY <1>3, <2>2, <3>2 DEF Block, ZoneSizes
  <2>3. QED
    BY <1>2, <2>1, <2>2
<1>9. QED
  BY <1>3, <1>4, <1>6, <1>2, <1>1 DEF chain, ChainFit, ChainAligned, Given, n

LEMMA ZoneInvInit == ZoneInit => ZoneInv
<1> SUFFICES ASSUME ZoneInit PROVE ZoneInv
  OBVIOUS
<1>4. QED
  BY EmptySeq DEF ZoneInv, ZoneTypeOK, ChainFit, ChainAligned, AllocationsAligned, AllocationsDisjoint,
     ZoneInit

LEMMA ZoneInvStep == ZoneInv /\ [ZoneNext]_zoneVars => ZoneInv'
<1> SUFFICES ASSUME ZoneInv, [ZoneNext]_zoneVars PROVE ZoneInv'
  OBVIOUS
<1>1. /\ zoneNull \in BOOLEAN /\ zoneChain \in Seq(Block) /\ zoneGiven \subseteq Given
      /\ zoneNull => zoneChain = <<>>
      /\ ChainFit(zoneChain) /\ ChainAligned(zoneChain)
      /\ AllocationsAligned /\ AllocationsDisjoint
  BY DEF ZoneInv, ZoneTypeOK
<1>2. ASSUME NEW size \in ZoneSizes, AllocFits(size) PROVE ZoneInv'
  BY <1>1, BumpKeepsAll, <1>2 DEF ZoneInv, ZoneTypeOK, AllocFits, Fits, Last
<1>3. ASSUME NEW size \in ZoneSizes, AllocGrows(size) PROVE ZoneInv'
  <2> DEFINE block == NewBlock(Aligned(size))
             chain == Append(zoneChain, block)
  <2>1. Representable(size) /\ Bump(chain, size) /\ zoneNull' = FALSE
    BY <1>3 DEF AllocGrows
  <2>3. /\ block \in Block /\ block.used = 0 /\ block.cap + Header <= SizeMax
        /\ Aligned(size) <= block.cap - block.used
    BY NewBlockFits, <2>1, RoundedUp
  <2> HIDE DEF block
  <2>4. /\ chain \in Seq(Block) /\ chain # <<>> /\ chain[Len(chain)] = block
        /\ ChainFit(chain) /\ ChainAligned(chain)
    BY <2>3, GrowKeepsFit
  <2> HIDE DEF chain
  <2>6. QED
    BY <2>1, <1>1, <2>3, <2>4, BumpKeepsAll DEF ZoneInv, ZoneTypeOK
<1>5. CASE ZoneFree
  BY EmptySeq, <1>5 DEF ZoneInv, ZoneTypeOK, ChainFit, ChainAligned, AllocationsAligned,
     AllocationsDisjoint, ZoneFree
<1>6. CASE UNCHANGED zoneVars
  BY <1>1, <1>6 DEF ZoneInv, ZoneTypeOK, ChainFit, ChainAligned, AllocationsAligned, AllocationsDisjoint,
     zoneVars
<1>7. QED
  BY <1>2, <1>3, <1>5, <1>6, <1>1 DEF ZoneNext, ZoneInv, ZoneTypeOK, ChainFit, ChainAligned,
     AllocationsAligned, AllocationsDisjoint, AllocFails

LEMMA ZoneInvHolds == ZoneSpec => []ZoneInv
BY ZoneInvInit, ZoneInvStep, PTL DEF ZoneSpec

\* The zone's variables keep their types: the sizes in every block of the chain and in
\* every allocation stay below SIZE_MAX, so no sum of __zone_alloc has wrapped.
THEOREM ZoneTypeCorrect == ZoneSpec => []ZoneTypeOK
<1>1. ZoneInv => ZoneTypeOK
  BY DEF ZoneInv
<1>2. QED
  BY <1>1, ZoneInvHolds, PTL

\* __zone_alloc: what it returns has room for the request inside one block, and every
\* block with its header is an object malloc can give.
THEOREM AllocationsAlwaysFit == ZoneSpec => []AllocationsFit
<1>1. ZoneInv => AllocationsFit
  BY DEF ZoneInv, ChainFit, AllocationsFit
<1>2. QED
  BY <1>1, ZoneInvHolds, PTL

\* __zone_alloc: two live allocations share no byte.
THEOREM AllocationsAlwaysDisjoint == ZoneSpec => []AllocationsDisjoint
<1>1. ZoneInv => AllocationsDisjoint
  BY DEF ZoneInv
<1>2. QED
  BY <1>1, ZoneInvHolds, PTL

\* __zone_alloc: every address is a multiple of the alignment.
THEOREM AllocationsAlwaysAligned == ZoneSpec => []AllocationsAligned
<1>1. ZoneInv => AllocationsAligned
  BY DEF ZoneInv
<1>2. QED
  BY <1>1, ZoneInvHolds, PTL

\* __zone_alloc: every pointer it returns is memory of its caller's own, large enough
\* and aligned, whatever was asked for before and whatever malloc has refused.
THEOREM AllocationsAlwaysSound == ZoneSpec => []AllocationsSound
<1>1. ZoneInv => AllocationsSound
  BY DEF ZoneInv, ChainFit, AllocationsSound, AllocationsFit
<1>2. QED
  BY <1>1, ZoneInvHolds, PTL

--------------------------------------------------------------------------------
(* Layout: the inductive invariant. *)

\* The alignments there can be, and the shapes that have one of them.
Chain == {1} \cup Alignments
ChainShape == [size : Nat, align : Chain]

\* How many of the indices of M there are up to k.
CountUp(M, k) == Cardinality({j \in M : j <= k})

FieldShape(f) == [size |-> BytesOf(f), align |-> ElementShape(f).align]

\* The shapes of a type's members in their order, as OwnDefect has them.
MembersOf(t) ==
  [n \in 1 .. Cardinality(MemberIndices(t)) |->
    LET k == CHOOSE k \in MemberIndices(t) : MemberNumber(t, k) = n IN FieldShape(FieldsOf(t)[k])]

\* got holds the members among the first n fields of t.
GotUpTo(got, t, n) ==
  /\ got \in Seq(ChainShape)
  /\ Len(got) = CountUp(MemberIndices(t), n)
  /\ \A k \in MemberIndices(t) : k <= n => got[MemberNumber(t, k)] = FieldShape(FieldsOf(t)[k])

\* A field that has been taken: nothing is wrong with it, and its type is complete.
FieldPassed(t, k) ==
  LET f == FieldsOf(t)[k]
  IN /\ f.how # "bitfield" /\ ~(f.how = "atomic" /\ Packed(t))
     /\ Needs(f) => layState[f.of] = "complete"
     /\ \A d \in DOMAIN f.dims : f.dims[d] > 0
     /\ BytesOf(f) <= SizeLimit
AllPassed(t) == \A k \in DOMAIN FieldsOf(t) : FieldPassed(t, k)

\* A complete type has the layout of its members, which has been accepted.
CompleteRight(t) ==
  \/ Untagged(t) /\ layShape[t] = AtomShapes[Tag] /\ layOffsets[t] = << >>
  \/ /\ ~Untagged(t) /\ AllPassed(t)
     /\ BodyAccepted(t, MembersOf(t)) /\ RequestMet(t, LaidShape(t, MembersOf(t)))
     /\ layShape[t] = LaidShape(t, MembersOf(t)) /\ layOffsets[t] = LaidOffsets(t, MembersOf(t))

\* The reasons to refuse a type that lie in itself.
FieldDefect(t, k) ==
  LET f == FieldsOf(t)[k]
  IN \/ f.how = "bitfield"
     \/ f.how = "atomic" /\ Packed(t)
     \/ \E d \in DOMAIN f.dims : f.dims[d] = 0
     \/ (Needs(f) => layState[f.of] = "complete") /\ BytesOf(f) > SizeLimit
OwnReason(t) ==
  \/ \E k \in DOMAIN FieldsOf(t) : FieldDefect(t, k)
  \/ /\ ~Untagged(t) /\ AllPassed(t)
     /\ ~BodyAccepted(t, MembersOf(t)) \/ ~RequestMet(t, LaidShape(t, MembersOf(t)))

\* A type that is visited will fail if a call above it has failed, or is about to learn
\* that a type it needs has.
Doomed(u) ==
  \E j \in DOMAIN layFrames :
    /\ layFrames[j].type = u
    /\ NeedsNow("invalid") \/ \E i \in DOMAIN layFrames : j <= i /\ ~layFrames[i].ok
Reason(t) ==
  OwnReason(t) \/ \E u \in LayTypes : DependsOn(t, u) /\ (layState[u] = "invalid" \/ Doomed(u))

PhaseRight ==
  /\ layPhase = "register" =>
       layFrames = << >> /\ layReported = {}
       /\ \A t \in LayTypes : layState[t] = "pending" /\ layOffsets[t] = << >>
  /\ layPhase # "register" => Len(layDecl) = TypeCount /\ \A t \in LayTypes : Untagged(t) => layState[t] = "complete"
  /\ layPhase = "done" => layFrames = << >> /\ \A t \in LayTypes : layState[t] # "pending"

\* The types that are visited are those of the calls, each once, and every call but the
\* last is at a field that needs the type of the next.
CallsRight ==
  /\ \A t \in LayTypes : layState[t] = "visiting" <=> \E i \in DOMAIN layFrames : layFrames[i].type = t
  /\ \A i, j \in DOMAIN layFrames : layFrames[i].type = layFrames[j].type => i = j
  /\ \A i \in DOMAIN layFrames : layFrames[i].next \in 1 .. Len(FieldsOf(layFrames[i].type)) + 1
  /\ \A i \in DOMAIN layFrames : i < Len(layFrames) =>
       LET fr == layFrames[i]
       IN /\ fr.next <= Len(FieldsOf(fr.type))
          /\ LET f == FieldsOf(fr.type)[fr.next]
             IN f.how # "bitfield" /\ ~(f.how = "atomic" /\ Packed(fr.type)) /\ Needs(f) /\ f.of = layFrames[i + 1].type
FramesRight ==
  \A i \in DOMAIN layFrames :
    LET fr == layFrames[i]
    IN fr.ok => /\ \A k \in 1 .. fr.next - 1 : FieldPassed(fr.type, k)
                /\ GotUpTo(fr.got, fr.type, fr.next - 1)

CompletesRight ==
  \A t \in CompleteTypes : CompleteRight(t) /\ layShape[t] \in ChainShape /\ layShape[t].size <= SizeLimit
Reasons ==
  /\ \A t \in LayTypes : layState[t] = "invalid" => Reason(t)
  /\ \A i \in DOMAIN layFrames : ~layFrames[i].ok => Reason(layFrames[i].type)
SomethingSaid ==
  (\E t \in LayTypes : layState[t] = "invalid") \/ (\E i \in DOMAIN layFrames : ~layFrames[i].ok) => layReported # {}
Acyclic == \A S \in SUBSET CompleteTypes : S # {} => \E t \in S : \A u \in S : ~DependsOn(t, u)

LayoutInv ==
  /\ LayoutTypeOK /\ PhaseRight /\ CallsRight /\ FramesRight /\ CompletesRight /\ Reasons
  /\ SomethingSaid /\ Acyclic

--------------------------------------------------------------------------------
(* Layout: what LLVM's DataLayout answers. *)

\* Rounding up reaches the next multiple.
LEMMA Rounding ==
  ASSUME NEW n \in Nat, NEW a \in Nat \ {0}
  PROVE  /\ Pad(n, a) \in 0 .. a - 1 /\ RoundUp(n, a) \in Nat
         /\ RoundUp(n, a) = n + Pad(n, a) /\ RoundUp(n, a) >= n /\ RoundUp(n, a) % a = 0
<1>1. PICK r \in 0 .. a - 1 : r = n % a
  BY Remainder
<1>2. PICK d \in Nat : d = n \div a
  BY Remainder
<1>4. CASE r = 0
  BY <1>1, <1>4, ZeroAndSelf DEF RoundUp, Pad
<1>5. CASE r # 0
  <2>1. a - r \in 0 .. a - 1 /\ a - r \in Nat
    BY <1>1, <1>5
  <2>2. (a - r) % a = a - r
    BY <2>1, SMT
  <2>3. Pad(n, a) = a - r
    BY <1>1, <2>2 DEF Pad
  <2>4. n + Pad(n, a) = a * (d + 1)
    <3>1. a * (d + 1) = a * d + a
      BY SMT
    <3>2. a * d \in Nat
      BY SMT
    <3>3. PICK e \in Nat : e = a * d
      BY <3>2
    <3>4. n = e + r
      BY <3>3, <1>1, <1>2, Remainder
    <3>7. a * (d + 1) = e + a
      BY <3>1, <3>3
    <3>5. n + (a - r) = e + a
      BY <3>4
    <3>6. n + Pad(n, a) = n + (a - r)
      BY <2>3
    <3> QED
      BY <3>5, <3>6, <3>7, Zenon
  <2>5. (a * (d + 1)) % a = 0
    <3>1. PICK k \in Nat : k = d + 1
      OBVIOUS
    <3> QED
      BY <3>1, MultipleIsDivisible
  <2> QED
    BY <2>1, <2>3, <2>4, <2>5 DEF RoundUp
<1> QED
  BY <1>4, <1>5

\* What is a multiple already stays.
LEMMA RoundingDivisible ==
  ASSUME NEW n \in Nat, NEW a \in Nat \ {0}, n % a = 0
  PROVE  RoundUp(n, a) = n
  BY ZeroAndSelf DEF RoundUp, Pad

\* What holds of 0 and passes from each number to the next holds up to n.
LEMMA UpTo ==
  ASSUME NEW n \in Nat, NEW G, 0 \in G, \A m \in 1 .. n : m - 1 \in G => m \in G
  PROVE  \A m \in 0 .. n : m \in G
<1> DEFINE Bad == {m \in 0 .. n : m \notin G}
<1> SUFFICES ASSUME Bad # {} PROVE FALSE
  OBVIOUS
<1>1. Bad \in SUBSET Nat
  OBVIOUS
<1>2. PICK m \in Bad : \A k \in Bad : m <= k
  <2> HIDE DEF Bad
  <2> QED
    BY <1>1, LeastNumber
<1> QED
  BY <1>2

\* F starts at b and goes on by st.
Steps(F, n, b, st) == F[0] = b /\ \A m \in 1 .. n : F[m] = st[<<m, F[m - 1]>>]

\* A function defined by recursion on the numbers up to n exists.
LEMMA RecursionUpTo ==
  ASSUME NEW n \in Nat, NEW V, NEW b \in V, NEW st \in [(1 .. n) \X V -> V]
  PROVE  \E F \in [0 .. n -> V] : Steps(F, n, b, st)
<1> DEFINE Good(F, k) == F[0] = b /\ \A m \in 1 .. k : F[m] = st[<<m, F[m - 1]>>]
           G == {k \in 0 .. n : \E F \in [0 .. k -> V] : Good(F, k)}
<1>1. 0 \in G
  <2>1. [m \in 0 .. 0 |-> b] \in [0 .. 0 -> V] /\ Good([m \in 0 .. 0 |-> b], 0)
    OBVIOUS
  <2> HIDE DEF Good
  <2> QED
    BY <2>1
<1>2. ASSUME NEW k \in 1 .. n, k - 1 \in G PROVE k \in G
  <2>1. PICK F \in [0 .. k - 1 -> V] : Good(F, k - 1)
    BY <1>2
  <2>2. PICK v \in V : v = st[<<k, F[k - 1]>>]
    OBVIOUS
  <2> DEFINE H == [m \in 0 .. k |-> IF m = k THEN v ELSE F[m]]
  <2>3. H \in [0 .. k -> V]
    OBVIOUS
  <2>4. H[0] = b
    BY <2>1
  <2>5. ASSUME NEW m \in 1 .. k PROVE H[m] = st[<<m, H[m - 1]>>]
    <3>1. m - 1 \in 0 .. k /\ m - 1 # k /\ m \in 0 .. k
      OBVIOUS
    <3>2. H[m - 1] = F[m - 1]
      BY <3>1
    <3>3. CASE m = k
      BY <2>2, <3>1, <3>2, <3>3
    <3>4. CASE m # k
      BY <2>1, <3>2, <3>1, <3>4
    <3> QED
      BY <3>3, <3>4
  <2> HIDE DEF H
  <2>6. Good(H, k)
    BY <2>4, <2>5
  <2> HIDE DEF Good
  <2> QED
    BY <2>3, <2>6
<1>3. \A k \in 0 .. n : k \in G
  <2> HIDE DEF G
  <2> QED
    BY <1>1, <1>2, UpTo
<1> QED
  BY <1>3 DEF Steps

--------------------------------------------------------------------------------
(* The greatest of a bounded set of numbers. *)

\* A bounded set of naturals that is not empty has a greatest element.
LEMMA GreatestOf ==
  ASSUME NEW S \in SUBSET Nat, S # {}, NEW n \in Nat, \A x \in S : x <= n
  PROVE  Greatest(S) \in S /\ \A y \in S : y <= Greatest(S)
<1> DEFINE U == {u \in Nat : \A x \in S : x <= u}
<1>1. U \in SUBSET Nat /\ U # {}
  OBVIOUS
<1>2. PICK m \in U : \A u \in U : m <= u
  <2> HIDE DEF U
  <2> QED
    BY <1>1, LeastNumber
<1>3. m \in Nat /\ \A x \in S : x <= m
  OBVIOUS
<1>4. m \in S
  <2> SUFFICES ASSUME m \notin S PROVE FALSE
    OBVIOUS
  <2>1. \A x \in S : x \in Nat /\ x < m
    BY <1>3
  <2>4. PICK y \in S : y \in Nat /\ y < m
    BY <2>1
  <2>3. m - 1 \in U
    BY <1>3, <2>1, <2>4
  <2> HIDE DEF U
  <2> QED
    BY <1>2, <1>3, <2>3
<1> QED
  BY <1>3, <1>4 DEF Greatest

\* Sizes and alignments of a body's members are bounded.
LEMMA ShapesBounded ==
  ASSUME NEW shapes \in Seq(Shape)
  PROVE  \E n \in Nat : \A k \in DOMAIN shapes : shapes[k].size <= n /\ shapes[k].align <= n
<1>1. Len(shapes) \in Nat /\ DOMAIN shapes = 1 .. Len(shapes)
  BY LenProperties
<1> DEFINE G == {m \in 0 .. Len(shapes) :
                   \E n \in Nat : \A k \in 1 .. m : shapes[k].size <= n /\ shapes[k].align <= n}
<1>2. 0 \in G
  BY <1>1
<1>3. ASSUME NEW m \in 1 .. Len(shapes), m - 1 \in G PROVE m \in G
  <2>1. PICK n \in Nat : \A k \in 1 .. m - 1 : shapes[k].size <= n /\ shapes[k].align <= n
    BY <1>3
  <2>2. PICK s, a : s = shapes[m].size /\ a = shapes[m].align /\ s \in Nat /\ a \in Nat
    <3>1. shapes[m] \in Shape
      BY <1>1, ElementOfSeq
    <3> QED
      BY <3>1 DEF Shape
  <2>3. PICK x \in Nat : x = n + s + a
    BY <2>2
  <2>4. ASSUME NEW k \in 1 .. m PROVE shapes[k].size <= x /\ shapes[k].align <= x
    <3>1. CASE k = m
      BY <2>2, <2>3, <3>1
    <3>2. CASE k # m
      <4>1. k \in 1 .. m - 1 /\ k \in 1 .. Len(shapes)
        BY <1>1, <3>2
      <4>2. shapes[k] \in Shape
        BY <1>1, <4>1, ElementOfSeq
      <4>3. PICK y, z : y = shapes[k].size /\ z = shapes[k].align /\ y \in Nat /\ z \in Nat
        BY <4>2 DEF Shape
      <4>5. n <= x
        BY <2>2, <2>3
      <4> QED
        BY <4>3, <4>5, <2>1, <4>1
    <3> QED
      BY <3>1, <3>2
  <2>5. m \in 0 .. Len(shapes) /\ x \in Nat
    BY <1>1
  <2> QED
    BY <2>4, <2>5
<1>4. \A m \in 0 .. Len(shapes) : m \in G
  <2> HIDE DEF G
  <2> QED
    BY <1>1, <1>2, <1>3, UpTo
<1>5. Len(shapes) \in 0 .. Len(shapes)
  BY <1>1
<1> QED
  BY <1>1, <1>4, <1>5

\* The alignment of a member is a positive number.
LEMMA MemberShape ==
  ASSUME NEW shapes \in Seq(Shape), NEW k \in DOMAIN shapes, NEW packed \in BOOLEAN
  PROVE  /\ shapes[k] \in Shape /\ shapes[k].size \in Nat /\ shapes[k].align \in Nat \ {0}
         /\ AlignIn(shapes[k], packed) \in Nat \ {0} /\ AlignIn(shapes[k], packed) <= shapes[k].align
<1>1. shapes[k] \in Shape
  BY LenProperties, ElementOfSeq
<1> QED
  BY <1>1 DEF AlignIn, Shape

\* A body is aligned as its most aligned member.
LEMMA BodyAlignFacts ==
  ASSUME NEW shapes \in Seq(Shape), NEW packed \in BOOLEAN
  PROVE  /\ BodyAlign(shapes, packed) \in Nat \ {0}
         /\ \A k \in DOMAIN shapes : AlignIn(shapes[k], packed) <= BodyAlign(shapes, packed)
         /\ \/ BodyAlign(shapes, packed) = 1
            \/ \E k \in DOMAIN shapes : BodyAlign(shapes, packed) = AlignIn(shapes[k], packed)
<1> DEFINE S == {1} \cup {AlignIn(s, packed) : s \in ShapesIn(shapes)}
<1>1. \A k \in DOMAIN shapes : AlignIn(shapes[k], packed) \in S /\ AlignIn(shapes[k], packed) \in Nat \ {0}
  BY MemberShape DEF ShapesIn
<1>2. \A x \in S : x = 1 \/ \E k \in DOMAIN shapes : x = AlignIn(shapes[k], packed)
  BY DEF ShapesIn
<1>3. PICK n \in Nat : \A k \in DOMAIN shapes : shapes[k].size <= n /\ shapes[k].align <= n
  BY ShapesBounded
<1>4. \A x \in S : x \in Nat \ {0}
  BY <1>1, <1>2
<1>5. \A x \in S : x <= n + 1
  <2> TAKE x \in S
  <2>1. CASE x = 1
    BY <2>1
  <2>2. ASSUME NEW k \in DOMAIN shapes, x = AlignIn(shapes[k], packed) PROVE x <= n + 1
    <3>1. PICK y \in Nat : y = shapes[k].align /\ x <= y /\ y <= n /\ x \in Nat
      BY <1>3, <2>2, MemberShape
    <3> QED
      BY <3>1
  <2> QED
    BY <1>2, <2>1, <2>2
<1>6. Greatest(S) \in S /\ \A y \in S : y <= Greatest(S)
  <2>1. 1 \in S /\ n + 1 \in Nat
    OBVIOUS
  <2> HIDE DEF S
  <2> QED
    BY <1>5, <2>1, GreatestOf, <1>4
<1>7. BodyAlign(shapes, packed) = Greatest(S)
  BY DEF BodyAlign
<1> HIDE DEF S
<1> QED
  BY <1>1, <1>2, <1>4, <1>6, <1>7

\* A union has room for its largest member.
LEMMA RoomFacts ==
  ASSUME NEW shapes \in Seq(Shape)
  PROVE  /\ StorageRoom(shapes) \in Nat \ {0}
         /\ \A k \in DOMAIN shapes : shapes[k].size <= StorageRoom(shapes)
         /\ \/ StorageRoom(shapes) = 1
            \/ \E k \in DOMAIN shapes : StorageRoom(shapes) = shapes[k].size
<1> DEFINE S == {1} \cup {s.size : s \in ShapesIn(shapes)}
<1>1. \A k \in DOMAIN shapes : shapes[k].size \in S /\ shapes[k].size \in Nat
  BY MemberShape DEF ShapesIn
<1>2. \A x \in S : x = 1 \/ \E k \in DOMAIN shapes : x = shapes[k].size
  BY DEF ShapesIn
<1>3. PICK n \in Nat : \A k \in DOMAIN shapes : shapes[k].size <= n /\ shapes[k].align <= n
  BY ShapesBounded
<1>4. \A x \in S : x \in Nat
  BY <1>1, <1>2
<1>5. \A x \in S : x <= n + 1
  <2> TAKE x \in S
  <2>1. CASE x = 1
    BY <2>1
  <2> QED
    BY <1>2, <2>1, <1>1, <1>3
<1>6. Greatest(S) \in S /\ \A y \in S : y <= Greatest(S)
  <2>1. 1 \in S /\ n + 1 \in Nat
    OBVIOUS
  <2> HIDE DEF S
  <2> QED
    BY <1>5, <2>1, GreatestOf, <1>4
<1>7. StorageRoom(shapes) = Greatest(S)
  BY DEF StorageRoom
<1>8. 1 \in S
  OBVIOUS
<1> HIDE DEF S
<1>9. PICK g \in Nat : g = Greatest(S) /\ 1 <= g
  BY <1>4, <1>6, <1>8
<1> QED
  BY <1>1, <1>2, <1>6, <1>7, <1>9

--------------------------------------------------------------------------------
(* The ends of a body's members. *)

\* F are the ends of the members, the recursion of Ends.
EndsOf(F, shapes, packed) ==
  F = [n \in 0 .. Len(shapes) |->
        IF n = 0 THEN 0 ELSE RoundUp(F[n - 1], AlignIn(shapes[n], packed)) + shapes[n].size]

\* The recursion of Ends has a solution.
LEMMA EndsExist ==
  ASSUME NEW shapes \in Seq(Shape), NEW packed \in BOOLEAN
  PROVE  \E F : EndsOf(F, shapes, packed)
<1>1. Len(shapes) \in Nat /\ DOMAIN shapes = 1 .. Len(shapes)
  BY LenProperties
<1> DEFINE st == [p \in (1 .. Len(shapes)) \X Nat |->
                   RoundUp(p[2], AlignIn(shapes[p[1]], packed)) + shapes[p[1]].size]
<1>2. ASSUME NEW k \in 1 .. Len(shapes), NEW n \in Nat
      PROVE  RoundUp(n, AlignIn(shapes[k], packed)) + shapes[k].size \in Nat
  <2>1. PICK a \in Nat \ {0} : a = AlignIn(shapes[k], packed)
    BY <1>1, MemberShape
  <2>2. PICK s \in Nat : s = shapes[k].size
    BY <1>1, MemberShape
  <2>3. PICK r \in Nat : r = RoundUp(n, a)
    BY Rounding
  <2> QED
    BY <2>1, <2>2, <2>3
<1>3. st \in [(1 .. Len(shapes)) \X Nat -> Nat]
  BY <1>2
<1>4. PICK F \in [0 .. Len(shapes) -> Nat] :
        F[0] = 0 /\ \A m \in 1 .. Len(shapes) : F[m] = st[<<m, F[m - 1]>>]
  <2> HIDE DEF st
  <2>1. \E F \in [0 .. Len(shapes) -> Nat] : Steps(F, Len(shapes), 0, st)
    BY <1>1, <1>3, RecursionUpTo
  <2> QED
    BY <2>1 DEF Steps
<1>5. ASSUME NEW m \in 0 .. Len(shapes)
      PROVE  F[m] = IF m = 0 THEN 0 ELSE RoundUp(F[m - 1], AlignIn(shapes[m], packed)) + shapes[m].size
  <2>1. CASE m = 0
    BY <1>4, <2>1
  <2>2. CASE m # 0
    <3>1. m \in 1 .. Len(shapes) /\ m - 1 \in 0 .. Len(shapes)
      BY <1>1, <2>2
    <3> QED
      BY <1>4, <2>2, <3>1
  <2> QED
    BY <2>1, <2>2
<1> QED
  BY <1>5 DEF EndsOf

\* Each member ends its size behind the multiple of its alignment that follows the last.
LEMMA EndsFacts ==
  ASSUME NEW shapes \in Seq(Shape), NEW packed \in BOOLEAN, NEW e, e = Ends(shapes, packed)
  PROVE  /\ e[0] = 0
         /\ \A k \in 0 .. Len(shapes) : e[k] \in Nat
         /\ \A k \in 1 .. Len(shapes) :
              e[k] = RoundUp(e[k - 1], AlignIn(shapes[k], packed)) + shapes[k].size
         /\ \A i, j \in 0 .. Len(shapes) : i <= j => e[i] <= e[j]
<1>1. Len(shapes) \in Nat /\ DOMAIN shapes = 1 .. Len(shapes)
  BY LenProperties
<1>2. EndsOf(e, shapes, packed)
  <2>1. PICK F : F = (CHOOSE f : EndsOf(f, shapes, packed)) /\ EndsOf(F, shapes, packed)
    BY EndsExist
  <2> QED
    BY <2>1 DEF Ends, EndsOf
<1>3. \A k \in 0 .. Len(shapes) :
        e[k] = IF k = 0 THEN 0 ELSE RoundUp(e[k - 1], AlignIn(shapes[k], packed)) + shapes[k].size
  BY <1>2 DEF EndsOf
<1>4. e[0] = 0
  BY <1>1, <1>3
<1>5. \A k \in 1 .. Len(shapes) : e[k] = RoundUp(e[k - 1], AlignIn(shapes[k], packed)) + shapes[k].size
  <2> TAKE k \in 1 .. Len(shapes)
  <2> QED
    BY <1>3, <1>1
<1>6. ASSUME NEW k \in 1 .. Len(shapes), e[k - 1] \in Nat
      PROVE  e[k] \in Nat /\ e[k - 1] <= e[k]
  <2>1. PICK a \in Nat \ {0} : a = AlignIn(shapes[k], packed)
    BY <1>1, MemberShape
  <2>2. PICK s \in Nat : s = shapes[k].size
    BY <1>1, MemberShape
  <2>3. PICK x \in Nat : x = e[k - 1]
    BY <1>6
  <2>4. PICK r \in Nat : r = RoundUp(x, a) /\ x <= r
    BY Rounding
  <2> QED
    BY <2>3, <2>4, <1>5, <2>1, <2>2
<1>7. \A k \in 0 .. Len(shapes) : e[k] \in Nat
  <2> DEFINE G == {k \in 0 .. Len(shapes) : e[k] \in Nat}
  <2>1. 0 \in G
    BY <1>1, <1>4
  <2>2. ASSUME NEW k \in 1 .. Len(shapes), k - 1 \in G PROVE k \in G
    BY <1>6, <2>2
  <2>3. \A k \in 0 .. Len(shapes) : k \in G
    <3> HIDE DEF G
    <3> QED
      BY <1>1, <2>1, <2>2, UpTo
  <2> QED
    BY <2>3
<1>8. ASSUME NEW i \in 0 .. Len(shapes), NEW j \in 0 .. Len(shapes), i <= j PROVE e[i] <= e[j]
  <2> DEFINE G == {k \in 0 .. Len(shapes) : i <= k => e[i] <= e[k]}
  <2>1. 0 \in G
    BY <1>1, <1>7
  <2>2. ASSUME NEW k \in 1 .. Len(shapes), k - 1 \in G PROVE k \in G
    <3>1. k - 1 \in 0 .. Len(shapes) /\ k \in 0 .. Len(shapes)
      BY <1>1
    <3>2. e[k] \in Nat /\ e[k - 1] \in Nat /\ e[i] \in Nat /\ e[k - 1] <= e[k]
      BY <1>6, <1>7, <3>1
    <3>3. CASE i = k
      BY <3>1, <3>2, <3>3
    <3>4. CASE i # k
      BY <3>1, <3>2, <2>2, <1>1, <3>4
    <3> QED
      BY <3>3, <3>4
  <2>3. \A k \in 0 .. Len(shapes) : k \in G
    <3> HIDE DEF G
    <3> QED
      BY <1>1, <2>1, <2>2, UpTo
  <2> QED
    BY <1>8, <2>3
<1> QED
  BY <1>4, <1>5, <1>7, <1>8

--------------------------------------------------------------------------------
(* Bodies. *)

\* Where the members of a body lie, and how far it reaches.
LEMMA BodyFacts ==
  ASSUME NEW shapes \in Seq(Shape), NEW packed \in BOOLEAN,
         NEW sh, sh = BodyShape(shapes, packed), NEW o, o = BodyOffsets(shapes, packed)
  PROVE  /\ sh \in Shape /\ sh.align = BodyAlign(shapes, packed) /\ sh.size % sh.align = 0
         /\ o \in Seq(Nat) /\ Len(o) = Len(shapes)
         /\ \A k \in 1 .. Len(shapes) :
              /\ o[k] % AlignIn(shapes[k], packed) = 0
              /\ o[k] + shapes[k].size <= sh.size
              /\ \A j \in 1 .. k - 1 : o[j] + shapes[j].size <= o[k]
<1>1. Len(shapes) \in Nat /\ DOMAIN shapes = 1 .. Len(shapes)
  BY LenProperties
<1>2. PICK e : e = Ends(shapes, packed)
  OBVIOUS
<1>3. /\ e[0] = 0
      /\ \A k \in 0 .. Len(shapes) : e[k] \in Nat
      /\ \A k \in 1 .. Len(shapes) :
           e[k] = RoundUp(e[k - 1], AlignIn(shapes[k], packed)) + shapes[k].size
      /\ \A i, j \in 0 .. Len(shapes) : i <= j => e[i] <= e[j]
  BY <1>2, EndsFacts
<1>4. PICK a \in Nat \ {0} : a = BodyAlign(shapes, packed)
  BY BodyAlignFacts
<1>5. PICK n \in Nat : n = e[Len(shapes)]
  BY <1>1, <1>3
<1>7. sh.size = RoundUp(n, a) /\ sh.align = a /\ sh \in Shape /\ n <= sh.size /\ sh.size \in Nat /\ sh.size % a = 0
  BY Rounding, <1>2, <1>4, <1>5 DEF Shape, BodyShape
<1>8. o = [k \in 1 .. Len(shapes) |-> RoundUp(e[k - 1], AlignIn(shapes[k], packed))]
  BY <1>1, <1>2 DEF BodyOffsets
<1>9. ASSUME NEW k \in 1 .. Len(shapes)
      PROVE  /\ o[k] \in Nat /\ o[k] % AlignIn(shapes[k], packed) = 0
             /\ e[k - 1] \in Nat /\ e[k - 1] <= o[k] /\ o[k] + shapes[k].size = e[k]
  <2>1. PICK b \in Nat \ {0} : b = AlignIn(shapes[k], packed)
    BY <1>1, MemberShape
  <2>3. PICK x \in Nat : x = e[k - 1]
    BY <1>3, <1>1
  <2>4. RoundUp(x, b) \in Nat /\ x <= RoundUp(x, b) /\ RoundUp(x, b) % b = 0
    BY Rounding
  <2> QED
    BY <2>1, <2>3, <2>4, <1>3, <1>8
<1>10. o \in Seq(Nat) /\ Len(o) = Len(shapes)
  BY <1>1, IsASeq, LenProperties, <1>8, <1>9
<1>11. ASSUME NEW k \in 1 .. Len(shapes) PROVE o[k] + shapes[k].size <= sh.size
  <2>2. e[k] \in Nat /\ e[k] <= n
    BY <1>3, <1>5, <1>1
  <2> QED
    BY <1>7, <1>9, <2>2
<1>12. ASSUME NEW k \in 1 .. Len(shapes), NEW j \in 1 .. k - 1
       PROVE  o[j] + shapes[j].size <= o[k]
  <2>1. j \in 1 .. Len(shapes) /\ j \in 0 .. Len(shapes) /\ k - 1 \in 0 .. Len(shapes) /\ j <= k - 1
    BY <1>1
  <2>2. e[j] \in Nat /\ e[j] <= e[k - 1]
    BY <1>3, <2>1
  <2> QED
    BY <2>2, <1>9, <2>1
<1> QED
  BY <1>4, <1>7, <1>9, <1>10, <1>11, <1>12

\* cg_layout_fits accepts a body if and only if it ends within the address space.
LEMMA FitsIfSmall ==
  ASSUME NEW shapes \in Seq(Shape), NEW packed \in BOOLEAN
  PROVE  BodyFits(shapes, packed) <=> BodyShape(shapes, packed).size <= SizeLimit
<1>1. Len(shapes) \in Nat /\ DOMAIN shapes = 1 .. Len(shapes) /\ SizeLimit \in Nat
  BY LenProperties, LayoutAssumption
<1>2. PICK e : e = Ends(shapes, packed)
  OBVIOUS
<1>3. /\ e[0] = 0
      /\ \A k \in 0 .. Len(shapes) : e[k] \in Nat
      /\ \A k \in 1 .. Len(shapes) :
           e[k] = RoundUp(e[k - 1], AlignIn(shapes[k], packed)) + shapes[k].size
      /\ \A i, j \in 0 .. Len(shapes) : i <= j => e[i] <= e[j]
  BY <1>2, EndsFacts
<1>4. PICK a \in Nat \ {0} : a = BodyAlign(shapes, packed)
  BY BodyAlignFacts
<1>5. PICK n \in Nat : n = e[Len(shapes)]
  BY <1>1, <1>3
<1>6. PICK p \in Nat : p = Pad(n, a) /\ BodyShape(shapes, packed).size = n + p
  <2>1. PICK p \in 0 .. a - 1 : p = Pad(n, a) /\ RoundUp(n, a) = n + p
    BY Rounding
  <2> QED
    BY <1>2, <1>4, <1>5, <2>1 DEF BodyShape
<1> DEFINE FitTill(k) == /\ Pad(e[k - 1], AlignIn(shapes[k], packed)) <= SizeLimit - e[k - 1]
                         /\ shapes[k].size <= SizeLimit - e[k - 1] - Pad(e[k - 1], AlignIn(shapes[k], packed))
<1>7. BodyFits(shapes, packed) <=> (\A k \in 1 .. Len(shapes) : FitTill(k)) /\ p <= SizeLimit - n
  BY <1>1, <1>2, <1>4, <1>5, <1>6 DEF BodyFits
<1>8. ASSUME n <= SizeLimit, NEW k \in 1 .. Len(shapes) PROVE FitTill(k)
  <2>1. PICK b \in Nat \ {0} : b = AlignIn(shapes[k], packed)
    BY <1>1, MemberShape
  <2>2. PICK s \in Nat : s = shapes[k].size
    BY <1>1, MemberShape
  <2>3. k - 1 \in 0 .. Len(shapes) /\ k \in 0 .. Len(shapes) /\ Len(shapes) \in 0 .. Len(shapes) /\ k <= Len(shapes)
    BY <1>1
  <2>4. PICK x \in Nat : x = e[k - 1]
    BY <1>3, <2>3
  <2>5. PICK q \in 0 .. b - 1 : q = Pad(x, b) /\ RoundUp(x, b) = x + q
    BY Rounding
  <2>6. e[k] = x + q + s
    BY <1>3, <2>1, <2>2, <2>4, <2>5
  <2>9. q <= SizeLimit - x /\ s <= SizeLimit - x - q
    BY <1>1, <1>8, <2>6, <1>3, <1>5, <2>3
  <2> QED
    BY <2>1, <2>2, <2>4, <2>5, <2>9
<1> HIDE DEF FitTill
<1> QED
  BY <1>6, <1>7, <1>8, <1>1

--------------------------------------------------------------------------------
(* The storage of a union and of the payloads of an enum. *)

\* The member that lends the storage its alignment is no larger than the storage.
LEMMA AnchorFacts ==
  ASSUME NEW shapes \in Seq(Shape)
  PROVE  /\ Anchor(shapes) \in Shape /\ Anchor(shapes).align = BodyAlign(shapes, FALSE)
         /\ Anchor(shapes).size <= StorageRoom(shapes)
<1>1. PICK a \in Nat \ {0} : a = BodyAlign(shapes, FALSE)
  BY BodyAlignFacts
<1>2. PICK r \in Nat \ {0} : r = StorageRoom(shapes) /\ \A k \in DOMAIN shapes : shapes[k].size <= r
  BY RoomFacts
<1>3. CASE a = 1
  <2>2. Anchor(shapes) \in Shape /\ Anchor(shapes).size = 1 /\ Anchor(shapes).align = 1
    BY <1>1, <1>3 DEF Shape, Anchor
  <2>3. 1 <= r
    BY <1>2
  <2> QED
    BY <1>1, <1>2, <1>3, <2>2, <2>3
<1>4. CASE a # 1
  <2> DEFINE First(k) == shapes[k].align = a /\ \A j \in 1 .. k - 1 : shapes[j].align # a
             K == {k \in DOMAIN shapes : shapes[k].align = a}
  <2>1. K \in SUBSET Nat /\ K # {}
    <3>1. \E k \in DOMAIN shapes : a = AlignIn(shapes[k], FALSE)
      BY <1>1, <1>4, BodyAlignFacts
    <3> QED
      BY <3>1, LenProperties DEF AlignIn
  <2>2. PICK k \in K : \A j \in K : k <= j
    <3> HIDE DEF K
    <3> QED
      BY <2>1, LeastNumber
  <2>3. k \in 1 .. Len(shapes) /\ shapes[k].align = a /\ Len(shapes) \in Nat /\ DOMAIN shapes = 1 .. Len(shapes)
    BY LenProperties
  <2>5. k \in DOMAIN shapes /\ First(k)
    BY <2>3, <2>2
  <2>6. PICK c \in DOMAIN shapes : c = (CHOOSE i \in DOMAIN shapes : First(i)) /\ First(c)
    <3> HIDE DEF First
    <3> QED
      BY <2>5
  <2> QED
    BY <1>1, <1>2, <2>6, MemberShape, <1>4, <2>3 DEF Anchor
<1> QED
  BY <1>3, <1>4

\* The storage is the room rounded up, and accepted if it is within the address space.
LEMMA StorageFacts ==
  ASSUME NEW shapes \in Seq(Shape), NEW packed \in BOOLEAN,
         NEW st, st = StorageShape(shapes, packed)
  PROVE  /\ st \in Shape /\ st.align = BodyAlign(shapes, packed) /\ st.size % st.align = 0
         /\ \A k \in DOMAIN shapes : shapes[k].size <= st.size
         /\ StorageFits(shapes, packed) <=> st.size <= SizeLimit
<1>1. PICK a \in Nat \ {0} : a = BodyAlign(shapes, packed)
  BY BodyAlignFacts
<1>2. PICK r \in Nat \ {0} : r = StorageRoom(shapes) /\ \A k \in DOMAIN shapes : shapes[k].size <= r
  BY RoomFacts
<1>3. PICK p \in 0 .. a - 1 : p = Pad(r, a) /\ RoundUp(r, a) = r + p /\ (r + p) % a = 0
  BY Rounding
<1>4. st = [size |-> r + p, align |-> a]
  <2>1. CASE packed
    <3>1. a = 1
      BY <1>1, <2>1, BodyAlignFacts DEF AlignIn
    <3> QED
      BY <1>2, <2>1, <3>1, <1>3 DEF StorageShape
  <2>2. CASE ~packed
    <3>1. PICK c \in Shape : c = Anchor(shapes) /\ c.align = a /\ c.size <= r
      BY <1>1, <1>2, <2>2, AnchorFacts
    <3>2. c.size \in Nat /\ c.align \in Nat \ {0}
      BY <3>1 DEF Shape
    <3>3. PICK d : d = [size |-> r - c.size, align |-> 1]
      OBVIOUS
    <3>4. d \in Shape /\ d.size = r - c.size /\ d.align = 1
      BY <3>1, <3>2, <3>3 DEF Shape
    <3>5. PICK body : body = <<c, d>>
      OBVIOUS
    <3>6. body \in Seq(Shape) /\ Len(body) = 2 /\ body[1] = c /\ body[2] = d /\ DOMAIN body = 1 .. 2
      BY <3>1, <3>4, <3>5
    <3>7. st = BodyShape(body, FALSE)
      BY <1>2, <2>2, <3>1, <3>3, <3>5 DEF StorageShape
    <3>8. BodyAlign(body, FALSE) = a
      <4>1. /\ BodyAlign(body, FALSE) \in Nat \ {0}
            /\ \A k \in DOMAIN body : AlignIn(body[k], FALSE) <= BodyAlign(body, FALSE)
            /\ \/ BodyAlign(body, FALSE) = 1
               \/ \E k \in DOMAIN body : BodyAlign(body, FALSE) = AlignIn(body[k], FALSE)
        BY <3>6, BodyAlignFacts
      <4>2. AlignIn(body[1], FALSE) = a /\ AlignIn(body[2], FALSE) = 1 /\ 1 \in DOMAIN body
        BY <3>1, <3>4, <3>6 DEF AlignIn
      <4>3. \A k \in DOMAIN body : k = 1 \/ k = 2
        BY <3>6
      <4>4. PICK x \in Nat \ {0} : x = BodyAlign(body, FALSE)
        BY <4>1
      <4>5. a <= x
        BY <4>1, <4>2, <4>4
      <4>6. x = 1 \/ x = a
        BY <4>1, <4>2, <4>3, <4>4
      <4>7. x = a
        BY <4>5, <4>6, <1>1
      <4> QED
        BY <4>4, <4>7
    <3>9. PICK e : e = Ends(body, FALSE)
      OBVIOUS
    <3>10. e[0] = 0 /\ e[1] = RoundUp(e[0], AlignIn(body[1], FALSE)) + body[1].size
           /\ e[2] = RoundUp(e[1], AlignIn(body[2], FALSE)) + body[2].size
      <4>1. \A k \in 1 .. Len(body) : e[k] = RoundUp(e[k - 1], AlignIn(body[k], FALSE)) + body[k].size
        BY <3>6, <3>9, EndsFacts
      <4>2. 1 \in 1 .. Len(body) /\ 2 \in 1 .. Len(body) /\ 1 - 1 = 0 /\ 2 - 1 = 1
        BY <3>6
      <4> QED
        BY <3>6, <3>9, <4>1, <4>2, EndsFacts
    <3>12. e[2] = r
      BY <3>2, <3>4, <3>6, <3>10, ByOne, RoundingDivisible, <3>1, ZeroAndSelf DEF AlignIn
    <3> QED
      BY <1>3, <3>6, <3>7, <3>8, <3>9, <3>12 DEF BodyShape
  <2> QED
    BY <2>1, <2>2
<1>5. st.size = r + p /\ st.align = a /\ st \in Shape /\ r <= st.size
  BY <1>4 DEF Shape
<1>6. ASSUME NEW k \in DOMAIN shapes PROVE shapes[k].size <= st.size
  <2>1. PICK s \in Nat : s = shapes[k].size
    BY MemberShape
  <2> QED
    BY <1>5, <2>1, <1>2
<1> QED
  BY <1>1, <1>3, <1>5, <1>6, <1>2, LayoutAssumption DEF StorageFits

--------------------------------------------------------------------------------
(* Alignments are powers of two. *)

\* Of two alignments the less divides the greater.
LEMMA ChainFacts ==
  /\ Chain \subseteq Nat \ {0} /\ ChainShape \subseteq Shape
  /\ \A a, b \in Chain : a <= b => b % a = 0
<1>3. Alignments \subseteq Nat \ {0}
  BY LayoutAssumption DEF Alignments, Shape
<1>5. Chain \subseteq Nat \ {0}
  BY <1>3 DEF Chain
<1>6. ASSUME NEW a \in Chain, NEW b \in Chain, a <= b PROVE b % a = 0
  <2>1. CASE a = 1
    BY <1>5, <2>1, ByOne
  <2>2. CASE a # 1
    BY <1>6, LayoutAssumption, <1>3, <1>5, <2>2 DEF Chain
  <2> QED
    BY <2>1, <2>2
<1> QED
  BY <1>5, <1>6 DEF ChainShape, Shape

\* The alignment of a body is one of them, and a multiple of that of each member.
LEMMA BodyAlignChain ==
  ASSUME NEW shapes \in Seq(ChainShape), NEW packed \in BOOLEAN
  PROVE  /\ shapes \in Seq(Shape)
         /\ BodyAlign(shapes, packed) \in Chain
         /\ \A k \in DOMAIN shapes : /\ AlignIn(shapes[k], packed) \in Chain
                                     /\ BodyAlign(shapes, packed) % AlignIn(shapes[k], packed) = 0
<1>2. \A k \in DOMAIN shapes : AlignIn(shapes[k], packed) \in Chain
  <2> TAKE k \in DOMAIN shapes
  <2>1. shapes[k] \in ChainShape
    BY LenProperties, ElementOfSeq
  <2> QED
    BY <2>1 DEF ChainShape, Chain, AlignIn
<1>3. PICK a : a = BodyAlign(shapes, packed)
  OBVIOUS
<1> QED
  BY <1>2, <1>3, ChainFacts, BodyAlignFacts, SeqMonotonic DEF Chain

--------------------------------------------------------------------------------
(* Arrays. *)

\* The laws of the product, for one use at a time.
LEMMA Products ==
  ASSUME NEW a \in Nat, NEW b \in Nat, NEW c \in Nat
  PROVE  a * b \in Nat /\ a * b = b * a /\ (a * b) * c = a * (b * c)
  BY SMT

\* A product grows with its factors.
LEMMA ProductMonotone ==
  ASSUME NEW a \in Nat, NEW b \in Nat, NEW c \in Nat, a <= b
  PROVE  a * c <= b * c
<1>1. PICK d \in Nat : b = a + d
  OBVIOUS
<1>2. b * c = a * c + d * c
  BY <1>1, SMT
<1>3. PICK x \in Nat, y \in Nat : x = a * c /\ y = d * c
  BY Products
<1> QED
  BY <1>3, <1>2

\* A number of elements fits if their sizes do together.
LEMMA Quotients ==
  ASSUME NEW x \in Nat, NEW n \in Nat, NEW e \in Nat \ {0}
  PROVE  n <= x \div e <=> n * e <= x
<1>1. PICK q \in Nat : q = x \div e
  BY Remainder
<1>2. PICK r \in 0 .. e - 1 : r = x % e
  BY Remainder
<1>4. PICK y \in Nat : y = q * e /\ x = y + r
  BY Products, <1>1, <1>2, Remainder
<1>5. ASSUME n <= q PROVE n * e <= x
  <2>2. PICK z \in Nat : z = n * e
    BY Products
  <2> QED
    BY <1>4, <2>2, <1>5, ProductMonotone
<1>6. ASSUME ~(n <= q) PROVE ~(n * e <= x)
  <2>1. PICK k \in Nat : k = q + 1
    OBVIOUS
  <2>3. k * e = q * e + e
    BY <2>1, SMT
  <2>4. PICK z \in Nat : z = n * e
    BY Products
  <2> QED
    BY <1>4, <2>4, <2>3, <1>6, <2>1, ProductMonotone
<1> QED
  BY <1>1, <1>5, <1>6

\* What is below the modulus is its own remainder.
LEMMA SmallRemainder ==
  ASSUME NEW x \in Nat, NEW m \in Nat, x < m
  PROVE  x % m = x
  BY SMT

\* What LLVM's words hold.
Wrap == 2 * (SizeLimit + 1)

\* The recursions of ArraySizes and of BytesOf.
SizesOf(F, dims, s) ==
  F = [d \in 0 .. Len(dims) |-> IF d = 0 THEN s ELSE (dims[Len(dims) + 1 - d] * F[d - 1]) % Wrap]

\* The product of the extents up to each.
ProductsOf(F, dims) ==
  F = [d \in 0 .. Len(dims) |-> IF d = 0 THEN 1 ELSE F[d - 1] * dims[d]]

\* Both recursions have solutions.
LEMMA SizesExist ==
  ASSUME NEW dims \in Seq(Nat), NEW s \in Nat
  PROVE  \E F : SizesOf(F, dims, s)
<1>1. Len(dims) \in Nat /\ DOMAIN dims = 1 .. Len(dims) /\ \A d \in 1 .. Len(dims) : dims[d] \in Nat
  BY LenProperties, ElementOfSeq
<1>2. Wrap \in Nat \ {0}
  BY LayoutAssumption DEF Wrap
<1> DEFINE st == [p \in (1 .. Len(dims)) \X Nat |-> (dims[Len(dims) + 1 - p[1]] * p[2]) % Wrap]
<1>3. ASSUME NEW d \in 1 .. Len(dims), NEW n \in Nat
      PROVE  (dims[Len(dims) + 1 - d] * n) % Wrap \in Nat
  <2>2. PICK x \in Nat : x = dims[Len(dims) + 1 - d] * n
    BY <1>1, Products
  <2>3. x % Wrap \in 0 .. Wrap - 1
    BY <1>2, Remainder
  <2> QED
    BY <1>2, <2>2, <2>3
<1>4. st \in [(1 .. Len(dims)) \X Nat -> Nat]
  BY <1>3
<1>5. PICK F \in [0 .. Len(dims) -> Nat] :
        F[0] = s /\ \A m \in 1 .. Len(dims) : F[m] = st[<<m, F[m - 1]>>]
  <2> HIDE DEF st
  <2>1. \E F \in [0 .. Len(dims) -> Nat] : Steps(F, Len(dims), s, st)
    BY <1>1, <1>4, RecursionUpTo
  <2> QED
    BY <2>1 DEF Steps
<1>6. ASSUME NEW d \in 0 .. Len(dims)
      PROVE  F[d] = IF d = 0 THEN s ELSE (dims[Len(dims) + 1 - d] * F[d - 1]) % Wrap
  <2>1. CASE d = 0
    BY <1>5, <2>1
  <2>2. CASE d # 0
    <3>1. d \in 1 .. Len(dims) /\ d - 1 \in 0 .. Len(dims)
      BY <1>1, <2>2
    <3>3. st[<<d, F[d - 1]>>] = (dims[Len(dims) + 1 - d] * F[d - 1]) % Wrap
      BY <3>1
    <3> HIDE DEF st
    <3> QED
      BY <1>5, <2>2, <3>1, <3>3
  <2> QED
    BY <2>1, <2>2
<1> QED
  BY <1>6 DEF SizesOf

\* The second of them.
LEMMA ProductsExist ==
  ASSUME NEW dims \in Seq(Nat)
  PROVE  \E F : ProductsOf(F, dims)
<1>1. Len(dims) \in Nat /\ DOMAIN dims = 1 .. Len(dims) /\ \A d \in 1 .. Len(dims) : dims[d] \in Nat
  BY LenProperties, ElementOfSeq
<1> DEFINE st == [p \in (1 .. Len(dims)) \X Nat |-> p[2] * dims[p[1]]]
<1>3. st \in [(1 .. Len(dims)) \X Nat -> Nat]
  BY <1>1, Products
<1>4. PICK F \in [0 .. Len(dims) -> Nat] :
        F[0] = 1 /\ \A m \in 1 .. Len(dims) : F[m] = st[<<m, F[m - 1]>>]
  <2> HIDE DEF st
  <2>1. \E F \in [0 .. Len(dims) -> Nat] : Steps(F, Len(dims), 1, st)
    BY <1>1, <1>3, RecursionUpTo
  <2> QED
    BY <2>1 DEF Steps
<1>5. ASSUME NEW d \in 0 .. Len(dims)
      PROVE  F[d] = IF d = 0 THEN 1 ELSE F[d - 1] * dims[d]
  <2>1. CASE d = 0
    BY <1>4, <2>1
  <2>2. CASE d # 0
    <3>1. d \in 1 .. Len(dims) /\ d - 1 \in 0 .. Len(dims)
      BY <1>1, <2>2
    <3>3. st[<<d, F[d - 1]>>] = F[d - 1] * dims[d]
      BY <3>1
    <3> HIDE DEF st
    <3> QED
      BY <1>4, <2>2, <3>1, <3>3
  <2> QED
    BY <2>1, <2>2
<1> QED
  BY <1>5 DEF ProductsOf

\* What cg_layout_field_type has after each extent, from the last to the first.
LEMMA ArraySizesFacts ==
  ASSUME NEW f, f.dims \in Seq(Nat), NEW s \in Nat, ElementShape(f).size = s, NEW z, z = ArraySizes(f)
  PROVE  /\ z[0] = s /\ \A d \in 0 .. Len(f.dims) : z[d] \in Nat
         /\ \A d \in 1 .. Len(f.dims) : z[d] = (f.dims[Len(f.dims) + 1 - d] * z[d - 1]) % Wrap
<1>1. PICK dims \in Seq(Nat) : dims = f.dims
  OBVIOUS
<1>2. Len(dims) \in Nat /\ \A d \in 1 .. Len(dims) : dims[d] \in Nat
  BY LenProperties, ElementOfSeq
<1>3. SizesOf(z, dims, s)
  <2>1. PICK F : F = (CHOOSE g : SizesOf(g, dims, s)) /\ SizesOf(F, dims, s)
    BY SizesExist
  <2>2. ArraySizes(f) = CHOOSE g : SizesOf(g, dims, s)
    BY <1>1 DEF ArraySizes, SizesOf, Wrap
  <2> QED
    BY <2>1, <2>2
<1>4. \A d \in 0 .. Len(dims) : z[d] = IF d = 0 THEN s ELSE (dims[Len(dims) + 1 - d] * z[d - 1]) % Wrap
  BY <1>3 DEF SizesOf
<1>5. z[0] = s
  BY <1>2, <1>4
<1>6. \A d \in 1 .. Len(dims) : z[d] = (dims[Len(dims) + 1 - d] * z[d - 1]) % Wrap
  <2> TAKE d \in 1 .. Len(dims)
  <2> QED
    BY <1>4, <1>2
<1> DEFINE G == {d \in 0 .. Len(dims) : z[d] \in Nat}
<1>7. 0 \in G
  BY <1>2, <1>5
<1>8. ASSUME NEW d \in 1 .. Len(dims), d - 1 \in G PROVE d \in G
  <2>1. Len(dims) + 1 - d \in 1 .. Len(dims) /\ d \in 0 .. Len(dims)
    BY <1>2
  <2>2. PICK x \in Nat : x = dims[Len(dims) + 1 - d] * z[d - 1]
    BY <1>2, <1>8, <2>1, Products
  <2>3. Wrap \in Nat \ {0}
    BY LayoutAssumption DEF Wrap
  <2>4. x % Wrap \in 0 .. Wrap - 1
    BY <2>3, Remainder
  <2> QED
    BY <2>1, <1>6, <2>2, <2>3, <2>4
<1>9. \A d \in 0 .. Len(dims) : d \in G
  <2> HIDE DEF G
  <2> QED
    BY <1>2, <1>7, <1>8, UpTo
<1> QED
  BY <1>1, <1>5, <1>6, <1>9

\* The bytes of a member are the product of its extents, times those of an element.
LEMMA BytesFacts ==
  ASSUME NEW f, f.dims \in Seq(Nat), NEW s \in Nat, ElementShape(f).size = s
  PROVE  \E p : /\ p[0] = 1 /\ \A d \in 0 .. Len(f.dims) : p[d] \in Nat
                /\ \A d \in 1 .. Len(f.dims) : p[d] = p[d - 1] * f.dims[d]
                /\ BytesOf(f) = p[Len(f.dims)] * s
<1>1. PICK dims \in Seq(Nat) : dims = f.dims
  OBVIOUS
<1>2. Len(dims) \in Nat /\ \A d \in 1 .. Len(dims) : dims[d] \in Nat
  BY LenProperties, ElementOfSeq
<1>3. PICK p : p = (CHOOSE g : ProductsOf(g, dims)) /\ ProductsOf(p, dims)
  BY ProductsExist
<1>4. BytesOf(f) = p[Len(dims)] * s
  BY <1>3, <1>1 DEF BytesOf, ProductsOf
<1>5. \A d \in 0 .. Len(dims) : p[d] = IF d = 0 THEN 1 ELSE p[d - 1] * dims[d]
  BY <1>3 DEF ProductsOf
<1>6. p[0] = 1
  BY <1>2, <1>5
<1>7. \A d \in 1 .. Len(dims) : p[d] = p[d - 1] * dims[d]
  <2> TAKE d \in 1 .. Len(dims)
  <2> QED
    BY <1>5, <1>2
<1> DEFINE G == {d \in 0 .. Len(dims) : p[d] \in Nat}
<1>8. 0 \in G
  BY <1>2, <1>6
<1>9. ASSUME NEW d \in 1 .. Len(dims), d - 1 \in G PROVE d \in G
  <2>1. d \in 0 .. Len(dims)
    BY <1>2
  <2> QED
    BY <1>7, <2>1, <1>2, <1>9, Products
<1>10. \A d \in 0 .. Len(dims) : d \in G
  <2> HIDE DEF G
  <2> QED
    BY <1>2, <1>8, <1>9, UpTo
<1> QED
  BY <1>1, <1>4, <1>6, <1>7, <1>10

\* The d-th extent from the last is positive, and leaves the array within the address space.
ExtentFits(f, d) ==
  LET n == f.dims[Len(f.dims) + 1 - d]
      elem == ArraySizes(f)[d - 1]
  IN n > 0 /\ (elem > 0 => n <= SizeLimit \div elem)

\* The product of the extents of f, by BytesFacts.
ProductFor(p, f, s) ==
  /\ p[0] = 1 /\ \A d \in 0 .. Len(f.dims) : p[d] \in Nat
  /\ \A d \in 1 .. Len(f.dims) : p[d] = p[d - 1] * f.dims[d]
  /\ BytesOf(f) = p[Len(f.dims)] * s

\* The d-th of n extents from the last.
LEMMA FromTheLast ==
  ASSUME NEW n \in Nat, NEW d \in 1 .. n
  PROVE  /\ d - 1 \in 0 .. n /\ n + 1 - d \in 1 .. n /\ n - d \in 0 .. n
         /\ (n + 1 - d) - 1 = n - d /\ n - (d - 1) = n + 1 - d /\ d \in 0 .. n /\ d - 1 \in 0 .. d - 1
  OBVIOUS

\* An extent that fits does not wrap, and one that is positive and does not fit is too large.
LEMMA OneExtent ==
  ASSUME NEW f, f.dims \in Seq(Nat), NEW s \in Nat, ElementShape(f).size = s,
         NEW z, z = ArraySizes(f), NEW d \in 1 .. Len(f.dims)
  PROVE  /\ ExtentFits(f, d) => /\ z[d] = f.dims[Len(f.dims) + 1 - d] * z[d - 1]
                                /\ z[d] <= SizeLimit
         /\ ~ExtentFits(f, d) => \/ f.dims[Len(f.dims) + 1 - d] = 0
                                 \/ f.dims[Len(f.dims) + 1 - d] * z[d - 1] > SizeLimit
<1>1. Len(f.dims) \in Nat /\ \A i \in 1 .. Len(f.dims) : f.dims[i] \in Nat
  BY LenProperties, ElementOfSeq
<1>2. Len(f.dims) + 1 - d \in 1 .. Len(f.dims) /\ d - 1 \in 0 .. Len(f.dims)
  BY <1>1
<1>3. PICK n \in Nat : n = f.dims[Len(f.dims) + 1 - d]
  BY <1>1, <1>2
<1>4. PICK e \in Nat : e = z[d - 1]
  BY <1>2, ArraySizesFacts
<1>5. z[d] = (n * e) % Wrap
  BY <1>3, <1>4, ArraySizesFacts
<1>6. SizeLimit \in Nat
  BY LayoutAssumption
<1>7. ExtentFits(f, d) <=> n > 0 /\ (e > 0 => n <= SizeLimit \div e)
  BY <1>3, <1>4 DEF ExtentFits
<1>8. PICK x \in Nat : x = n * e
  BY Products
<1>10. e > 0 => (n <= SizeLimit \div e <=> x <= SizeLimit)
  <2> HAVE e > 0
  <2>1. e \in Nat \ {0}
    OBVIOUS
  <2> QED
    BY <1>6, <1>8, <2>1, Quotients
<1>11. PICK w \in Nat : w = Wrap /\ SizeLimit < w
  BY <1>6 DEF Wrap
<1>12. x <= SizeLimit => x % w = x
  <2> HAVE x <= SizeLimit
  <2>1. x < w
    BY <1>6, <1>11
  <2> QED
    BY <2>1, SmallRemainder
<1>13. ASSUME ExtentFits(f, d) PROVE x <= SizeLimit
  BY <1>6, <1>7, <1>10, <1>13, <1>8
<1>14. ASSUME ~ExtentFits(f, d) PROVE n = 0 \/ x > SizeLimit
  BY <1>6, <1>7, <1>10, <1>14
<1> HIDE <1>8
<1> QED
  BY <1>3, <1>4, <1>8, <1>12, <1>13, <1>14, <1>5, <1>11

\* As long as the extents fit, what is left to multiply makes up the whole.
LEMMA ExactSoFar ==
  ASSUME NEW f, f.dims \in Seq(Nat), NEW s \in Nat, ElementShape(f).size = s,
         NEW z, z = ArraySizes(f), NEW p, ProductFor(p, f, s),
         NEW m \in 0 .. Len(f.dims), \A d \in 1 .. m : ExtentFits(f, d)
  PROVE  \A d \in 0 .. m : z[d] * p[Len(f.dims) - d] = BytesOf(f)
<1>1. Len(f.dims) \in Nat /\ \A i \in 1 .. Len(f.dims) : f.dims[i] \in Nat
  BY LenProperties, ElementOfSeq
<1>2. z[0] = s /\ \A d \in 0 .. Len(f.dims) : z[d] \in Nat
  BY ArraySizesFacts
<1> DEFINE G == {d \in 0 .. m : z[d] * p[Len(f.dims) - d] = BytesOf(f)}
<1>3. 0 \in G
  <2>1. Len(f.dims) - 0 = Len(f.dims) /\ Len(f.dims) \in 0 .. Len(f.dims) /\ 0 \in 0 .. m
    BY <1>1
  <2>2. PICK x \in Nat : x = p[Len(f.dims)]
    BY <2>1 DEF ProductFor
  <2> QED
    BY <1>2, <2>1, <2>2, Products DEF ProductFor
<1>4. ASSUME NEW d \in 1 .. m, d - 1 \in G PROVE d \in G
  <2>1. /\ d \in 1 .. Len(f.dims) /\ d \in 0 .. m /\ d - 1 \in 0 .. Len(f.dims)
        /\ Len(f.dims) + 1 - d \in 1 .. Len(f.dims) /\ Len(f.dims) - d \in 0 .. Len(f.dims)
        /\ (Len(f.dims) + 1 - d) - 1 = Len(f.dims) - d /\ Len(f.dims) - (d - 1) = Len(f.dims) + 1 - d
    BY <1>1, FromTheLast
  <2>2. PICK n \in Nat : n = f.dims[Len(f.dims) + 1 - d]
    BY <1>1, <2>1
  <2>3. PICK e \in Nat : e = z[d - 1]
    BY <1>2, <2>1
  <2>4. PICK q \in Nat : q = p[Len(f.dims) - d]
    BY <2>1 DEF ProductFor
  <2>6. z[d] = n * e
    BY <2>1, <2>2, <2>3, OneExtent
  <2>8. (n * e) * q = e * (q * n)
    BY Products
  <2> QED
    BY <2>1, <2>4, <2>6, <2>8, <1>4, <2>3, <2>2 DEF ProductFor
<1>5. \A d \in 0 .. m : d \in G
  <2>1. m \in Nat
    BY <1>1
  <2> HIDE DEF G
  <2> QED
    BY <1>3, <1>4, <2>1, UpTo
<1> QED
  BY <1>5

\* The size of an array that is accepted is its bytes, whatever the words hold.
LEMMA AcceptedArrayExact ==
  ASSUME NEW f, f.dims \in Seq(Nat), ElementShape(f).size \in Nat, ArrayFits(f)
  PROVE  /\ ArraySizes(f)[Len(f.dims)] = BytesOf(f) /\ BytesOf(f) \in Nat
         /\ ElementShape(f).size <= SizeLimit => BytesOf(f) <= SizeLimit
         /\ \A d \in DOMAIN f.dims : f.dims[d] > 0
<1>1. Len(f.dims) \in Nat /\ DOMAIN f.dims = 1 .. Len(f.dims) /\ SizeLimit \in Nat
  BY LenProperties, LayoutAssumption
<1>2. PICK s, z : s \in Nat /\ s = ElementShape(f).size /\ z = ArraySizes(f)
  OBVIOUS
<1>3. PICK p : ProductFor(p, f, s)
  BY <1>2, BytesFacts DEF ProductFor
<1>4. \A d \in 1 .. Len(f.dims) : ExtentFits(f, d)
  BY <1>1 DEF ArrayFits, ExtentFits
<1>5. z[Len(f.dims)] \in Nat /\ z[0] = s
  BY <1>2, ArraySizesFacts, <1>1
<1>6. z[Len(f.dims)] = BytesOf(f)
  <2>2. z[Len(f.dims)] * p[0] = BytesOf(f)
    BY <1>2, <1>3, <1>4, ExactSoFar, <1>1
  <2> QED
    BY <1>3, <1>5, <2>2 DEF ProductFor
<1>7. s <= SizeLimit => z[Len(f.dims)] <= SizeLimit
  <2>1. CASE Len(f.dims) = 0
    BY <1>5, <2>1
  <2>2. CASE Len(f.dims) # 0
    BY <1>2, <1>4, OneExtent, <1>1, <2>2
  <2> QED
    BY <2>1, <2>2
<1> QED
  BY <1>2, <1>5, <1>6, <1>7, <1>4, <1>1 DEF ExtentFits

\* The products of positive extents are positive.
LEMMA ProductPositive ==
  ASSUME NEW f, f.dims \in Seq(Nat), NEW s, NEW p, ProductFor(p, f, s),
         \A d \in 1 .. Len(f.dims) : f.dims[d] > 0
  PROVE  \A d \in 0 .. Len(f.dims) : p[d] >= 1
<1>1. Len(f.dims) \in Nat /\ \A i \in 1 .. Len(f.dims) : f.dims[i] \in Nat
  BY LenProperties, ElementOfSeq
<1> DEFINE G == {d \in 0 .. Len(f.dims) : p[d] >= 1}
<1>2. 0 \in G
  BY <1>1 DEF ProductFor
<1>3. ASSUME NEW d \in 1 .. Len(f.dims), d - 1 \in G PROVE d \in G
  <2>1. d \in 0 .. Len(f.dims) /\ d - 1 \in 0 .. Len(f.dims)
    BY <1>1
  <2>2. PICK q \in Nat : q = p[d - 1] /\ q >= 1
    BY <1>3, <2>1 DEF ProductFor
  <2>3. PICK n \in Nat : n = f.dims[d] /\ n >= 1
    BY <1>1
  <2>4. p[d] = q * n
    BY <2>2, <2>3 DEF ProductFor
  <2>6. PICK y \in Nat : y = q * n
    BY Products
  <2>7. p[d] >= 1
    BY <2>3, <2>4, <2>6, <2>2, ProductMonotone
  <2> QED
    BY <2>1, <2>7
<1>4. \A d \in 0 .. Len(f.dims) : d \in G
  <2> HIDE DEF G
  <2> QED
    BY <1>1, <1>2, <1>3, UpTo
<1> QED
  BY <1>4

\* An array that is refused has an extent of zero, or more bytes than the address space.
LEMMA RefusedArrayLarge ==
  ASSUME NEW f, f.dims \in Seq(Nat), ElementShape(f).size \in Nat, ~ArrayFits(f)
  PROVE  (\E d \in DOMAIN f.dims : f.dims[d] = 0) \/ BytesOf(f) > SizeLimit
<1>1. /\ Len(f.dims) \in Nat /\ DOMAIN f.dims = 1 .. Len(f.dims) /\ SizeLimit \in Nat
      /\ \A i \in 1 .. Len(f.dims) : f.dims[i] \in Nat
  BY LenProperties, LayoutAssumption, ElementOfSeq
<1> SUFFICES ASSUME \A d \in DOMAIN f.dims : f.dims[d] # 0 PROVE BytesOf(f) > SizeLimit
  OBVIOUS
<1>2. PICK s, z : s \in Nat /\ s = ElementShape(f).size /\ z = ArraySizes(f)
  OBVIOUS
<1>3. PICK p : ProductFor(p, f, s)
  BY <1>2, BytesFacts DEF ProductFor
<1> DEFINE Bad == {d \in 1 .. Len(f.dims) : ~ExtentFits(f, d)}
<1>4. Bad \in SUBSET Nat /\ Bad # {}
  BY <1>1 DEF ArrayFits, ExtentFits
<1>5. PICK m \in Bad : \A d \in Bad : m <= d
  <2> HIDE DEF Bad
  <2> QED
    BY <1>4, LeastNumber
<1>6. m \in 1 .. Len(f.dims) /\ ~ExtentFits(f, m)
  OBVIOUS
<1>7. /\ m - 1 \in 0 .. Len(f.dims) /\ m - 1 \in 0 .. m - 1 /\ Len(f.dims) + 1 - m \in 1 .. Len(f.dims)
      /\ Len(f.dims) - (m - 1) = Len(f.dims) + 1 - m /\ Len(f.dims) - m \in 0 .. Len(f.dims)
      /\ (Len(f.dims) + 1 - m) - 1 = Len(f.dims) - m
  BY <1>1, <1>6, FromTheLast
<1>8. \A d \in 1 .. m - 1 : ExtentFits(f, d)
  <2> TAKE d \in 1 .. m - 1
  <2> QED
    BY <1>5, <1>1, <1>6
<1>9. z[m - 1] * p[Len(f.dims) - (m - 1)] = BytesOf(f)
  BY <1>2, <1>3, <1>7, <1>8, ExactSoFar
<1>10. PICK n \in Nat : n = f.dims[Len(f.dims) + 1 - m] /\ n # 0
  BY <1>1, <1>7
<1>11. PICK e \in Nat : e = z[m - 1]
  BY <1>2, <1>7, ArraySizesFacts
<1>13. PICK q \in Nat : q = p[Len(f.dims) - m] /\ q >= 1
  <2>1. \A d \in 1 .. Len(f.dims) : f.dims[d] > 0
    BY <1>1
  <2> QED
    BY <1>2, <1>3, <1>7, <2>1, ProductPositive DEF ProductFor
<1>15. BytesOf(f) = q * (n * e)
  <2>1. BytesOf(f) = e * (q * n)
    BY <1>7, <1>9, <1>11, <1>3, <1>10, <1>13 DEF ProductFor
  <2>2. q * n \in Nat /\ e * (q * n) = (q * n) * e
    <3>1. PICK x \in Nat : x = q * n
      BY Products
    <3> QED
      BY <3>1, Products
  <2> QED
    BY <2>1, <2>2, Products
<1>16. PICK x \in Nat : x = n * e
  BY Products
<1>17. 1 * x <= q * x
  BY <1>13, ProductMonotone
<1>18. PICK y \in Nat : y = q * x
  BY Products
<1>19. BytesOf(f) = y /\ x > SizeLimit
  BY <1>15, <1>16, <1>18, <1>2, <1>6, <1>10, <1>11, OneExtent
<1>20. x <= y
  BY <1>17, <1>18
<1> QED
  BY <1>1, <1>19, <1>20

--------------------------------------------------------------------------------
(* The numbers of members. *)

\* How many indices there are up to k, by recursion on k.
LEMMA CountFacts ==
  ASSUME NEW n \in Nat, NEW M \in SUBSET (1 .. n)
  PROVE  /\ IsFiniteSet(M) /\ CountUp(M, 0) = 0 /\ CountUp(M, n) = Cardinality(M)
         /\ \A k \in 0 .. n : CountUp(M, k) \in Nat
         /\ \A k \in 1 .. n : CountUp(M, k) = IF k \in M THEN CountUp(M, k - 1) + 1 ELSE CountUp(M, k - 1)
<1>0. \A j \in M : j \in Nat /\ 1 <= j /\ j <= n
  OBVIOUS
<1>1. IsFiniteSet(M)
  <2>1. IsFiniteSet(1 .. n)
    BY FS_Interval
  <2> QED
    BY <2>1, FS_Subset
<1>2. CountUp(M, 0) = 0
  <2>1. {j \in M : j <= 0} = {}
    <3>1. \A j \in M : ~(j <= 0)
      BY <1>0
    <3> QED
      BY <3>1
  <2> QED
    BY <2>1, FS_EmptySet DEF CountUp
<1>4. ASSUME NEW k \in Nat PROVE IsFiniteSet({j \in M : j <= k}) /\ CountUp(M, k) \in Nat
  BY <1>1, FS_Subset, FS_CardinalityType DEF CountUp
<1>5. ASSUME NEW k \in 1 .. n
      PROVE  CountUp(M, k) = IF k \in M THEN CountUp(M, k - 1) + 1 ELSE CountUp(M, k - 1)
  <2>1. k - 1 \in Nat
    OBVIOUS
  <2>2. PICK A : A = {j \in M : j <= k - 1}
    OBVIOUS
  <2>6. ~(k <= k - 1) /\ \A j \in M : (j <= k <=> j <= k - 1 \/ j = k)
    BY <1>0
  <2>4. CASE k \in M
    <3>1. {j \in M : j <= k} = A \cup {k}
      BY <2>2, <2>4, <2>6
    <3> QED
      BY <2>2, <2>4, <3>1, FS_AddElement, <1>4, <2>1, <2>6 DEF CountUp
  <2>5. CASE k \notin M
    BY <2>2, <2>5, <2>6 DEF CountUp
  <2> QED
    BY <2>4, <2>5
<1>6. \A k \in 0 .. n : CountUp(M, k) \in Nat
  <2> TAKE k \in 0 .. n
  <2>1. k \in Nat
    OBVIOUS
  <2> QED
    BY <1>4, <2>1
<1> QED
  BY <1>1, <1>2, <1>5, <1>6, <1>0 DEF CountUp

\* Numbers grow with the indices, and each number up to the last is that of an index.
LEMMA CountOrder ==
  ASSUME NEW n \in Nat, NEW M \in SUBSET (1 .. n)
  PROVE  /\ \A i, k \in 0 .. n : i <= k => CountUp(M, i) <= CountUp(M, k)
         /\ \A i \in 0 .. n, k \in M : i < k => CountUp(M, i) < CountUp(M, k)
         /\ \A k \in 0 .. n : \A m \in 1 .. CountUp(M, k) : \E i \in M : i <= k /\ CountUp(M, i) = m
<1>1. ASSUME NEW i \in 0 .. n, NEW k \in 0 .. n, i <= k PROVE CountUp(M, i) <= CountUp(M, k)
  <2> DEFINE G == {x \in 0 .. n : i <= x => CountUp(M, i) <= CountUp(M, x)}
  <2>1. 0 \in G
    BY CountFacts
  <2>2. ASSUME NEW x \in 1 .. n, x - 1 \in G PROVE x \in G
    <3>1. x \in 0 .. n /\ x - 1 \in 0 .. n
      OBVIOUS
    <3>2. PICK a \in Nat, b \in Nat, c \in Nat : a = CountUp(M, x) /\ b = CountUp(M, x - 1) /\ c = CountUp(M, i)
      BY <3>1, CountFacts
    <3>3. b <= a
      BY <3>2, CountFacts
    <3>4. CASE i = x
      BY <3>1, <3>2, <3>4
    <3>5. CASE i # x
      BY <3>1, <3>2, <3>3, <2>2, <3>5
    <3> QED
      BY <3>4, <3>5
  <2>3. \A x \in 0 .. n : x \in G
    <3> HIDE DEF G
    <3> QED
      BY <2>1, <2>2, UpTo
  <2> QED
    BY <1>1, <2>3
<1>2. ASSUME NEW i \in 0 .. n, NEW k \in M, i < k PROVE CountUp(M, i) < CountUp(M, k)
  BY <1>1, CountFacts, <1>2
<1>3. ASSUME NEW k \in 0 .. n
      PROVE  \A m \in 1 .. CountUp(M, k) : \E i \in M : i <= k /\ CountUp(M, i) = m
  <2> DEFINE G == {x \in 0 .. n : \A m \in 1 .. CountUp(M, x) : \E i \in M : i <= x /\ CountUp(M, i) = m}
  <2>1. 0 \in G
    BY CountFacts
  <2>2. ASSUME NEW x \in 1 .. n, x - 1 \in G PROVE x \in G
    <3>1. x \in 0 .. n /\ x - 1 \in 0 .. n
      OBVIOUS
    <3>2. PICK a \in Nat, b \in Nat : a = CountUp(M, x) /\ b = CountUp(M, x - 1)
      BY <3>1, CountFacts
    <3>3. a = IF x \in M THEN b + 1 ELSE b
      <4>1. CountUp(M, x) = IF x \in M THEN CountUp(M, x - 1) + 1 ELSE CountUp(M, x - 1)
        BY CountFacts
      <4> QED
        BY <3>2, <4>1
    <3>4. ASSUME NEW m \in 1 .. a PROVE \E i \in M : i <= x /\ CountUp(M, i) = m
      <4>1. CASE m \in 1 .. b
        <5>1. PICK i \in M : i <= x - 1 /\ CountUp(M, i) = m
          BY <2>2, <3>2, <4>1
        <5> QED
          BY <5>1
      <4>2. CASE m \notin 1 .. b
        <5>1. x \in M /\ m = a
          BY <3>2, <3>3, <3>4, <4>2
        <5> QED
          BY <3>2, <5>1
      <4> QED
        BY <4>1, <4>2
    <3> QED
      BY <3>1, <3>2, <3>4
  <2>3. \A x \in 0 .. n : x \in G
    <3> HIDE DEF G
    <3> QED
      BY <2>1, <2>2, UpTo
  <2> QED
    BY <2>3
<1> QED
  BY <1>1, <1>2, <1>3

--------------------------------------------------------------------------------
(* The members of a declaration. *)

\* What a declaration is made of.
LEMMA Declaration ==
  ASSUME LayoutTypeOK, NEW t \in Declared
  PROVE  /\ FieldsOf(t) \in Seq(Fields) /\ Len(FieldsOf(t)) \in Nat
         /\ DOMAIN FieldsOf(t) = 1 .. Len(FieldsOf(t))
         /\ Kind(t) \in {"struct", "union", "enum"} /\ Packed(t) \in BOOLEAN
         /\ layDecl[t].attr.requested \in Nat
         /\ MemberIndices(t) \in SUBSET (1 .. Len(FieldsOf(t)))
         /\ \A k \in DOMAIN FieldsOf(t) : FieldsOf(t)[k] \in Fields
<1>2. layDecl[t] \in [attr : Attributes, fields : Seq(Fields)]
  BY ElementOfSeq DEF Declared, LayoutTypeOK
<1> QED
  BY LayoutAssumption, ElementOfSeq, LenProperties, <1>2 DEF Kind, Packed, MemberIndices, FieldsOf

\* What a field is made of.
LEMMA FieldParts ==
  ASSUME NEW f \in Fields
  PROVE  /\ f.how \in {"value", "pointer", "atomic", "bitfield", "sizeof"}
         /\ f.of \in DOMAIN AtomShapes \cup LayTypes /\ f.dims \in Seq(Nat)
  BY LayoutAssumption

\* The members have the numbers from one to their count, in their order.
LEMMA MembersFacts ==
  ASSUME LayoutTypeOK, NEW t \in Declared
  PROVE  /\ Cardinality(MemberIndices(t)) \in Nat
         /\ DOMAIN MembersOf(t) = 1 .. Cardinality(MemberIndices(t))
         /\ \A k \in MemberIndices(t) :
              /\ MemberNumber(t, k) \in DOMAIN MembersOf(t)
              /\ MembersOf(t)[MemberNumber(t, k)] = FieldShape(FieldsOf(t)[k])
              /\ \A j \in MemberIndices(t) : j < k => MemberNumber(t, j) < MemberNumber(t, k)
         /\ \A m \in DOMAIN MembersOf(t) :
              \E k \in MemberIndices(t) : MemberNumber(t, k) = m /\ MembersOf(t)[m] = FieldShape(FieldsOf(t)[k])
<1>0. PICK n \in Nat : n = Len(FieldsOf(t))
  BY Declaration
<1>1. PICK M \in SUBSET (1 .. n) : M = MemberIndices(t)
  BY <1>0, Declaration
<1>2. \A k : MemberNumber(t, k) = CountUp(M, k)
  BY <1>1 DEF MemberNumber, CountUp
<1>3. PICK c \in Nat : c = Cardinality(M) /\ c = CountUp(M, n)
  BY CountFacts, <1>0
<1>5. /\ \A i, k \in 0 .. n : i <= k => CountUp(M, i) <= CountUp(M, k)
      /\ \A i \in 0 .. n, k \in M : i < k => CountUp(M, i) < CountUp(M, k)
      /\ \A k \in 0 .. n : \A m \in 1 .. CountUp(M, k) : \E i \in M : i <= k /\ CountUp(M, i) = m
  BY CountOrder
<1>6. \A k \in M : k \in 0 .. n /\ 0 < k /\ k <= n /\ 0 \in 0 .. n /\ n \in 0 .. n
  OBVIOUS
<1>7. \A k \in M : CountUp(M, k) \in 1 .. c
  <2> TAKE k \in M
  <2> QED
    BY <1>3, <1>5, <1>6, CountFacts
<1>8. \A j, k \in M : j < k => CountUp(M, j) < CountUp(M, k)
  BY <1>5, <1>6
<1>9. \A j, k \in M : CountUp(M, j) = CountUp(M, k) => j = k
  <2> TAKE j, k \in M
  <2> QED
    BY <1>8, <1>7, <1>6
<1> DEFINE Of(m) == CHOOSE k \in MemberIndices(t) : MemberNumber(t, k) = m
<1>11. \A k \in M : Of(CountUp(M, k)) = k
  <2> TAKE k \in M
  <2> QED
    BY <1>9, <1>1, <1>2
<1>12. \A m \in 1 .. c : Of(m) \in M /\ CountUp(M, Of(m)) = m
  <2> TAKE m \in 1 .. c
  <2>2. n \in 0 .. n
    BY <1>0
  <2> QED
    BY <1>1, <1>2, <1>5, <2>2, <1>3
<1> HIDE DEF Of
<1> QED
  BY <1>1, <1>2, <1>3, <1>7, <1>8, <1>12, <1>11 DEF MembersOf

\* What has been got from all the fields are the members.
LEMMA GotAll ==
  ASSUME LayoutTypeOK, NEW t \in Declared, NEW got, GotUpTo(got, t, Len(FieldsOf(t)))
  PROVE  got = MembersOf(t) /\ got \in Seq(ChainShape)
<1>0. PICK n \in Nat : n = Len(FieldsOf(t))
  BY Declaration
<1>1. MemberIndices(t) \in SUBSET (1 .. n)
  BY <1>0, Declaration
<1>2. got \in Seq(ChainShape) /\ Len(got) = CountUp(MemberIndices(t), n)
  BY <1>0 DEF GotUpTo
<1>4. \A k \in MemberIndices(t) : got[MemberNumber(t, k)] = FieldShape(FieldsOf(t)[k])
  <2> TAKE k \in MemberIndices(t)
  <2> QED
    BY <1>0, <1>1 DEF GotUpTo
<1> QED
  BY <1>2, <1>4, MembersFacts, LenProperties, <1>1, CountFacts DEF MembersOf

\* The layout of a body of shapes of the target, whatever the kind of the type.
LEMMA EnumBodyChain ==
  ASSUME NEW got \in Seq(ChainShape)
  PROVE  /\ StorageShape(got, FALSE) \in ChainShape /\ AtomShapes[Tag] \in ChainShape
         /\ EnumBody(got) \in Seq(ChainShape) /\ Len(EnumBody(got)) = 2
         /\ EnumBody(got)[1] = AtomShapes[Tag] /\ EnumBody(got)[2] = StorageShape(got, FALSE)
<1>2. StorageShape(got, FALSE) \in Shape /\ StorageShape(got, FALSE).align \in Chain
  BY StorageFacts, BodyAlignChain
<1>3. StorageShape(got, FALSE) \in ChainShape
  BY <1>2 DEF Shape, ChainShape
<1>5. AtomShapes[Tag] \in ChainShape
  BY LayoutAssumption DEF Shape, ChainShape, Chain, Alignments
<1>6. /\ EnumBody(got) \in Seq(ChainShape) /\ Len(EnumBody(got)) = 2
      /\ EnumBody(got)[1] = AtomShapes[Tag] /\ EnumBody(got)[2] = StorageShape(got, FALSE)
  <2>1. PICK a \in ChainShape, b \in ChainShape : a = AtomShapes[Tag] /\ b = StorageShape(got, FALSE)
    BY <1>3, <1>5
  <2>3. <<a, b>> \in Seq(ChainShape) /\ Len(<<a, b>>) = 2 /\ <<a, b>>[1] = a /\ <<a, b>>[2] = b
    OBVIOUS
  <2> QED
    BY <2>1, <2>3 DEF EnumBody
<1> QED
  BY <1>3, <1>5, <1>6

\* What is required of the layout of the shapes got: their places, and the verdict.
LaidWell(sh, o, got, packed) ==
  /\ sh \in ChainShape /\ sh.size % sh.align = 0
  /\ o \in Seq(Nat) /\ Len(o) = Len(got)
  /\ \A k \in 1 .. Len(got) :
       /\ o[k] + got[k].size <= sh.size
       /\ o[k] % AlignIn(got[k], packed) = 0 /\ sh.align % AlignIn(got[k], packed) = 0

\* Of a struct: also, that no two members overlap.
LEMMA StructLaid ==
  ASSUME NEW got \in Seq(ChainShape), NEW packed \in BOOLEAN,
         NEW sh, sh = BodyShape(got, packed), NEW o, o = BodyOffsets(got, packed)
  PROVE  /\ LaidWell(sh, o, got, packed) /\ sh.align = BodyAlign(got, packed)
         /\ \A k \in 1 .. Len(got) : \A j \in 1 .. k - 1 : o[j] + got[j].size <= o[k]
<1>1. got \in Seq(Shape) /\ DOMAIN got = 1 .. Len(got) /\ BodyAlign(got, packed) \in Chain
  BY BodyAlignChain, LenProperties
<1>2. /\ sh \in Shape /\ sh.align = BodyAlign(got, packed) /\ sh.size % sh.align = 0
      /\ o \in Seq(Nat) /\ Len(o) = Len(got)
      /\ \A k \in 1 .. Len(got) :
           /\ o[k] % AlignIn(got[k], packed) = 0
           /\ o[k] + got[k].size <= sh.size
           /\ \A j \in 1 .. k - 1 : o[j] + got[j].size <= o[k]
  BY <1>1, BodyFacts
<1>3. sh \in ChainShape
  BY <1>1, <1>2 DEF Shape, ChainShape
<1> QED
  BY <1>2, <1>3, <1>1, BodyAlignChain DEF LaidWell

\* Of a union: every member at zero, in room for the largest.
LEMMA UnionLaid ==
  ASSUME NEW got \in Seq(ChainShape), NEW packed \in BOOLEAN,
         NEW sh, sh = StorageShape(got, packed), NEW o, o = [k \in DOMAIN got |-> 0]
  PROVE  LaidWell(sh, o, got, packed) /\ sh.align = BodyAlign(got, packed)
<1>1. got \in Seq(Shape) /\ DOMAIN got = 1 .. Len(got) /\ Len(got) \in Nat /\ BodyAlign(got, packed) \in Chain
  BY BodyAlignChain, LenProperties
<1>2. /\ sh \in Shape /\ sh.align = BodyAlign(got, packed) /\ sh.size % sh.align = 0
      /\ \A k \in DOMAIN got : got[k].size <= sh.size
  BY <1>1, StorageFacts
<1>4. o \in Seq(Nat) /\ Len(o) = Len(got) /\ \A k \in 1 .. Len(got) : o[k] = 0
  BY <1>1
<1>5. ASSUME NEW k \in 1 .. Len(got)
      PROVE  /\ o[k] + got[k].size <= sh.size
             /\ o[k] % AlignIn(got[k], packed) = 0 /\ sh.align % AlignIn(got[k], packed) = 0
  BY <1>1, <1>2, BodyAlignChain, <1>4, ZeroAndSelf, MemberShape
<1> QED
  BY <1>2, <1>4, <1>5, <1>1 DEF LaidWell, Shape, ChainShape

\* Of an enum with payloads: each of them behind the tag.
LEMMA EnumLaid ==
  ASSUME NEW got \in Seq(ChainShape), NEW packed \in BOOLEAN,
         NEW sh, sh = BodyShape(EnumBody(got), FALSE),
         NEW o, o = [k \in DOMAIN got |-> BodyOffsets(EnumBody(got), FALSE)[2]]
  PROVE  /\ LaidWell(sh, o, got, packed)
         /\ \A k \in 1 .. Len(got) : o[k] >= AtomShapes[Tag].size
         /\ StorageShape(got, FALSE).size <= sh.size
<1>1. got \in Seq(Shape) /\ DOMAIN got = 1 .. Len(got) /\ Len(got) \in Nat
  BY BodyAlignChain, LenProperties
<1>2. PICK st \in ChainShape : st = StorageShape(got, FALSE)
  BY EnumBodyChain
<1>3. PICK body \in Seq(ChainShape) :
        body = EnumBody(got) /\ Len(body) = 2 /\ body[1] = AtomShapes[Tag] /\ body[2] = st
  BY <1>2, EnumBodyChain
<1>4. PICK p : p = BodyOffsets(body, FALSE)
  OBVIOUS
<1>5. /\ LaidWell(sh, p, body, FALSE)
      /\ \A k \in 1 .. Len(body) : \A j \in 1 .. k - 1 : p[j] + body[j].size <= p[k]
  BY <1>3, <1>4, StructLaid
<1>7. /\ sh \in ChainShape /\ sh.size % sh.align = 0 /\ p \in Seq(Nat) /\ Len(p) = 2
      /\ p[2] + st.size <= sh.size /\ p[2] % st.align = 0 /\ sh.align % st.align = 0
  <2>2. 2 \in 1 .. Len(body)
    BY <1>3
  <2> QED
    BY <1>3, <2>2, <1>5 DEF LaidWell, AlignIn
<1>8. p[1] \in Nat /\ p[2] \in Nat
  <2>1. 1 \in 1 .. Len(p) /\ 2 \in 1 .. Len(p)
    BY <1>7
  <2> QED
    BY <1>7, <2>1, ElementOfSeq
<1>9. AtomShapes[Tag].size \in Nat /\ p[1] + AtomShapes[Tag].size <= p[2]
  <2>1. 2 \in 1 .. Len(body) /\ 1 \in 1 .. 2 - 1
    BY <1>3
  <2> QED
    BY <1>3, <1>5, <2>1, EnumBodyChain DEF ChainShape
<1>10. /\ st \in Shape /\ st.align = BodyAlign(got, FALSE)
       /\ \A k \in DOMAIN got : got[k].size <= st.size
  BY <1>1, <1>2, StorageFacts
<1>11. o \in Seq(Nat) /\ Len(o) = Len(got) /\ \A k \in 1 .. Len(got) : o[k] = p[2]
  <2>1. PICK n \in Nat, x \in Nat : n = Len(got) /\ x = p[2]
    BY <1>1, <1>8
  <2>3. [k \in 1 .. n |-> x] \in Seq(Nat) /\ Len([k \in 1 .. n |-> x]) = n
    OBVIOUS
  <2> QED
    BY <2>1, <2>3, <1>1, <1>3, <1>4
<1>12. st.size \in Nat /\ sh.size \in Nat /\ st.align \in Nat \ {0} /\ sh.align \in Nat \ {0}
  BY <1>7, <1>10, ChainFacts DEF Shape
<1>13. ASSUME NEW k \in 1 .. Len(got)
       PROVE  /\ o[k] + got[k].size <= sh.size /\ o[k] >= AtomShapes[Tag].size
              /\ o[k] % AlignIn(got[k], packed) = 0 /\ sh.align % AlignIn(got[k], packed) = 0
  <2>1. got[k].size \in Nat /\ got[k].size <= st.size /\ AlignIn(got[k], FALSE) \in Nat \ {0}
    BY <1>1, <1>10, MemberShape
  <2>2. o[k] = p[2]
    BY <1>11
  <2>3. o[k] + got[k].size <= sh.size /\ o[k] >= AtomShapes[Tag].size
    <3>1. PICK x \in Nat, y \in Nat, g \in Nat, s \in Nat, b \in Nat, c \in Nat :
            x = p[2] /\ y = p[1] /\ g = got[k].size /\ s = st.size /\ b = sh.size /\ c = AtomShapes[Tag].size
      BY <1>8, <1>9, <1>12, <2>1
    <3>2. x + s <= b /\ y + c <= x /\ g <= s
      BY <1>7, <1>9, <2>1, <3>1
    <3>3. x + g <= b /\ x >= c
      BY <3>2
    <3> QED
      BY <2>2, <3>1, <3>3
  <2>5. CASE packed = TRUE
    BY <2>2, <2>3, <1>8, <1>12, ByOne, <2>5 DEF AlignIn
  <2>6. CASE packed = FALSE
    <3>1. PICK a \in Nat \ {0} : a = AlignIn(got[k], packed) /\ a = AlignIn(got[k], FALSE)
      BY <2>1, <2>6
    <3>2. PICK x \in Nat, y \in Nat, b \in Nat \ {0} : x = p[2] /\ y = sh.align /\ b = st.align
      BY <1>8, <1>12
    <3>3. x % b = 0 /\ y % b = 0 /\ b % a = 0
      BY <1>7, <3>1, <3>2, <1>1, <1>10, BodyAlignChain
    <3>4. x % a = 0 /\ y % a = 0
      BY <3>3, DivisibleTransitive
    <3> QED
      BY <2>2, <2>3, <3>1, <3>2, <3>4
  <2> QED
    BY <2>5, <2>6
<1>14. st.size <= sh.size
  <2>1. PICK x \in Nat, s \in Nat, b \in Nat : x = p[2] /\ s = st.size /\ b = sh.size
    BY <1>8, <1>12
  <2>2. x + s <= b
    BY <1>7, <2>1
  <2>3. s <= b
    BY <2>2
  <2> QED
    BY <2>1, <2>3
<1> QED
  BY <1>2, <1>7, <1>11, <1>13, <1>14 DEF LaidWell

--------------------------------------------------------------------------------
(* One type: what its layout is, what it takes to be refused. *)

\* The places of the members, the size and the verdict, for each kind of type.
LEMMA LaidFacts ==
  ASSUME LayoutTypeOK, NEW t \in Declared, NEW got \in Seq(ChainShape),
         NEW sh, sh = LaidShape(t, got), NEW o, o = LaidOffsets(t, got)
  PROVE  /\ LaidWell(sh, o, got, Packed(t))
         /\ Kind(t) # "enum" => sh.align = BodyAlign(got, Packed(t))
         /\ Kind(t) = "struct" => \A k \in 1 .. Len(got) : \A j \in 1 .. k - 1 : o[j] + got[j].size <= o[k]
         /\ Kind(t) = "union" => \A k \in 1 .. Len(got) : o[k] = 0
         /\ Kind(t) = "enum" => \A k \in 1 .. Len(got) : o[k] >= AtomShapes[Tag].size
         /\ BodyAccepted(t, got) <=> sh.size <= SizeLimit
<1>1. Packed(t) \in BOOLEAN /\ Kind(t) \in {"struct", "union", "enum"}
  BY Declaration
<1>2. got \in Seq(Shape) /\ DOMAIN got = 1 .. Len(got) /\ SizeLimit \in Nat
  BY BodyAlignChain, LenProperties, LayoutAssumption
<1>3. CASE Kind(t) = "struct"
  BY <1>3, <1>1, StructLaid, <1>2, FitsIfSmall DEF LaidShape, LaidOffsets, BodyAccepted
<1>4. CASE Kind(t) = "union"
  BY <1>4, <1>1, UnionLaid, <1>2, StorageFacts DEF LaidShape, LaidOffsets, BodyAccepted
<1>5. CASE Kind(t) = "enum"
  <2>1. /\ sh = BodyShape(EnumBody(got), FALSE)
        /\ o = [k \in DOMAIN got |-> BodyOffsets(EnumBody(got), FALSE)[2]]
        /\ BodyAccepted(t, got) <=> StorageFits(got, FALSE) /\ BodyFits(EnumBody(got), FALSE)
    BY <1>5 DEF LaidShape, LaidOffsets, BodyAccepted
  <2>2. /\ LaidWell(sh, o, got, Packed(t))
        /\ \A k \in 1 .. Len(got) : o[k] >= AtomShapes[Tag].size
        /\ StorageShape(got, FALSE).size <= sh.size
    BY <1>1, <2>1, EnumLaid
  <2>4. BodyFits(EnumBody(got), FALSE) <=> sh.size <= SizeLimit
    BY <2>1, FitsIfSmall, EnumBodyChain, BodyAlignChain
  <2>6. PICK st \in ChainShape : st = StorageShape(got, FALSE)
    BY EnumBodyChain
  <2>7. sh.size <= SizeLimit => st.size <= SizeLimit
    <3>1. sh \in ChainShape /\ st.size <= sh.size
      BY <2>2, <2>6 DEF LaidWell
    <3>2. PICK s \in Nat, b \in Nat : s = st.size /\ b = sh.size
      BY <3>1 DEF ChainShape
    <3> QED
      BY <1>2, <3>1, <3>2
  <2> QED
    BY <1>5, <2>1, <2>2, <2>4, <2>6, <2>7, <1>2, StorageFacts
<1> QED
  BY <1>1, <1>3, <1>4, <1>5

\* The shape of an element of a field whose type, if it needs one, is complete.
LEMMA ElementFacts ==
  ASSUME CompletesRight, NEW f \in Fields, Needs(f) => layState[f.of] = "complete"
  PROVE  /\ ElementShape(f) \in ChainShape /\ ElementShape(f).size \in Nat
         /\ ElementShape(f).align \in Chain /\ ElementShape(f).size <= SizeLimit
<1>2. ElementShape(f) \in ChainShape /\ ElementShape(f).size <= SizeLimit
  <2>1. CASE f.how = "pointer"
    BY <2>1, LayoutAssumption DEF ElementShape, Shape, ChainShape, Chain, Alignments
  <2>2. CASE f.how # "pointer" /\ f.of \in LayTypes
    BY <2>2 DEF ElementShape, CompletesRight, CompleteTypes, Needs
  <2>3. CASE f.how # "pointer" /\ f.of \notin LayTypes
    BY <2>3, LayoutAssumption, FieldParts DEF ElementShape, Shape, ChainShape, Chain, Alignments
  <2> QED
    BY <2>1, <2>2, <2>3
<1> QED
  BY <1>2 DEF ChainShape

\* The same of the whole field.
LEMMA FieldShapeFacts ==
  ASSUME CompletesRight, NEW f \in Fields, Needs(f) => layState[f.of] = "complete"
  PROVE  /\ BytesOf(f) \in Nat /\ FieldShape(f) \in ChainShape
         /\ FieldShape(f).size = BytesOf(f) /\ FieldShape(f).align = ElementShape(f).align
<1>1. f.dims \in Seq(Nat) /\ Len(f.dims) \in Nat
  BY FieldParts, LenProperties
<1>2. PICK s \in Nat : s = ElementShape(f).size
  BY ElementFacts
<1>3. PICK p : /\ p[0] = 1 /\ \A d \in 0 .. Len(f.dims) : p[d] \in Nat
               /\ \A d \in 1 .. Len(f.dims) : p[d] = p[d - 1] * f.dims[d]
               /\ BytesOf(f) = p[Len(f.dims)] * s
  BY <1>1, <1>2, BytesFacts
<1>4. PICK m \in Nat : m = p[Len(f.dims)]
  BY <1>1, <1>3
<1> QED
  BY ElementFacts, <1>3, <1>4, Products DEF FieldShape, ChainShape

\* What is taken of a field once its array has been accepted.
LEMMA TakenField ==
  ASSUME CompletesRight, NEW f \in Fields, Needs(f) => layState[f.of] = "complete", ArrayFits(f)
  PROVE  /\ [size |-> ArraySizes(f)[Len(f.dims)], align |-> ElementShape(f).align] = FieldShape(f)
         /\ BytesOf(f) <= SizeLimit /\ \A d \in DOMAIN f.dims : f.dims[d] > 0
<1> QED
  BY AcceptedArrayExact, ElementFacts, FieldParts DEF FieldShape

\* The members of a type whose fields have all passed.
LEMMA MembersChain ==
  ASSUME LayoutTypeOK, CompletesRight, NEW t \in Declared, AllPassed(t)
  PROVE  /\ MembersOf(t) \in Seq(ChainShape) /\ Len(MembersOf(t)) = Cardinality(MemberIndices(t))
         /\ \A k \in MemberIndices(t) :
              /\ FieldsOf(t)[k] \in Fields /\ BytesOf(FieldsOf(t)[k]) \in Nat
              /\ NaturalAlign(t, FieldsOf(t)[k]) = AlignIn(FieldShape(FieldsOf(t)[k]), Packed(t))
              /\ FieldShape(FieldsOf(t)[k]).size = BytesOf(FieldsOf(t)[k])
<1>1. \A k \in MemberIndices(t) : k \in DOMAIN FieldsOf(t) /\ FieldsOf(t)[k] \in Fields
  BY Declaration
<1>3. \A k \in MemberIndices(t) :
        /\ BytesOf(FieldsOf(t)[k]) \in Nat /\ FieldShape(FieldsOf(t)[k]) \in ChainShape
        /\ FieldShape(FieldsOf(t)[k]).size = BytesOf(FieldsOf(t)[k])
        /\ FieldShape(FieldsOf(t)[k]).align = ElementShape(FieldsOf(t)[k]).align
  BY <1>1, FieldShapeFacts DEF AllPassed, FieldPassed
<1>5. PICK c \in Nat : c = Cardinality(MemberIndices(t)) /\ DOMAIN MembersOf(t) = 1 .. c
  BY MembersFacts
<1>6. MembersOf(t) = [m \in 1 .. c |-> MembersOf(t)[m]]
  BY <1>5 DEF MembersOf
<1>7. MembersOf(t) \in Seq(ChainShape) /\ Len(MembersOf(t)) = c
  <2> HIDE <1>6
  <2> QED
    BY <1>5, <1>6, <1>3, MembersFacts
<1> QED
  BY <1>1, <1>3, <1>5, <1>7 DEF NaturalAlign, AlignIn

\* MembersPlaced, of one type.
Placed(t) ==
  /\ layShape[t].align > 0
  /\ layShape[t].size <= SizeLimit /\ layShape[t].size % layShape[t].align = 0
  /\ Len(layOffsets[t]) = Cardinality(MemberIndices(t))
  /\ \A k \in MemberIndices(t) :
       LET f == FieldsOf(t)[k]
           at == layOffsets[t][MemberNumber(t, k)]
       IN /\ at + BytesOf(f) <= layShape[t].size
          /\ at % NaturalAlign(t, f) = 0 /\ layShape[t].align % NaturalAlign(t, f) = 0
          /\ Kind(t) = "union" => at = 0
          /\ Kind(t) = "enum" => at >= AtomShapes[Tag].size
          /\ \A j \in MemberIndices(t) : Kind(t) = "struct" /\ j < k =>
               layOffsets[t][MemberNumber(t, j)] + BytesOf(FieldsOf(t)[j]) <= at

\* An enum that is its tag is placed.
LEMMA UntaggedPlaced ==
  ASSUME LayoutTypeOK, NEW t \in Declared,
         Untagged(t), layShape[t] = AtomShapes[Tag], layOffsets[t] = << >>
  PROVE  Placed(t)
<1> QED
  BY FS_EmptySet, LayoutAssumption DEF Placed, Untagged, MemberIndices, Shape

\* So is every type whose fields have passed and whose body has been accepted.
LEMMA AcceptedPlaced ==
  ASSUME LayoutTypeOK, CompletesRight, NEW t \in Declared, AllPassed(t),
         BodyAccepted(t, MembersOf(t)),
         layShape[t] = LaidShape(t, MembersOf(t)), layOffsets[t] = LaidOffsets(t, MembersOf(t))
  PROVE  Placed(t)
<1>1. PICK got \in Seq(ChainShape) : got = MembersOf(t) /\ Len(got) = Cardinality(MemberIndices(t))
  BY MembersChain
<1>2. PICK sh, o : sh = LaidShape(t, got) /\ o = LaidOffsets(t, got) /\ sh = layShape[t] /\ o = layOffsets[t]
  BY <1>1
<1>3. /\ LaidWell(sh, o, got, Packed(t))
      /\ Kind(t) = "struct" => \A k \in 1 .. Len(got) : \A j \in 1 .. k - 1 : o[j] + got[j].size <= o[k]
      /\ Kind(t) = "union" => \A k \in 1 .. Len(got) : o[k] = 0
      /\ Kind(t) = "enum" => \A k \in 1 .. Len(got) : o[k] >= AtomShapes[Tag].size
      /\ sh.size <= SizeLimit
  BY <1>1, <1>2, LaidFacts
<1>4. /\ sh \in ChainShape /\ sh.size % sh.align = 0 /\ o \in Seq(Nat) /\ Len(o) = Len(got)
      /\ \A k \in 1 .. Len(got) :
           /\ o[k] + got[k].size <= sh.size
           /\ o[k] % AlignIn(got[k], Packed(t)) = 0 /\ sh.align % AlignIn(got[k], Packed(t)) = 0
  BY <1>3 DEF LaidWell
<1>7. ASSUME NEW k \in MemberIndices(t)
      PROVE  /\ MemberNumber(t, k) \in 1 .. Len(got)
             /\ got[MemberNumber(t, k)].size = BytesOf(FieldsOf(t)[k])
             /\ AlignIn(got[MemberNumber(t, k)], Packed(t)) = NaturalAlign(t, FieldsOf(t)[k])
             /\ \A j \in MemberIndices(t) : j < k => MemberNumber(t, j) \in 1 .. MemberNumber(t, k) - 1
  BY MembersChain, <1>1, MembersFacts, LenProperties
<1>8. ASSUME NEW k \in MemberIndices(t)
      PROVE  LET f == FieldsOf(t)[k]
                 at == layOffsets[t][MemberNumber(t, k)]
             IN /\ at + BytesOf(f) <= layShape[t].size
                /\ at % NaturalAlign(t, f) = 0 /\ layShape[t].align % NaturalAlign(t, f) = 0
                /\ Kind(t) = "union" => at = 0
                /\ Kind(t) = "enum" => at >= AtomShapes[Tag].size
                /\ \A j \in MemberIndices(t) : Kind(t) = "struct" /\ j < k =>
                     layOffsets[t][MemberNumber(t, j)] + BytesOf(FieldsOf(t)[j]) <= at
  <2>1. PICK m \in 1 .. Len(got) : m = MemberNumber(t, k)
    BY <1>7
  <2>5. ASSUME NEW j \in MemberIndices(t), Kind(t) = "struct", j < k
        PROVE  o[MemberNumber(t, j)] + BytesOf(FieldsOf(t)[j]) <= o[m]
    BY <1>7, <1>3, <2>5, <2>1
  <2> QED
    BY <1>2, <1>3, <2>1, <2>5, <1>4, <1>7
<1> QED
  BY <1>2, <1>3, <1>4, <1>8, <1>1, ChainFacts DEF Placed, Shape

\* Nothing is wrong with a type that is complete.
LEMMA CompleteHasNoDefect ==
  ASSUME LayoutTypeOK, CompletesRight, NEW t \in Declared, CompleteRight(t)
  PROVE  Placed(t) /\ ~OwnDefect(t) /\ \A u \in LayTypes : DependsOn(t, u) => u \in CompleteTypes
<1>1. CASE Untagged(t)
  BY <1>1, UntaggedPlaced DEF CompleteRight, DependsOn, OwnDefect, Untagged
<1>2. CASE ~Untagged(t)
  <2>1. /\ AllPassed(t) /\ BodyAccepted(t, MembersOf(t)) /\ RequestMet(t, LaidShape(t, MembersOf(t)))
        /\ layShape[t] = LaidShape(t, MembersOf(t)) /\ layOffsets[t] = LaidOffsets(t, MembersOf(t))
    BY <1>2 DEF CompleteRight
  <2>4. ASSUME NEW k \in DOMAIN FieldsOf(t)
        PROVE  LET f == FieldsOf(t)[k]
               IN /\ f.how # "bitfield" /\ ~(f.how = "atomic" /\ Packed(t))
                  /\ ~\E d \in DOMAIN f.dims : f.dims[d] = 0
                  /\ ~(BytesOf(f) > SizeLimit)
    <3>1. PICK f \in Fields : f = FieldsOf(t)[k]
      BY Declaration
    <3>2. /\ f.how # "bitfield" /\ ~(f.how = "atomic" /\ Packed(t))
          /\ Needs(f) => layState[f.of] = "complete"
          /\ \A d \in DOMAIN f.dims : f.dims[d] > 0
          /\ BytesOf(f) <= SizeLimit
      BY <2>1, <3>1 DEF AllPassed, FieldPassed
    <3>3. PICK b \in Nat : b = BytesOf(f)
      BY <3>2, FieldShapeFacts
    <3> QED
      BY <3>1, <3>2, <3>3, LayoutAssumption
  <2>5. PICK got \in Seq(ChainShape) : got = MembersOf(t) /\ DOMAIN got = 1 .. Len(got)
    BY <2>1, MembersChain, LenProperties
  <2>6. PICK sh \in ChainShape : sh = LaidShape(t, got)
    BY <2>5, LaidFacts DEF LaidWell
  <2>7. ~(sh.size > SizeLimit)
    <3>2. sh.size \in Nat
      BY <2>6 DEF ChainShape
    <3> QED
      BY <3>2, LayoutAssumption, <2>1, <2>5, <2>6, LaidFacts
  <2>8. PICK r \in Nat : r = layDecl[t].attr.requested
    BY Declaration
  <2>9. ASSUME r > 0, Kind(t) # "enum"
        PROVE  r \in {1, 2, 4, 8, 16} /\ (r > 1 => \E k \in MemberIndices(t) : ~(NaturalAlign(t, FieldsOf(t)[k]) < r))
    <3>1. r \in {1, 2, 4, 8, 16} /\ r <= sh.align
      BY <2>1, <2>5, <2>6, <2>8, <2>9 DEF RequestMet, PowerOfTwo
    <3>5. ASSUME r > 1 PROVE \E k \in MemberIndices(t) : ~(NaturalAlign(t, FieldsOf(t)[k]) < r)
      <4>1. sh.align # 1
        BY <3>1, <3>5
      <4>2. PICK m \in DOMAIN got : sh.align = AlignIn(got[m], Packed(t))
        BY <4>1, BodyAlignFacts, BodyAlignChain, Declaration, <2>5, <2>6, <2>9, LaidFacts
      <4>3. PICK k \in MemberIndices(t) : got[m] = FieldShape(FieldsOf(t)[k])
        BY <2>5, MembersFacts
      <4>5. PICK a \in Nat : a = sh.align
        BY <2>6, ChainFacts DEF Shape
      <4> QED
        BY <4>5, <2>1, <4>2, <4>3, MembersChain, <3>1
    <3> QED
      BY <3>1, <3>5
  <2>10. ~OwnDefect(t)
    BY <2>4, <2>8, <2>9, <2>5, <2>6, <2>7 DEF OwnDefect, MembersOf, FieldShape
  <2> QED
    BY <2>10, <2>1, AcceptedPlaced DEF DependsOn, AllPassed, FieldPassed, Needs, CompleteTypes
<1> QED
  BY <1>1, <1>2

\* A type that has a reason of its own to be refused is defective, once what it needs is complete.
LEMMA ReasonIsDefect ==
  ASSUME LayoutTypeOK, CompletesRight, NEW t \in Declared, OwnReason(t),
         \A u \in LayTypes : DependsOn(t, u) => u \in CompleteTypes
  PROVE  OwnDefect(t)
<1>1. CASE \E k \in DOMAIN FieldsOf(t) : FieldDefect(t, k)
  BY <1>1 DEF FieldDefect, OwnDefect
<1>2. CASE /\ ~Untagged(t) /\ AllPassed(t)
           /\ ~BodyAccepted(t, MembersOf(t)) \/ ~RequestMet(t, LaidShape(t, MembersOf(t)))
  <2>1. PICK got \in Seq(ChainShape) : got = MembersOf(t) /\ DOMAIN got = 1 .. Len(got)
    BY <1>2, MembersChain, LenProperties
  <2>2. PICK sh \in ChainShape : sh = LaidShape(t, got)
    BY <2>1, LaidFacts DEF LaidWell
  <2>3. sh.size \in Nat /\ sh.align \in Nat \ {0} /\ SizeLimit \in Nat
    BY <2>2, ChainFacts, LayoutAssumption DEF ChainShape
  <2>4. CASE ~BodyAccepted(t, MembersOf(t))
    BY <1>2, <2>1, <2>2, <2>3, <2>4, LaidFacts DEF OwnDefect, MembersOf, FieldShape
  <2>5. CASE ~RequestMet(t, LaidShape(t, MembersOf(t)))
    <3>1. PICK r \in Nat : r = layDecl[t].attr.requested
      BY Declaration
    <3>2. r # 0 /\ Kind(t) # "enum" /\ ~(r \in {1, 2, 4, 8, 16} /\ r <= sh.align)
      BY <2>1, <2>2, <2>5, <3>1 DEF RequestMet, PowerOfTwo
    <3>3. CASE r \notin {1, 2, 4, 8, 16}
      BY <3>1, <3>2, <3>3 DEF OwnDefect
    <3>4. CASE ~(r <= sh.align)
      <4>2. ASSUME NEW k \in MemberIndices(t) PROVE NaturalAlign(t, FieldsOf(t)[k]) < r
        <5>1. sh.align = BodyAlign(got, Packed(t)) /\ got \in Seq(Shape) /\ Packed(t) \in BOOLEAN
          BY <2>1, <2>2, <3>2, LaidFacts, BodyAlignChain, Declaration
        <5>2. PICK m \in DOMAIN got : got[m] = FieldShape(FieldsOf(t)[k])
          BY <2>1, MembersFacts
        <5>3. PICK a \in Nat : a = AlignIn(got[m], Packed(t))
          BY <5>1, MemberShape
        <5> QED
          BY <1>2, <5>2, <5>3, MembersChain, <2>3, <3>4, <5>1, BodyAlignFacts
      <4> QED
        BY <3>1, <3>2, <4>2, <2>3, <3>4 DEF OwnDefect
    <3> QED
      BY <3>2, <3>3, <3>4
  <2> QED
    BY <1>2, <2>4, <2>5
<1> QED
  BY <1>1, <1>2 DEF OwnReason

--------------------------------------------------------------------------------
(* What a step keeps that leaves the declarations and the complete types alone. *)

\* The declarations do not change, nor do the complete types.
Kept == /\ layDecl' = layDecl
        /\ \A u \in LayTypes : layState[u] = "complete" => layState'[u] = "complete" /\ layShape'[u] = layShape[u]

\* A field whose type is complete, if it needs one, has the shape it had.
LEMMA FieldKept ==
  ASSUME Kept, NEW f \in Fields, Needs(f) => layState[f.of] = "complete"
  PROVE  /\ (Needs(f) => layState[f.of] = "complete")'
         /\ ElementShape(f)' = ElementShape(f) /\ BytesOf(f)' = BytesOf(f) /\ FieldShape(f)' = FieldShape(f)
<1> QED
  BY DEF Needs, Kept, FieldShape, BytesOf, ElementShape

\* What depends on the declarations alone stays.
LEMMA DeclarationKept ==
  ASSUME layDecl' = layDecl, NEW t
  PROVE  /\ FieldsOf(t)' = FieldsOf(t) /\ Packed(t)' = Packed(t) /\ Kind(t)' = Kind(t)
         /\ Untagged(t)' = Untagged(t) /\ MemberIndices(t)' = MemberIndices(t)
         /\ \A k : MemberNumber(t, k)' = MemberNumber(t, k)
         /\ \A u : DependsOn(t, u)' <=> DependsOn(t, u)
         /\ \A got : /\ LaidShape(t, got)' = LaidShape(t, got) /\ LaidOffsets(t, got)' = LaidOffsets(t, got)
                     /\ BodyAccepted(t, got)' <=> BodyAccepted(t, got)
         /\ \A sh : RequestMet(t, sh)' <=> RequestMet(t, sh)
<1>1. FieldsOf(t)' = FieldsOf(t) /\ Packed(t)' = Packed(t) /\ Kind(t)' = Kind(t)
  BY DEF FieldsOf, Packed, Kind
<1> QED
  BY <1>1 DEF MemberNumber, Untagged, MemberIndices, RequestMet, BodyAccepted, LaidOffsets, LaidShape,
     DependsOn

\* A field that has passed stays so, and so does a defect of one.
LEMMA FieldPassedKept ==
  ASSUME LayoutTypeOK, Kept, NEW t \in Declared, NEW k \in DOMAIN FieldsOf(t)
  PROVE  /\ FieldPassed(t, k) => FieldPassed(t, k)' /\ FieldShape(FieldsOf(t)[k])' = FieldShape(FieldsOf(t)[k])
         /\ FieldDefect(t, k) => FieldDefect(t, k)'
<1>1. PICK f \in Fields : f = FieldsOf(t)[k]
  BY Declaration
<1>3. FieldsOf(t)'[k] = f /\ Packed(t)' = Packed(t)
  BY <1>1, DeclarationKept DEF Kept
<1> QED
  BY <1>3, <1>1, FieldKept DEF FieldDefect, FieldPassed

\* So do the members of a type.
LEMMA MembersKept ==
  ASSUME LayoutTypeOK, Kept, NEW t \in Declared, AllPassed(t)
  PROVE  AllPassed(t)' /\ MembersOf(t)' = MembersOf(t)
<1>1. layDecl' = layDecl
  BY DEF Kept
<1>2. \A k \in DOMAIN FieldsOf(t) : FieldPassed(t, k)' /\ FieldShape(FieldsOf(t)[k])' = FieldShape(FieldsOf(t)[k])
  BY FieldPassedKept DEF AllPassed
<1>3. FieldsOf(t)' = FieldsOf(t) /\ MemberIndices(t)' = MemberIndices(t) /\ \A k : MemberNumber(t, k)' = MemberNumber(t, k)
  BY <1>1, DeclarationKept
<1> DEFINE Of(m) == CHOOSE k \in MemberIndices(t) : MemberNumber(t, k) = m
<1> DEFINE c == Cardinality(MemberIndices(t))
<1>6. c' = c
  BY <1>3
<1>7. MembersOf(t) = [m \in 1 .. c |-> FieldShape(FieldsOf(t)[Of(m)])]
  BY DEF MembersOf
<1>8. MembersOf(t)' = [m \in 1 .. c' |-> FieldShape(FieldsOf(t)[Of(m)])']
  BY DEF MembersOf
<1>9. \A m \in 1 .. c : Of(m) \in MemberIndices(t)
  <2> TAKE m \in 1 .. c
  <2> QED
    BY MembersFacts
<1>11. \A m \in 1 .. c : FieldShape(FieldsOf(t)[Of(m)])' = FieldShape(FieldsOf(t)[Of(m)])
  <2> TAKE m \in 1 .. c
  <2>1. PICK k \in DOMAIN FieldsOf(t) : k = Of(m)
    BY <1>9, Declaration
  <2> QED
    BY <1>2, <2>1, <1>1 DEF MemberIndices, MemberNumber, FieldsOf
<1> HIDE DEF Of, c
<1> QED
  BY <1>2, <1>3, <1>6, <1>7, <1>8, <1>11 DEF AllPassed

\* So does what has been got of them.
LEMMA GotKept ==
  ASSUME LayoutTypeOK, Kept, NEW t \in Declared, NEW n \in Nat, n <= Len(FieldsOf(t)), NEW got,
         \A k \in 1 .. n : FieldPassed(t, k), GotUpTo(got, t, n)
  PROVE  (\A k \in 1 .. n : FieldPassed(t, k)') /\ GotUpTo(got, t, n)'
<1>0. layDecl' = layDecl
  BY DEF Kept
<1> QED
  BY <1>0, DeclarationKept, Declaration, FieldPassedKept DEF GotUpTo

\* A complete type stays right.
LEMMA CompleteKept ==
  ASSUME LayoutTypeOK, Kept, NEW t \in Declared, CompleteRight(t),
         layShape'[t] = layShape[t], layOffsets'[t] = layOffsets[t]
  PROVE  CompleteRight(t)'
<1>1. layDecl' = layDecl
  BY DEF Kept
<1>2. CASE Untagged(t)
  BY <1>1, <1>2, DeclarationKept DEF CompleteRight
<1>3. CASE ~Untagged(t)
  <2>1. PICK got : got = MembersOf(t)
    OBVIOUS
  <2>2. /\ AllPassed(t) /\ BodyAccepted(t, got) /\ RequestMet(t, LaidShape(t, got))
        /\ layShape[t] = LaidShape(t, got) /\ layOffsets[t] = LaidOffsets(t, got)
    BY <1>3, <2>1 DEF CompleteRight
  <2>5. LaidShape(t, got)' = LaidShape(t, got) /\ LaidOffsets(t, got)' = LaidOffsets(t, got) /\ BodyAccepted(t, got)'
    BY <1>1, <2>2, DeclarationKept
  <2>6. RequestMet(t, LaidShape(t, got))'
    <3>1. PICK sh : sh = LaidShape(t, got)
      OBVIOUS
    <3> QED
      BY <1>1, <2>2, <2>5, <3>1, DeclarationKept
  <2> QED
    BY <2>2, <2>5, <2>6, <2>1, MembersKept, <1>1, <1>3, DeclarationKept DEF CompleteRight
<1> QED
  BY <1>2, <1>3

\* A reason that lies in the type stays one.
LEMMA OwnReasonKept ==
  ASSUME LayoutTypeOK, Kept, NEW t \in Declared, OwnReason(t)
  PROVE  OwnReason(t)'
<1>1. layDecl' = layDecl
  BY DEF Kept
<1>2. CASE \E k \in DOMAIN FieldsOf(t) : FieldDefect(t, k)
  <2>1. PICK k \in DOMAIN FieldsOf(t) : FieldDefect(t, k)
    BY <1>2
  <2> QED
    BY <1>1, <2>1, FieldPassedKept, DeclarationKept DEF OwnReason
<1>3. CASE /\ ~Untagged(t) /\ AllPassed(t)
           /\ ~BodyAccepted(t, MembersOf(t)) \/ ~RequestMet(t, LaidShape(t, MembersOf(t)))
  <2>1. PICK got, sh : got = MembersOf(t) /\ sh = LaidShape(t, got)
    OBVIOUS
  <2> QED
    BY <1>1, <2>1, DeclarationKept, <1>3, MembersKept DEF OwnReason
<1> QED
  BY <1>2, <1>3 DEF OwnReason

--------------------------------------------------------------------------------
(* The invariant implies the properties. *)

\* From the layout on, every type is declared; before it, none is complete.
LEMMA EveryTypeDeclared ==
  ASSUME LayoutTypeOK, PhaseRight
  PROVE  /\ layPhase # "register" => LayTypes = Declared
         /\ \A t \in LayTypes : layState[t] # "pending" => layPhase # "register" /\ t \in Declared
  BY DEF PhaseRight, Declared, LayTypes

\* The invariant is as strong as the property.
LEMMA InvariantSound ==
  ASSUME LayoutInv
  PROVE  LayoutSound
<1>1. /\ LayoutTypeOK /\ PhaseRight /\ CallsRight /\ FramesRight /\ CompletesRight /\ Reasons
      /\ SomethingSaid /\ Acyclic
  BY DEF LayoutInv
<1>4. ASSUME layPhase = "done", NEW t \in LayTypes
      PROVE  t \in CompleteTypes \/ OwnDefect(t) \/ \E u \in LayTypes : DependsOn(t, u) /\ u \notin CompleteTypes
  <2>1. SUFFICES ASSUME t \notin CompleteTypes, \A u \in LayTypes : DependsOn(t, u) => u \in CompleteTypes
                 PROVE  OwnDefect(t)
    OBVIOUS
  <2>2. layFrames = << >> /\ layState[t] # "pending" /\ t \in Declared
    BY <1>1, <1>4, EveryTypeDeclared DEF PhaseRight
  <2>3. DOMAIN layFrames = {}
    BY <2>2
  <2> QED
    BY <1>1, <2>1, <2>2, ReasonIsDefect, <2>3 DEF Reason, Doomed, CompleteTypes, Reasons, CallsRight,
       LayoutTypeOK
<1> QED
  BY <1>1, <1>4, CompleteHasNoDefect, EveryTypeDeclared DEF LayoutSound, FailuresReported, SomethingSaid,
     VerdictExact, Acyclic, MembersPlaced, Placed, CompletesRight, CompleteTypes

--------------------------------------------------------------------------------
(* Registration. *)

\* Before the layout the invariant says that nothing has happened.
LEMMA NothingYet ==
  ASSUME LayoutTypeOK, layPhase = "register", layFrames = << >>, layReported = {},
         \A t \in LayTypes : layState[t] = "pending" /\ layOffsets[t] = << >>
  PROVE  LayoutInv
<1> QED
  BY DEF LayoutInv, CallsRight, FramesRight, CompletesRight, Acyclic, Reasons, SomethingSaid, CompleteTypes,
     PhaseRight

\* It holds before anything is declared.
LEMMA InitLayout ==
  ASSUME LayoutInit
  PROVE  LayoutInv
<1>2. << >> \in Seq([type : LayTypes, next : Nat, ok : BOOLEAN, got : Seq(Shape)]) /\ << >> \in Seq(Nat)
  OBVIOUS
<1>3. LayoutTypeOK
  BY LayoutAssumption, <1>2 DEF LayoutInit, LayoutTypeOK
<1> QED
  BY <1>3, NothingYet DEF LayoutInit

\* The declarations there can be.
DeclSeq == Seq([attr : Attributes, fields : Seq(Fields)])

\* A step of the registration that changes the declarations only.
LEMMA StillRegistering ==
  ASSUME LayoutInv, layPhase = "register", LayoutTypeOK',
         UNCHANGED <<layPhase, layState, layFrames, layShape, layOffsets, layReported>>
  PROVE  LayoutInv'
<1>1. layFrames = << >> /\ layReported = {} /\ \A t \in LayTypes : layState[t] = "pending" /\ layOffsets[t] = << >>
  BY DEF LayoutInv, PhaseRight
<1> QED
  BY <1>1 DEF LayoutInv, Reasons, SomethingSaid, CompletesRight, Acyclic, CallsRight, FramesRight,
     CompleteTypes, PhaseRight

\* A type is registered.
LEMMA RegisterKeeps ==
  ASSUME LayoutInv, NEW a \in Attributes, RegisterType(a)
  PROVE  LayoutInv'
<1>2. LayoutTypeOK
  BY DEF LayoutInv
<1> QED
  BY StillRegistering, <1>2, AppendProperties, LenProperties, LayoutAssumption DEF LayoutTypeOK, DeclSeq,
     RegisterType

\* A field is declared.
LEMMA AddFieldKeeps ==
  ASSUME LayoutInv, NEW f \in Fields, AddField(f)
  PROVE  LayoutInv'
<1> DEFINE n == Len(layDecl)
<1>1. /\ layPhase = "register" /\ layDecl # << >>
      /\ layDecl' = [layDecl EXCEPT ![n].fields = Append(@, f)]
      /\ UNCHANGED <<layPhase, layState, layFrames, layShape, layOffsets, layReported>>
  BY DEF AddField
<1>2. LayoutTypeOK
  BY DEF LayoutInv
<1>3. layDecl' \in DeclSeq /\ Len(layDecl') <= TypeCount
  <2>1. layDecl \in DeclSeq /\ n \in Nat /\ n <= TypeCount /\ DOMAIN layDecl = 1 .. n
    BY <1>2, LenProperties DEF LayoutTypeOK, DeclSeq
  <2>2. PICK D : D = [attr : Attributes, fields : Seq(Fields)]
    OBVIOUS
  <2>4. ASSUME NEW d \in D PROVE [d EXCEPT !.fields = Append(@, f)] \in D
    BY <2>2, AppendProperties, <2>4
  <2>6. \A i \in 1 .. n : (IF i = n THEN [layDecl[i] EXCEPT !.fields = Append(@, f)] ELSE layDecl[i]) \in D
    BY <2>4, <2>1, <2>2, ElementOfSeq DEF DeclSeq
  <2> HIDE DEF n
  <2>7. layDecl' \in [1 .. n -> D]
    BY <2>6, <1>1, <2>1 DEF DeclSeq
  <2> QED
    BY <2>1, <2>2, <2>7 DEF DeclSeq
<1> QED
  BY <1>1, StillRegistering, <1>2, <1>3 DEF LayoutTypeOK, DeclSeq

\* The layout begins: an enum without payloads is complete already.
LEMMA AllRegisteredKeeps ==
  ASSUME LayoutInv, AllRegistered
  PROVE  LayoutInv'
<1>1. /\ layPhase = "register" /\ Len(layDecl) = TypeCount /\ layPhase' = "layout"
      /\ layState' = [t \in LayTypes |-> IF Untagged(t) THEN "complete" ELSE layState[t]]
      /\ layShape' = [t \in LayTypes |-> IF Untagged(t) THEN AtomShapes[Tag] ELSE layShape[t]]
      /\ UNCHANGED <<layDecl, layFrames, layOffsets, layReported>>
  BY DEF AllRegistered
<1>2. LayoutTypeOK /\ PhaseRight
  BY DEF LayoutInv
<1>3. layFrames = << >> /\ layReported = {} /\ \A t \in LayTypes : layState[t] = "pending" /\ layOffsets[t] = << >>
  BY <1>1, <1>2 DEF PhaseRight
<1>4. \A t : Untagged(t)' <=> Untagged(t)
  BY <1>1, DeclarationKept
<1>5. AtomShapes[Tag] \in ChainShape /\ AtomShapes[Tag].size <= SizeLimit /\ AtomShapes[Tag] \in [size : Nat, align : Nat]
  BY LayoutAssumption DEF Shape, ChainShape, Chain, Alignments
<1>6. \A t \in LayTypes : /\ layState'[t] = (IF Untagged(t) THEN "complete" ELSE "pending")
                          /\ Untagged(t) => layShape'[t] = AtomShapes[Tag]
                          /\ layOffsets'[t] = << >>
  BY <1>1, <1>3
<1>7. \A t \in CompleteTypes' : t \in LayTypes /\ Untagged(t)
  BY <1>6 DEF CompleteTypes
<1>8. LayoutTypeOK'
  BY <1>1, <1>2, <1>5 DEF LayoutTypeOK
<1>13. CompletesRight'
  BY <1>4, <1>5, <1>6, <1>7 DEF CompletesRight, CompleteRight
<1>15. Acyclic'
  <2>1. \A t \in CompleteTypes' : \A u : ~DependsOn(t, u)'
    <3> TAKE t \in CompleteTypes'
    <3> QED
      BY <1>1, <1>7, DeclarationKept DEF DependsOn, Untagged
  <2> QED
    BY <2>1 DEF Acyclic
<1> QED
  BY <1>8, <1>13, <1>15, <1>6, <1>1, <1>3, <1>4 DEF LayoutInv, Reasons, SomethingSaid, FramesRight,
     CallsRight, PhaseRight

--------------------------------------------------------------------------------
(* What the steps of the layout have in common. *)

\* The calls there can be.
Frame == [type : LayTypes, next : Nat, ok : BOOLEAN, got : Seq(Shape)]

\* What a call in progress is made of.
LEMMA FrameFacts ==
  ASSUME LayoutTypeOK
  PROVE  /\ layFrames \in Seq(Frame) /\ Len(layFrames) \in Nat /\ DOMAIN layFrames = 1 .. Len(layFrames)
         /\ \A i \in DOMAIN layFrames :
              /\ layFrames[i] \in Frame /\ layFrames[i].type \in LayTypes /\ layFrames[i].next \in Nat
              /\ layFrames[i].ok \in BOOLEAN /\ layFrames[i].got \in Seq(Shape)
         /\ layFrames # << >> => Len(layFrames) \in DOMAIN layFrames /\ TopFrame = layFrames[Len(layFrames)]
<1>1. layFrames \in Seq(Frame)
  BY DEF LayoutTypeOK, Frame
<1>2. Len(layFrames) \in Nat /\ DOMAIN layFrames = 1 .. Len(layFrames)
  BY <1>1, LenProperties
<1>3. \A i \in DOMAIN layFrames : layFrames[i] \in Frame
  BY <1>1, <1>2, ElementOfSeq
<1> QED
  BY <1>1, <1>2, <1>3 DEF Frame, TopFrame

\* The complete types stay right as long as they are the same and nothing of them changes.
LEMMA Untouched ==
  ASSUME LayoutInv, layPhase # "register", Kept, CompleteTypes' = CompleteTypes,
         UNCHANGED <<layShape, layOffsets>>
  PROVE  CompletesRight' /\ Acyclic'
<1> QED
  BY CompleteKept, DeclarationKept, EveryTypeDeclared DEF CompletesRight, CompleteTypes, Acyclic, Kept,
     LayoutInv

\* A reason stays one as long as no failure is forgotten.
LEMMA ReasonKept ==
  ASSUME LayoutTypeOK, Kept, NEW t \in Declared, Reason(t),
         \A u : layState[u] = "invalid" => layState'[u] = "invalid",
         \A u : Doomed(u) => Doomed(u)' \/ layState'[u] = "invalid"
  PROVE  Reason(t)'
<1>1. CASE OwnReason(t)
  BY <1>1, OwnReasonKept DEF Reason
<1>2. CASE \E u \in LayTypes : DependsOn(t, u) /\ (layState[u] = "invalid" \/ Doomed(u))
  <2>1. PICK u \in LayTypes : DependsOn(t, u) /\ (layState[u] = "invalid" \/ Doomed(u))
    BY <1>2
  <2> QED
    BY <2>1, DeclarationKept DEF Reason, Kept
<1> QED
  BY <1>1, <1>2 DEF Reason

\* What a call has got so far stays got.
LEMMA FrameKept ==
  ASSUME LayoutInv, layPhase # "register", Kept,
         NEW i \in DOMAIN layFrames, NEW fr, fr = layFrames[i], fr.ok
  PROVE  (\A k \in 1 .. fr.next - 1 : FieldPassed(fr.type, k)') /\ GotUpTo(fr.got, fr.type, fr.next - 1)'
<1>1. LayoutTypeOK /\ PhaseRight /\ CallsRight /\ FramesRight /\ LayTypes = Declared
  BY EveryTypeDeclared DEF LayoutInv
<1>2. fr.type \in Declared /\ fr.next \in 1 .. Len(FieldsOf(fr.type)) + 1
  BY <1>1, FrameFacts DEF CallsRight
<1>3. PICK n \in Nat : n = fr.next - 1 /\ n <= Len(FieldsOf(fr.type))
  BY <1>2, <1>1, Declaration
<1> QED
  BY <1>3, <1>1, <1>2, GotKept DEF FramesRight

\* The call in progress and the field it is at.
LEMMA FieldAtHand ==
  ASSUME LayoutInv, AtField
  PROVE  /\ layPhase = "layout" /\ layFrames # << >> /\ LayTypes = Declared
         /\ Len(layFrames) \in DOMAIN layFrames /\ Len(layFrames) \in Nat \ {0} /\ TopFrame = layFrames[Len(layFrames)]
         /\ TopFrame \in Frame /\ TopFrame.type \in LayTypes /\ TopFrame.next \in DOMAIN FieldsOf(TopFrame.type)
         /\ TopFrame.next \in Nat \ {0}
         /\ CurrentField \in Fields /\ CurrentField = FieldsOf(TopFrame.type)[TopFrame.next]
         /\ Needs(CurrentField) => CurrentField.of \in LayTypes /\ DependsOn(TopFrame.type, CurrentField.of)
<1>1. LayoutTypeOK /\ PhaseRight /\ CallsRight /\ LayTypes = Declared /\ layPhase = "layout" /\ layFrames # << >>
  BY EveryTypeDeclared DEF LayoutInv, AtField
<1> QED
  BY <1>1, Declaration, FrameFacts DEF Needs, DependsOn, CurrentField, CallsRight, AtField

\* Edited frames are frames.
LEMMA EditFrame ==
  ASSUME NEW fr \in Frame, NEW m \in Nat
  PROVE  /\ [fr EXCEPT !.ok = FALSE, !.next = m] \in Frame
         /\ LET g == [fr EXCEPT !.ok = FALSE, !.next = m]
            IN g.type = fr.type /\ g.next = m /\ g.ok = FALSE /\ g.got = fr.got
  BY DEF Frame

\* A field that fails takes its type with it, and all that wait for the type.
LEMMA FieldFailsKeeps ==
  ASSUME LayoutInv, AtField, NEW rep \in BOOLEAN, FieldFails(rep), rep \/ layReported # {},
         \/ FieldDefect(TopFrame.type, TopFrame.next)
         \/ Needs(CurrentField) /\ layState[CurrentField.of] \in {"visiting", "invalid"}
  PROVE  LayoutInv'
<1>1. /\ LayoutTypeOK /\ PhaseRight /\ CallsRight /\ FramesRight /\ CompletesRight /\ Reasons
      /\ SomethingSaid /\ LayTypes = Declared /\ layPhase = "layout"
  BY FieldAtHand DEF LayoutInv
<1>2. PICK n \in Nat \ {0} : n = Len(layFrames) /\ DOMAIN layFrames = 1 .. n
  BY <1>1, FieldAtHand, FrameFacts
<1>3. PICK top \in Frame : top = TopFrame /\ top = layFrames[n]
  BY <1>2, FieldAtHand
<1>4. /\ layFrames' = [layFrames EXCEPT ![n].ok = FALSE, ![n].next = @ + 1]
      /\ layReported' = (IF rep THEN layReported \cup {top.type} ELSE layReported)
      /\ UNCHANGED <<layPhase, layDecl, layState, layShape, layOffsets>>
  BY <1>2, <1>3 DEF FieldFails
<1>5. /\ top.type \in LayTypes /\ top.next \in 1 .. Len(FieldsOf(top.type)) /\ top.next \in Nat
      /\ Len(FieldsOf(top.type)) \in Nat
  BY <1>1, <1>3, FieldAtHand, Declaration
<1>5a. PICK m \in Nat : m = top.next + 1
  BY <1>5
<1>6. PICK new : new = [top EXCEPT !.ok = FALSE, !.next = m]
  OBVIOUS
<1>7. new \in Frame /\ new.type = top.type /\ new.next = top.next + 1 /\ new.ok = FALSE /\ new.got = top.got
  BY <1>6, <1>5a, EditFrame
<1>8. layFrames' = [i \in 1 .. n |-> IF i = n THEN new ELSE layFrames[i]]
  BY <1>1, <1>2, <1>3, <1>4, <1>6, <1>5a, FrameFacts
<1>9. layFrames' \in Seq(Frame) /\ Len(layFrames') = n /\ DOMAIN layFrames' = 1 .. n
  <2>1. \A i \in 1 .. n : (IF i = n THEN new ELSE layFrames[i]) \in Frame
    BY <1>1, <1>2, <1>7, FrameFacts
  <2>2. layFrames' \in [1 .. n -> Frame]
    BY <1>8, <2>1
  <2> QED
    BY <2>2
<1>10. /\ n \in 1 .. n /\ layFrames'[n] = new
       /\ \A i \in 1 .. n : i # n => layFrames'[i] = layFrames[i]
       /\ \A i \in 1 .. n : layFrames'[i].type = layFrames[i].type
  BY <1>3, <1>7, <1>8
<1>11. Kept /\ CompleteTypes' = CompleteTypes
  BY <1>4 DEF Kept, CompleteTypes
<1>12. CompletesRight' /\ Acyclic'
  BY <1>1, <1>4, <1>11, Untouched
<1>13. LayoutTypeOK'
  <2>1. layReported' \subseteq LayTypes
    BY <1>1, <1>4, <1>5 DEF LayoutTypeOK
  <2> QED
    BY <1>1, <1>4, <1>9, <2>1 DEF LayoutTypeOK, Frame
<1>14. PhaseRight'
  <2>1. \A t : Untagged(t)' <=> Untagged(t)
    BY <1>4, DeclarationKept
  <2> QED
    BY <1>1, <1>4, <2>1 DEF PhaseRight
<1>15. \A t : FieldsOf(t)' = FieldsOf(t) /\ Packed(t)' = Packed(t)
  BY <1>4, DeclarationKept
<1>16. CallsRight'
  <2>1. \A t \in LayTypes : layState'[t] = "visiting" <=> \E i \in 1 .. n : layFrames'[i].type = t
    BY <1>1, <1>2, <1>4, <1>10 DEF CallsRight
  <2>2. \A i, j \in 1 .. n : layFrames'[i].type = layFrames'[j].type => i = j
    BY <1>1, <1>2, <1>10 DEF CallsRight
  <2>3. \A i \in 1 .. n : layFrames'[i].next \in 1 .. Len(FieldsOf(layFrames'[i].type)) + 1
    <3> TAKE i \in 1 .. n
    <3>1. CASE i = n
      BY <1>5, <1>7, <1>10, <3>1
    <3>2. CASE i # n
      BY <1>1, <1>2, <1>10, <3>2 DEF CallsRight
    <3> QED
      BY <3>1, <3>2
  <2>4. ASSUME NEW i \in 1 .. n, i < n, NEW fr, fr = layFrames'[i]
        PROVE  /\ fr.next <= Len(FieldsOf(fr.type))
               /\ LET f == FieldsOf(fr.type)[fr.next]
                  IN f.how # "bitfield" /\ ~(f.how = "atomic" /\ Packed(fr.type)) /\ Needs(f) /\ f.of = layFrames'[i + 1].type
    <3>1. fr = layFrames[i] /\ i + 1 \in 1 .. n /\ layFrames'[i + 1].type = layFrames[i + 1].type
      BY <1>10, <2>4
    <3> QED
      BY <1>1, <1>2, <2>4, <3>1 DEF CallsRight
  <2>5. \A f : Needs(f)' <=> Needs(f)
    BY DEF Needs
  <2>6. (\A t \in LayTypes : layState[t] = "visiting" <=> \E i \in DOMAIN layFrames : layFrames[i].type = t)'
    BY <1>9, <2>1
  <2>7. (\A i, j \in DOMAIN layFrames : layFrames[i].type = layFrames[j].type => i = j)'
    BY <1>9, <2>2
  <2>8. (\A i \in DOMAIN layFrames : layFrames[i].next \in 1 .. Len(FieldsOf(layFrames[i].type)) + 1)'
    BY <1>9, <1>15, <2>3
  <2> QED
    BY <1>9, <1>15, <2>4, <2>5, <2>6, <2>7, <2>8 DEF CallsRight
<1>17. FramesRight'
  <2>1. ASSUME NEW i \in 1 .. n, NEW fr, fr = layFrames'[i], fr.ok
        PROVE  (\A k \in 1 .. fr.next - 1 : FieldPassed(fr.type, k)') /\ GotUpTo(fr.got, fr.type, fr.next - 1)'
    <3>1. i # n /\ fr = layFrames[i]
      BY <1>7, <1>10, <2>1
    <3> QED
      BY <1>1, <1>2, <1>11, <2>1, <3>1, FrameKept
  <2> QED
    BY <1>9, <2>1 DEF FramesRight
<1>18. \A u : (\E j \in 1 .. n : layFrames[j].type = u) => Doomed(u)'
  <2> TAKE u
  <2> HAVE \E j \in 1 .. n : layFrames[j].type = u
  <2>1. PICK j \in 1 .. n : layFrames[j].type = u
    OBVIOUS
  <2>2. j <= n /\ ~layFrames'[n].ok
    BY <1>7, <1>10
  <2> QED
    BY <1>9, <1>10, <2>1, <2>2 DEF Doomed
<1>19. \A u : Doomed(u) => Doomed(u)'
  BY <1>2, <1>18 DEF Doomed
<1>20. \A t \in LayTypes : Reason(t) => Reason(t)'
  BY <1>1, <1>4, <1>11, <1>19, ReasonKept
<1>21. Reason(top.type)'
  <2>1. CASE FieldDefect(top.type, top.next)
    BY <1>1, <1>3, <1>5, <1>20, <2>1, FieldAtHand DEF Reason, OwnReason
  <2>2. CASE Needs(CurrentField) /\ layState[CurrentField.of] = "invalid"
    BY <1>3, <1>5, <1>20, <2>2, FieldAtHand DEF Reason
  <2>3. CASE Needs(CurrentField) /\ layState[CurrentField.of] = "visiting"
    <3>1. PICK u \in LayTypes : u = CurrentField.of /\ DependsOn(top.type, u) /\ layState[u] = "visiting"
      BY <1>3, <2>3, FieldAtHand
    <3>2. Doomed(u)'
      BY <1>1, <1>2, <1>18, <3>1 DEF CallsRight
    <3>3. DependsOn(top.type, u)'
      BY <1>4, <3>1, DeclarationKept
    <3> QED
      BY <3>2, <3>3 DEF Reason
  <2> QED
    BY <1>3, <2>1, <2>2, <2>3
<1>22. Reasons'
  <2>1. \A t \in LayTypes : layState'[t] = "invalid" => Reason(t)'
    BY <1>1, <1>4, <1>20 DEF Reasons
  <2>2. ASSUME NEW i \in 1 .. n, ~layFrames'[i].ok PROVE Reason(layFrames[i].type)'
    <3>1. PICK t \in LayTypes : t = layFrames'[i].type /\ t = layFrames[i].type
      BY <1>1, <1>2, <1>10, FrameFacts
    <3>2. CASE i = n
      BY <1>2, <1>3, <1>10, <1>21, <3>1, <3>2
    <3>3. CASE i # n
      BY <1>1, <1>2, <1>10, <1>20, <2>2, <3>1, <3>3 DEF Reasons
    <3> QED
      BY <3>2, <3>3
  <2> QED
    BY <1>9, <2>1, <2>2 DEF Reasons
<1>23. SomethingSaid'
  BY <1>4 DEF SomethingSaid
<1> QED
  BY <1>12, <1>13, <1>14, <1>16, <1>17, <1>22, <1>23 DEF LayoutInv

\* A field is refused for itself.
LEMMA RefuseFieldKeeps ==
  ASSUME LayoutInv, RefuseField
  PROVE  LayoutInv'
<1> QED
  BY FieldFailsKeeps, FieldAtHand DEF FieldRefused, FieldDefect, RefuseField

\* A field needs a type that is being visited, or has failed.
LEMMA MeetKeeps ==
  ASSUME LayoutInv, MeetVisiting \/ MeetInvalid
  PROVE  LayoutInv'
<1>1. CASE MeetVisiting
  BY FieldFailsKeeps, <1>1 DEF MeetVisiting, NeedsNow
<1>2. CASE MeetInvalid
  BY FieldFailsKeeps, FieldAtHand, <1>2 DEF LayoutInv, SomethingSaid, MeetInvalid, NeedsNow
<1> QED
  BY <1>1, <1>2

\* An array is refused: it is larger than the address space, or has an empty extent.
LEMMA ArrayTooLargeKeeps ==
  ASSUME LayoutInv, ArrayTooLarge
  PROVE  LayoutInv'
<1>1. /\ AtField /\ ~ArrayFits(CurrentField) /\ FieldFails(TRUE)
      /\ Needs(CurrentField) => layState[CurrentField.of] = "complete"
  BY DEF ArrayTooLarge, FieldComplete
<1>2. CurrentField \in Fields /\ CurrentField = FieldsOf(TopFrame.type)[TopFrame.next] /\ CompletesRight
  BY <1>1, FieldAtHand DEF LayoutInv
<1>3. PICK f \in Fields : f = CurrentField
  BY <1>2
<1> QED
  BY <1>1, FieldFailsKeeps, <1>2, <1>3, RefusedArrayLarge, FieldParts, ElementFacts DEF FieldDefect

\* The members got grow with the fields taken.
LEMMA GotNext ==
  ASSUME LayoutTypeOK, NEW t \in Declared, NEW k \in DOMAIN FieldsOf(t), NEW f, f = FieldsOf(t)[k],
         NEW got, GotUpTo(got, t, k - 1), NEW s \in ChainShape, s = FieldShape(f),
         NEW more, more = IF f.how = "sizeof" THEN got ELSE Append(got, s)
  PROVE  GotUpTo(more, t, k)
<1>1. PICK n \in Nat : n = Len(FieldsOf(t)) /\ DOMAIN FieldsOf(t) = 1 .. n
  BY Declaration
<1>2. PICK M \in SUBSET (1 .. n) : M = MemberIndices(t)
  BY <1>1, Declaration
<1>3. k \in 1 .. n /\ k \in Nat /\ k - 1 \in Nat /\ k - 1 \in 0 .. n /\ (k \in M <=> f.how # "sizeof")
  BY <1>1, <1>2 DEF MemberIndices
<1>4. \A i : MemberNumber(t, i) = CountUp(M, i)
  BY <1>2 DEF MemberNumber, CountUp
<1>5. PICK c \in Nat : c = CountUp(M, k - 1)
  BY <1>3, CountFacts
<1>6. CountUp(M, k) = IF k \in M THEN c + 1 ELSE c
  <2>1. \A i \in 1 .. n : CountUp(M, i) = IF i \in M THEN CountUp(M, i - 1) + 1 ELSE CountUp(M, i - 1)
    BY CountFacts
  <2> QED
    BY <1>5, <2>1, <1>3
<1>7. /\ got \in Seq(ChainShape) /\ Len(got) = c
      /\ \A i \in M : i <= k - 1 => got[CountUp(M, i)] = FieldShape(FieldsOf(t)[i])
  BY <1>2, <1>4, <1>5 DEF GotUpTo
<1>8. ASSUME NEW i \in M, i <= k - 1 PROVE CountUp(M, i) \in 1 .. c
  <2>1. i \in 0 .. n /\ 0 \in 0 .. n /\ 0 < i
    BY <1>1
  <2>3. CountUp(M, 0) < CountUp(M, i)
    BY <2>1, CountOrder
  <2>4. CountUp(M, i) <= c
    BY <1>3, <1>5, <1>8, <2>1, CountOrder
  <2> QED
    BY <2>3, <2>4, <2>1, CountFacts
<1>9. CASE f.how = "sizeof"
  BY <1>2, <1>4, <1>7, <1>1, <1>3, <1>6, <1>9 DEF GotUpTo
<1>10. CASE f.how # "sizeof"
  <2>1. k \in M /\ more = Append(got, s) /\ CountUp(M, k) = c + 1
    BY <1>3, <1>6, <1>10
  <2>2. /\ more \in Seq(ChainShape) /\ Len(more) = c + 1 /\ more[c + 1] = s
        /\ \A m \in 1 .. c : more[m] = got[m]
    BY <1>7, <2>1, AppendProperties
  <2>3. ASSUME NEW i \in M, i <= k PROVE more[CountUp(M, i)] = FieldShape(FieldsOf(t)[i])
    <3>1. CASE i = k
      BY <2>1, <2>2, <3>1
    <3>2. CASE i # k
      BY <1>7, <1>8, <2>2, <1>3, <2>3, <3>2
    <3> QED
      BY <3>1, <3>2
  <2> QED
    BY <1>2, <1>4, <2>1, <2>2, <2>3 DEF GotUpTo
<1> QED
  BY <1>9, <1>10

\* A field is taken: a member more, unless it is a compile-time field.
LEMMA TakeFieldKeeps ==
  ASSUME LayoutInv, TakeField
  PROVE  LayoutInv'
<1>0. /\ AtField /\ ~FieldRefused(CurrentField) /\ ArrayFits(CurrentField)
      /\ Needs(CurrentField) => layState[CurrentField.of] = "complete"
  BY DEF TakeField, FieldComplete
<1>1. /\ LayoutTypeOK /\ PhaseRight /\ CallsRight /\ FramesRight /\ CompletesRight /\ Reasons
      /\ SomethingSaid /\ LayTypes = Declared /\ layPhase = "layout"
  BY <1>0, FieldAtHand DEF LayoutInv
<1>2. PICK n \in Nat \ {0} : n = Len(layFrames) /\ DOMAIN layFrames = 1 .. n
  BY <1>0, <1>1, FieldAtHand, FrameFacts
<1>3. PICK top \in Frame : top = TopFrame /\ top = layFrames[n]
  BY <1>0, <1>2, FieldAtHand
<1>4. PICK f \in Fields : f = CurrentField /\ f = FieldsOf(top.type)[top.next]
  BY <1>0, <1>3, FieldAtHand
<1>5. /\ top.type \in LayTypes /\ top.next \in DOMAIN FieldsOf(top.type) /\ top.next \in Nat \ {0}
      /\ top.next \in 1 .. Len(FieldsOf(top.type)) /\ Len(FieldsOf(top.type)) \in Nat /\ top.got \in Seq(Shape)
  BY <1>0, <1>1, <1>3, FieldAtHand, Declaration DEF Frame
<1>6. PICK s \in ChainShape : s = FieldShape(f) /\ s = [size |-> ArraySizes(f)[Len(f.dims)], align |-> ElementShape(f).align]
  BY <1>0, <1>1, <1>4, TakenField, FieldShapeFacts
<1>7. PICK more : more = IF f.how = "sizeof" THEN top.got ELSE Append(top.got, s)
  OBVIOUS
<1>8. PICK m \in Nat : m = top.next + 1
  BY <1>5
<1>9. /\ layFrames' = [layFrames EXCEPT ![n].next = m, ![n].got = more]
      /\ UNCHANGED <<layPhase, layDecl, layState, layShape, layOffsets, layReported>>
  BY <1>0, <1>1, <1>2, <1>3, <1>4, <1>6, <1>7, <1>8, FrameFacts DEF TakeField
<1>11. PICK new : new = [top EXCEPT !.next = m, !.got = more]
  OBVIOUS
<1>12. new \in Frame /\ new.type = top.type /\ new.next = m /\ new.ok = top.ok /\ new.got = more
  BY <1>8, <1>11, <1>5, <1>7, AppendProperties, ChainFacts DEF Frame
<1>13. layFrames' = [i \in 1 .. n |-> IF i = n THEN new ELSE layFrames[i]]
  BY <1>1, <1>2, <1>3, <1>9, <1>11, FrameFacts
<1>14. layFrames' \in Seq(Frame) /\ Len(layFrames') = n /\ DOMAIN layFrames' = 1 .. n
  BY <1>13, <1>1, <1>2, <1>12, FrameFacts
<1>15. /\ n \in 1 .. n /\ layFrames'[n] = new
       /\ \A i \in 1 .. n : i # n => layFrames'[i] = layFrames[i]
       /\ \A i \in 1 .. n : layFrames'[i].type = layFrames[i].type
       /\ \A i \in 1 .. n : layFrames'[i].ok = layFrames[i].ok
  BY <1>3, <1>12, <1>13
<1>16. Kept /\ CompleteTypes' = CompleteTypes
  BY <1>9 DEF Kept, CompleteTypes
<1>17. CompletesRight' /\ Acyclic'
  BY <1>1, <1>9, <1>16, Untouched
<1>18. LayoutTypeOK'
  BY <1>1, <1>9, <1>14 DEF LayoutTypeOK, Frame
<1>19. PhaseRight'
  BY <1>1, <1>9, DeclarationKept DEF PhaseRight
<1>20. \A t : FieldsOf(t)' = FieldsOf(t) /\ Packed(t)' = Packed(t)
  BY <1>9, DeclarationKept
<1>21. CallsRight'
  <2>1. \A t \in LayTypes : layState'[t] = "visiting" <=> \E i \in 1 .. n : layFrames'[i].type = t
    BY <1>1, <1>2, <1>9, <1>15 DEF CallsRight
  <2>2. \A i, j \in 1 .. n : layFrames'[i].type = layFrames'[j].type => i = j
    BY <1>1, <1>2, <1>15 DEF CallsRight
  <2>3. \A i \in 1 .. n : layFrames'[i].next \in 1 .. Len(FieldsOf(layFrames'[i].type)) + 1
    <3> TAKE i \in 1 .. n
    <3>1. CASE i = n
      BY <1>5, <1>8, <1>12, <1>15, <3>1
    <3>2. CASE i # n
      BY <1>1, <1>2, <1>15, <3>2 DEF CallsRight
    <3> QED
      BY <3>1, <3>2
  <2>4. ASSUME NEW i \in 1 .. n, i < n, NEW fr, fr = layFrames'[i]
        PROVE  /\ fr.next <= Len(FieldsOf(fr.type))
               /\ LET g == FieldsOf(fr.type)[fr.next]
                  IN g.how # "bitfield" /\ ~(g.how = "atomic" /\ Packed(fr.type)) /\ Needs(g) /\ g.of = layFrames'[i + 1].type
    <3>1. fr = layFrames[i] /\ i + 1 \in 1 .. n /\ layFrames'[i + 1].type = layFrames[i + 1].type
      BY <1>15, <2>4
    <3> QED
      BY <1>1, <1>2, <2>4, <3>1 DEF CallsRight
  <2> QED
    BY <1>14, <1>20, <2>1, <2>2, <2>3, <2>4 DEF CallsRight, Needs
<1>22. FramesRight'
  <2>1. ASSUME top.ok
        PROVE  (\A k \in 1 .. m - 1 : FieldPassed(top.type, k)') /\ GotUpTo(more, top.type, m - 1)'
    <3>2. (\A k \in 1 .. top.next - 1 : FieldPassed(top.type, k)) /\ GotUpTo(top.got, top.type, top.next - 1)
      BY <1>1, <1>2, <1>3, <1>15, <2>1 DEF FramesRight
    <3>4. \A k \in 1 .. top.next : FieldPassed(top.type, k)
      BY <3>2, <1>5, <1>0, <1>3, <1>4, <1>1, TakenField DEF FieldPassed, FieldRefused
    <3>5. GotUpTo(more, top.type, top.next)
      BY <1>1, <1>4, <1>5, <1>6, <1>7, <3>2, GotNext
    <3> QED
      BY <1>1, <1>5, <1>16, <3>4, <3>5, GotKept, <1>8
  <2>2. ASSUME NEW i \in 1 .. n, NEW fr, fr = layFrames'[i], fr.ok
        PROVE  (\A k \in 1 .. fr.next - 1 : FieldPassed(fr.type, k)') /\ GotUpTo(fr.got, fr.type, fr.next - 1)'
    <3>1. CASE i = n
      BY <1>12, <1>15, <2>1, <2>2, <3>1
    <3>2. CASE i # n
      BY <1>1, <1>2, <1>16, <2>2, FrameKept, <1>15, <3>2
    <3> QED
      BY <3>1, <3>2
  <2> QED
    BY <1>14, <2>2 DEF FramesRight
<1>23. ASSUME NEW u, Doomed(u) PROVE Doomed(u)'
  <2>2. PICK j \in 1 .. n, i \in 1 .. n : layFrames[j].type = u /\ j <= i /\ ~layFrames[i].ok
    BY <1>2, <1>23, <1>0 DEF Doomed, NeedsNow
  <2> QED
    BY <1>14, <2>2, <1>15 DEF Doomed
<1>24. \A t \in LayTypes : Reason(t) => Reason(t)'
  BY <1>1, <1>9, <1>16, <1>23, ReasonKept
<1>25. Reasons'
  <2>2. ASSUME NEW i \in 1 .. n, ~layFrames'[i].ok PROVE Reason(layFrames[i].type)'
    <3>1. PICK t \in LayTypes : t = layFrames'[i].type /\ t = layFrames[i].type
      BY <1>1, <1>2, <1>15, FrameFacts
    <3> QED
      BY <1>24, <3>1, <1>1, <1>2, <1>15, <2>2 DEF Reasons
  <2> QED
    BY <1>14, <2>2, <1>1, <1>9, <1>24 DEF Reasons
<1>26. SomethingSaid'
  BY <1>1, <1>2, <1>9, <1>14, <1>15 DEF SomethingSaid
<1> QED
  BY <1>17, <1>18, <1>19, <1>21, <1>22, <1>25, <1>26 DEF LayoutInv

\* A call for a pending type begins, the first or from the field at hand.
LEMMA VisitKeeps ==
  ASSUME LayoutInv, layPhase = "layout", NEW u \in LayTypes, layState[u] = "pending",
         layFrames = << >> \/ (NeedsNow("pending") /\ CurrentField.of = u),
         layFrames' = Append(layFrames, Visit(u)), layState' = [layState EXCEPT ![u] = "visiting"],
         UNCHANGED <<layPhase, layDecl, layShape, layOffsets, layReported>>
  PROVE  LayoutInv'
<1>1. /\ LayoutTypeOK /\ PhaseRight /\ CallsRight /\ FramesRight /\ CompletesRight /\ Reasons
      /\ SomethingSaid /\ LayTypes = Declared
  BY EveryTypeDeclared DEF LayoutInv
<1>2. PICK n \in Nat : n = Len(layFrames) /\ DOMAIN layFrames = 1 .. n
  BY <1>1, FrameFacts
<1>3. PICK new : new = Visit(u)
  OBVIOUS
<1>4. new \in Frame /\ new.type = u /\ new.next = 1 /\ new.ok = TRUE /\ new.got = << >>
  BY <1>3 DEF Visit, Frame
<1>5. /\ layFrames' \in Seq(Frame) /\ Len(layFrames') = n + 1 /\ DOMAIN layFrames' = 1 .. n + 1
      /\ layFrames'[n + 1] = new /\ \A i \in 1 .. n : layFrames'[i] = layFrames[i]
  BY <1>1, <1>2, <1>3, <1>4, FrameFacts, AppendProperties
<1>6. /\ \A i \in 1 .. n + 1 : i = n + 1 \/ i \in 1 .. n
      /\ \A i \in 1 .. n : i \in 1 .. n + 1 /\ i # n + 1
      /\ n + 1 \in 1 .. n + 1
  OBVIOUS
<1>7. \A t \in LayTypes : layState'[t] = (IF t = u THEN "visiting" ELSE layState[t])
  BY <1>1 DEF LayoutTypeOK
<1>9. Kept /\ CompleteTypes' = CompleteTypes
  BY <1>7 DEF Kept, CompleteTypes
<1>10. CompletesRight' /\ Acyclic'
  BY <1>1, <1>9, Untouched
<1>12. PhaseRight'
  BY <1>1, <1>7, DeclarationKept DEF PhaseRight
<1>13. \A t : FieldsOf(t)' = FieldsOf(t) /\ Packed(t)' = Packed(t)
  BY DeclarationKept
<1>14. CallsRight'
  <2>1. \A t \in LayTypes : layState'[t] = "visiting" <=> \E i \in 1 .. n + 1 : layFrames'[i].type = t
    <3> TAKE t \in LayTypes
    <3>1. CASE t = u
      BY <1>4, <1>5, <1>6, <1>7, <3>1
    <3>2. CASE t # u
      <4>1. layState[t] = "visiting" <=> \E i \in 1 .. n : layFrames[i].type = t
        BY <1>1, <1>2 DEF CallsRight
      <4> QED
        BY <1>4, <1>5, <1>6, <1>7, <3>2, <4>1
    <3> QED
      BY <3>1, <3>2
  <2>2. \A i, j \in 1 .. n + 1 : layFrames'[i].type = layFrames'[j].type => i = j
    <3>1. \A i, j \in 1 .. n : layFrames[i].type = layFrames[j].type => i = j
      BY <1>1, <1>2 DEF CallsRight
    <3> QED
      BY <1>4, <1>5, <1>6, <3>1, <1>1, <1>2 DEF CallsRight
  <2>3. \A i \in 1 .. n + 1 : layFrames'[i].next \in 1 .. Len(FieldsOf(layFrames'[i].type)) + 1
    <3> TAKE i \in 1 .. n + 1
    <3>1. CASE i = n + 1
      BY <1>4, <1>5, <3>1, <1>1, Declaration
    <3>2. CASE i # n + 1
      BY <1>1, <1>2, <1>5, <1>6, <3>2 DEF CallsRight
    <3> QED
      BY <3>1, <3>2
  <2>4. ASSUME NEW i \in 1 .. n + 1, i < n + 1, NEW fr, fr = layFrames'[i]
        PROVE  /\ fr.next <= Len(FieldsOf(fr.type))
               /\ LET g == FieldsOf(fr.type)[fr.next]
                  IN g.how # "bitfield" /\ ~(g.how = "atomic" /\ Packed(fr.type)) /\ Needs(g) /\ g.of = layFrames'[i + 1].type
    <3>1. i \in 1 .. n /\ fr = layFrames[i]
      BY <1>5, <1>6, <2>4
    <3>2. CASE i < n
      <4>1. i + 1 \in 1 .. n
        BY <3>1, <3>2
      <4> QED
        BY <1>1, <1>2, <3>1, <3>2, <1>5, <4>1 DEF CallsRight
    <3>3. CASE ~(i < n)
      BY <1>2, <3>1, <1>4, <1>5, <3>3 DEF CurrentField, FieldRefused, AtField, TopFrame, NeedsNow
    <3> QED
      BY <3>2, <3>3
  <2>6. (\A i \in DOMAIN layFrames : i < Len(layFrames) =>
           LET fr == layFrames[i]
           IN /\ fr.next <= Len(FieldsOf(fr.type))
              /\ LET g == FieldsOf(fr.type)[fr.next]
                 IN g.how # "bitfield" /\ ~(g.how = "atomic" /\ Packed(fr.type)) /\ Needs(g) /\ g.of = layFrames[i + 1].type)'
    BY <1>5, <1>13, <2>4 DEF Needs
  <2>8. (\A t \in LayTypes : layState[t] = "visiting" <=> \E i \in DOMAIN layFrames : layFrames[i].type = t)'
    BY <1>5, <2>1
  <2>9. (\A i, j \in DOMAIN layFrames : layFrames[i].type = layFrames[j].type => i = j)'
    BY <1>5, <2>2
  <2> QED
    BY <2>6, <2>8, <2>9, <1>5, <1>13, <2>3 DEF CallsRight
<1>15. FramesRight'
  <2>1. GotUpTo(<< >>, u, 0)'
    <3>2. PICK k \in Nat : MemberIndices(u) \in SUBSET (1 .. k)
      BY <1>1, Declaration
    <3> QED
      BY DeclarationKept, <3>2, CountFacts DEF GotUpTo
  <2>2. ASSUME NEW i \in 1 .. n + 1, NEW fr, fr = layFrames'[i], fr.ok
        PROVE  (\A k \in 1 .. fr.next - 1 : FieldPassed(fr.type, k)') /\ GotUpTo(fr.got, fr.type, fr.next - 1)'
    <3>1. CASE i = n + 1
      BY <2>1, <1>4, <1>5, <2>2, <3>1
    <3>2. CASE i # n + 1
      BY <1>1, <1>2, <1>9, <2>2, FrameKept, <1>5, <1>6, <3>2
    <3> QED
      BY <3>1, <3>2
  <2> QED
    BY <1>5, <2>2 DEF FramesRight
<1>16. ASSUME NEW v, Doomed(v) PROVE Doomed(v)'
  <2>1. ~NeedsNow("invalid")
    <3>1. CASE layFrames = << >>
      BY <3>1 DEF NeedsNow, AtField
    <3>2. CASE NeedsNow("pending")
      BY <3>2 DEF NeedsNow
    <3> QED
      BY <3>1, <3>2
  <2>2. PICK j \in 1 .. n, i \in 1 .. n : layFrames[j].type = v /\ j <= i /\ ~layFrames[i].ok
    BY <1>2, <1>16, <2>1 DEF Doomed
  <2> QED
    BY <1>5, <2>2, <1>6 DEF Doomed
<1>17. \A t \in LayTypes : Reason(t) => Reason(t)'
  <2>1. \A v : layState[v] = "invalid" => layState'[v] = "invalid"
    BY <1>1 DEF LayoutTypeOK
  <2> QED
    BY <1>1, <1>9, <1>16, <2>1, ReasonKept
<1>18. Reasons'
  <2>2. ASSUME NEW i \in 1 .. n + 1, ~layFrames'[i].ok PROVE i \in 1 .. n /\ Reason(layFrames[i].type)'
    <3>1. i \in 1 .. n /\ layFrames'[i] = layFrames[i]
      BY <1>4, <1>5, <1>6, <2>2
    <3>2. PICK t \in LayTypes : t = layFrames'[i].type /\ t = layFrames[i].type
      BY <1>1, <1>2, <3>1, FrameFacts
    <3> QED
      BY <1>17, <3>1, <3>2, <1>1, <1>2, <2>2 DEF Reasons
  <2> QED
    BY <1>5, <2>2, <1>1, <1>7, <1>17 DEF Reasons
<1>19. SomethingSaid'
  BY <1>5, <1>1, <1>2, <1>4, <1>6, <1>7 DEF SomethingSaid
<1> QED
  BY <1>10, <1>12, <1>14, <1>15, <1>18, <1>19, <1>1, <1>5 DEF LayoutInv, LayoutTypeOK, Frame

\* A field needs a type that is pending.
LEMMA EnterTypeKeeps ==
  ASSUME LayoutInv, EnterType
  PROVE  LayoutInv'
<1> QED
  BY VisitKeeps, FieldAtHand DEF NeedsNow, EnterType

\* The next type is asked for.
LEMMA RequestKeeps ==
  ASSUME LayoutInv, NEW t \in LayTypes, Request(t)
  PROVE  LayoutInv'
<1>1. /\ layPhase = "layout" /\ layFrames = << >> /\ layState[t] = "pending"
      /\ layFrames' = <<Visit(t)>> /\ layState' = [layState EXCEPT ![t] = "visiting"]
      /\ UNCHANGED <<layPhase, layDecl, layShape, layOffsets, layReported>>
  BY DEF Request, AskedFirst
<1>2. layFrames' = Append(layFrames, Visit(t))
  BY <1>1
<1> QED
  BY <1>1, <1>2, VisitKeeps

\* The layout ends.
LEMMA AllLaidOutKeeps ==
  ASSUME LayoutInv, AllLaidOut
  PROVE  LayoutInv'
<1>1. /\ layPhase = "layout" /\ layFrames = << >> /\ \A t \in LayTypes : layState[t] # "pending"
      /\ layPhase' = "done" /\ UNCHANGED <<layDecl, layState, layFrames, layShape, layOffsets, layReported>>
  BY DEF AllLaidOut
<1>2. /\ LayoutTypeOK /\ PhaseRight /\ CallsRight /\ FramesRight /\ CompletesRight /\ Reasons
      /\ SomethingSaid /\ LayTypes = Declared
  BY <1>1, EveryTypeDeclared DEF LayoutInv
<1>3. DOMAIN layFrames = {} /\ DOMAIN layFrames' = {}
  BY <1>1
<1>4. Kept /\ CompleteTypes' = CompleteTypes
  BY <1>1 DEF Kept, CompleteTypes
<1>7. PhaseRight'
  BY <1>1, <1>2, DeclarationKept DEF PhaseRight
<1>8. CallsRight' /\ FramesRight'
  BY <1>1, <1>2, <1>3 DEF CallsRight, FramesRight
<1> QED
  BY <1>7, <1>8, <1>1, <1>4, Untouched, <1>2, <1>3, ReasonKept DEF LayoutInv, LayoutTypeOK, Reasons,
     SomethingSaid, Doomed

\* The call that ends: its type is visited, and all of its fields have been looked at.
LEMMA CallAtEnd ==
  ASSUME LayoutInv, FieldsDone, NEW t, t = TopFrame.type
  PROVE  /\ layPhase = "layout" /\ LayTypes = Declared /\ t \in LayTypes /\ layState[t] = "visiting"
         /\ Len(layFrames) \in Nat \ {0} /\ TopFrame = layFrames[Len(layFrames)] /\ TopFrame \in Frame
         /\ ~Untagged(t) /\ ~AtField
         /\ TopFrame.ok => AllPassed(t) /\ TopFrame.got = MembersOf(t) /\ MembersOf(t) \in Seq(ChainShape)
<1>1. /\ LayoutTypeOK /\ PhaseRight /\ CallsRight /\ FramesRight /\ CompletesRight /\ LayTypes = Declared
      /\ layPhase = "layout" /\ layFrames # << >> /\ TopFrame.next > Len(FieldsOf(t))
  BY EveryTypeDeclared DEF LayoutInv, FieldsDone
<1>2. PICK n \in Nat \ {0} : n = Len(layFrames) /\ DOMAIN layFrames = 1 .. n
  <2>1. Len(layFrames) \in Nat /\ DOMAIN layFrames = 1 .. Len(layFrames) /\ Len(layFrames) \in DOMAIN layFrames
    BY <1>1, FrameFacts
  <2>2. Len(layFrames) # 0
    BY <2>1
  <2> QED
    BY <2>1, <2>2
<1>3. PICK top \in Frame : top = TopFrame /\ top = layFrames[n] /\ n \in DOMAIN layFrames /\ n \in 1 .. n
  BY <1>1, <1>2, FrameFacts
<1>4. t = top.type /\ t \in LayTypes /\ top.next \in Nat
  BY <1>3 DEF Frame
<1>7. PICK m \in Nat : m = Len(FieldsOf(t)) /\ DOMAIN FieldsOf(t) = 1 .. m
  BY <1>1, <1>4, Declaration
<1>8. top.next = m + 1
  BY <1>7, <1>1, <1>3, <1>4 DEF CallsRight
<1> QED
  BY <1>1, <1>2, <1>3, <1>4, <1>7, <1>8, GotAll DEF PhaseRight, CallsRight, AtField, AllPassed, FramesRight

\* The calls that are left once it has.
LEMMA CallsLeft ==
  ASSUME LayoutInv, FieldsDone, NEW t, t = TopFrame.type, NEW state \in {"complete", "invalid"}, Leave(t, state)
  PROVE  /\ layFrames' \in Seq(Frame) /\ Len(layFrames') = Len(layFrames) - 1
         /\ DOMAIN layFrames' = 1 .. Len(layFrames) - 1
         /\ \A i \in 1 .. Len(layFrames) - 1 : layFrames'[i] = layFrames[i] /\ layFrames[i].type # t
         /\ \A u \in LayTypes : layState'[u] = (IF u = t THEN state ELSE layState[u])
         /\ layState' \in [LayTypes -> {"pending", "visiting", "complete", "invalid"}]
         /\ PhaseRight' /\ CallsRight'
<1>1. /\ LayoutTypeOK /\ PhaseRight /\ CallsRight /\ layPhase = "layout" /\ t \in LayTypes
      /\ TopFrame = layFrames[Len(layFrames)]
  BY CallAtEnd DEF LayoutInv
<1>2. PICK n \in Nat \ {0} : n = Len(layFrames) /\ DOMAIN layFrames = 1 .. n
  BY <1>1, CallAtEnd, FrameFacts
<1>3. PICK m \in Nat : m = n - 1 /\ \A i \in 1 .. m : i \in 1 .. n /\ i # n
  BY <1>2
<1>4. /\ layFrames' = SubSeq(layFrames, 1, m) /\ layState' = [layState EXCEPT ![t] = state]
      /\ UNCHANGED <<layPhase, layDecl>>
  BY <1>2, <1>3 DEF Leave
<1>5. layFrames' \in Seq(Frame) /\ Len(layFrames') = m /\ DOMAIN layFrames' = 1 .. m
      /\ \A i \in 1 .. m : layFrames'[i] = layFrames[i]
  <2>1. layFrames \in Seq(Frame) /\ m <= Len(layFrames)
    BY <1>1, <1>2, <1>3, FrameFacts
  <2>2. SubSeq(layFrames, 1, m) = [i \in 1 .. m |-> layFrames[i]]
    BY <1>2, <1>3, <2>1
  <2>3. \A i \in 1 .. m : layFrames[i] \in Frame
    BY <1>1, <1>2, <1>3, FrameFacts
  <2>4. layFrames' \in [1 .. m -> Frame] /\ \A i \in 1 .. m : layFrames'[i] = layFrames[i]
    BY <1>4, <2>2, <2>3
  <2> QED
    BY <2>4
<1>6. \A i \in 1 .. m : layFrames[i].type # t
  <2>1. n \in 1 .. n /\ layFrames[n].type = t
    BY <1>1, <1>2
  <2>2. \A i, j \in 1 .. n : layFrames[i].type = layFrames[j].type => i = j
    BY <1>1, <1>2 DEF CallsRight
  <2> QED
    BY <1>3, <2>1, <2>2
<1>7. \A u \in LayTypes : layState'[u] = (IF u = t THEN state ELSE layState[u])
  BY <1>1, <1>4 DEF LayoutTypeOK
<1>8. layState' \in [LayTypes -> {"pending", "visiting", "complete", "invalid"}]
  BY <1>1, <1>4 DEF LayoutTypeOK
<1>9. PhaseRight'
  <2>1. \A u \in LayTypes : Untagged(u)' <=> Untagged(u)
    BY <1>4, DeclarationKept
  <2>2. \A u \in LayTypes : Untagged(u) => layState'[u] = "complete"
    BY <1>1, <1>7, CallAtEnd DEF PhaseRight
  <2> QED
    BY <1>1, <1>4, <2>1, <2>2 DEF PhaseRight
<1>10. \A u : FieldsOf(u)' = FieldsOf(u) /\ Packed(u)' = Packed(u)
  BY <1>4, DeclarationKept
<1>11. CallsRight'
  <2>1. \A u \in LayTypes : layState'[u] = "visiting" <=> \E i \in 1 .. m : layFrames'[i].type = u
    <3> TAKE u \in LayTypes
    <3>1. CASE u = t
      BY <1>5, <1>6, <1>7, <3>1
    <3>2. CASE u # t
      <4>1. layState[u] = "visiting" <=> \E i \in 1 .. n : layFrames[i].type = u
        BY <1>1, <1>2 DEF CallsRight
      <4>2. \A i \in 1 .. n : layFrames[i].type = u => i \in 1 .. m
        BY <1>1, <1>2, <1>3, <3>2
      <4> QED
        BY <1>3, <1>5, <1>7, <3>2, <4>1, <4>2
    <3> QED
      BY <3>1, <3>2
  <2>2. \A i, j \in 1 .. m : layFrames'[i].type = layFrames'[j].type => i = j
    <3>1. \A i, j \in 1 .. n : layFrames[i].type = layFrames[j].type => i = j
      BY <1>1, <1>2 DEF CallsRight
    <3>2. \A i \in 1 .. m : i \in 1 .. n /\ layFrames'[i].type = layFrames[i].type
      BY <1>3, <1>5
    <3> QED
      BY <3>1, <3>2
  <2>3. \A i \in 1 .. m : layFrames'[i].next \in 1 .. Len(FieldsOf(layFrames'[i].type)) + 1
    BY <1>1, <1>2, <1>3, <1>5 DEF CallsRight
  <2>4. ASSUME NEW i \in 1 .. m, i < m, NEW fr, fr = layFrames'[i]
        PROVE  /\ fr.next <= Len(FieldsOf(fr.type))
               /\ LET g == FieldsOf(fr.type)[fr.next]
                  IN g.how # "bitfield" /\ ~(g.how = "atomic" /\ Packed(fr.type)) /\ Needs(g) /\ g.of = layFrames'[i + 1].type
    <3>1. i \in 1 .. n /\ i < n /\ i + 1 \in 1 .. m
      BY <1>3, <2>4
    <3>2. fr = layFrames[i] /\ layFrames'[i + 1] = layFrames[i + 1]
      BY <1>5, <2>4, <3>1
    <3> QED
      BY <1>1, <1>2, <3>1, <3>2 DEF CallsRight
  <2>5. \A g : Needs(g)' <=> Needs(g)
    BY DEF Needs
  <2>6. (\A i \in DOMAIN layFrames : i < Len(layFrames) =>
           LET fr == layFrames[i]
           IN /\ fr.next <= Len(FieldsOf(fr.type))
              /\ LET g == FieldsOf(fr.type)[fr.next]
                 IN g.how # "bitfield" /\ ~(g.how = "atomic" /\ Packed(fr.type)) /\ Needs(g) /\ g.of = layFrames[i + 1].type)'
    BY <1>5, <1>10, <2>4, <2>5
  <2>7. (\A i \in DOMAIN layFrames : layFrames[i].next \in 1 .. Len(FieldsOf(layFrames[i].type)) + 1)'
    BY <1>5, <1>10, <2>3
  <2>8. (\A u \in LayTypes : layState[u] = "visiting" <=> \E i \in DOMAIN layFrames : layFrames[i].type = u)'
    BY <1>5, <2>1
  <2>9. (\A i, j \in DOMAIN layFrames : layFrames[i].type = layFrames[j].type => i = j)'
    BY <1>5, <2>2
  <2> QED
    BY <2>6, <2>7, <2>8, <2>9 DEF CallsRight
<1> QED
  BY <1>2, <1>3, <1>5, <1>6, <1>7, <1>8, <1>9, <1>11

\* What the calls that are left have got, and the reasons there were, stay.
LEMMA LeftRight ==
  ASSUME LayoutInv, FieldsDone, NEW t, t = TopFrame.type, NEW state \in {"complete", "invalid"}, Leave(t, state),
         Kept, \A u : Doomed(u) => Doomed(u)' \/ layState'[u] = "invalid"
  PROVE  /\ FramesRight' /\ \A u \in LayTypes : Reason(u) => Reason(u)'
         /\ \A i \in DOMAIN layFrames' : ~layFrames'[i].ok => i \in DOMAIN layFrames /\ Reason(layFrames[i].type)'
<1>1. /\ LayoutTypeOK /\ Reasons /\ layPhase = "layout" /\ LayTypes = Declared /\ t \in LayTypes
      /\ layState[t] = "visiting"
  BY CallAtEnd DEF LayoutInv
<1>2. PICK n \in Nat \ {0} : n = Len(layFrames) /\ DOMAIN layFrames = 1 .. n
  BY <1>1, CallAtEnd, FrameFacts
<1>3. PICK m \in Nat : m = n - 1 /\ \A i \in 1 .. m : i \in 1 .. n
  BY <1>2
<1>4. DOMAIN layFrames' = 1 .. m /\ \A i \in 1 .. m : layFrames'[i] = layFrames[i]
  BY <1>2, <1>3, CallsLeft
<1>6. \A u : layState[u] = "invalid" => layState'[u] = "invalid"
  BY <1>1 DEF Leave, LayoutTypeOK
<1>7. \A u \in LayTypes : Reason(u) => Reason(u)'
  BY <1>1, <1>6, ReasonKept
<1>8. ASSUME NEW i \in 1 .. m, ~layFrames'[i].ok PROVE i \in DOMAIN layFrames /\ Reason(layFrames[i].type)'
  <2>1. i \in DOMAIN layFrames /\ layFrames'[i] = layFrames[i]
    BY <1>2, <1>3, <1>4
  <2>2. PICK u \in LayTypes : u = layFrames'[i].type /\ u = layFrames[i].type
    BY <1>1, <2>1, FrameFacts
  <2> QED
    BY <1>7, <2>1, <2>2, <1>1, <1>8 DEF Reasons
<1> QED
  BY <1>4, <1>7, <1>8, <1>1, FrameKept, <1>2, <1>3 DEF FramesRight

\* A type fails, and the field that waits for it is about to learn so.
LEMMA FailKeeps ==
  ASSUME LayoutInv, FieldsDone, NEW t, t = TopFrame.type, Leave(t, "invalid"), UNCHANGED <<layShape, layOffsets>>,
         layReported' \in {layReported, layReported \cup {t}}, layReported' # {},
         ~TopFrame.ok \/ OwnReason(t)
  PROVE  LayoutInv'
<1>1. /\ LayoutTypeOK /\ PhaseRight /\ CallsRight /\ FramesRight /\ CompletesRight /\ Reasons
      /\ layPhase = "layout" /\ LayTypes = Declared /\ t \in LayTypes /\ layState[t] = "visiting" /\ ~AtField
      /\ TopFrame = layFrames[Len(layFrames)]
  BY CallAtEnd DEF LayoutInv
<1>2. PICK n \in Nat \ {0} : n = Len(layFrames) /\ DOMAIN layFrames = 1 .. n
  BY <1>1, CallAtEnd, FrameFacts
<1>3. PICK m \in Nat : m = n - 1 /\ \A i \in 1 .. n : i \in 1 .. m \/ i = n
  BY <1>2, SMTT(40)
<1>4. /\ layFrames' \in Seq(Frame) /\ Len(layFrames') = m /\ DOMAIN layFrames' = 1 .. m
      /\ \A i \in 1 .. m : layFrames'[i] = layFrames[i]
      /\ \A u \in LayTypes : layState'[u] = (IF u = t THEN "invalid" ELSE layState[u])
      /\ layState' \in [LayTypes -> {"pending", "visiting", "complete", "invalid"}]
      /\ PhaseRight' /\ CallsRight'
  BY <1>2, <1>3, CallsLeft
<1>5. UNCHANGED <<layPhase, layDecl>>
  BY DEF Leave
<1>6. Kept /\ CompleteTypes' = CompleteTypes
  BY <1>1, <1>4, <1>5 DEF Kept, CompleteTypes
<1>9. ASSUME m # 0 PROVE NeedsNow("invalid")'
  <2>1. m \in 1 .. n /\ m < n /\ m + 1 = n /\ m \in 1 .. m
    BY <1>2, <1>3, <1>9
  <2>2. PICK fr : fr = layFrames[m] /\ fr = layFrames'[m]
    BY <1>4, <2>1
  <2>3. PICK f : f = FieldsOf(fr.type)[fr.next]
    OBVIOUS
  <2>4. /\ fr.next <= Len(FieldsOf(fr.type))
        /\ f.how # "bitfield" /\ ~(f.how = "atomic" /\ Packed(fr.type)) /\ Needs(f) /\ f.of = t
    <3>2. LET g == FieldsOf(fr.type)[fr.next]
          IN /\ fr.next <= Len(FieldsOf(fr.type))
             /\ g.how # "bitfield" /\ ~(g.how = "atomic" /\ Packed(fr.type)) /\ Needs(g) /\ g.of = layFrames[m + 1].type
      <4>1. \A i \in 1 .. n : i < n =>
              LET d == layFrames[i]
                  g == FieldsOf(d.type)[d.next]
              IN /\ d.next <= Len(FieldsOf(d.type))
                 /\ g.how # "bitfield" /\ ~(g.how = "atomic" /\ Packed(d.type)) /\ Needs(g) /\ g.of = layFrames[i + 1].type
        BY <1>1, <1>2 DEF CallsRight
      <4> QED
        BY <2>1, <2>2, <4>1
    <3> QED
      BY <2>1, <2>3, <3>2, <1>1, <1>2
  <2>5. TopFrame' = fr /\ layFrames' # << >>
    BY <1>4, <1>9, <2>2 DEF TopFrame
  <2> QED
    BY <1>1, <1>4, <2>4, <2>5, <2>3, <1>5, DeclarationKept DEF NeedsNow, Needs, FieldRefused, CurrentField,
       AtField
<1>10. ASSUME NEW u, Doomed(u) PROVE Doomed(u)' \/ layState'[u] = "invalid"
  <2>1. PICK j \in 1 .. n : layFrames[j].type = u
    BY <1>2, <1>10 DEF Doomed
  <2>2. CASE j = n
    BY <1>1, <1>2, <1>4, <2>1, <2>2
  <2>3. CASE j # n
    BY <1>4, <1>9, <2>1, <1>3, <2>3 DEF Doomed
  <2> QED
    BY <2>2, <2>3
<1>12. Reason(t)
  <2>1. CASE ~TopFrame.ok
    BY <1>1, <1>2, <2>1 DEF Reasons
  <2>2. CASE OwnReason(t)
    BY <2>2 DEF Reason
  <2> QED
    BY <2>1, <2>2
<1> QED
  BY <1>4, <1>1, <1>5, <1>6, Untouched, <1>12, <1>10, LeftRight DEF LayoutInv, LayoutTypeOK, Frame, Reasons,
     SomethingSaid

\* The body or the requested alignment is refused.
LEMMA RefuseTypeKeeps ==
  ASSUME LayoutInv, RefuseType
  PROVE  LayoutInv'
<1>1. PICK t : t = TopFrame.type
  OBVIOUS
<1> QED
  BY <1>1, FailKeeps, CallAtEnd DEF OwnReason, RefuseType, FailedState

\* One of the fields has failed.
LEMMA FailTypeKeeps ==
  ASSUME LayoutInv, FailType
  PROVE  LayoutInv'
<1>1. PICK t : t = TopFrame.type
  OBVIOUS
<1> QED
  BY <1>1, FailKeeps, FrameFacts DEF LayoutInv, SomethingSaid, FieldsDone, FailType, FailedState

\* A type is completed: its members are those of the declaration, and it needs no type that is not complete.
LEMMA CompleteTypeKeeps ==
  ASSUME LayoutInv, CompleteType
  PROVE  LayoutInv'
<1>1. PICK t : t = TopFrame.type
  OBVIOUS
<1>2. PICK got, sh, o : got = TopFrame.got /\ sh = LaidShape(t, got) /\ o = LaidOffsets(t, got)
  OBVIOUS
<1>3. /\ FieldsDone /\ TopFrame.ok /\ BodyAccepted(t, got) /\ RequestMet(t, sh)
      /\ layShape' = [layShape EXCEPT ![t] = sh] /\ layOffsets' = [layOffsets EXCEPT ![t] = o]
      /\ UNCHANGED layReported /\ Leave(t, "complete")
  BY <1>1, <1>2 DEF CompleteType
<1>4. /\ LayoutTypeOK /\ PhaseRight /\ CallsRight /\ FramesRight /\ CompletesRight /\ Reasons /\ SomethingSaid /\ Acyclic
      /\ layPhase = "layout" /\ LayTypes = Declared /\ t \in LayTypes /\ layState[t] = "visiting" /\ ~AtField
      /\ TopFrame = layFrames[Len(layFrames)]
      /\ ~Untagged(t) /\ AllPassed(t) /\ got = MembersOf(t) /\ got \in Seq(ChainShape)
  BY <1>1, <1>2, <1>3, CallAtEnd DEF LayoutInv
<1>5. PICK n \in Nat \ {0} : n = Len(layFrames) /\ DOMAIN layFrames = 1 .. n
  BY <1>1, <1>3, <1>4, CallAtEnd, FrameFacts
<1>6. PICK m \in Nat : m = n - 1 /\ \A i \in 1 .. n : i \in 1 .. m \/ i = n
  BY <1>5, SMTT(40)
<1>7. /\ layFrames' \in Seq(Frame) /\ Len(layFrames') = m /\ DOMAIN layFrames' = 1 .. m
      /\ \A i \in 1 .. m : layFrames'[i] = layFrames[i]
      /\ \A u \in LayTypes : layState'[u] = (IF u = t THEN "complete" ELSE layState[u])
      /\ layState' \in [LayTypes -> {"pending", "visiting", "complete", "invalid"}]
      /\ PhaseRight' /\ CallsRight'
  BY <1>1, <1>3, <1>5, <1>6, CallsLeft
<1>8. UNCHANGED <<layPhase, layDecl>>
  BY <1>3 DEF Leave
<1>9. /\ \A u \in LayTypes : layShape'[u] = (IF u = t THEN sh ELSE layShape[u])
      /\ \A u \in LayTypes : layOffsets'[u] = (IF u = t THEN o ELSE layOffsets[u])
  BY <1>3, <1>4 DEF LayoutTypeOK
<1>10. Kept /\ CompleteTypes' = CompleteTypes \cup {t} /\ t \notin CompleteTypes
  <2>1. Kept
    BY <1>4, <1>7, <1>8, <1>9 DEF Kept
  <2> QED
    BY <1>4, <1>7, <2>1 DEF CompleteTypes
<1>11. LaidWell(sh, o, got, Packed(t)) /\ sh.size <= SizeLimit
  BY <1>2, <1>3, <1>4, LaidFacts
<1>12. sh \in ChainShape /\ o \in Seq(Nat)
  BY <1>11 DEF LaidWell
<1>13. LayoutTypeOK'
  <2>1. sh \in [size : Nat, align : Nat]
    <3>1. sh \in Shape
      BY <1>12, ChainFacts
    <3> QED
      BY <3>1 DEF Shape
  <2>2. layShape' \in [LayTypes -> [size : Nat, align : Nat]]
    BY <1>3, <1>4, <2>1 DEF LayoutTypeOK
  <2>3. layOffsets' \in [LayTypes -> Seq(Nat)]
    BY <1>3, <1>4, <1>12 DEF LayoutTypeOK
  <2> QED
    BY <1>3, <1>4, <1>7, <1>8, <2>2, <2>3 DEF LayoutTypeOK, Frame
<1>14. CompleteRight(t)'
  <2>1. AllPassed(t)' /\ MembersOf(t)' = got /\ ~Untagged(t)'
    BY <1>4, <1>8, <1>10, MembersKept, DeclarationKept
  <2>2. LaidShape(t, got)' = sh /\ LaidOffsets(t, got)' = o /\ BodyAccepted(t, got)' /\ RequestMet(t, sh)'
    BY <1>2, <1>3, <1>8, DeclarationKept
  <2>3. layShape'[t] = sh /\ layOffsets'[t] = o
    BY <1>4, <1>9
  <2> QED
    BY <2>1, <2>2, <2>3 DEF CompleteRight
<1>15. CompletesRight'
  <2>1. ASSUME NEW u \in CompleteTypes
        PROVE  CompleteRight(u)' /\ layShape'[u] \in ChainShape /\ layShape'[u].size <= SizeLimit
    <3>1. /\ u \in LayTypes /\ u \in Declared /\ u # t
          /\ CompleteRight(u) /\ layShape[u] \in ChainShape /\ layShape[u].size <= SizeLimit
      BY <1>4, <1>10 DEF CompletesRight, CompleteTypes
    <3>2. layShape'[u] = layShape[u] /\ layOffsets'[u] = layOffsets[u]
      BY <1>9, <3>1
    <3> QED
      BY <1>4, <1>10, <3>1, <3>2, CompleteKept
  <2>2. layShape'[t] = sh
    BY <1>4, <1>9
  <2> QED
    BY <1>10, <1>11, <1>12, <1>14, <2>1, <2>2 DEF CompletesRight
<1>16. Acyclic'
  <2>1. \A u, v : DependsOn(u, v)' <=> DependsOn(u, v)
    BY <1>8, DeclarationKept
  <2>2. \A u \in CompleteTypes : ~DependsOn(u, t)
    <3> TAKE u \in CompleteTypes
    <3>1. u \in Declared /\ CompleteRight(u)
      BY <1>4 DEF CompletesRight, CompleteTypes
    <3> QED
      BY <1>4, <1>10, <3>1, CompleteHasNoDefect
  <2>3. ~DependsOn(t, t)
    BY <1>4 DEF DependsOn, AllPassed, FieldPassed, Needs
  <2>4. ASSUME NEW S \in SUBSET (CompleteTypes \cup {t}), S # {}
        PROVE  \E u \in S : \A v \in S : ~DependsOn(u, v)
    <3>1. CASE S \cap CompleteTypes = {}
      BY <2>3, <2>4, <3>1
    <3>2. CASE S \cap CompleteTypes # {}
      <4>1. PICK u \in S \cap CompleteTypes : \A v \in S \cap CompleteTypes : ~DependsOn(u, v)
        BY <1>4, <3>2 DEF Acyclic
      <4>2. \A v \in S : v \in CompleteTypes \/ v = t
        BY <2>4
      <4> QED
        BY <2>2, <4>1, <4>2
    <3> QED
      BY <3>1, <3>2
  <2> QED
    BY <1>10, <2>1, <2>4 DEF Acyclic
<1>17. ASSUME NEW u, Doomed(u) PROVE Doomed(u)'
  <2>1. ~NeedsNow("invalid") /\ layFrames[n].ok
    BY <1>3, <1>4, <1>5 DEF NeedsNow
  <2>2. PICK j \in 1 .. n, i \in 1 .. n : layFrames[j].type = u /\ j <= i /\ ~layFrames[i].ok
    BY <1>5, <1>17, <2>1 DEF Doomed
  <2>3. i \in 1 .. m /\ j \in 1 .. m
    <3>1. i # n
      BY <2>1, <2>2
    <3>2. j # n
      BY <2>2, <3>1
    <3> QED
      BY <1>6, <3>1, <3>2
  <2>4. layFrames'[j].type = u /\ ~layFrames'[i].ok
    BY <1>7, <2>2, <2>3
  <2> QED
    BY <1>7, <2>2, <2>3, <2>4 DEF Doomed
<1>18. /\ FramesRight' /\ \A u \in LayTypes : Reason(u) => Reason(u)'
       /\ \A i \in DOMAIN layFrames' : ~layFrames'[i].ok => i \in DOMAIN layFrames /\ Reason(layFrames[i].type)'
  BY <1>1, <1>3, <1>10, <1>17, LeftRight
<1>19. Reasons'
  <2>1. \A u \in LayTypes : layState'[u] = "invalid" => Reason(u)'
    BY <1>4, <1>7, <1>18 DEF Reasons
  <2> QED
    BY <1>18, <2>1 DEF Reasons
<1>20. SomethingSaid'
  <2>1. ASSUME NEW i \in 1 .. m, ~layFrames'[i].ok PROVE layReported # {}
    <3>1. i \in 1 .. n /\ layFrames'[i] = layFrames[i]
      BY <1>6, <1>7
    <3> QED
      BY <1>4, <1>5, <2>1, <3>1 DEF SomethingSaid
  <2>2. ASSUME NEW u \in LayTypes, layState'[u] = "invalid" PROVE layReported # {}
    BY <1>4, <1>7, <2>2 DEF SomethingSaid
  <2> QED
    BY <1>3, <1>7, <2>1, <2>2 DEF SomethingSaid
<1> QED
  BY <1>7, <1>13, <1>15, <1>16, <1>18, <1>19, <1>20 DEF LayoutInv

--------------------------------------------------------------------------------
(* The theorems. *)

\* Nothing that the invariant speaks of depends on more than the variables.
LEMMA StutterKeeps ==
  ASSUME LayoutInv, UNCHANGED <<layPhase, layDecl, layState, layFrames, layShape, layOffsets, layReported>>
  PROVE  LayoutInv'
<1>1. CASE layPhase = "register"
  BY <1>1, StillRegistering DEF LayoutInv, LayoutTypeOK
<1>2. CASE layPhase # "register"
  <2>1. /\ LayoutTypeOK /\ PhaseRight /\ CallsRight /\ FramesRight /\ CompletesRight /\ Reasons
        /\ SomethingSaid /\ LayTypes = Declared
    BY <1>2, EveryTypeDeclared DEF LayoutInv
  <2>2. Kept /\ CompleteTypes' = CompleteTypes
    BY DEF Kept, CompleteTypes
  <2>4. \A t : FieldsOf(t)' = FieldsOf(t) /\ Packed(t)' = Packed(t)
    BY DeclarationKept
  <2>8. \A f : Needs(f)' <=> Needs(f)
    BY DEF Needs
  <2>9. CallsRight'
    BY <2>1, <2>4, <2>8 DEF CallsRight
  <2>11. NeedsNow("invalid") => NeedsNow("invalid")'
    <3> HAVE NeedsNow("invalid")
    <3> QED
      BY <2>8, <2>4 DEF NeedsNow, Needs, FieldRefused, CurrentField, AtField, TopFrame
  <2>13. \A t \in LayTypes : Reason(t) => Reason(t)'
    BY <2>1, <2>2, ReasonKept, <2>11 DEF Doomed
  <2>14. Reasons'
    <3>1. ASSUME NEW i \in DOMAIN layFrames, ~layFrames[i].ok PROVE Reason(layFrames[i].type)'
      <4>1. PICK t \in LayTypes : t = layFrames[i].type /\ t = layFrames'[i].type
        BY <2>1, FrameFacts
      <4> QED
        BY <2>13, <4>1, <2>1, <3>1 DEF Reasons
    <3> QED
      BY <3>1, <2>1, <2>13 DEF Reasons
  <2> QED
    BY <2>9, <2>14, <2>1, <1>2, <2>2, Untouched, FrameKept, DeclarationKept DEF LayoutInv, LayoutTypeOK,
       SomethingSaid, FramesRight, PhaseRight
<1> QED
  BY <1>1, <1>2

\* Every step keeps the invariant.
LEMMA LayoutStep ==
  ASSUME LayoutInv, [LayoutNext]_layVars
  PROVE  LayoutInv'
<1>1. CASE AllRegistered
  BY <1>1, AllRegisteredKeeps
<1>2. CASE AllLaidOut
  BY <1>2, AllLaidOutKeeps
<1>3. ASSUME NEW a \in Attributes, RegisterType(a) PROVE LayoutInv'
  BY <1>3, RegisterKeeps
<1>4. ASSUME NEW f \in Fields, AddField(f) PROVE LayoutInv'
  BY <1>4, AddFieldKeeps
<1>5. ASSUME NEW t \in LayTypes, Request(t) PROVE LayoutInv'
  BY <1>5, RequestKeeps
<1>6. CASE RefuseField
  BY <1>6, RefuseFieldKeeps
<1>7. CASE EnterType
  BY <1>7, EnterTypeKeeps
<1>8. CASE MeetVisiting \/ MeetInvalid
  BY <1>8, MeetKeeps
<1>9. CASE ArrayTooLarge
  BY <1>9, ArrayTooLargeKeeps
<1>10. CASE TakeField
  BY <1>10, TakeFieldKeeps
<1>11. CASE CompleteType
  BY <1>11, CompleteTypeKeeps
<1>12. CASE RefuseType
  BY <1>12, RefuseTypeKeeps
<1>13. CASE FailType
  BY <1>13, FailTypeKeeps
<1>14. CASE UNCHANGED layVars
  BY StutterKeeps, <1>14 DEF layVars
<1> QED
  BY <1>1, <1>2, <1>3, <1>4, <1>5, <1>6, <1>7, <1>8, <1>9, <1>10, <1>11, <1>12, <1>13, <1>14 DEF LayoutNext

\* LayoutSound in every state, for every set of types, fields and attributes, every shape of
\* the builtin types and every size of the address space: a complete type has its members at
\* aligned places that do not overlap and fit, whether a type gets a layout depends neither on
\* the order of the requests nor on the failures met on the way, and no failure is silent
\* (cg_layout_struct, cg_layout_enum and what they call).
THEOREM LayoutAlwaysSound == LayoutSpec => []LayoutSound
<1>1. LayoutInit => LayoutInv
  BY InitLayout
<1>2. LayoutInv /\ [LayoutNext]_layVars => LayoutInv'
  BY LayoutStep
<1>3. LayoutInv => LayoutSound
  BY InvariantSound
<1> QED
  BY <1>1, <1>2, <1>3, PTL DEF LayoutSpec

================================================================================
