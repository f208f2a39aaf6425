--------------------------- MODULE ObservationProofs ---------------------------
(***************************************************************************)
(* The ledger says what is in the heap, the report says what the ledger    *)
(* says and the verdict what the report says, for any image, any numbers   *)
(* of tests, lines, sites and blocks, and whatever fails.                  *)
(***************************************************************************)
EXTENDS ObservationDriver, FiniteSetTheorems, SequenceTheorems, WellFoundedInduction, TLAPS

-------------------------------------------------------------------------------
(* Sums over finite sets.  The folds of the community modules define a     *)
(* function by recursion on the subsets; that it exists, is unique and     *)
(* does not depend on the order of the elements is proved from a smallest  *)
(* counterexample.                                                         *)

\* A set of numbers that is not empty has a least one.
LEMMA LeastOf ==
  ASSUME NEW T \in SUBSET Nat, T # {}
  PROVE  \E x \in T : \A y \in T : x <= y
  <1>1. IsWellFoundedOn(OpToRel(<, Nat), Nat)
    BY NatLessThanWellFounded
  <1>2. PICK x \in T : \A y \in T : ~(<<y, x>> \in OpToRel(<, Nat))
    BY <1>1, WFMin
  <1>3. \A y \in T : ~(y < x)
    BY <1>2 DEF OpToRel
  <1> QED
    BY <1>3

Chosen(s) == CHOOSE x \in s : TRUE

\* F adds up b over the subsets of S that are in D, by the recursion of the fold.
SumsOn(F, b, D) ==
  \A s \in D : F[s] = IF s = {} THEN 0 ELSE b[Chosen(s)] + F[s \ {Chosen(s)}]
SumsOver(F, b, S) ==
  F = [s \in SUBSET S |-> IF s = {} THEN 0 ELSE b[Chosen(s)] + F[s \ {Chosen(s)}]]

SumOf(b, S) == MapThenSumSet(LAMBDA x : b[x], S)

LEMMA ChosenIn ==
  ASSUME NEW s, s # {}
  PROVE  Chosen(s) \in s
  BY DEF Chosen

\* A finite set without one of its elements is smaller by one.
LEMMA OneLess ==
  ASSUME NEW s, IsFiniteSet(s), NEW x \in s
  PROVE  /\ IsFiniteSet(s \ {x})
         /\ Cardinality(s) \in Nat /\ Cardinality(s \ {x}) \in Nat
         /\ Cardinality(s \ {x}) = Cardinality(s) - 1
  BY FS_RemoveElement, FS_CardinalityType

\* Two such functions agree wherever what they add up does.
LEMMA SumsAgree ==
  ASSUME NEW S, IsFiniteSet(S), NEW T, S \subseteq T, NEW b, NEW c, NEW F, NEW G,
         SumsOver(F, b, S), SumsOver(G, c, T), \A x \in S : b[x] = c[x]
  PROVE  \A s \in SUBSET S : F[s] = G[s]
  <1> DEFINE Bad == {n \in Nat : \E s \in SUBSET S : Cardinality(s) = n /\ F[s] # G[s]}
  <1>1. SUFFICES ASSUME Bad # {} PROVE FALSE
    BY FS_Subset, FS_CardinalityType
  <1>2. PICK n \in Bad : \A m \in Bad : n <= m
    BY <1>1, LeastOf
  <1>3. PICK s \in SUBSET S : Cardinality(s) = n /\ F[s] # G[s]
    BY <1>2
  <1>4. F[s] = IF s = {} THEN 0 ELSE b[Chosen(s)] + F[s \ {Chosen(s)}]
    BY DEF SumsOver
  <1>5. G[s] = IF s = {} THEN 0 ELSE c[Chosen(s)] + G[s \ {Chosen(s)}]
    BY DEF SumsOver
  <1>6. s # {}
    BY <1>3, <1>4, <1>5
  <1>7. Chosen(s) \in s
    BY <1>6, ChosenIn
  <1>8. s \ {Chosen(s)} \in SUBSET S /\ F[s \ {Chosen(s)}] # G[s \ {Chosen(s)}]
    BY <1>3, <1>4, <1>5, <1>7
  <1>9. Cardinality(s \ {Chosen(s)}) \in Nat /\ Cardinality(s \ {Chosen(s)}) = n - 1 /\ n \in Nat
    BY <1>3, <1>7, FS_Subset, OneLess
  <1>10. n - 1 \in Bad
    BY <1>8, <1>9
  <1> QED
    BY <1>2, <1>9, <1>10

\* There is such a function.
LEMMA SumsExist ==
  ASSUME NEW S, IsFiniteSet(S), NEW b
  PROVE  \E F : SumsOver(F, b, S)
  <1> DEFINE Small(n) == {s \in SUBSET S : Cardinality(s) <= n}
             Bad == {n \in Nat : ~ \E F : SumsOn(F, b, Small(n))}
  <1>1. \A s \in SUBSET S : IsFiniteSet(s) /\ Cardinality(s) \in Nat /\ Cardinality(s) <= Cardinality(S)
    BY FS_Subset, FS_CardinalityType
  <1>2. Bad = {}
    <2> SUFFICES ASSUME Bad # {} PROVE FALSE
      OBVIOUS
    <2>1. PICK n \in Bad : \A m \in Bad : n <= m
      BY LeastOf
    <2>2. n # 0
      <3>1. \A s \in Small(0) : s = {}
        <4> SUFFICES ASSUME NEW s \in Small(0), s # {} PROVE FALSE
          OBVIOUS
        <4>1. PICK x : x \in s
          OBVIOUS
        <4>2. IsFiniteSet(s) /\ Cardinality(s) <= 0
          BY <1>1
        <4>3. /\ Cardinality(s) \in Nat /\ Cardinality(s \ {x}) \in Nat
              /\ Cardinality(s \ {x}) = Cardinality(s) - 1
          BY <4>1, <4>2, OneLess
        <4> HIDE DEF Small
        <4> QED
          BY <4>2, <4>3
      <3>2. SumsOn([s \in SUBSET S |-> 0], b, Small(0))
        BY <3>1 DEF SumsOn
      <3> QED
        BY <2>1, <3>2
    <2>3. n - 1 \in Nat /\ n - 1 \notin Bad
      <3>1. n \in Nat
        OBVIOUS
      <3> HIDE DEF Bad
      <3> QED
        BY <2>1, <2>2, <3>1
    <2>4. PICK F : SumsOn(F, b, Small(n - 1))
      BY <2>3
    <2> DEFINE G == [s \in SUBSET S |-> IF s = {} THEN 0 ELSE b[Chosen(s)] + F[s \ {Chosen(s)}]]
    <2>5. \A s \in Small(n - 1) : G[s] = F[s]
      BY <2>4 DEF SumsOn
    <2>6. \A s \in Small(n) : s # {} => s \ {Chosen(s)} \in Small(n - 1)
      <3> SUFFICES ASSUME NEW s \in Small(n), s # {} PROVE s \ {Chosen(s)} \in Small(n - 1)
        OBVIOUS
      <3>1. Chosen(s) \in s
        BY ChosenIn
      <3>2. Cardinality(s \ {Chosen(s)}) = Cardinality(s) - 1 /\ Cardinality(s) \in Nat
        BY <1>1, <3>1, OneLess
      <3> QED
        BY <2>1, <3>1, <3>2
    <2>7. SumsOn(G, b, Small(n))
      BY <2>5, <2>6 DEF SumsOn
    <2> QED
      BY <2>1, <2>7
  <1>3. PICK F : SumsOn(F, b, SUBSET S)
    <2>1. Cardinality(S) \in Nat
      BY FS_CardinalityType
    <2>2. Small(Cardinality(S)) = SUBSET S
      BY <1>1
    <2> QED
      BY <1>2, <2>1, <2>2
  <1> DEFINE G == [s \in SUBSET S |-> F[s]]
  <1>4. \A s \in SUBSET S : s # {} => s \ {Chosen(s)} \in SUBSET S
    OBVIOUS
  <1>5. SumsOver(G, b, S)
    BY <1>3, <1>4 DEF SumsOn, SumsOver
  <1> QED
    BY <1>5

\* There is one such function only.
LEMMA SumsUnique ==
  ASSUME NEW S, IsFiniteSet(S), NEW b, NEW F, NEW G, SumsOver(F, b, S), SumsOver(G, b, S)
  PROVE  G = F
  <1>1. \A s \in SUBSET S : F[s] = G[s]
    BY SumsAgree
  <1> QED
    BY <1>1 DEF SumsOver

\* The fold of the community modules is that function.
LEMMA SumIs ==
  ASSUME NEW S, IsFiniteSet(S), NEW b, NEW F, SumsOver(F, b, S)
  PROVE  SumOf(b, S) = F[S]
  <1>1. \A G : SumsOver(G, b, S) => G = F
    BY SumsUnique
  <1> QED
    BY <1>1 DEF SumOf, MapThenSumSet, MapThenFoldSet, SumsOver, Chosen

\* So it may be read off the subsets.
LEMMA SumOnPart ==
  ASSUME NEW S, IsFiniteSet(S), NEW b, NEW F, SumsOver(F, b, S), NEW s \in SUBSET S
  PROVE  SumOf(b, s) = F[s]
  <1>1. IsFiniteSet(s)
    BY FS_Subset
  <1>2. PICK G : SumsOver(G, b, s)
    BY <1>1, SumsExist
  <1>3. G[s] = F[s]
    BY <1>1, <1>2, SumsAgree
  <1> QED
    BY <1>1, <1>2, <1>3, SumIs

\* The sum over no element is 0, over others that of the first and the rest.
LEMMA SumStep ==
  ASSUME NEW S, IsFiniteSet(S), NEW b
  PROVE  /\ SumOf(b, {}) = 0
         /\ S # {} => SumOf(b, S) = b[Chosen(S)] + SumOf(b, S \ {Chosen(S)})
  <1>1. PICK F : SumsOver(F, b, S)
    BY SumsExist
  <1>2. \A s \in SUBSET S : SumOf(b, s) = F[s]
    BY <1>1, SumOnPart
  <1>3. \A s \in SUBSET S : F[s] = IF s = {} THEN 0 ELSE b[Chosen(s)] + F[s \ {Chosen(s)}]
    BY <1>1 DEF SumsOver
  <1>4. {} \in SUBSET S /\ S \in SUBSET S /\ S \ {Chosen(S)} \in SUBSET S
    OBVIOUS
  <1> QED
    BY <1>2, <1>3, <1>4

\* The sum depends on no more than what is added up.
LEMMA SumSame ==
  ASSUME NEW S, IsFiniteSet(S), NEW b, NEW c, \A x \in S : b[x] = c[x]
  PROVE  SumOf(b, S) = SumOf(c, S)
  <1>1. PICK F : SumsOver(F, b, S)
    BY SumsExist
  <1>2. PICK G : SumsOver(G, c, S)
    BY SumsExist
  <1>3. \A s \in SUBSET S : F[s] = G[s]
    BY <1>1, <1>2, SumsAgree
  <1>4. SumOf(b, S) = F[S] /\ SumOf(c, S) = G[S]
    BY <1>1, <1>2, SumIs
  <1> QED
    BY <1>3, <1>4

\* Of some subsets of a finite set, one contains none of the others that lack
\* one element of it.
LEMMA SmallestOf ==
  ASSUME NEW S, IsFiniteSet(S), NEW Bad \in SUBSET SUBSET S, Bad # {}
  PROVE  \E s \in Bad : \A x \in s : s \ {x} \notin Bad
  <1> DEFINE Sizes_ == {n \in Nat : \E s \in Bad : Cardinality(s) = n}
  <1>1. \A s \in Bad : IsFiniteSet(s) /\ Cardinality(s) \in Nat
    BY FS_Subset, FS_CardinalityType
  <1>2. Sizes_ # {}
    BY <1>1
  <1>3. PICK n \in Sizes_ : \A m \in Sizes_ : n <= m
    BY <1>2, LeastOf
  <1>4. PICK s \in Bad : Cardinality(s) = n
    BY <1>3
  <1>5. ASSUME NEW x \in s, s \ {x} \in Bad PROVE FALSE
    <2>1. Cardinality(s \ {x}) = Cardinality(s) - 1 /\ Cardinality(s \ {x}) \in Nat /\ n \in Nat
      BY <1>1, <1>3, <1>4, OneLess
    <2>2. Cardinality(s \ {x}) \in Sizes_
      BY <1>5, <2>1
    <2>3. n <= Cardinality(s \ {x})
      BY <1>3, <2>2
    <2> HIDE DEF Sizes_
    <2> QED
      BY <1>4, <2>1, <2>3
  <1> QED
    BY <1>5

\* A sum of natural numbers is one.
LEMMA SumType ==
  ASSUME NEW S, IsFiniteSet(S), NEW b, \A x \in S : b[x] \in Nat
  PROVE  SumOf(b, S) \in Nat
  <1> DEFINE Bad == {s \in SUBSET S : SumOf(b, s) \notin Nat}
  <1>1. SUFFICES ASSUME Bad # {} PROVE FALSE
    OBVIOUS
  <1>2. PICK s \in Bad : \A x \in s : s \ {x} \notin Bad
    BY <1>1, SmallestOf
  <1>3. IsFiniteSet(s)
    BY FS_Subset
  <1>4. s # {}
    BY <1>3, SumStep
  <1>5. Chosen(s) \in s /\ SumOf(b, s) = b[Chosen(s)] + SumOf(b, s \ {Chosen(s)})
    BY <1>3, <1>4, ChosenIn, SumStep
  <1>6. s \ {Chosen(s)} \in SUBSET S /\ s \ {Chosen(s)} \notin Bad
    BY <1>2, <1>5
  <1>7. SumOf(b, s \ {Chosen(s)}) \in Nat /\ b[Chosen(s)] \in Nat
    BY <1>5, <1>6
  <1> QED
    BY <1>5, <1>7

\* Any element may be added first.
LEMMA SumPick ==
  ASSUME NEW S, IsFiniteSet(S), NEW b, \A x \in S : b[x] \in Nat
  PROVE  \A x \in S : SumOf(b, S) = b[x] + SumOf(b, S \ {x})
  <1> DEFINE Bad == {s \in SUBSET S : \E x \in s : SumOf(b, s) # b[x] + SumOf(b, s \ {x})}
  <1>1. SUFFICES ASSUME Bad # {} PROVE FALSE
    OBVIOUS
  <1>2. PICK s \in Bad : \A y \in s : s \ {y} \notin Bad
    BY <1>1, SmallestOf
  <1>3. PICK x \in s : SumOf(b, s) # b[x] + SumOf(b, s \ {x})
    OBVIOUS
  <1>4. \A t \in SUBSET S : IsFiniteSet(t) /\ SumOf(b, t) \in Nat
    BY FS_Subset, SumType
  <1>5. PICK c : c \in s /\ SumOf(b, s) = b[c] + SumOf(b, s \ {c})
    BY <1>3, <1>4, ChosenIn, SumStep
  <1>6. c # x
    BY <1>3, <1>5
  <1>7. SumOf(b, s \ {c}) = b[x] + SumOf(b, (s \ {c}) \ {x})
    BY <1>2, <1>3, <1>5, <1>6
  <1>8. SumOf(b, s \ {x}) = b[c] + SumOf(b, (s \ {x}) \ {c})
    BY <1>2, <1>3, <1>5, <1>6
  <1>9. (s \ {c}) \ {x} = (s \ {x}) \ {c} /\ (s \ {x}) \ {c} \in SUBSET S
    OBVIOUS
  <1>10. b[x] \in Nat /\ b[c] \in Nat /\ SumOf(b, (s \ {x}) \ {c}) \in Nat
    BY <1>3, <1>4, <1>5, <1>9
  <1> HIDE DEF Bad
  <1> QED
    BY <1>3, <1>5, <1>7, <1>8, <1>9, <1>10, SMTT(40)

\* A sum is that over the elements' images, when they are all different.
LEMMA SumOfImage ==
  ASSUME NEW S, IsFiniteSet(S), NEW b, NEW f, NEW c,
         \A x \in S : b[x] \in Nat /\ c[f[x]] = b[x],
         \A x, y \in S : f[x] = f[y] => x = y
  PROVE  SumOf(b, S) = SumOf(c, {f[x] : x \in S})
  <1> DEFINE ImageOf(s) == {f[x] : x \in s}
             Bad == {s \in SUBSET S : SumOf(b, s) # SumOf(c, ImageOf(s))}
  <1>1. SUFFICES ASSUME Bad # {} PROVE FALSE
    OBVIOUS
  <1>2. PICK s \in Bad : \A y \in s : s \ {y} \notin Bad
    BY <1>1, SmallestOf
  <1>3. \A t \in SUBSET S : IsFiniteSet(t) /\ IsFiniteSet(ImageOf(t))
    <2> SUFFICES ASSUME NEW t \in SUBSET S PROVE IsFiniteSet(t) /\ IsFiniteSet(ImageOf(t))
      OBVIOUS
    <2>1. IsFiniteSet(t)
      BY FS_Subset
    <2>2. [x \in t |-> f[x]] \in Surjection(t, ImageOf(t))
      BY DEF Surjection
    <2> QED
      BY <2>1, <2>2, FS_Surjection
  <1>4. PICK x : x \in s
    <2>1. SumOf(b, {}) = 0 /\ SumOf(c, {}) = 0
      BY SumStep
    <2>2. ImageOf({}) = {}
      OBVIOUS
    <2> QED
      BY <2>1, <2>2
  <1>5. SumOf(b, s) = b[x] + SumOf(b, s \ {x})
    BY <1>3, <1>4, SumPick
  <1>6. SumOf(b, s \ {x}) = SumOf(c, ImageOf(s \ {x}))
    BY <1>2, <1>4
  <1>7. ImageOf(s \ {x}) = ImageOf(s) \ {f[x]} /\ f[x] \in ImageOf(s)
    BY <1>4
  <1>8. SumOf(c, ImageOf(s)) = c[f[x]] + SumOf(c, ImageOf(s) \ {f[x]})
    <2>1. IsFiniteSet(ImageOf(s)) /\ \A y \in ImageOf(s) : c[y] \in Nat
      BY <1>3
    <2> HIDE DEF ImageOf
    <2> QED
      BY <1>7, <2>1, SumPick
  <1>9. c[f[x]] = b[x] /\ SumOf(b, s) # SumOf(c, ImageOf(s))
    BY <1>4
  <1> HIDE DEF Bad, ImageOf
  <1> QED
    BY <1>5, <1>6, <1>7, <1>8, <1>9

\* The sum of one field of the records of a sequence.
LEMMA SumOfBytes ==
  ASSUME NEW rs, NEW S, IsFiniteSet(S)
  PROVE  MapThenSumSet(LAMBDA i : rs[i].bytes, S) = SumOf([i \in S |-> rs[i].bytes], S)
  <1> DEFINE b == [i \in S |-> rs[i].bytes]
  <1>1. PICK F : SumsOver(F, b, S)
    BY SumsExist
  <1>2. \A s \in SUBSET S : s # {} => b[Chosen(s)] = rs[Chosen(s)].bytes
    BY ChosenIn
  <1>3. F = [s \in SUBSET S |-> IF s = {} THEN 0 ELSE rs[Chosen(s)].bytes + F[s \ {Chosen(s)}]]
    BY <1>1, <1>2 DEF SumsOver
  <1>4. \A G : G = [s \in SUBSET S |-> IF s = {} THEN 0 ELSE rs[Chosen(s)].bytes + G[s \ {Chosen(s)}]] => G = F
    <2> SUFFICES ASSUME NEW G, G = [s \in SUBSET S |-> IF s = {} THEN 0 ELSE rs[Chosen(s)].bytes + G[s \ {Chosen(s)}]]
                 PROVE  G = F
      OBVIOUS
    <2>1. SumsOver(G, b, S)
      BY <1>2 DEF SumsOver
    <2> HIDE DEF b
    <2> QED
      BY <1>1, <2>1, SumsUnique
  <1>5. MapThenSumSet(LAMBDA i : rs[i].bytes, S) = F[S]
    BY <1>3, <1>4 DEF MapThenSumSet, MapThenFoldSet, Chosen
  <1> QED
    BY <1>1, <1>5, SumIs

-------------------------------------------------------------------------------
(* The invariant.  The progress of the tests is two counters, whatever the *)
(* image calls; the records are well made and in the order of their        *)
(* generations; the suite has ended once a reason is noted or a report is  *)
(* under way; and what the file holds was so when it was opened and, where *)
(* it claims to be complete, still is.                                     *)

\* Before init there is nothing, and nothing to report.
Pristine ==
  ~ initialized =>
    /\ config.tests = 0 /\ started = 0 /\ completed = 0 /\ hits = {}
    /\ records = << >> /\ ~ finalized /\ file # "ours"

StateOf(t) == IF t < completed THEN 2 ELSE IF t < started THEN 1 ELSE 0

\* The tests run one after the other.
ProgressInv ==
  /\ completed <= started /\ started <= completed + 1 /\ started <= config.tests
  /\ initialized => /\ \A t \in TestIds : tests[t] = StateOf(t)
                    /\ current = IF started = completed THEN NoTest ELSE completed
  /\ \A l \in hits : l < config.lines
  /\ hits # {} => config.coverage /\ started # 0

GoodRecord(r) ==
  /\ r.domain = "slice" => r.bytes # 0 /\ r.resize_site = NoSite
  /\ r.generation <= generation
  /\ r.alloc_site < config.sites
  /\ r.resize_site # NoSite => r.resize_site < config.sites
  /\ r.origin_test < started

\* The records are well made, and each is younger than those before it.
RecordsInv ==
  /\ Len(records) <= MaxRecords
  /\ \A i \in Entries : GoodRecord(records[i])
  /\ \A i, j \in Entries : i < j => records[i].generation < records[j].generation

Publishing == pc \in {"open", "write", "close"}

\* How the suite ended.
EndInv ==
  /\ endpoint => finalized /\ SuiteDone
  /\ failed => finalized /\ started # 0
  /\ finalized => initialized
  /\ pc = "suite" /\ reason # "ok" /\ initialized => finalized
  /\ Publishing /\ mode = "finish" /\ initialized => finalized
  /\ Publishing /\ mode = "finish" /\ reason = "ok" => finalized /\ endpoint
  /\ Publishing /\ mode = "abort" => reason # "ok"

\* What the driver's parser asks, of a report of its own configuration.
PlausibleReport(r) ==
  /\ \A l \in r.hits : l < r.config.lines
  /\ r.completed <= r.started /\ r.started <= r.completed + 1 /\ r.started <= r.config.tests
  /\ r.started = 0 => ~ r.failed /\ r.hits = {}
  /\ \A t \in 0 .. r.config.tests - 1 :
       r.tests[t] = (IF t < r.completed THEN 2 ELSE IF t < r.started THEN 1 ELSE 0)
  /\ r.endpoint => r.started = r.config.tests /\ r.completed = r.config.tests /\ r.config.tests > 0
  /\ r.complete <=> r.reason = "ok"
  /\ r.complete => r.endpoint
  /\ r.hits # {} => r.config.coverage
  /\ \A i \in DOMAIN r.records :
       /\ r.records[i].generation > (IF i = 1 THEN 0 ELSE r.records[i - 1].generation)
       /\ r.records[i].alloc_site < r.config.sites
       /\ r.records[i].origin_test < r.started
       /\ r.records[i].domain = "slice" => r.records[i].resize_site = NoSite /\ r.records[i].bytes > 0
  /\ r.total = MapThenSumSet(LAMBDA i : r.records[i].bytes, DOMAIN r.records)

\* What a complete report says is final.
StillSo ==
  /\ finalized /\ endpoint
  /\ report.records = records /\ report.total = total
  /\ report.hits = hits /\ report.failed = failed

\* What the file holds, and what finish has returned.
PublishInv ==
  /\ file = "ours" =>
       /\ initialized /\ report.config = config /\ PlausibleReport(report)
       /\ report.complete => StillSo
  /\ pc \in {"write", "close"} => file = "ours"
  /\ pc \in {"write", "close"} /\ reason = "ok" => report.complete
  /\ pc = "close" /\ written => left = 0
  /\ ret = 0 => /\ file = "ours" /\ left = 0 /\ report.complete
                /\ pc \notin {"write", "close"}

LedgerInv ==
  /\ TypeOK /\ Pristine /\ ProgressInv /\ RecordsInv
  /\ LedgerIsHeap /\ TotalIsHeap /\ NeverCorrupted
  /\ EndInv /\ PublishInv

-------------------------------------------------------------------------------
(* What the calls are told *)

\* A recorded address has one record.
LEMMA IndexFacts ==
  ASSUME TypeOK, LedgerIsHeap, NEW k, Recorded(k)
  PROVE  /\ IndexOf(k) \in Entries /\ IndexOf(k) \in Nat /\ records[IndexOf(k)].key = k
         /\ RecordOf(k) = records[IndexOf(k)]
         /\ Indexes(k) = {IndexOf(k)}
         /\ k \in Keys
  <1>1. PICK i \in Entries : records[i].key = k
    BY DEF Recorded, Indexes
  <1>2. \A j \in Entries : records[j].key = k => j = i
    BY <1>1 DEF LedgerIsHeap
  <1>3. Indexes(k) = {i}
    BY <1>1, <1>2 DEF Indexes
  <1>4. IndexOf(k) = i
    BY <1>3 DEF IndexOf
  <1>5. i \in 1 .. Len(records) /\ records[i] \in RecordType
    BY DEF TypeOK, Entries
  <1>6. records[i].key \in Keys
    BY <1>5 DEF RecordType
  <1> QED
    BY <1>1, <1>3, <1>4, <1>5, <1>6 DEF RecordOf

Live(h)      == {k \in Keys : h[k] # Free}
LiveBytes(h) == SumOf(h, Live(h))

\* The live blocks are the recorded ones, and there are finitely many.
LEMMA LiveIsRecorded ==
  ASSUME TypeOK, LedgerIsHeap
  PROVE  /\ IsFiniteSet(Entries)
         /\ Live(heap) = {records[i].key : i \in Entries}
         /\ IsFiniteSet(Live(heap))
         /\ \A k \in Live(heap) : heap[k] \in 0 .. MaxU
  <1>1. Entries = 1 .. Len(records) /\ Len(records) \in Nat
    BY DEF TypeOK, Entries
  <1>2. IsFiniteSet(Entries)
    BY <1>1, FS_Interval
  <1>3. \A i \in Entries : records[i] \in RecordType
    BY DEF TypeOK, Entries
  <1>4. Live(heap) = {records[i].key : i \in Entries}
    BY <1>3 DEF Live, LedgerIsHeap, Recorded, Indexes, RecordType
  <1>5. [i \in Entries |-> records[i].key] \in Surjection(Entries, Live(heap))
    BY <1>4 DEF Surjection
  <1>6. IsFiniteSet(Live(heap))
    BY <1>2, <1>5, FS_Surjection
  <1>7. \A k \in Live(heap) : heap[k] \in 0 .. MaxU
    BY DEF TypeOK, Live
  <1> QED
    BY <1>2, <1>4, <1>6, <1>7

\* The sum of the records is the sum of the blocks.
LEMMA SumOfRecordsIsHeap ==
  ASSUME TypeOK, LedgerIsHeap, TotalIsHeap
  PROVE  SumOfRecords = total /\ total = LiveBytes(heap)
  <1> USE LedgerAssumption
  <1> DEFINE b == [i \in Entries |-> records[i].bytes]
             f == [i \in Entries |-> records[i].key]
  <1>1. SumOfRecords = SumOf(b, Entries)
    BY LiveIsRecorded, SumOfBytes DEF SumOfRecords
  <1>2. \A i \in Entries : b[i] \in Nat /\ heap[f[i]] = b[i]
    <2> SUFFICES ASSUME NEW i \in Entries PROVE b[i] \in Nat /\ heap[f[i]] = b[i]
      OBVIOUS
    <2>1. records[i] \in RecordType
      BY DEF TypeOK, Entries
    <2> QED
      BY <2>1 DEF RecordType, LedgerIsHeap
  <1>3. \A i, j \in Entries : f[i] = f[j] => i = j
    BY DEF LedgerIsHeap
  <1>4. {f[i] : i \in Entries} = Live(heap)
    BY LiveIsRecorded
  <1>5. total = LiveBytes(heap)
    BY DEF TotalIsHeap, LiveBytes, Live, SumOf
  <1>6. IsFiniteSet(Entries)
    BY LiveIsRecorded
  <1> HIDE DEF b, f
  <1>7. SumOf(b, Entries) = SumOf(heap, Live(heap))
    BY <1>2, <1>3, <1>4, <1>6, SumOfImage
  <1> QED
    BY <1>1, <1>5, <1>7 DEF LiveBytes

\* No block is larger than all of them.
LEMMA BlockWithinTotal ==
  ASSUME TypeOK, LedgerIsHeap, TotalIsHeap, NEW k, Recorded(k)
  PROVE  /\ RecordOf(k).bytes \in Nat /\ RecordOf(k).bytes <= total
         /\ RecordOf(k).bytes = heap[k] /\ k \in Live(heap)
  <1> USE LedgerAssumption
  <1>1. RecordOf(k) = records[IndexOf(k)] /\ IndexOf(k) \in Entries /\ records[IndexOf(k)].key = k /\ k \in Keys
    BY IndexFacts
  <1>2. RecordOf(k).bytes = heap[k] /\ k \in Live(heap)
    BY <1>1 DEF LedgerIsHeap, Live
  <1>3. \A x \in Live(heap) : heap[x] \in Nat
    BY LiveIsRecorded
  <1>4. LiveBytes(heap) = heap[k] + SumOf(heap, Live(heap) \ {k})
    BY <1>2, <1>3, LiveIsRecorded, SumPick DEF LiveBytes
  <1>5. SumOf(heap, Live(heap) \ {k}) \in Nat
    BY <1>3, LiveIsRecorded, FS_Subset, SumType
  <1>6. total = LiveBytes(heap) /\ heap[k] \in Nat
    BY <1>2, <1>3, SumOfRecordsIsHeap
  <1> QED
    BY <1>2, <1>4, <1>5, <1>6

\* A block that is allocated adds its size.
LEMMA LiveAdd ==
  ASSUME NEW h \in [Keys -> (0 .. MaxU) \cup {Free}], IsFiniteSet(Live(h)),
         NEW k \in Keys, h[k] = Free, NEW b \in 0 .. MaxU
  PROVE  /\ IsFiniteSet(Live([h EXCEPT ![k] = b]))
         /\ LiveBytes([h EXCEPT ![k] = b]) = LiveBytes(h) + b
  <1> USE LedgerAssumption
  <1> DEFINE g == [h EXCEPT ![k] = b]
  <1>1. Live(g) = Live(h) \cup {k} /\ k \notin Live(h)
    BY DEF Live, Free
  <1>2. IsFiniteSet(Live(g)) /\ Live(g) \ {k} = Live(h)
    BY <1>1, FS_AddElement
  <1>3. g[k] = b /\ b \in Nat /\ \A x \in Live(h) : g[x] = h[x] /\ h[x] \in Nat
    BY <1>1 DEF Live
  <1> HIDE DEF g
  <1>4. k \in Live(g) /\ \A x \in Live(g) : g[x] \in Nat
    BY <1>1, <1>3
  <1>5. SumOf(g, Live(g)) = g[k] + SumOf(g, Live(h))
    BY <1>2, <1>4, SumPick
  <1>6. SumOf(g, Live(h)) = SumOf(h, Live(h))
    BY <1>3, SumSame
  <1>7. SumOf(h, Live(h)) \in Nat
    BY <1>3, SumType
  <1>8. LiveBytes(g) = LiveBytes(h) + b /\ IsFiniteSet(Live(g))
    BY <1>2, <1>3, <1>5, <1>6, <1>7 DEF LiveBytes
  <1> QED
    BY <1>8 DEF g

\* A block that is released takes its size away.
LEMMA LiveDrop ==
  ASSUME NEW h \in [Keys -> (0 .. MaxU) \cup {Free}], IsFiniteSet(Live(h)), NEW k \in Live(h)
  PROVE  /\ IsFiniteSet(Live([h EXCEPT ![k] = Free]))
         /\ LiveBytes([h EXCEPT ![k] = Free]) = LiveBytes(h) - h[k]
  <1> USE LedgerAssumption
  <1> DEFINE g == [h EXCEPT ![k] = Free]
  <1>1. Live(g) = Live(h) \ {k}
    BY DEF Live
  <1>2. IsFiniteSet(Live(g))
    BY <1>1, FS_Subset
  <1>3. \A x \in Live(g) : g[x] = h[x]
    BY <1>1 DEF Live
  <1>4. \A x \in Live(h) : h[x] \in Nat
    BY DEF Live
  <1> HIDE DEF g
  <1>5. SumOf(h, Live(h)) = h[k] + SumOf(h, Live(g))
    BY <1>1, <1>4, SumPick
  <1>6. SumOf(g, Live(g)) = SumOf(h, Live(g))
    BY <1>2, <1>3, SumSame
  <1>7. SumOf(h, Live(g)) \in Nat
    BY <1>1, <1>2, <1>4, SumType
  <1>8. LiveBytes(g) = LiveBytes(h) - h[k] /\ IsFiniteSet(Live(g))
    BY <1>2, <1>4, <1>5, <1>6, <1>7 DEF LiveBytes
  <1> QED
    BY <1>8 DEF g

\* The types of the variables, one by one.
LEMMA TypesOf ==
  ASSUME TypeOK
  PROVE  /\ config.tests \in Nat /\ config.lines \in Nat /\ config.sites \in Nat
         /\ initialized \in BOOLEAN /\ finalized \in BOOLEAN /\ endpoint \in BOOLEAN
         /\ failed \in BOOLEAN /\ written \in BOOLEAN /\ path \in BOOLEAN
         /\ started \in Nat /\ completed \in Nat /\ current \in Nat \cup {NoTest}
         /\ Len(records) \in Nat /\ total \in Nat /\ generation \in Nat /\ MaxU \in Nat
         /\ total <= MaxU /\ generation <= MaxU
         /\ Entries = 1 .. Len(records)
         /\ \A i \in Entries : records[i] \in RecordType
  <1>1. config \in ConfigType
    BY DEF TypeOK
  <1>2. config.tests \in Nat /\ config.lines \in Nat /\ config.sites \in Nat
    BY <1>1 DEF ConfigType
  <1>3. Len(records) \in Nat /\ Entries = 1 .. Len(records) /\ \A i \in Entries : records[i] \in RecordType
    BY DEF TypeOK, Entries
  <1>4. total \in 0 .. MaxU /\ generation \in 0 .. MaxU /\ MaxU \in Nat
    BY LedgerAssumption DEF TypeOK
  <1> QED
    BY <1>2, <1>3, <1>4 DEF TypeOK

\* The operations find the ledger in order.
LEMMA OperationTold ==
  ASSUME TypeOK, RecordsInv, NeverCorrupted, NEW site
  PROVE  /\ OperationCheck(site) \in Reasons \ {"corrupted", "duplicate"}
         /\ OperationCheck(site) = "ok" =>
              reason = "ok" /\ InTest /\ ~ (site >= config.sites)
  <1>1. \A i \in Entries : records[i].domain \in Domains
    BY TypesOf DEF RecordType
  <1>2. ~ (Len(records) > MaxRecords)
    BY TypesOf, LedgerAssumption DEF RecordsInv
  <1>3. reason \in Reasons \ {"corrupted", "duplicate"}
    BY DEF TypeOK, NeverCorrupted
  <1> QED
    BY <1>1, <1>2, <1>3 DEF OperationCheck, Reasons

\* A block that is admitted fits the ledger.
LEMMA CapacityTold ==
  ASSUME TypeOK, NEW bytes \in Sizes
  PROVE  /\ CapacityCheck(bytes) \in Reasons \ {"corrupted", "duplicate"}
         /\ CapacityCheck(bytes) = "ok" =>
              /\ Len(records) # MaxRecords /\ generation + 1 \in 1 .. MaxU
              /\ bytes \in 0 .. MaxU /\ total + bytes \in 0 .. MaxU
  <1>1. bytes \in 0 .. MaxU /\ MaxU \in Nat
    BY LedgerAssumption
  <1>2. total \in 0 .. MaxU /\ generation \in 0 .. MaxU
    BY DEF TypeOK
  <1> QED
    BY <1>1, <1>2 DEF CapacityCheck, Reasons

\* No call is refused because the ledger had gone wrong.
LEMMA ReasonsTold ==
  ASSUME TypeOK, RecordsInv, LedgerIsHeap, TotalIsHeap, NeverCorrupted
  PROVE  /\ \A c \in Configs : InitCheck(c) \in Reasons \ {"corrupted", "duplicate"}
         /\ \A t : BeginCheck(t) \in Reasons \ {"corrupted", "duplicate"}
         /\ \A t : EndCheck(t) \in Reasons \ {"corrupted", "duplicate"}
         /\ \A l : HitCheck(l) \in Reasons \ {"corrupted", "duplicate"}
         /\ \A s, d : \A b \in Sizes : NewCheck(b, s, d) \in Reasons \ {"corrupted", "duplicate"}
         /\ \A k, s : \A b \in Sizes : MovCheck(k, b, s) \in Reasons \ {"corrupted", "duplicate"}
         /\ \A k, s, d : RemCheck(k, s, d) \in Reasons \ {"corrupted", "duplicate"}
  <1>1. reason \in Reasons \ {"corrupted", "duplicate"}
    BY DEF TypeOK, NeverCorrupted
  <1>2. \A k : Recorded(k) => ~ (RecordOf(k).bytes > total)
    BY BlockWithinTotal, TypesOf
  <1>3. \A c \in Configs : InitCheck(c) \in Reasons \ {"corrupted", "duplicate"}
    BY DEF InitCheck, Reasons
  <1>4. \A t : BeginCheck(t) \in Reasons \ {"corrupted", "duplicate"}
    BY <1>1 DEF BeginCheck, Reasons
  <1>5. \A t : EndCheck(t) \in Reasons \ {"corrupted", "duplicate"}
    BY <1>1 DEF EndCheck, Reasons
  <1>6. \A l : HitCheck(l) \in Reasons \ {"corrupted", "duplicate"}
    BY <1>1 DEF HitCheck, Reasons
  <1>7. \A s, d : \A b \in Sizes : NewCheck(b, s, d) \in Reasons \ {"corrupted", "duplicate"}
    BY OperationTold, CapacityTold DEF NewCheck, Reasons
  <1>8. \A k, s : \A b \in Sizes : MovCheck(k, b, s) \in Reasons \ {"corrupted", "duplicate"}
    BY <1>2, OperationTold, CapacityTold DEF MovCheck, Reasons
  <1>9. \A k, s, d : RemCheck(k, s, d) \in Reasons \ {"corrupted", "duplicate"}
    BY <1>2, OperationTold DEF RemCheck, Reasons
  <1> QED
    BY <1>3, <1>4, <1>5, <1>6, <1>7, <1>8, <1>9

\* The first elements of an interval are as many as their number says.
LEMMA CountBelow ==
  ASSUME NEW m \in Nat, NEW n \in Nat, m <= n, NEW S, S = {t \in 0 .. n - 1 : t < m}
  PROVE  Cardinality(S) = m
  <1>1. S = 0 .. m - 1 /\ m - 1 \in Int
    OBVIOUS
  <1>2. Cardinality(0 .. m - 1) = IF 0 > m - 1 THEN 0 ELSE (m - 1) - 0 + 1
    BY <1>1, FS_Interval
  <1>3. (IF 0 > m - 1 THEN 0 ELSE (m - 1) - 0 + 1) = m
    OBVIOUS
  <1> QED
    BY <1>1, <1>2, <1>3

\* The audit finds nothing wrong.
LEMMA AuditFindsNothing ==
  ASSUME TypeOK, ProgressInv, RecordsInv, LedgerIsHeap, TotalIsHeap, initialized
  PROVE  Audit
  <1> USE TypesOf
  <1>1. \A t \in TestIds : t \in Nat /\ t < config.tests /\ tests[t] = StateOf(t)
    BY DEF TestIds, ProgressInv
  <1>2. AuditTests
    <2>1. \A t \in TestIds :
            /\ tests[t] \in 0 .. 2
            /\ t > 0 => tests[t] <= tests[t - 1]
            /\ tests[t] = 1 => current = t /\ \A u \in TestIds : u < t => tests[u] # 1
      <3> SUFFICES ASSUME NEW t \in TestIds
                   PROVE  /\ tests[t] \in 0 .. 2
                          /\ t > 0 => tests[t] <= tests[t - 1]
                          /\ tests[t] = 1 => current = t /\ \A u \in TestIds : u < t => tests[u] # 1
        OBVIOUS
      <3>1. t > 0 => t - 1 \in TestIds
        BY DEF TestIds
      <3> QED
        BY <1>1, <3>1 DEF ProgressInv, StateOf
    <2>2. started = Cardinality({t \in TestIds : tests[t] # 0})
      <3>1. {t \in TestIds : tests[t] # 0} = {t \in 0 .. config.tests - 1 : t < started}
        BY <1>1 DEF ProgressInv, StateOf, TestIds
      <3> QED
        BY <3>1, CountBelow DEF ProgressInv
    <2>3. completed = Cardinality({t \in TestIds : tests[t] = 2})
      <3>1. {t \in TestIds : tests[t] = 2} = {t \in 0 .. config.tests - 1 : t < completed}
        BY <1>1 DEF ProgressInv, StateOf, TestIds
      <3> QED
        BY <3>1, CountBelow, SMTT(40) DEF ProgressInv
    <2> QED
      BY <2>1, <2>2, <2>3 DEF AuditTests, ProgressInv
  <1>3. AuditRecords
    <2> SUFFICES ASSUME NEW i \in Entries PROVE AuditRecord(i)
      BY DEF AuditRecords
    <2>1. records[i] \in RecordType /\ GoodRecord(records[i]) /\ i \in 1 .. Len(records)
      BY DEF RecordsInv
    <2>2. records[i].generation > (IF i = 1 THEN 0 ELSE records[i - 1].generation)
      <3>1. CASE i = 1
        BY <2>1, <3>1 DEF RecordType
      <3>2. CASE i # 1
        <4>1. i - 1 \in Entries /\ i - 1 < i
          BY <2>1, <3>2
        <4>2. records[i - 1].generation < records[i].generation
          BY <4>1 DEF RecordsInv
        <4>3. records[i].generation \in Int /\ records[i - 1].generation \in Int
          BY <4>1 DEF RecordType
        <4> QED
          BY <3>2, <4>2, <4>3
      <3> QED
        BY <3>1, <3>2
    <2>3. \A j \in 1 .. i - 1 : records[j].key # records[i].key
      <3>1. \A j \in 1 .. i - 1 : j \in Entries /\ j # i
        BY <2>1
      <3> QED
        BY <3>1 DEF LedgerIsHeap
    <2>4. records[i].origin_test \in TestIds /\ tests[records[i].origin_test] # 0
      <3>1. records[i].origin_test \in Nat /\ records[i].origin_test < started
        BY <2>1 DEF RecordType, GoodRecord
      <3>2. records[i].origin_test \in TestIds
        BY <3>1 DEF ProgressInv, TestIds
      <3> QED
        BY <1>1, <3>1, <3>2 DEF StateOf
    <2>5. records[i].key # Null /\ records[i].domain \in Domains
      BY <2>1, LedgerAssumption DEF RecordType
    <2> QED
      BY <2>1, <2>2, <2>3, <2>4, <2>5 DEF AuditRecord, GoodRecord
  <1> QED
    BY <1>2, <1>3, SumOfRecordsIsHeap DEF Audit, RecordsInv

-------------------------------------------------------------------------------
(* What the steps do to the ledger *)

\* A call that is refused, for a reason other than a wrong ledger.
Refused ==
  \E why \in Reasons \ {"ok", "corrupted", "duplicate"} : Refuse(why)

\* A new block is entered, or there is none.
Entered(bytes, site, domain) ==
  /\ pc = "suite" /\ reason = "ok" /\ InTest /\ site \in SiteArgs /\ site < config.sites
  /\ bytes \in 0 .. MaxU /\ (domain = "slice" => bytes # 0) /\ domain \in Domains
  /\ \/ UNCHANGED <<heap, ledger>>
     \/ /\ Len(records) # MaxRecords /\ generation + 1 \in 1 .. MaxU /\ total + bytes \in 0 .. MaxU
        /\ \E k \in FreeKeys :
             /\ heap' = [heap EXCEPT ![k] = bytes]
             /\ records' = Append(records, Entry(k, bytes, site, domain))
        /\ generation' = generation + 1 /\ total' = total + bytes
  /\ UNCHANGED <<settings, reason, ending, progress, process, output>>

\* A recorded block changes its size and perhaps its place.
Moved(k, bytes, site) ==
  /\ pc = "suite" /\ reason = "ok" /\ InTest /\ site \in SiteArgs /\ site < config.sites
  /\ bytes \in 0 .. MaxU /\ bytes # 0 /\ Recorded(k) /\ RecordOf(k).domain = "heap"
  /\ \/ UNCHANGED <<heap, ledger>>
     \/ /\ total - RecordOf(k).bytes + bytes \in 0 .. MaxU
        /\ \E to \in FreeKeys \cup {k} :
             /\ heap' = [[heap EXCEPT ![k] = Free] EXCEPT ![to] = bytes]
             /\ records' = [records EXCEPT ![IndexOf(k)] =
                              [@ EXCEPT !.key = to, !.bytes = bytes, !.resize_site = site]]
        /\ total' = total - RecordOf(k).bytes + bytes
        /\ UNCHANGED generation
  /\ UNCHANGED <<settings, reason, ending, progress, process, output>>

\* A recorded block is released.
Removed(k) ==
  /\ pc = "suite" /\ reason = "ok" /\ InTest /\ Recorded(k)
  /\ heap' = [heap EXCEPT ![k] = Free]
  /\ total' = total - RecordOf(k).bytes
  /\ records' = Compact(IndexOf(k))
  /\ UNCHANGED <<settings, reason, ending, progress, generation, process, output>>

\* An allocation that is admitted enters what it allocates.
LEMMA AllocateEnters ==
  ASSUME TypeOK, LedgerIsHeap, NEW bytes, NEW site \in SiteArgs, NEW domain \in Domains,
         pc = "suite", reason = "ok", InTest, site < config.sites, bytes \in 0 .. MaxU,
         domain = "slice" => bytes # 0,
         Len(records) # MaxRecords, generation + 1 \in 1 .. MaxU, total + bytes \in 0 .. MaxU,
         Allocate(bytes, site, domain)
  PROVE  Entered(bytes, site, domain)
  <1>1. CASE UNCHANGED <<heap, ledger, reason, pc, mode>>
    BY <1>1 DEF Allocate, Entered, process
  <1>2. ASSUME NEW k \in FreeKeys, heap' = [heap EXCEPT ![k] = bytes], Add(k, bytes, site, domain)
        PROVE  Entered(bytes, site, domain)
    <2>1. ~ Recorded(k)
      BY DEF FreeKeys, LedgerIsHeap
    <2>2. /\ records' = Append(records, Entry(k, bytes, site, domain))
          /\ generation' = generation + 1 /\ total' = total + bytes
          /\ UNCHANGED <<reason, pc, mode>>
      BY <1>2, <2>1 DEF Add
    <2> QED
      BY <1>2, <2>2 DEF Allocate, Entered, process
  <1> QED
    BY <1>1, <1>2 DEF Allocate

\* The three that allocate or resize and the two that release.
LEMMA NewEnters ==
  ASSUME TypeOK, RecordsInv, LedgerIsHeap, NeverCorrupted,
         NEW bytes \in Sizes, NEW site \in SiteArgs, NEW domain \in Domains,
         New(bytes, site, domain)
  PROVE  Entered(bytes, site, domain)
  <1>1. pc = "suite" /\ NewCheck(bytes, site, domain) = "ok" /\ Allocate(bytes, site, domain)
    BY DEF New, Admit
  <1>2. /\ OperationCheck(site) = "ok" /\ CapacityCheck(bytes) = "ok"
        /\ domain = "slice" => bytes # 0
    BY <1>1 DEF NewCheck
  <1>3. reason = "ok" /\ InTest /\ site < config.sites
    BY <1>2, OperationTold, TypesOf DEF SiteArgs
  <1>4. /\ Len(records) # MaxRecords /\ generation + 1 \in 1 .. MaxU
        /\ bytes \in 0 .. MaxU /\ total + bytes \in 0 .. MaxU
    BY <1>2, CapacityTold
  <1> QED
    BY <1>1, <1>2, <1>3, <1>4, AllocateEnters

LEMMA MovNewEnters ==
  ASSUME TypeOK, RecordsInv, LedgerIsHeap, NeverCorrupted,
         NEW bytes \in Sizes, NEW site \in SiteArgs, MovNew(bytes, site)
  PROVE  Entered(bytes, site, "heap")
  <1>1. pc = "suite" /\ MovCheck(Null, bytes, site) = "ok" /\ Allocate(bytes, site, "heap")
    BY DEF MovNew, Admit
  <1>2. OperationCheck(site) = "ok" /\ CapacityCheck(bytes) = "ok"
    BY <1>1 DEF MovCheck
  <1>3. reason = "ok" /\ InTest /\ site < config.sites
    BY <1>2, OperationTold, TypesOf DEF SiteArgs
  <1>4. /\ Len(records) # MaxRecords /\ generation + 1 \in 1 .. MaxU
        /\ bytes \in 0 .. MaxU /\ total + bytes \in 0 .. MaxU
    BY <1>2, CapacityTold
  <1>5. "heap" \in Domains
    BY DEF Domains
  <1> QED
    BY <1>1, <1>3, <1>4, <1>5, AllocateEnters

LEMMA MovOldMoves ==
  ASSUME TypeOK, RecordsInv, LedgerIsHeap, TotalIsHeap, NeverCorrupted,
         NEW k \in Keys, NEW bytes \in Sizes, NEW site \in SiteArgs, MovOld(k, bytes, site)
  PROVE  Moved(k, bytes, site)
  <1>1. pc = "suite" /\ MovCheck(k, bytes, site) = "ok" /\ k # Null
    BY DEF MovOld, Admit
  <1>2. /\ OperationCheck(site) = "ok" /\ bytes # 0 /\ Recorded(k) /\ RecordOf(k).domain = "heap"
        /\ ~ (bytes > MaxU - (total - RecordOf(k).bytes))
    BY <1>1 DEF MovCheck
  <1>3. reason = "ok" /\ InTest /\ site < config.sites
    BY <1>2, OperationTold, TypesOf DEF SiteArgs
  <1>4. bytes \in 0 .. MaxU
    BY LedgerAssumption
  <1>5. total - RecordOf(k).bytes + bytes \in 0 .. MaxU
    BY <1>2, <1>4, BlockWithinTotal, TypesOf
  <1>6. CASE UNCHANGED <<heap, ledger, reason, pc, mode>>
    BY <1>1, <1>2, <1>3, <1>4, <1>6 DEF MovOld, Moved, process
  <1>7. ASSUME NEW to \in FreeKeys \cup {k},
               heap' = [[heap EXCEPT ![k] = Free] EXCEPT ![to] = bytes],
               IF Indexes(to) \subseteq {IndexOf(k)}
               THEN /\ records' = [records EXCEPT ![IndexOf(k)] =
                                     [@ EXCEPT !.key = to, !.bytes = bytes, !.resize_site = site]]
                    /\ total' = Resized(k, bytes)
                    /\ UNCHANGED <<generation, reason, pc, mode>>
               ELSE Abort("duplicate") /\ UNCHANGED ledger
        PROVE  Moved(k, bytes, site)
    <2>1. Indexes(to) \subseteq {IndexOf(k)}
      <3>1. CASE to = k
        BY <1>2, <3>1, IndexFacts
      <3>2. CASE to \in FreeKeys
        BY <3>2 DEF FreeKeys, LedgerIsHeap, Recorded
      <3> QED
        BY <3>1, <3>2
    <2>2. /\ records' = [records EXCEPT ![IndexOf(k)] =
                           [@ EXCEPT !.key = to, !.bytes = bytes, !.resize_site = site]]
          /\ total' = total - RecordOf(k).bytes + bytes
          /\ UNCHANGED <<generation, reason, pc, mode>>
      BY <1>7, <2>1 DEF Resized
    <2> QED
      BY <1>1, <1>2, <1>3, <1>4, <1>5, <1>7, <2>2 DEF MovOld, Moved, process
  <1> QED
    BY <1>6, <1>7 DEF MovOld

LEMMA RemRemoves ==
  ASSUME TypeOK, RecordsInv, NeverCorrupted, NEW k, NEW site \in SiteArgs, NEW domain,
         Rem(k, site, domain)
  PROVE  Removed(k)
  <1>1. pc = "suite" /\ RemCheck(k, site, domain) = "ok" /\ k # Null
    BY DEF Rem, Admit
  <1>2. OperationCheck(site) = "ok" /\ Recorded(k)
    BY <1>1 DEF RemCheck
  <1>3. reason = "ok" /\ InTest
    BY <1>2, OperationTold
  <1> QED
    BY <1>1, <1>2, <1>3 DEF Rem, Removed

\* The calls that concern the tests.
Started(t) ==
  /\ pc = "suite" /\ reason = "ok" /\ initialized /\ ~ finalized /\ t \in TestIds
  /\ t = completed /\ started = completed
  /\ tests' = [tests EXCEPT ![t] = 1] /\ current' = t /\ started' = started + 1
  /\ UNCHANGED <<settings, reason, ending, completed, hits, ledger, heap, process, output>>

Ended(t) ==
  /\ pc = "suite" /\ reason = "ok" /\ initialized /\ ~ finalized /\ t \in TestIds
  /\ current = t /\ t = completed
  /\ tests' = [tests EXCEPT ![t] = 2] /\ current' = NoTest /\ completed' = completed + 1
  /\ UNCHANGED <<settings, reason, ending, started, hits, ledger, heap, process, output>>

Covered(line) ==
  /\ pc = "suite" /\ reason = "ok" /\ InTest /\ line \in Nat /\ line < config.lines /\ config.coverage
  /\ hits' = hits \cup {line}
  /\ UNCHANGED <<settings, reason, ending, tests, started, completed, current, ledger, heap, process, output>>

\* Steps that leave what is measured alone.
Quiet ==
  \/ Refused \/ FinishAgain \/ Publication
  \/ \E f \in FailedArgs : Finish(f)
  \/ \E code \in {"zero", "nonzero"} : Exit(code)
  \/ Killed

Measuring ==
  \/ \E c \in Configs, p \in BOOLEAN : ObsInit(c, p)
  \/ \E t : Started(t) \/ Ended(t)
  \/ \E l : Covered(l)
  \/ \E b, s, d : Entered(b, s, d)
  \/ \E k, b, s : Moved(k, b, s)
  \/ \E k : Removed(k)

LEMMA QuietLeaves ==
  ASSUME Quiet
  PROVE  UNCHANGED <<settings, progress, ledger, heap>>
  <1>1. CASE Refused
    BY <1>1 DEF Refused, Refuse
  <1>2. CASE FinishAgain
    BY <1>2 DEF FinishAgain
  <1>3. CASE Publication
    BY <1>3 DEF Publication, OpenFails, Open, WriteFails, Write, Close
  <1>4. CASE \E f \in FailedArgs : Finish(f)
    BY <1>4 DEF Finish
  <1>5. CASE (\E code \in {"zero", "nonzero"} : Exit(code)) \/ Killed
    BY <1>5 DEF Exit, Killed
  <1> QED
    BY <1>1, <1>2, <1>3, <1>4, <1>5 DEF Quiet

\* Every step is one of these.
LEMMA Steps ==
  ASSUME TypeOK, RecordsInv, LedgerIsHeap, TotalIsHeap, NeverCorrupted, Next
  PROVE  Quiet \/ Measuring
  <1> USE ReasonsTold
  <1>0. ASSUME NEW why \in Reasons \ {"corrupted", "duplicate"}, Refuse(why) PROVE Refused
    BY <1>0 DEF Refused, Refuse
  <1>1. CASE Lifecycle
    <2>1. ASSUME NEW c \in Configs, (\E p \in BOOLEAN : ObsInit(c, p)) \/ Refuse(InitCheck(c))
          PROVE  Quiet \/ Measuring
      BY <1>0, <2>1 DEF Quiet, Measuring
    <2>2. ASSUME NEW t \in TestArgs, TestBegin(t) \/ Refuse(BeginCheck(t)) \/ TestEnd(t) \/ Refuse(EndCheck(t))
          PROVE  Quiet \/ Measuring
      <3>1. CASE TestBegin(t)
        <4>1. Started(t)
          BY <3>1 DEF TestBegin, Admit, BeginCheck, Started
        <4> QED
          BY <4>1 DEF Measuring
      <3>2. CASE TestEnd(t)
        <4>1. Ended(t)
          BY <3>2 DEF TestEnd, Admit, EndCheck, Ended
        <4> QED
          BY <4>1 DEF Measuring
      <3>3. CASE Refuse(BeginCheck(t)) \/ Refuse(EndCheck(t))
        BY <1>0, <3>3 DEF Quiet
      <3> QED
        BY <2>2, <3>1, <3>2, <3>3
    <2>3. ASSUME NEW l \in LineArgs, Hit(l) \/ Refuse(HitCheck(l))
          PROVE  Quiet \/ Measuring
      <3>1. CASE Hit(l)
        <4>1. l \in Nat
          BY DEF LineArgs
        <4>2. l < config.lines /\ reason = "ok" /\ InTest /\ config.coverage
          BY <3>1, <4>1, TypesOf DEF Hit, Admit, HitCheck
        <4>3. Covered(l)
          BY <3>1, <4>1, <4>2 DEF Hit, Admit, Covered
        <4> QED
          BY <4>3 DEF Measuring
      <3>2. CASE Refuse(HitCheck(l))
        BY <1>0, <3>2 DEF Quiet
      <3> QED
        BY <2>3, <3>1, <3>2
    <2> QED
      BY <1>1, <2>1, <2>2, <2>3 DEF Lifecycle, Quiet
  <1>2. CASE Allocation
    <2>1. PICK s \in SiteArgs : AllocationAt(s, Sizes \X Domains, TRUE, Domains)
      BY <1>2 DEF Allocation
    <2>2. ASSUME NEW b \in Sizes, NEW d \in Domains, New(b, s, d) \/ Refuse(NewCheck(b, s, d))
          PROVE  Quiet \/ Measuring
      BY <1>0, <2>2, NewEnters DEF Quiet, Measuring
    <2>3. ASSUME NEW b \in Sizes, MovNew(b, s) \/ Refuse(MovCheck(Null, b, s))
          PROVE  Quiet \/ Measuring
      BY <1>0, <2>3, MovNewEnters DEF Quiet, Measuring
    <2>4. ASSUME NEW k \in Keys, NEW b \in Sizes, MovOld(k, b, s) \/ Refuse(MovCheck(k, b, s))
          PROVE  Quiet \/ Measuring
      BY <1>0, <2>4, MovOldMoves DEF Quiet, Measuring
    <2>5. ASSUME NEW k \in Keys \cup {Null}, NEW d \in Domains, Rem(k, s, d) \/ Refuse(RemCheck(k, s, d))
          PROVE  Quiet \/ Measuring
      BY <1>0, <2>5, RemRemoves DEF Quiet, Measuring
    <2>6. ASSUME NEW q \in Sizes \X Domains, New(q[1], s, q[2]) \/ Refuse(NewCheck(q[1], s, q[2]))
          PROVE  Quiet \/ Measuring
      BY <2>2, <2>6
    <2> QED
      BY <2>1, <2>3, <2>4, <2>5, <2>6 DEF AllocationAt
  <1>3. CASE Publication \/ Killed \/ \E code \in {"zero", "nonzero"} : Exit(code)
    BY <1>3 DEF Quiet
  <1> QED
    BY <1>1, <1>2, <1>3 DEF Next

-------------------------------------------------------------------------------
(* The invariant is kept: the tests *)

\* The part of the type invariant that is about the tests.
TestTypes ==
  /\ config \in ConfigType /\ initialized \in BOOLEAN /\ path \in BOOLEAN
  /\ tests \in [TestIds -> 0 .. 2]
  /\ started \in Nat /\ completed \in Nat /\ current \in Nat \cup {NoTest}
  /\ hits \subseteq Nat

\* init is admitted once.
LEMMA InitOnce ==
  ASSUME NEW c \in Configs, NEW p \in BOOLEAN, ObsInit(c, p)
  PROVE  /\ pc = "suite" /\ ~ initialized /\ ~ finalized /\ reason = "ok"
         /\ config' = c /\ initialized' = TRUE /\ path' = p
         /\ tests' = [t \in 0 .. c.tests - 1 |-> 0] /\ current' = NoTest
         /\ \/ UNCHANGED <<reason, pc, mode>>
            \/ reason' = "configuration" /\ pc' = "open" /\ mode' = "abort"
         /\ UNCHANGED <<ending, started, completed, hits, ledger, heap, written, ret, exit, output>>
         /\ c \in ConfigType
  BY LedgerAssumption DEF ObsInit, Admit, InitCheck, Abort, Sticky

LEMMA TestsKept ==
  ASSUME LedgerInv, Next
  PROVE  TestTypes' /\ ProgressInv'
  <1> USE DEF LedgerInv
  <1>0. TestTypes
    BY TypesOf DEF TestTypes, TypeOK
  <1>1. CASE UNCHANGED <<settings, progress>>
    BY <1>0, <1>1 DEF TestTypes, ProgressInv, TestIds, StateOf, settings, progress
  <1>2. ASSUME NEW c \in Configs, NEW p \in BOOLEAN, ObsInit(c, p)
        PROVE  TestTypes' /\ ProgressInv'
    <2>1. /\ ~ initialized /\ config' = c /\ initialized' = TRUE /\ path' = p
          /\ tests' = [t \in 0 .. c.tests - 1 |-> 0] /\ current' = NoTest
          /\ UNCHANGED <<started, completed, hits>> /\ c \in ConfigType
      BY <1>2, InitOnce
    <2>2. started = 0 /\ completed = 0 /\ hits = {}
      BY <2>1 DEF Pristine
    <2>3. c.tests \in Nat
      BY <2>1 DEF ConfigType
    <2>4. TestTypes'
      BY <2>1, <2>2, <2>3 DEF TestTypes, TestIds
    <2>5. ProgressInv'
      BY <2>1, <2>2, <2>3 DEF ProgressInv, TestIds, StateOf
    <2> QED
      BY <2>4, <2>5
  <1>3. ASSUME NEW t, Started(t)
        PROVE  TestTypes' /\ ProgressInv'
    <2>1. /\ initialized /\ t \in TestIds /\ t = completed /\ started = completed
          /\ tests' = [tests EXCEPT ![t] = 1] /\ current' = t /\ started' = started + 1
          /\ UNCHANGED <<config, initialized, path, completed, hits>>
      BY <1>3 DEF Started, settings
    <2>2. t \in Nat /\ t < config.tests /\ config.tests \in Nat
      BY <2>1, TypesOf DEF TestIds
    <2>3. TestTypes'
      BY <1>0, <2>1, <2>2 DEF TestTypes, TestIds
    <2>4. \A u \in TestIds : tests'[u] = IF u = t THEN 1 ELSE tests[u]
      BY <1>0, <2>1 DEF TestTypes
    <2>5. \A u \in TestIds : tests'[u] = StateOf(u)'
      BY <1>0, <2>1, <2>2, <2>4 DEF ProgressInv, StateOf, TestTypes, TestIds
    <2>6. ProgressInv'
      BY <1>0, <2>1, <2>2, <2>5 DEF ProgressInv, TestTypes, TestIds
    <2> QED
      BY <2>3, <2>6
  <1>4. ASSUME NEW t, Ended(t)
        PROVE  TestTypes' /\ ProgressInv'
    <2>1. /\ initialized /\ t \in TestIds /\ t = completed /\ current = t
          /\ tests' = [tests EXCEPT ![t] = 2] /\ current' = NoTest /\ completed' = completed + 1
          /\ UNCHANGED <<config, initialized, path, started, hits>>
      BY <1>4 DEF Ended, settings
    <2>2. t \in Nat /\ t < config.tests /\ config.tests \in Nat /\ started = completed + 1
      BY <2>1, TypesOf DEF TestIds, ProgressInv, NoTest
    <2>3. TestTypes'
      BY <1>0, <2>1, <2>2 DEF TestTypes, TestIds
    <2>4. \A u \in TestIds : tests'[u] = IF u = t THEN 2 ELSE tests[u]
      BY <1>0, <2>1 DEF TestTypes
    <2>5. \A u \in TestIds : tests'[u] = StateOf(u)'
      BY <1>0, <2>1, <2>2, <2>4 DEF ProgressInv, StateOf, TestTypes, TestIds
    <2>6. ProgressInv'
      BY <1>0, <2>1, <2>2, <2>5 DEF ProgressInv, TestTypes, TestIds
    <2> QED
      BY <2>3, <2>6
  <1>5. ASSUME NEW l, Covered(l)
        PROVE  TestTypes' /\ ProgressInv'
    <2>1. /\ InTest /\ l \in Nat /\ l < config.lines /\ config.coverage /\ hits' = hits \cup {l}
          /\ UNCHANGED <<config, initialized, path, tests, started, completed, current>>
      BY <1>5 DEF Covered, settings
    <2>2. started # 0
      <3>1. initialized /\ current \in TestIds /\ tests[current] = 1
        BY <2>1 DEF InTest
      <3>2. StateOf(current) = 1
        BY <3>1 DEF ProgressInv
      <3> QED
        BY <1>0, <3>1, <3>2 DEF StateOf, TestIds, TestTypes
    <2>3. TestTypes'
      BY <1>0, <2>1 DEF TestTypes, TestIds
    <2>4. ProgressInv'
      BY <2>1, <2>2 DEF ProgressInv, StateOf, TestIds
    <2> QED
      BY <2>3, <2>4
  <1>6. ASSUME NEW k, NEW b, NEW s, NEW d, Entered(b, s, d) \/ Moved(k, b, s) \/ Removed(k)
        PROVE  UNCHANGED <<settings, progress>>
    BY <1>6 DEF Entered, Moved, Removed
  <1>7. Quiet \/ Measuring
    BY Steps
  <1> QED
    BY <1>1, <1>2, <1>3, <1>4, <1>5, <1>6, <1>7, QuietLeaves DEF Measuring

-------------------------------------------------------------------------------
(* The ledger *)

\* The total in the next state.
LEMMA NextTotal ==
  TotalIsHeap' <=> total' = LiveBytes(heap')
  BY DEF TotalIsHeap, LiveBytes, Live, SumOf, MapThenSumSet, MapThenFoldSet

\* The part of the type invariant that is about the ledger.
LedgerTypes ==
  /\ records \in Seq(RecordType)
  /\ total \in 0 .. MaxU /\ generation \in 0 .. MaxU
  /\ heap \in [Keys -> (0 .. MaxU) \cup {Free}]

LedgerPart == LedgerTypes /\ RecordsInv /\ LedgerIsHeap /\ TotalIsHeap

\* Records stay good when more tests have started.
LEMMA GoodStays ==
  ASSUME TypeOK, NEW r \in RecordType, GoodRecord(r), config' = config, generation' \in Nat, started' \in Nat,
         generation <= generation', started <= started'
  PROVE  GoodRecord(r)'
  BY TypesOf DEF GoodRecord, RecordType

LEMMA EnteredKeeps ==
  ASSUME LedgerInv, NEW bytes, NEW site, NEW domain, Entered(bytes, site, domain)
  PROVE  LedgerPart'
  <1> USE DEF LedgerInv
  <1> USE TypesOf
  <1>0. /\ LedgerTypes /\ UNCHANGED <<config, started, current>>
        /\ bytes \in 0 .. MaxU /\ (domain = "slice" => bytes # 0) /\ domain \in Domains
        /\ site \in Nat /\ site < config.sites /\ InTest
    BY DEF TypeOK, LedgerTypes, Entered, settings, progress, SiteArgs
  <1>1. CASE UNCHANGED <<heap, ledger>>
    <2>1. LedgerTypes' /\ RecordsInv'
      BY <1>0, <1>1 DEF LedgerTypes, RecordsInv, GoodRecord, Entries, ledger
    <2>2. LedgerIsHeap'
      BY <1>1 DEF ledger, LedgerIsHeap, Entries, Recorded, Indexes
    <2>3. TotalIsHeap'
      BY <1>1, NextTotal, SumOfRecordsIsHeap DEF ledger
    <2> QED
      BY <2>1, <2>2, <2>3 DEF LedgerPart
  <1>2. ASSUME NEW k \in FreeKeys,
               Len(records) # MaxRecords, generation + 1 \in 1 .. MaxU, total + bytes \in 0 .. MaxU,
               heap' = [heap EXCEPT ![k] = bytes],
               records' = Append(records, Entry(k, bytes, site, domain)),
               generation' = generation + 1, total' = total + bytes
        PROVE  LedgerPart'
    <2>1. PICK r : r = Entry(k, bytes, site, domain)
      OBVIOUS
    <2>2. k \in Keys /\ heap[k] = Free /\ ~ Recorded(k)
      BY <1>2 DEF FreeKeys, LedgerIsHeap
    <2>3. /\ r.key = k /\ r.generation = generation + 1 /\ r.bytes = bytes /\ r.domain = domain
          /\ r.alloc_site = site /\ r.resize_site = NoSite /\ r.origin_test = current
      BY <2>1 DEF Entry
    <2>4. current \in Nat /\ current < started
      <3>1. initialized /\ current \in TestIds /\ tests[current] = 1
        BY <1>0 DEF InTest
      <3>2. StateOf(current) = 1
        BY <3>1 DEF ProgressInv
      <3> QED
        BY <3>1, <3>2 DEF StateOf, TestIds
    <2>5. r \in RecordType
      BY <1>0, <1>2, <2>1, <2>2, <2>4 DEF Entry, RecordType, NoSite
    <2>6. PICK n \in Nat : n = Len(records)
      OBVIOUS
    <2>7. /\ records' \in Seq(RecordType) /\ Entries' = 1 .. n + 1
          /\ \A i \in 1 .. n : records'[i] = records[i] /\ i \in Entries
          /\ records'[n + 1] = r /\ Len(records') = n + 1
      BY <1>2, <2>1, <2>5, <2>6 DEF Entries, TypeOK
    <2>8. LedgerTypes'
      <3>1. heap' \in [Keys -> (0 .. MaxU) \cup {Free}]
        BY <1>0, <1>2 DEF LedgerTypes
      <3>2. total' \in 0 .. MaxU /\ generation' \in 0 .. MaxU
        BY <1>2
      <3> QED
        BY <2>7, <3>1, <3>2 DEF LedgerTypes
    <2>9. RecordsInv'
      <3>1. \A i \in 1 .. n : GoodRecord(records[i])'
        <4> SUFFICES ASSUME NEW i \in 1 .. n PROVE GoodRecord(records[i])'
          OBVIOUS
        <4>1. records[i] \in RecordType /\ GoodRecord(records[i]) /\ records'[i] = records[i]
          BY <2>7 DEF RecordsInv
        <4> QED
          BY <1>0, <1>2, <4>1, SMTT(40) DEF GoodRecord, RecordType
      <3>2. GoodRecord(records[n + 1])'
        BY <1>0, <1>2, <2>3, <2>4, <2>7, SMTT(40) DEF GoodRecord
      <3>3. \A i \in 1 .. n : records[i].generation \in Nat /\ records[i].generation < r.generation
        <4> SUFFICES ASSUME NEW i \in 1 .. n
                     PROVE  records[i].generation \in Nat /\ records[i].generation < r.generation
          OBVIOUS
        <4>1. records[i] \in RecordType /\ GoodRecord(records[i])
          BY <2>7 DEF RecordsInv
        <4>2. records[i].generation \in Nat /\ records[i].generation <= generation
          BY <4>1 DEF RecordType, GoodRecord
        <4> QED
          BY <2>3, <4>2
      <3>4. \A i, j \in 1 .. n + 1 : i < j => (records[i].generation)' < (records[j].generation)'
        <4> SUFFICES ASSUME NEW i \in 1 .. n + 1, NEW j \in 1 .. n + 1, i < j
                     PROVE  (records[i].generation)' < (records[j].generation)'
          OBVIOUS
        <4>1. i \in 1 .. n /\ (j = n + 1 \/ j \in 1 .. n)
          OBVIOUS
        <4> QED
          BY <2>7, <3>3, <4>1 DEF RecordsInv
      <3>5. \A i \in 1 .. n + 1 : i = n + 1 \/ i \in 1 .. n
        OBVIOUS
      <3>6. n + 1 <= MaxRecords
        BY <1>2, <2>6, LedgerAssumption DEF RecordsInv
      <3> QED
        BY <2>7, <3>1, <3>2, <3>4, <3>5, <3>6 DEF RecordsInv
    <2>10. LedgerIsHeap'
      <3>0. \A i \in 1 .. n + 1 : i = n + 1 \/ i \in 1 .. n
        OBVIOUS
      <3>1. \A i \in 1 .. n : records[i].key # k
        BY <2>2, <2>7 DEF Recorded, Indexes
      <3>2. \A x \in Keys : heap'[x] = (IF x = k THEN bytes ELSE heap[x]) /\ bytes # Free
        BY <1>0, <1>2 DEF LedgerTypes, Free
      <3>3. \A x \in Keys : Recorded(x)' <=> (x = k \/ Recorded(x))
        BY <2>3, <2>6, <2>7, <3>0 DEF Recorded, Indexes
      <3>4. \A x \in Keys : (heap[x] = Free)' <=> ~ Recorded(x)'
        BY <3>2, <3>3 DEF LedgerIsHeap
      <3>5. \A i \in 1 .. n + 1 : (records[i].bytes = heap[records[i].key])'
        <4>1. \A i \in 1 .. n : records[i].bytes = heap[records[i].key] /\ records[i].key \in Keys
          BY <2>7 DEF LedgerIsHeap, RecordType
        <4> QED
          BY <2>2, <2>3, <2>7, <3>0, <3>1, <3>2, <4>1, SMTT(40)
      <3>6. \A i, j \in 1 .. n + 1 : (records[i].key = records[j].key)' => i = j
        <4> SUFFICES ASSUME NEW i \in 1 .. n + 1, NEW j \in 1 .. n + 1, records'[i].key = records'[j].key
                     PROVE  i = j
          OBVIOUS
        <4>1. CASE i \in 1 .. n /\ j \in 1 .. n
          BY <2>7, <4>1 DEF LedgerIsHeap
        <4>2. CASE i = n + 1 /\ j \in 1 .. n
          BY <2>3, <2>7, <3>1, <4>2
        <4>3. CASE i \in 1 .. n /\ j = n + 1
          BY <2>3, <2>7, <3>1, <4>3
        <4> QED
          BY <3>0, <4>1, <4>2, <4>3
      <3> QED
        BY <2>7, <3>4, <3>5, <3>6 DEF LedgerIsHeap
    <2>11. TotalIsHeap'
      <3>1. LiveBytes([heap EXCEPT ![k] = bytes]) = LiveBytes(heap) + bytes
        BY <1>0, <2>2, LiveAdd, LiveIsRecorded DEF LedgerTypes
      <3>2. total = LiveBytes(heap)
        BY SumOfRecordsIsHeap
      <3>3. total' = LiveBytes(heap')
        BY <1>2, <3>1, <3>2
      <3> QED
        BY <3>3, NextTotal
    <2> QED
      BY <2>8, <2>9, <2>10, <2>11 DEF LedgerPart
  <1> QED
    BY <1>1, <1>2 DEF Entered

LEMMA MovedKeeps ==
  ASSUME LedgerInv, NEW k, NEW bytes, NEW site, Moved(k, bytes, site)
  PROVE  LedgerPart'
  <1> USE DEF LedgerInv
  <1> USE TypesOf
  <1>0. /\ LedgerTypes /\ UNCHANGED <<config, started, current>>
        /\ bytes \in 0 .. MaxU /\ bytes # 0 /\ site \in Nat /\ site < config.sites
        /\ Recorded(k) /\ RecordOf(k).domain = "heap"
    <2>1. LedgerTypes
      BY DEF TypeOK, LedgerTypes
    <2>2. UNCHANGED <<config, started, current>>
      BY DEF Moved, settings, progress
    <2>3. site \in SiteArgs /\ site < config.sites
      BY DEF Moved
    <2>4. site \in Nat
      BY <2>3 DEF SiteArgs
    <2> QED
      BY <2>1, <2>2, <2>3, <2>4 DEF Moved
  <1>1. CASE UNCHANGED <<heap, ledger>>
    <2>1. LedgerTypes' /\ RecordsInv'
      BY <1>0, <1>1 DEF LedgerTypes, RecordsInv, GoodRecord, Entries, ledger
    <2>2. LedgerIsHeap'
      BY <1>1 DEF ledger, LedgerIsHeap, Entries, Recorded, Indexes
    <2>3. TotalIsHeap'
      BY <1>1, NextTotal, SumOfRecordsIsHeap DEF ledger
    <2> QED
      BY <2>1, <2>2, <2>3 DEF LedgerPart
  <1>2. ASSUME NEW to \in FreeKeys \cup {k},
               total - RecordOf(k).bytes + bytes \in 0 .. MaxU,
               heap' = [[heap EXCEPT ![k] = Free] EXCEPT ![to] = bytes],
               records' = [records EXCEPT ![IndexOf(k)] =
                             [@ EXCEPT !.key = to, !.bytes = bytes, !.resize_site = site]],
               total' = total - RecordOf(k).bytes + bytes, UNCHANGED generation
        PROVE  LedgerPart'
    <2>1. PICK x : x = IndexOf(k)
      OBVIOUS
    <2>2. /\ x \in Entries /\ records[x].key = k /\ RecordOf(k) = records[x] /\ k \in Keys
          /\ \A i \in Entries : records[i].key = k => i = x
      BY <1>0, <2>1, IndexFacts DEF Indexes
    <2>3. PICK r : r = [records[x] EXCEPT !.key = to, !.bytes = bytes, !.resize_site = site]
      OBVIOUS
    <2>4. to \in Keys /\ (to = k \/ (heap[to] = Free /\ ~ Recorded(to)))
      BY <1>2, <2>2 DEF FreeKeys, LedgerIsHeap
    <2>5. records[x] \in RecordType /\ GoodRecord(records[x])
      BY <2>2 DEF RecordsInv
    <2>6. /\ r \in RecordType /\ r.key = to /\ r.bytes = bytes /\ r.resize_site = site
          /\ r.generation = records[x].generation /\ r.domain = "heap"
          /\ r.alloc_site = records[x].alloc_site /\ r.origin_test = records[x].origin_test
      BY <1>0, <2>2, <2>3, <2>4, <2>5 DEF RecordType
    <2>7. /\ records' \in Seq(RecordType) /\ Entries' = Entries /\ Len(records') = Len(records)
          /\ records'[x] = r /\ \A i \in Entries : i # x => records'[i] = records[i]
      BY <1>0, <1>2, <2>1, <2>2, <2>3, <2>6 DEF Entries, LedgerTypes
    <2>8. LedgerTypes'
      <3>1. heap' \in [Keys -> (0 .. MaxU) \cup {Free}]
        BY <1>0, <1>2 DEF LedgerTypes
      <3> QED
        BY <1>0, <1>2, <2>7, <3>1 DEF LedgerTypes
    <2>9. RecordsInv'
      <3>1. \A i \in Entries : GoodRecord(records[i])'
        <4> SUFFICES ASSUME NEW i \in Entries PROVE GoodRecord(records[i])'
          OBVIOUS
        <4>1. CASE i = x
          BY <1>0, <1>2, <2>5, <2>6, <2>7, <4>1 DEF GoodRecord, NoSite
        <4>2. CASE i # x
          BY <1>0, <1>2, <2>7, <4>2 DEF RecordsInv, GoodRecord
        <4> QED
          BY <4>1, <4>2
      <3>2. \A i \in Entries : records'[i].generation = records[i].generation
        BY <2>6, <2>7
      <3>3. \A i, j \in Entries : i < j => records'[i].generation < records'[j].generation
        BY <3>2 DEF RecordsInv
      <3> QED
        BY <2>7, <3>1, <3>3 DEF RecordsInv
    <2>10. LedgerIsHeap'
      <3>1. \A y \in Keys : heap'[y] = (IF y = to THEN bytes ELSE IF y = k THEN Free ELSE heap[y])
        BY <1>0, <1>2, <2>2, <2>4 DEF LedgerTypes
      <3>2. bytes # Free
        BY <1>0 DEF Free
      <3>3. \A y \in Keys : Recorded(y)' <=> (y = to \/ (y # k /\ Recorded(y)))
        <4> SUFFICES ASSUME NEW y \in Keys PROVE Recorded(y)' <=> (y = to \/ (y # k /\ Recorded(y)))
          OBVIOUS
        <4>1. Recorded(y)' <=> \E i \in Entries : records'[i].key = y
          BY <2>7 DEF Recorded, Indexes
        <4>2. Recorded(y) <=> \E i \in Entries : records[i].key = y
          BY DEF Recorded, Indexes
        <4> QED
          BY <2>2, <2>6, <2>7, <4>1, <4>2
      <3>4. \A y \in Keys : heap'[y] = Free <=> ~ Recorded(y)'
        BY <2>2, <2>4, <3>1, <3>2, <3>3 DEF LedgerIsHeap
      <3>5. \A i \in Entries : i # x => records[i].key # k /\ records[i].key # to /\ records[i].key \in Keys
        BY <2>2, <2>4 DEF Recorded, Indexes, RecordType
      <3>6. \A i \in Entries : records'[i].bytes = heap'[records'[i].key]
        <4> SUFFICES ASSUME NEW i \in Entries PROVE records'[i].bytes = heap'[records'[i].key]
          OBVIOUS
        <4>1. CASE i = x
          BY <2>4, <2>6, <2>7, <3>1, <4>1
        <4>2. CASE i # x
          BY <2>7, <3>1, <3>5, <4>2 DEF LedgerIsHeap
        <4> QED
          BY <4>1, <4>2
      <3>7. \A i, j \in Entries : records'[i].key = records'[j].key => i = j
        <4> SUFFICES ASSUME NEW i \in Entries, NEW j \in Entries, records'[i].key = records'[j].key
                     PROVE  i = j
          OBVIOUS
        <4>1. CASE i # x /\ j # x
          BY <2>7, <4>1 DEF LedgerIsHeap
        <4>2. CASE i = x \/ j = x
          BY <2>6, <2>7, <3>5, <4>2
        <4> QED
          BY <4>1, <4>2
      <3> QED
        BY <2>7, <3>4, <3>6, <3>7 DEF LedgerIsHeap
    <2>11. TotalIsHeap'
      <3> DEFINE g == [heap EXCEPT ![k] = Free]
      <3>1. k \in Live(heap) /\ RecordOf(k).bytes = heap[k] /\ heap[k] \in Nat
        BY <1>0, BlockWithinTotal
      <3>2. IsFiniteSet(Live(g)) /\ LiveBytes(g) = LiveBytes(heap) - heap[k]
        BY <1>0, <3>1, LiveDrop, LiveIsRecorded DEF LedgerTypes
      <3>3. g \in [Keys -> (0 .. MaxU) \cup {Free}] /\ g[to] = Free
        BY <1>0, <2>2, <2>4 DEF LedgerTypes
      <3>4. heap' = [g EXCEPT ![to] = bytes]
        BY <1>2
      <3> HIDE DEF g
      <3>5. LiveBytes([g EXCEPT ![to] = bytes]) = LiveBytes(g) + bytes
        BY <1>0, <2>4, <3>2, <3>3, LiveAdd
      <3>6. total = LiveBytes(heap)
        BY SumOfRecordsIsHeap
      <3>7. total' = LiveBytes(heap')
        BY <1>2, <3>1, <3>2, <3>4, <3>5, <3>6
      <3> QED
        BY <3>7, NextTotal
    <2> QED
      BY <2>8, <2>9, <2>10, <2>11 DEF LedgerPart
  <1> QED
    BY <1>1, <1>2 DEF Moved

\* Where the records are after one of them was taken out.
LEMMA CompactFacts ==
  ASSUME TypeOK, NEW x \in Entries, records' = Compact(x)
  PROVE  /\ records' \in Seq(RecordType) /\ Entries' = 1 .. Len(records) - 1
         /\ Len(records') = Len(records) - 1
         /\ \A j \in Entries' : \E i \in Entries :
              i # x /\ records'[j] = records[i] /\ i = (IF j < x THEN j ELSE j + 1)
         /\ \A i \in Entries : i # x =>
              \E j \in Entries' : records'[j] = records[i] /\ i = (IF j < x THEN j ELSE j + 1)
  <1> USE TypesOf
  <1>1. PICK n \in Nat : n = Len(records)
    OBVIOUS
  <1>2. x \in 1 .. n /\ n - 1 \in Nat
    BY <1>1
  <1>3. \A j \in 1 .. n - 1 : (IF j < x THEN j ELSE j + 1) \in (1 .. n) \ {x}
    BY <1>2
  <1>4. \A i \in 1 .. n : i # x => /\ i < x => i \in 1 .. n - 1
                                   /\ ~ (i < x) => i - 1 \in 1 .. n - 1 /\ ~ (i - 1 < x) /\ i - 1 + 1 = i
    BY <1>2
  <1>5. records' = [j \in 1 .. n - 1 |-> IF j < x THEN records[j] ELSE records[j + 1]]
    BY <1>1 DEF Compact
  <1>6. \A j \in 1 .. n - 1 : records'[j] = records[IF j < x THEN j ELSE j + 1]
    BY <1>5
  <1>7. \A j \in 1 .. n - 1 : (IF j < x THEN records[j] ELSE records[j + 1]) \in RecordType
    BY <1>1, <1>3
  <1>8. records' \in Seq(RecordType) /\ Len(records') = n - 1 /\ Entries' = 1 .. n - 1
    BY <1>2, <1>5, <1>7 DEF Entries
  <1>9. \A j \in 1 .. n - 1 : \E i \in 1 .. n :
          i # x /\ records'[j] = records[i] /\ i = (IF j < x THEN j ELSE j + 1)
    BY <1>3, <1>6
  <1>10. \A i \in 1 .. n : i # x =>
           \E j \in 1 .. n - 1 : records'[j] = records[i] /\ i = (IF j < x THEN j ELSE j + 1)
    <2> SUFFICES ASSUME NEW i \in 1 .. n, i # x
                 PROVE  \E j \in 1 .. n - 1 : records'[j] = records[i] /\ i = (IF j < x THEN j ELSE j + 1)
      OBVIOUS
    <2>1. CASE i < x
      BY <1>4, <1>6, <2>1
    <2>2. CASE ~ (i < x)
      BY <1>4, <1>6, <2>2
    <2> QED
      BY <2>1, <2>2
  <1> QED
    BY <1>1, <1>8, <1>9, <1>10

LEMMA RemovedKeeps ==
  ASSUME LedgerInv, NEW k, Removed(k)
  PROVE  LedgerPart'
  <1> USE DEF LedgerInv
  <1> USE TypesOf
  <1>0. /\ LedgerTypes /\ UNCHANGED <<config, started, current, generation>> /\ Recorded(k)
        /\ heap' = [heap EXCEPT ![k] = Free] /\ total' = total - RecordOf(k).bytes
        /\ records' = Compact(IndexOf(k))
    BY DEF TypeOK, LedgerTypes, Removed, settings, progress
  <1>1. PICK x : x = IndexOf(k)
    OBVIOUS
  <1>2. /\ x \in Entries /\ records[x].key = k /\ RecordOf(k) = records[x] /\ k \in Keys
        /\ \A i \in Entries : records[i].key = k => i = x
    BY <1>0, <1>1, IndexFacts DEF Indexes
  <1>3. /\ records' \in Seq(RecordType) /\ Entries' = 1 .. Len(records) - 1
        /\ Len(records') = Len(records) - 1
        /\ \A j \in Entries' : \E i \in Entries :
             i # x /\ records'[j] = records[i] /\ i = (IF j < x THEN j ELSE j + 1)
        /\ \A i \in Entries : i # x =>
             \E j \in Entries' : records'[j] = records[i] /\ i = (IF j < x THEN j ELSE j + 1)
    BY <1>0, <1>1, <1>2, CompactFacts
  <1>4. /\ RecordOf(k).bytes \in Nat /\ RecordOf(k).bytes <= total
        /\ RecordOf(k).bytes = heap[k] /\ k \in Live(heap)
    BY <1>0, BlockWithinTotal
  <1>5. LedgerTypes'
    <2>1. heap' \in [Keys -> (0 .. MaxU) \cup {Free}]
      BY <1>0 DEF LedgerTypes
    <2>2. total' \in 0 .. MaxU
      BY <1>0, <1>4
    <2> QED
      BY <1>0, <1>3, <2>1, <2>2 DEF LedgerTypes
  <1>6. RecordsInv'
    <2>1. \A j \in Entries' : GoodRecord(records[j])'
      <3> SUFFICES ASSUME NEW j \in Entries' PROVE GoodRecord(records[j])'
        OBVIOUS
      <3>1. PICK i \in Entries : records'[j] = records[i]
        BY <1>3
      <3> QED
        BY <1>0, <3>1 DEF RecordsInv, GoodRecord
    <2>2. \A j, l \in Entries' : j < l => records'[j].generation < records'[l].generation
      <3> SUFFICES ASSUME NEW j \in Entries', NEW l \in Entries', j < l
                   PROVE  records'[j].generation < records'[l].generation
        OBVIOUS
      <3>1. PICK i \in Entries : records'[j] = records[i] /\ i = (IF j < x THEN j ELSE j + 1)
        BY <1>3
      <3>2. PICK m \in Entries : records'[l] = records[m] /\ m = (IF l < x THEN l ELSE l + 1)
        BY <1>3
      <3>3. j \in Nat /\ l \in Nat /\ x \in Nat
        <4>1. \A y \in Entries' : y \in Nat
          BY <1>3
        <4>2. \A y \in Entries : y \in Nat
          OBVIOUS
        <4> QED
          BY <1>2, <4>1, <4>2
      <3>4. i < m
        BY <3>1, <3>2, <3>3
      <3> QED
        BY <3>1, <3>2, <3>4 DEF RecordsInv
    <2>3. Len(records') <= MaxRecords
      BY <1>3, LedgerAssumption DEF RecordsInv
    <2> QED
      BY <2>1, <2>2, <2>3 DEF RecordsInv
  <1>7. LedgerIsHeap'
    <2>1. \A y \in Keys : heap'[y] = (IF y = k THEN Free ELSE heap[y])
      BY <1>0 DEF LedgerTypes
    <2>2. \A y \in Keys : Recorded(y)' <=> (y # k /\ Recorded(y))
      <3> SUFFICES ASSUME NEW y \in Keys PROVE Recorded(y)' <=> (y # k /\ Recorded(y))
        OBVIOUS
      <3>1. Recorded(y)' <=> \E j \in Entries' : records'[j].key = y
        BY DEF Recorded, Indexes
      <3>2. Recorded(y) <=> \E i \in Entries : records[i].key = y
        BY DEF Recorded, Indexes
      <3>3. \A j \in Entries' : \E i \in Entries : i # x /\ records'[j] = records[i]
        BY <1>3
      <3>4. \A i \in Entries : i # x => \E j \in Entries' : records'[j] = records[i]
        BY <1>3
      <3> QED
        BY <1>2, <3>1, <3>2, <3>3, <3>4
    <2>3. \A y \in Keys : heap'[y] = Free <=> ~ Recorded(y)'
      BY <2>1, <2>2 DEF LedgerIsHeap
    <2>4. \A j \in Entries' : records'[j].bytes = heap'[records'[j].key]
      <3> SUFFICES ASSUME NEW j \in Entries' PROVE records'[j].bytes = heap'[records'[j].key]
        OBVIOUS
      <3>1. PICK i \in Entries : i # x /\ records'[j] = records[i]
        BY <1>3
      <3>2. records[i].key # k /\ records[i].key \in Keys /\ records[i].bytes = heap[records[i].key]
        BY <1>2, <3>1 DEF LedgerIsHeap, RecordType
      <3> QED
        BY <2>1, <3>1, <3>2
    <2>5. \A j, l \in Entries' : records'[j].key = records'[l].key => j = l
      <3> SUFFICES ASSUME NEW j \in Entries', NEW l \in Entries', records'[j].key = records'[l].key
                   PROVE  j = l
        OBVIOUS
      <3>1. PICK i \in Entries : records'[j] = records[i] /\ i = (IF j < x THEN j ELSE j + 1)
        BY <1>3
      <3>2. PICK m \in Entries : records'[l] = records[m] /\ m = (IF l < x THEN l ELSE l + 1)
        BY <1>3
      <3>3. i = m
        BY <3>1, <3>2 DEF LedgerIsHeap
      <3>4. j \in Nat /\ l \in Nat /\ x \in Nat
        BY <1>2, <1>3
      <3> QED
        BY <3>1, <3>2, <3>3, <3>4
    <2> QED
      BY <2>3, <2>4, <2>5 DEF LedgerIsHeap
  <1>8. TotalIsHeap'
    <2>1. LiveBytes([heap EXCEPT ![k] = Free]) = LiveBytes(heap) - heap[k]
      BY <1>0, <1>4, LiveDrop, LiveIsRecorded DEF LedgerTypes
    <2>2. total = LiveBytes(heap)
      BY SumOfRecordsIsHeap
    <2>3. total' = LiveBytes(heap')
      BY <1>0, <1>4, <2>1, <2>2
    <2> QED
      BY <2>3, NextTotal
  <1> QED
    BY <1>5, <1>6, <1>7, <1>8 DEF LedgerPart

LEMMA LedgerKept ==
  ASSUME LedgerInv, Next
  PROVE  LedgerPart'
  <1> USE DEF LedgerInv
  <1>0. LedgerTypes
    BY DEF TypeOK, LedgerTypes
  <1>1. ASSUME UNCHANGED <<ledger, heap>>, started' \in Nat, started <= started',
               config' = config \/ records = << >>
        PROVE  LedgerPart'
    <2>1. LedgerTypes' /\ LedgerIsHeap'
      BY <1>0, <1>1 DEF LedgerTypes, LedgerIsHeap, Entries, Recorded, Indexes, ledger
    <2>2. RecordsInv'
      <3>1. CASE config' = config
        <4>1. \A i \in Entries : GoodRecord(records[i])'
          BY <1>1, <3>1, TypesOf DEF RecordsInv, GoodRecord, RecordType, ledger
        <4> QED
          BY <1>1, <4>1 DEF RecordsInv, Entries, ledger
      <3>2. CASE records = << >>
        BY <1>1, <3>2 DEF RecordsInv, Entries, ledger
      <3> QED
        BY <1>1, <3>1, <3>2
    <2>3. TotalIsHeap'
      BY <1>1, NextTotal, SumOfRecordsIsHeap DEF ledger
    <2> QED
      BY <2>1, <2>2, <2>3 DEF LedgerPart
  <1>2. CASE Quiet
    BY <1>1, <1>2, QuietLeaves, TypesOf DEF settings, progress
  <1>3. ASSUME NEW c \in Configs, NEW p \in BOOLEAN, ObsInit(c, p)
        PROVE  LedgerPart'
    <2>1. ~ initialized /\ UNCHANGED <<started, ledger, heap>>
      BY <1>3, InitOnce
    <2>2. records = << >> /\ started' \in Nat /\ started <= started'
      BY <2>1, TypesOf DEF Pristine
    <2> QED
      BY <1>1, <2>1, <2>2
  <1>4. ASSUME NEW t, NEW l, Started(t) \/ Ended(t) \/ Covered(l)
        PROVE  LedgerPart'
    BY <1>1, <1>4, TypesOf DEF Started, Ended, Covered, settings
  <1>5. Quiet \/ Measuring
    BY Steps
  <1> QED
    BY <1>2, <1>3, <1>4, <1>5, EnteredKeeps, MovedKeeps, RemovedKeeps DEF Measuring

-------------------------------------------------------------------------------
(* The end of the suite *)

\* The part of the type invariant that is about the end and the report.
EndTypes ==
  /\ finalized \in BOOLEAN /\ endpoint \in BOOLEAN /\ failed \in BOOLEAN /\ written \in BOOLEAN
  /\ reason \in Reasons
  /\ pc \in {"suite", "open", "write", "close", "ended"}
  /\ mode \in {"abort", "finish"} /\ ret \in {0, 1}
  /\ file \in {"none", "foreign", "ours"} /\ left \in 0 .. ReportLen
  /\ exit \in {"none", "zero", "nonzero", "signal"}

TypeParts == TestTypes /\ LedgerTypes /\ EndTypes

LEMMA TypeIsParts ==
  TypeOK <=> TypeParts
  BY DEF TypeOK, TypeParts, TestTypes, LedgerTypes, EndTypes

LEMMA NextTypeIsParts ==
  TypeParts' => TypeOK'
  BY DEF TypeOK, TypeParts, TestTypes, LedgerTypes, EndTypes, TestIds

\* What is measured changes while the suite runs and nothing has failed.
LEMMA MeasuringLeaves ==
  ASSUME Measuring
  PROVE  \/ \E c \in Configs, p \in BOOLEAN : ObsInit(c, p)
         \/ /\ pc = "suite" /\ reason = "ok" /\ initialized /\ ~ finalized
            /\ UNCHANGED <<settings, reason, ending, process, output>>
            /\ started' = started \/ started' = started + 1
  <1>1. ASSUME NEW t, Started(t) \/ Ended(t)
        PROVE  /\ pc = "suite" /\ reason = "ok" /\ initialized /\ ~ finalized
               /\ UNCHANGED <<settings, reason, ending, process, output>>
               /\ started' = started \/ started' = started + 1
    BY <1>1 DEF Started, Ended
  <1>2. ASSUME NEW l, Covered(l)
        PROVE  /\ pc = "suite" /\ reason = "ok" /\ initialized /\ ~ finalized
               /\ UNCHANGED <<settings, reason, ending, process, output>> /\ started' = started
    BY <1>2 DEF Covered, InTest
  <1>3. ASSUME NEW k, NEW b, NEW s, NEW d, Entered(b, s, d) \/ Moved(k, b, s) \/ Removed(k)
        PROVE  /\ pc = "suite" /\ reason = "ok" /\ initialized /\ ~ finalized
               /\ UNCHANGED <<settings, reason, ending, process, output>> /\ started' = started
    BY <1>3 DEF Entered, Moved, Removed, InTest, progress
  <1> QED
    BY <1>1, <1>2, <1>3 DEF Measuring

\* Why finish fails, and when it does not.
LEMMA FinishTold ==
  ASSUME TypeOK, ProgressInv, RecordsInv, LedgerIsHeap, TotalIsHeap, NeverCorrupted
  PROVE  /\ FinishCheck \in Reasons \ {"corrupted", "duplicate"}
         /\ FinishCheck = "ok" => initialized /\ Audit /\ SuiteDone /\ reason = "ok"
  BY AuditFindsNothing DEF FinishCheck, TypeOK, NeverCorrupted, Reasons

LEMMA EndKept ==
  ASSUME LedgerInv, Next
  PROVE  EndTypes' /\ NeverCorrupted' /\ EndInv'
  <1> USE DEF LedgerInv
  <1>0. EndTypes /\ initialized \in BOOLEAN /\ started \in Nat /\ ReportLen \in Nat \ {0}
    BY TypesOf, TypeIsParts, LedgerAssumption DEF TypeParts
  <1>1. ASSUME UNCHANGED <<settings, progress, ending>>
        PROVE  SuiteDone' = SuiteDone /\ UNCHANGED <<finalized, endpoint, failed, initialized, started>>
    BY <1>1 DEF SuiteDone, settings, progress, ending
  <1>2. CASE Refused
    <2>1. PICK why \in Reasons \ {"ok", "corrupted", "duplicate"} : Refuse(why)
      BY <1>2 DEF Refused
    <2>2. /\ pc = "suite" /\ reason' = (IF reason = "ok" THEN why ELSE reason)
          /\ pc' = "open" /\ mode' = "abort"
          /\ UNCHANGED <<settings, ending, progress, written, ret, exit, output>>
      BY <2>1 DEF Refuse, Abort, Sticky
    <2>3. EndTypes' /\ NeverCorrupted'
      BY <1>0, <2>2 DEF EndTypes, NeverCorrupted, ending, output
    <2>4. EndInv'
      BY <1>1, <2>2 DEF EndInv, Publishing
    <2> QED
      BY <2>3, <2>4
  <1>3. CASE FinishAgain
    <2>1. /\ pc = "suite" /\ finalized /\ reason' = (IF reason = "ok" THEN "lifecycle" ELSE reason)
          /\ ret' = 1 /\ UNCHANGED <<settings, ending, progress, pc, mode, written, exit, output>>
      BY <1>3 DEF FinishAgain, Sticky
    <2>2. EndTypes' /\ NeverCorrupted'
      BY <1>0, <2>1 DEF EndTypes, NeverCorrupted, Reasons, ending, output
    <2>3. EndInv'
      BY <1>1, <2>1 DEF EndInv, Publishing
    <2> QED
      BY <2>2, <2>3
  <1>4. ASSUME NEW f \in FailedArgs, Finish(f)
        PROVE  EndTypes' /\ NeverCorrupted' /\ EndInv'
    <2>1. /\ pc = "suite" /\ ~ finalized /\ finalized' = initialized /\ failed' = (initialized /\ f)
          /\ endpoint' = (initialized /\ Audit /\ SuiteDone)
          /\ reason' = (IF reason = "ok" THEN FinishCheck ELSE reason)
          /\ pc' = "open" /\ mode' = "finish"
          /\ UNCHANGED <<settings, progress, written, ret, exit, output>>
      BY <1>4 DEF Finish, Sticky
    <2>2. f \in BOOLEAN /\ (f => started # 0)
      BY DEF FailedArgs
    <2>3. /\ FinishCheck \in Reasons \ {"corrupted", "duplicate"}
          /\ FinishCheck = "ok" => initialized /\ Audit /\ SuiteDone /\ reason = "ok"
      BY FinishTold
    <2>4. SuiteDone' = SuiteDone /\ UNCHANGED <<initialized, started>>
      BY <2>1 DEF SuiteDone, settings, progress
    <2>5. Audit \in BOOLEAN /\ SuiteDone \in BOOLEAN
      BY DEF Audit, SuiteDone
    <2>6. EndTypes'
      BY <1>0, <2>1, <2>2, <2>3, <2>5 DEF EndTypes, output
    <2>7. NeverCorrupted'
      BY <2>1, <2>3 DEF NeverCorrupted
    <2>8. EndInv'
      BY <2>1, <2>2, <2>3, <2>4, <1>0 DEF EndInv, Publishing
    <2> QED
      BY <2>6, <2>7, <2>8
  <1>5. ASSUME NEW good \in BOOLEAN, Published(good),
               Publishing, UNCHANGED <<settings, ending, progress, mode, written, output>>
        PROVE  EndTypes' /\ NeverCorrupted' /\ EndInv'
    <2>1. /\ reason' = IF good \/ reason # "ok" THEN reason ELSE "io"
          /\ mode = "abort" => pc' = "ended" /\ exit' = "nonzero" /\ ret' = ret
          /\ mode # "abort" => pc' = "suite" /\ ret' = (IF reason' = "ok" THEN 0 ELSE 1) /\ exit' = exit
      BY <1>5 DEF Published, Sticky
    <2>2. EndTypes' /\ NeverCorrupted'
      BY <1>0, <1>5, <2>1 DEF EndTypes, NeverCorrupted, Reasons, ending, output
    <2>3. EndInv'
      BY <1>0, <1>1, <1>5, <2>1 DEF EndInv, Publishing, EndTypes
    <2> QED
      BY <2>2, <2>3
  <1>6. CASE Publication
    <2>1. CASE OpenFails
      BY <1>5, <2>1 DEF OpenFails, Publishing
    <2>2. ASSUME NEW closed \in BOOLEAN, Close(closed) PROVE EndTypes' /\ NeverCorrupted' /\ EndInv'
      <3>1. (written /\ closed) \in BOOLEAN
        OBVIOUS
      <3> QED
        BY <1>5, <2>2, <3>1 DEF Close, Publishing
    <2>3. CASE Open
      <3>1. /\ pc = "open" /\ file' = "ours" /\ left' = ReportLen /\ pc' \in {"write", "close"}
            /\ written' = Audit
            /\ UNCHANGED <<settings, reason, ending, progress, mode, ret, exit>>
        BY <2>3 DEF Open
      <3>2. EndTypes' /\ NeverCorrupted'
        BY <1>0, <3>1 DEF EndTypes, NeverCorrupted, ending, Audit
      <3> QED
        BY <1>1, <3>1, <3>2 DEF EndInv, Publishing
    <2>4. CASE WriteFails
      <3>1. /\ pc = "write" /\ pc' = "close" /\ written' = FALSE
            /\ UNCHANGED <<settings, reason, ending, progress, mode, ret, exit, output>>
        BY <2>4 DEF WriteFails
      <3>2. EndTypes' /\ NeverCorrupted'
        BY <1>0, <3>1 DEF EndTypes, NeverCorrupted, ending, output
      <3> QED
        BY <1>1, <3>1, <3>2 DEF EndInv, Publishing
    <2>5. ASSUME NEW n \in 0 .. ReportLen, Write(n) PROVE EndTypes' /\ NeverCorrupted' /\ EndInv'
      <3>1. /\ pc = "write" /\ left' = n /\ pc' \in {"write", "close"}
            /\ UNCHANGED <<settings, reason, ending, progress, mode, written, ret, exit, file>>
        BY <2>5 DEF Write
      <3>2. EndTypes' /\ NeverCorrupted'
        BY <1>0, <3>1 DEF EndTypes, NeverCorrupted, ending
      <3> QED
        BY <1>1, <3>1, <3>2 DEF EndInv, Publishing
    <2> QED
      BY <1>6, <2>1, <2>2, <2>3, <2>4, <2>5 DEF Publication
  <1>7. CASE (\E code \in {"zero", "nonzero"} : Exit(code)) \/ Killed
    <2>1. /\ pc' = "ended" /\ exit' \in {"zero", "nonzero", "signal"}
          /\ UNCHANGED <<settings, reason, ending, progress, mode, written, ret, output>>
      BY <1>7 DEF Exit, Killed
    <2>2. EndTypes' /\ NeverCorrupted'
      BY <1>0, <2>1 DEF EndTypes, NeverCorrupted, ending, output
    <2> QED
      BY <1>1, <2>1, <2>2 DEF EndInv, Publishing
  <1>8. ASSUME NEW c \in Configs, NEW p \in BOOLEAN, ObsInit(c, p)
        PROVE  EndTypes' /\ NeverCorrupted' /\ EndInv'
    <2>1. /\ pc = "suite" /\ ~ initialized /\ ~ finalized /\ reason = "ok" /\ initialized' = TRUE
          /\ \/ UNCHANGED <<reason, pc, mode>>
             \/ reason' = "configuration" /\ pc' = "open" /\ mode' = "abort"
          /\ UNCHANGED <<ending, started, written, ret, exit, output>>
      BY <1>8, InitOnce
    <2>2. EndTypes' /\ NeverCorrupted'
      BY <1>0, <2>1 DEF EndTypes, NeverCorrupted, Reasons, ending, output
    <2>3. EndInv'
      BY <2>1 DEF EndInv, Publishing, ending
    <2> QED
      BY <2>2, <2>3
  <1>9. ASSUME pc = "suite", reason = "ok", initialized, ~ finalized,
               UNCHANGED <<settings, reason, ending, process, output>>
        PROVE  EndTypes' /\ NeverCorrupted' /\ EndInv'
    <2>1. EndTypes' /\ NeverCorrupted'
      BY <1>0, <1>9 DEF EndTypes, NeverCorrupted, ending, process, output
    <2>2. EndInv'
      BY <1>9 DEF EndInv, Publishing, ending, process
    <2> QED
      BY <2>1, <2>2
  <1>10. Quiet \/ Measuring
    BY Steps
  <1> QED
    BY <1>2, <1>3, <1>4, <1>6, <1>7, <1>8, <1>9, <1>10, MeasuringLeaves DEF Quiet

-------------------------------------------------------------------------------
(* The report *)

LEMMA SnapshotFields ==
  /\ Snapshot.config = config /\ Snapshot.complete = (finalized /\ endpoint /\ reason = "ok")
  /\ Snapshot.reason = reason /\ Snapshot.endpoint = endpoint /\ Snapshot.failed = failed
  /\ Snapshot.tests = tests /\ Snapshot.started = started /\ Snapshot.completed = completed
  /\ Snapshot.hits = hits /\ Snapshot.records = records /\ Snapshot.total = total
  BY DEF Snapshot

\* What is about to be published is possible.
LEMMA SnapshotIsPlausible ==
  ASSUME LedgerInv, pc = "open", initialized
  PROVE  PlausibleReport(Snapshot)
  <1> USE DEF LedgerInv
  <1> USE TypesOf
  <1>1. PICK r : r = Snapshot
    OBVIOUS
  <1>2. /\ r.config = config /\ r.complete = (finalized /\ endpoint /\ reason = "ok")
        /\ r.reason = reason /\ r.endpoint = endpoint /\ r.failed = failed
        /\ r.tests = tests /\ r.started = started /\ r.completed = completed
        /\ r.hits = hits /\ r.records = records /\ r.total = total
    BY <1>1, SnapshotFields
  <1>3. /\ \A l \in r.hits : l < r.config.lines
        /\ r.completed <= r.started /\ r.started <= r.completed + 1 /\ r.started <= r.config.tests
        /\ r.started = 0 => ~ r.failed /\ r.hits = {}
        /\ r.hits # {} => r.config.coverage
    BY <1>2 DEF ProgressInv, EndInv
  <1>4. \A t \in 0 .. r.config.tests - 1 :
          r.tests[t] = (IF t < r.completed THEN 2 ELSE IF t < r.started THEN 1 ELSE 0)
    BY <1>2 DEF ProgressInv, StateOf, TestIds
  <1>5. r.endpoint => r.started = r.config.tests /\ r.completed = r.config.tests /\ r.config.tests > 0
    BY <1>2 DEF EndInv, SuiteDone
  <1>6. (r.complete <=> r.reason = "ok") /\ (r.complete => r.endpoint)
    <2>1. mode = "finish" \/ mode = "abort"
      BY DEF TypeOK
    <2> QED
      BY <1>2, <2>1 DEF EndInv, Publishing
  <1>7. \A i \in DOMAIN r.records :
          /\ r.records[i].generation > (IF i = 1 THEN 0 ELSE r.records[i - 1].generation)
          /\ r.records[i].alloc_site < r.config.sites
          /\ r.records[i].origin_test < r.started
          /\ r.records[i].domain = "slice" => r.records[i].resize_site = NoSite /\ r.records[i].bytes > 0
    <2> SUFFICES ASSUME NEW i \in Entries
                 PROVE  /\ records[i].generation > (IF i = 1 THEN 0 ELSE records[i - 1].generation)
                        /\ records[i].alloc_site < config.sites
                        /\ records[i].origin_test < started
                        /\ records[i].domain = "slice" => records[i].resize_site = NoSite /\ records[i].bytes > 0
      BY <1>2 DEF Entries
    <2>1. AuditRecord(i)
      BY AuditFindsNothing DEF Audit, AuditRecords
    <2>2. GoodRecord(records[i]) /\ records[i] \in RecordType
      BY DEF RecordsInv
    <2>3. records[i].bytes \in 0 .. MaxU
      BY <2>2 DEF RecordType
    <2> QED
      BY <2>1, <2>2, <2>3 DEF AuditRecord, GoodRecord
  <1>8. r.total = MapThenSumSet(LAMBDA i : r.records[i].bytes, DOMAIN r.records)
    <2>1. SumOfRecords = total
      BY SumOfRecordsIsHeap
    <2>2. IsFiniteSet(DOMAIN records)
      BY LiveIsRecorded DEF Entries
    <2>3. MapThenSumSet(LAMBDA i : r.records[i].bytes, DOMAIN r.records)
            = SumOf([i \in DOMAIN r.records |-> r.records[i].bytes], DOMAIN r.records)
      BY <1>2, <2>2, SumOfBytes
    <2>4. SumOfRecords = SumOf([i \in DOMAIN records |-> records[i].bytes], DOMAIN records)
      BY <2>2, SumOfBytes DEF SumOfRecords, Entries
    <2> QED
      BY <1>2, <2>1, <2>3, <2>4
  <1>9. PlausibleReport(r)
    BY <1>3, <1>4, <1>5, <1>6, <1>7, <1>8 DEF PlausibleReport
  <1> QED
    BY <1>1, <1>9

\* What is not opened, written or measured leaves the report as it was.
PublishedSame ==
  /\ UNCHANGED <<config, finalized, endpoint, failed, hits, ledger, file, report>>
  /\ initialized' = initialized

LEMMA PublishKept ==
  ASSUME LedgerInv, Next
  PROVE  PublishInv' /\ Pristine'
  <1> USE DEF LedgerInv
  <1>0. EndTypes
    BY TypeIsParts DEF TypeParts
  <1>1. ASSUME PublishedSame
        PROVE  /\ (file = "ours" =>
                     /\ initialized /\ report.config = config /\ PlausibleReport(report)
                     /\ report.complete => StillSo)'
               /\ UNCHANGED <<file, report>>
    BY <1>1 DEF PublishedSame, PublishInv, StillSo, ledger
  <1>2. ASSUME UNCHANGED <<settings, progress, ledger>>, finalized' => initialized', file' = "ours" => initialized'
        PROVE  Pristine'
    BY <1>2 DEF Pristine, settings, progress, ledger
  <1>3. CASE Refused
    <2>1. PICK why \in Reasons \ {"ok", "corrupted", "duplicate"} : Refuse(why)
      BY <1>3 DEF Refused
    <2>2. /\ pc = "suite" /\ reason' = (IF reason = "ok" THEN why ELSE reason) /\ pc' = "open"
          /\ UNCHANGED <<settings, ending, progress, ledger, written, ret, exit, output>>
      BY <2>1 DEF Refuse, Abort, Sticky
    <2>3. PublishedSame
      BY <2>2 DEF PublishedSame, settings, ending, progress, output
    <2>4. PublishInv'
      BY <1>1, <2>2, <2>3 DEF PublishInv, output
    <2> QED
      BY <1>2, <2>2, <2>4 DEF EndInv, PublishInv, settings, ending, output
  <1>4. CASE FinishAgain
    <2>1. /\ pc = "suite" /\ ret' = 1 /\ reason' = (IF reason = "ok" THEN "lifecycle" ELSE reason)
          /\ UNCHANGED <<settings, ending, progress, ledger, pc, written, output>>
      BY <1>4 DEF FinishAgain, Sticky
    <2>2. PublishedSame
      BY <2>1 DEF PublishedSame, settings, ending, progress, output
    <2>3. PublishInv'
      BY <1>1, <2>1, <2>2 DEF PublishInv, output
    <2> QED
      BY <1>2, <2>1, <2>3 DEF EndInv, PublishInv, settings, ending, output
  <1>5. ASSUME NEW f \in FailedArgs, Finish(f)
        PROVE  PublishInv' /\ Pristine'
    <2>1. /\ pc = "suite" /\ ~ finalized /\ finalized' = initialized /\ pc' = "open"
          /\ UNCHANGED <<settings, progress, ledger, written, ret, exit, output>>
      BY <1>5 DEF Finish
    <2>2. file = "ours" => ~ report.complete
      BY <2>1 DEF PublishInv, StillSo
    <2>3. PublishInv'
      BY <2>1, <2>2 DEF PublishInv, output, settings
    <2> QED
      BY <1>2, <2>1, <2>3 DEF PublishInv, settings, output
  <1>6. ASSUME NEW good \in BOOLEAN, Published(good), pc = "open" => ~ good, pc = "close" => (good => written),
               pc \in {"open", "close"},
               UNCHANGED <<settings, ending, progress, ledger, mode, written, output>>
        PROVE  PublishInv' /\ Pristine'
    <2>1. /\ reason' = IF good \/ reason # "ok" THEN reason ELSE "io"
          /\ pc' \in {"ended", "suite"}
          /\ ret' = ret \/ (mode # "abort" /\ ret' = (IF reason' = "ok" THEN 0 ELSE 1))
      BY <1>6 DEF Published, Sticky
    <2>2. PublishedSame
      BY <1>6 DEF PublishedSame, settings, ending, progress, output
    <2>3. PublishInv'
      <3>1. CASE ret' = ret
        BY <1>0, <1>1, <1>6, <2>1, <2>2, <3>1 DEF PublishInv, output, EndTypes
      <3>2. CASE ret' = (IF reason' = "ok" THEN 0 ELSE 1)
        <4>1. reason' = "ok" => good /\ reason = "ok" /\ pc = "close" /\ written
          BY <1>6, <2>1
        <4>2. ret' = 0 => (file = "ours" /\ left = 0 /\ report.complete)
          BY <3>2, <4>1 DEF PublishInv
        <4> QED
          BY <1>1, <1>6, <2>1, <2>2, <4>2 DEF PublishInv, output
      <3> QED
        BY <2>1, <3>1, <3>2
    <2> QED
      BY <1>2, <1>6, <2>3 DEF EndInv, PublishInv, settings, ending, output
  <1>7. CASE Publication
    <2>1. CASE OpenFails
      BY <1>6, <2>1 DEF OpenFails
    <2>2. ASSUME NEW closed \in BOOLEAN, Close(closed) PROVE PublishInv' /\ Pristine'
      <3>1. (written /\ closed) \in BOOLEAN /\ ((written /\ closed) => written)
        OBVIOUS
      <3> QED
        BY <1>6, <2>2, <3>1 DEF Close
    <2>3. CASE Open
      <3>1. /\ pc = "open" /\ initialized /\ file = "none" /\ file' = "ours" /\ left' = ReportLen
            /\ report' = Snapshot /\ written' = Audit
            /\ pc' = IF Audit THEN "write" ELSE "close"
            /\ UNCHANGED <<settings, reason, ending, progress, ledger, mode, ret>>
        BY <2>3 DEF Open
      <3>2. PlausibleReport(report')
        BY <3>1, SnapshotIsPlausible
      <3>3. /\ report'.config = config /\ report'.complete = (finalized /\ endpoint /\ reason = "ok")
            /\ report'.reason = reason /\ report'.failed = failed
            /\ report'.hits = hits /\ report'.records = records /\ report'.total = total
        BY <3>1, SnapshotFields
      <3>4. UNCHANGED <<config, initialized, finalized, endpoint, failed, hits, records, total>>
        BY <3>1 DEF settings, ending, progress, ledger
      <3>5. (report'.complete => StillSo')
        BY <3>3, <3>4 DEF StillSo
      <3>6. reason = "ok" => report'.complete
        BY <1>0, <3>1, <3>3 DEF EndInv, Publishing, EndTypes
      <3>7. PublishInv'
        BY <3>1, <3>2, <3>3, <3>4, <3>5, <3>6, AuditFindsNothing DEF PublishInv
      <3> QED
        BY <1>2, <3>1, <3>4, <3>7 DEF settings, progress, ledger
    <2>4. CASE WriteFails
      <3>1. /\ pc = "write" /\ pc' = "close" /\ written' = FALSE
            /\ UNCHANGED <<settings, reason, ending, progress, ledger, mode, ret, output>>
        BY <2>4 DEF WriteFails
      <3>2. PublishedSame
        BY <3>1 DEF PublishedSame, settings, ending, progress, output
      <3>3. PublishInv'
        BY <1>1, <3>1, <3>2 DEF PublishInv, output
      <3> QED
        BY <1>2, <3>1, <3>3 DEF EndInv, PublishInv, settings, ending, output
    <2>5. ASSUME NEW n \in 0 .. ReportLen, Write(n) PROVE PublishInv' /\ Pristine'
      <3>1. /\ pc = "write" /\ left' = n /\ pc' = (IF n = 0 THEN "close" ELSE "write")
            /\ UNCHANGED <<settings, reason, ending, progress, ledger, mode, written, ret, file, report>>
        BY <2>5 DEF Write
      <3>2. PublishedSame
        BY <3>1 DEF PublishedSame, settings, ending, progress
      <3>3. PublishInv'
        BY <1>1, <3>1, <3>2 DEF PublishInv
      <3> QED
        BY <1>2, <3>1, <3>3 DEF EndInv, PublishInv, settings, ending
    <2> QED
      BY <1>7, <2>1, <2>2, <2>3, <2>4, <2>5 DEF Publication
  <1>8. CASE (\E code \in {"zero", "nonzero"} : Exit(code)) \/ Killed
    <2>1. /\ pc' = "ended"
          /\ UNCHANGED <<settings, reason, ending, progress, ledger, mode, written, ret, output>>
      BY <1>8 DEF Exit, Killed
    <2>2. PublishedSame
      BY <2>1 DEF PublishedSame, settings, ending, progress, output
    <2>3. PublishInv'
      BY <1>1, <2>1, <2>2 DEF PublishInv, output
    <2> QED
      BY <1>2, <2>1, <2>3 DEF EndInv, PublishInv, settings, ending, output
  <1>9. ASSUME NEW c \in Configs, NEW p \in BOOLEAN, ObsInit(c, p)
        PROVE  PublishInv' /\ Pristine'
    <2>1. /\ pc = "suite" /\ ~ initialized /\ initialized' = TRUE
          /\ \/ UNCHANGED <<reason, pc, mode>>
             \/ reason' = "configuration" /\ pc' = "open" /\ mode' = "abort"
          /\ UNCHANGED <<written, ret, output>>
      BY <1>9, InitOnce
    <2>2. file # "ours" /\ file' = file
      BY <2>1 DEF Pristine, output
    <2>3. PublishInv'
      BY <2>1, <2>2 DEF PublishInv
    <2> QED
      BY <2>1, <2>3 DEF Pristine
  <1>10. ASSUME pc = "suite", initialized, ~ finalized,
                UNCHANGED <<settings, reason, ending, process, output>>
         PROVE  PublishInv' /\ Pristine'
    <2>1. file = "ours" => ~ report.complete
      BY <1>10 DEF PublishInv, StillSo
    <2>2. PublishInv'
      BY <1>10, <2>1 DEF PublishInv, settings, process, output
    <2> QED
      BY <1>10, <2>2 DEF Pristine, settings
  <1>11. Quiet \/ Measuring
    BY Steps
  <1> QED
    BY <1>3, <1>4, <1>5, <1>7, <1>8, <1>9, <1>10, <1>11, MeasuringLeaves DEF Quiet

-------------------------------------------------------------------------------
(* The ledger, the report and the first failure *)

LEMMA LedgerInvInit ==
  ASSUME Init
  PROVE  LedgerInv
  <1> USE LedgerAssumption
  <1>1. /\ config = [tests |-> 0, lines |-> 0, sites |-> 0, coverage |-> FALSE, admitted |-> FALSE]
        /\ initialized = FALSE /\ path = FALSE
        /\ reason = "ok" /\ finalized = FALSE /\ endpoint = FALSE /\ failed = FALSE
        /\ tests = [t \in {} |-> 0] /\ started = 0 /\ completed = 0 /\ current = 0 /\ hits = {}
        /\ records = << >> /\ total = 0 /\ generation = 0
        /\ heap = [k \in Keys |-> Free]
        /\ pc = "suite" /\ mode = "abort" /\ written = FALSE /\ ret = 1 /\ exit = "none"
        /\ file \in {"none", "foreign"} /\ left = 0
    BY DEF Init
  <1>2. config.tests = 0 /\ TestIds = {} /\ Entries = {} /\ Len(records) = 0
    BY <1>1 DEF TestIds, Entries
  <1>3. TestTypes
    BY <1>1, <1>2 DEF TestTypes, ConfigType
  <1>4. LedgerTypes
    BY <1>1 DEF LedgerTypes
  <1>5. EndTypes
    <2>1. 0 \in 0 .. ReportLen
      OBVIOUS
    <2>2. reason \in Reasons
      BY <1>1 DEF Reasons
    <2> QED
      BY <1>1, <2>1, <2>2 DEF EndTypes
  <1>6. Pristine /\ ProgressInv /\ RecordsInv /\ NeverCorrupted /\ EndInv /\ PublishInv
    BY <1>1, <1>2 DEF Pristine, ProgressInv, RecordsInv, NeverCorrupted, EndInv, Publishing, PublishInv
  <1>7. LedgerIsHeap
    BY <1>1, <1>2 DEF LedgerIsHeap, Recorded, Indexes
  <1>8. TotalIsHeap
    <2>1. Live(heap) = {}
      BY <1>1 DEF Live
    <2>2. IsFiniteSet({})
      BY FS_EmptySet
    <2>3. SumOf(heap, {}) = 0
      BY <2>2, SumStep
    <2> QED
      BY <1>1, <2>1, <2>3 DEF TotalIsHeap, Live, SumOf
  <1> QED
    BY <1>3, <1>4, <1>5, <1>6, <1>7, <1>8, TypeIsParts DEF LedgerInv, TypeParts

LEMMA LedgerInvNext ==
  ASSUME LedgerInv, Next
  PROVE  LedgerInv'
  <1>1. TypeOK'
    BY TestsKept, LedgerKept, EndKept, NextTypeIsParts DEF TypeParts, LedgerPart
  <1> QED
    BY <1>1, TestsKept, LedgerKept, EndKept, PublishKept DEF LedgerInv, LedgerPart

\* How a process ended that never became the image is nothing the ledger knows.
LEMMA LedgerInvExit ==
  ASSUME LedgerInv,
         UNCHANGED <<settings, reason, ending, progress, ledger, heap, pc, mode, written, ret, output>>,
         exit' \in {"none", "zero", "nonzero", "signal"}
  PROVE  LedgerInv'
  <1> USE DEF LedgerInv, settings, ending, progress, ledger, output
  <1>1. TestTypes' /\ LedgerTypes' /\ EndTypes'
    BY TypeIsParts DEF TypeParts, TestTypes, TestIds, LedgerTypes, EndTypes
  <1>2. TypeOK'
    BY <1>1, NextTypeIsParts DEF TypeParts
  <1>3. Pristine' /\ ProgressInv' /\ RecordsInv' /\ NeverCorrupted'
    BY DEF Pristine, ProgressInv, TestIds, StateOf, RecordsInv, GoodRecord, Entries, NeverCorrupted
  <1>4. LedgerIsHeap'
    BY DEF LedgerIsHeap, Entries, Recorded, Indexes
  <1>5. TotalIsHeap'
    BY NextTotal, SumOfRecordsIsHeap
  <1>6. EndInv' /\ PublishInv'
    BY DEF EndInv, SuiteDone, Publishing, PublishInv, StillSo
  <1> QED
    BY <1>2, <1>3, <1>4, <1>5, <1>6

LEMMA LedgerInvStep ==
  LedgerInv /\ [Next]_vars => LedgerInv'
  <1>1. ASSUME LedgerInv, UNCHANGED vars PROVE LedgerInv'
    <2>1. exit \in {"none", "zero", "nonzero", "signal"}
      BY <1>1 DEF LedgerInv, TypeOK
    <2> QED
      BY <1>1, <2>1, LedgerInvExit DEF vars, process
  <1> QED
    BY <1>1, LedgerInvNext

LEMMA LedgerInvSound ==
  LedgerInv => LedgerSound /\ ReportTrue
  <1> SUFFICES ASSUME LedgerInv PROVE LedgerSound /\ ReportTrue
    OBVIOUS
  <1>1. LedgerSound
    BY AuditFindsNothing DEF LedgerInv, LedgerSound, AuditPasses
  <1>2. ASSUME file = "ours", report.complete PROVE \A t \in TestIds : tests[t] = 2
    <2>1. initialized /\ SuiteDone
      BY <1>2 DEF LedgerInv, PublishInv, StillSo, EndInv
    <2> QED
      BY <2>1, TypesOf DEF LedgerInv, ProgressInv, SuiteDone, StateOf, TestIds
  <1> QED
    BY <1>1, <1>2 DEF LedgerInv, ReportTrue, CompleteReportTrue, SuccessMeansPublished, PublishInv, StillSo

\* Whatever calls the image makes, whichever of its allocations and of the
\* publication's system calls fail and wherever it is killed: the ledger passes
\* its audit at every point, records exactly the live blocks and their sizes,
\* totals them to the byte, and no call is ever refused as corrupted.
THEOREM LedgerAlwaysSound == Spec => []LedgerSound
  <1>1. Init => LedgerInv
    BY LedgerInvInit
  <1>2. LedgerInv /\ [Next]_vars => LedgerInv'
    BY LedgerInvStep
  <1> QED
    BY <1>1, <1>2, LedgerInvSound, PTL DEF Spec

\* A report that claims to be complete is the truth, then and ever after, and
\* finish returns 0 only when such a report is whole in the file.
THEOREM ReportAlwaysTrue == Spec => []ReportTrue
  <1>1. Init => LedgerInv
    BY LedgerInvInit
  <1>2. LedgerInv /\ [Next]_vars => LedgerInv'
    BY LedgerInvStep
  <1> QED
    BY <1>1, <1>2, LedgerInvSound, PTL DEF Spec

LEMMA FreezeStep ==
  ASSUME LedgerInv, Next, reason # "ok"
  PROVE  UNCHANGED <<reason, endpoint, progress, ledger, heap>>
  <1>1. Quiet
    BY Steps, MeasuringLeaves, InitOnce DEF LedgerInv
  <1>2. UNCHANGED <<progress, ledger, heap>>
    BY <1>1, QuietLeaves
  <1>3. UNCHANGED <<reason, endpoint>>
    <2>1. CASE Refused \/ FinishAgain \/ Publication
      BY <2>1 DEF Refused, Refuse, Abort, FinishAgain, Sticky, Publication, OpenFails, Open, WriteFails,
         Write, Close, Published, ending
    <2>2. ASSUME NEW f \in FailedArgs, Finish(f) PROVE UNCHANGED <<reason, endpoint>>
      <3>1. /\ pc = "suite" /\ ~ finalized /\ endpoint' = (initialized /\ Audit /\ SuiteDone) /\ reason' = reason
        BY <2>2 DEF Finish, Sticky
      <3>2. ~ initialized /\ endpoint = FALSE
        BY <3>1, TypesOf DEF LedgerInv, EndInv
      <3> QED
        BY <3>1, <3>2
    <2>3. CASE (\E code \in {"zero", "nonzero"} : Exit(code)) \/ Killed
      BY <2>3 DEF Exit, Killed, ending
    <2> QED
      BY <1>1, <2>1, <2>2, <2>3 DEF Quiet
  <1> QED
    BY <1>2, <1>3

\* After the first failure nothing changes what is measured, and the failure
\* that is reported stays the first.
THEOREM FailureFreezes == Spec => FrozenByFailure
  <1>1. Init => LedgerInv
    BY LedgerInvInit
  <1>2. LedgerInv /\ [Next]_vars => LedgerInv'
    BY LedgerInvStep
  <1>3. LedgerInv /\ [Next]_vars => [reason # "ok" => UNCHANGED <<reason, endpoint, progress, ledger, heap>>]_vars
    BY FreezeStep
  <1> QED
    BY <1>1, <1>2, <1>3, PTL DEF Spec, FrozenByFailure

-------------------------------------------------------------------------------
(* The verdict *)

\* A generated operation makes calls that any image might make.
LEMMA GeneratedCalls ==
  ASSUME NEW s \in SiteArgs, NEW R, NEW m, NEW D,
         R \subseteq Sizes \X Domains, D \subseteq Domains, AllocationAt(s, R, m, D)
  PROVE  AllocationAt(s, Sizes \X Domains, TRUE, Domains)
  BY DEF AllocationAt

LEMMA GeneratedIsNext ==
  ASSUME GeneratedNext
  PROVE  Next
  <1>1. ASSUME GeneratedAllocation PROVE Allocation
    <2>1. PICK s \in SiteArgs \cap DOMAIN Sites :
            AllocationAt(s, Requests(Sites[s]), Sites[s].kind = "mov", Releases(Sites[s]))
      BY <1>1 DEF GeneratedAllocation
    <2>2. Requests(Sites[s]) \subseteq Sizes \X Domains /\ Releases(Sites[s]) \subseteq Domains
      BY DEF Requests, Releases
    <2> QED
      BY <2>1, <2>2, GeneratedCalls DEF Allocation
  <1> QED
    BY <1>1 DEF GeneratedNext, Next

\* A whole number of elements is one.
LEMMA WholeElements ==
  ASSUME NEW n \in Nat, NEW w \in Nat \ {0}
  PROVE  (n * w) % w = 0 /\ (n * w) \div w = n
  <1> DEFINE q == (n * w) \div w
             r == (n * w) % w
  <1>1. q \in Int /\ r \in 0 .. w - 1 /\ n * w \in Int /\ n * w = w * q + r
    OBVIOUS
  <1> HIDE DEF q, r
  <1>2. w * (n - q) = r
    BY <1>1
  <1>3. PICK d \in Int : d = n - q /\ w * d = r
    BY <1>1, <1>2
  <1>4. d >= 1 => w * d >= w
    BY <1>3
  <1>5. d <= -1 => w * d <= -w
    BY <1>3
  <1>6. d = 0
    BY <1>1, <1>3, <1>4, <1>5
  <1>7. q = n /\ r = 0
    BY <1>1, <1>3, <1>6
  <1> QED
    BY <1>7 DEF q, r

\* What the sites of a generated image's records allow.
SitesAllow(rs) == \A i \in DOMAIN rs : SiteAllows(rs[i])
SitesInv ==
  generated => SitesAllow(records) /\ (file = "ours" => SitesAllow(report.records))

\* What a generated operation enters or resizes, its site allows.
LEMMA EntryAllowed ==
  ASSUME NEW s \in DOMAIN Sites, Sites[s].owner \in {NoTest, current}, NEW k, NEW b, NEW d \in Domains,
         <<b, d>> \in Requests(Sites[s]) \/ (Sites[s].kind = "mov" /\ d = "heap")
  PROVE  SiteAllows(Entry(k, b, s, d))
  <1>1. PICK e : e = Entry(k, b, s, d)
    OBVIOUS
  <1>2. /\ e.alloc_site = s /\ e.resize_site = NoSite /\ e.origin_test = current
        /\ e.domain = d /\ e.bytes = b
    BY <1>1 DEF Entry
  <1>3. ASSUME d = "heap" PROVE Sites[s].kind \in {"new", "mov"}
    BY <1>3 DEF Requests
  <1>4. ASSUME d = "slice" PROVE SliceBytes(Sites[s], b)
    <2>1. <<b, d>> \in Requests(Sites[s]) /\ d # "heap"
      BY <1>4
    <2>2. PICK n \in 1 .. MaxCount :
            /\ Sites[s].kind \in {"make", "positional"} /\ (Sites[s].kind = "positional" => n = Sites[s].items)
            /\ b = n * Sites[s].stride
      BY <2>1 DEF Requests
    <2>3. Sites[s].stride \in Nat \ {0} /\ n \in Nat /\ n > 0 /\ n <= MaxCount
      BY DriverAssumption DEF SiteType
    <2>4. b % Sites[s].stride = 0 /\ b \div Sites[s].stride = n
      BY <2>2, <2>3, WholeElements
    <2>5. b > 0
      BY <2>2, <2>3
    <2> QED
      BY <2>2, <2>3, <2>4, <2>5 DEF SliceBytes
  <1>5. d = "heap" => d # "slice"
    OBVIOUS
  <1>6. SiteAllows(e)
    BY <1>2, <1>3, <1>4 DEF SiteAllows
  <1> QED
    BY <1>1, <1>6

LEMMA ResizeAllowed ==
  ASSUME NEW s \in DOMAIN Sites, Sites[s].kind = "mov", NEW to, NEW b, NEW r \in RecordType,
         SiteAllows(r), r.domain = "heap"
  PROVE  SiteAllows([r EXCEPT !.key = to, !.bytes = b, !.resize_site = s])
  <1>1. PICK e : e = [r EXCEPT !.key = to, !.bytes = b, !.resize_site = s]
    OBVIOUS
  <1>2. e.alloc_site = r.alloc_site /\ e.resize_site = s /\ e.origin_test = r.origin_test /\ e.domain = "heap"
    BY <1>1 DEF RecordType
  <1>3. SiteAllows(e)
    BY <1>2 DEF SiteAllows
  <1> QED
    BY <1>1, <1>3

\* The calls that are generated keep the records to their sites.
LEMMA GeneratedKeeps ==
  ASSUME LedgerInv, SitesAllow(records), GeneratedNext
  PROVE  SitesAllow(records')
  <1> USE DEF LedgerInv
  <1> USE TypesOf
  <1>1. ASSUME UNCHANGED records PROVE SitesAllow(records')
    BY <1>1
  <1>2. ASSUME NEW why, Refuse(why) PROVE SitesAllow(records')
    BY <1>1, <1>2 DEF Refuse, ledger
  <1>3. CASE Lifecycle \/ Publication \/ (\E code \in {"zero", "nonzero"} : Exit(code)) \/ Killed
    <2>1. CASE Lifecycle
      BY <1>1, <2>1 DEF Lifecycle, ObsInit, TestBegin, TestEnd, Hit, Finish, FinishAgain, Refuse, ledger
    <2>2. CASE Publication
      BY <1>1, <2>2 DEF Publication, OpenFails, Open, WriteFails, Write, Close, ledger
    <2>3. CASE (\E code \in {"zero", "nonzero"} : Exit(code)) \/ Killed
      BY <1>1, <2>3 DEF Exit, Killed, ledger
    <2> QED
      BY <1>3, <2>1, <2>2, <2>3
  <1>4. ASSUME NEW s \in SiteArgs \cap DOMAIN Sites, Sites[s].owner \in {NoTest, current},
               NEW b, NEW d \in Domains, Entered(b, s, d),
               <<b, d>> \in Requests(Sites[s]) \/ (Sites[s].kind = "mov" /\ d = "heap")
        PROVE  SitesAllow(records')
    <2>1. CASE UNCHANGED <<heap, ledger>>
      BY <1>1, <2>1 DEF ledger
    <2>2. ASSUME NEW k \in FreeKeys, records' = Append(records, Entry(k, b, s, d))
          PROVE  SitesAllow(records')
      <3>1. SiteAllows(Entry(k, b, s, d))
        BY <1>4, EntryAllowed
      <3>2. PICK e : e = Entry(k, b, s, d)
        OBVIOUS
      <3>3. records' = Append(records, e) /\ records \in Seq(RecordType)
        BY <2>2, <3>2 DEF TypeOK
      <3>4. ASSUME NEW i \in DOMAIN records' PROVE records'[i] = e \/ (i \in DOMAIN records /\ records'[i] = records[i])
        BY <3>3
      <3>5. SiteAllows(e)
        BY <3>1, <3>2
      <3> QED
        BY <3>4, <3>5 DEF SitesAllow
    <2> QED
      BY <1>4, <2>1, <2>2 DEF Entered
  <1>5. ASSUME NEW s \in DOMAIN Sites, Sites[s].kind = "mov", NEW k, NEW b, Moved(k, b, s)
        PROVE  SitesAllow(records')
    <2>1. CASE UNCHANGED <<heap, ledger>>
      BY <1>1, <2>1 DEF ledger
    <2>2. ASSUME NEW to, records' = [records EXCEPT ![IndexOf(k)] =
                                       [@ EXCEPT !.key = to, !.bytes = b, !.resize_site = s]]
          PROVE  SitesAllow(records')
      <3>1. Recorded(k) /\ RecordOf(k).domain = "heap"
        BY <1>5 DEF Moved
      <3>2. PICK x : x = IndexOf(k)
        OBVIOUS
      <3>3. x \in DOMAIN records /\ records[x].domain = "heap"
        BY <3>1, <3>2, IndexFacts DEF Entries
      <3>4. records[x] \in RecordType
        BY <3>3 DEF TypeOK
      <3>5. PICK e : e = [records[x] EXCEPT !.key = to, !.bytes = b, !.resize_site = s]
        OBVIOUS
      <3>6. SiteAllows(e)
        BY <1>5, <3>3, <3>4, <3>5, ResizeAllowed DEF SitesAllow
      <3>7. records' = [records EXCEPT ![x] = e]
        BY <2>2, <3>2, <3>5
      <3>8. ASSUME NEW i \in DOMAIN records' PROVE records'[i] = e \/ (i \in DOMAIN records /\ records'[i] = records[i])
        BY <3>7
      <3> QED
        BY <3>6, <3>8 DEF SitesAllow
    <2> QED
      BY <1>5, <2>1, <2>2 DEF Moved
  <1>6. ASSUME NEW k, Removed(k) PROVE SitesAllow(records')
    <2>1. PICK x \in Entries : records' = Compact(x)
      BY <1>6, IndexFacts DEF Removed
    <2>2. \A j \in DOMAIN records' : \E i \in DOMAIN records : records'[j] = records[i]
      BY <2>1, CompactFacts DEF Entries
    <2> QED
      BY <2>2 DEF SitesAllow
  <1>7. CASE GeneratedAllocation
    <2>1. PICK s \in SiteArgs \cap DOMAIN Sites :
            /\ Sites[s].owner \in {NoTest, current}
            /\ AllocationAt(s, Requests(Sites[s]), Sites[s].kind = "mov", Releases(Sites[s]))
      BY <1>7 DEF GeneratedAllocation
    <2>2. ASSUME NEW q \in Requests(Sites[s]), New(q[1], s, q[2]) PROVE SitesAllow(records')
      <3>1. PICK b \in Sizes, d \in Domains : q = <<b, d>>
        BY DEF Requests
      <3>2. Entered(b, s, d)
        BY <2>2, <3>1, NewEnters
      <3> QED
        BY <1>4, <2>1, <3>1, <3>2
    <2>3. ASSUME Sites[s].kind = "mov", NEW b \in Sizes, MovNew(b, s) PROVE SitesAllow(records')
      BY <1>4, <2>1, <2>3, MovNewEnters DEF Domains
    <2>4. ASSUME Sites[s].kind = "mov", NEW k \in Keys, NEW b \in Sizes, MovOld(k, b, s)
          PROVE  SitesAllow(records')
      BY <1>5, <2>4, MovOldMoves
    <2>5. ASSUME NEW k, NEW d, Rem(k, s, d) PROVE SitesAllow(records')
      BY <1>6, <2>5, RemRemoves
    <2> QED
      BY <1>2, <2>1, <2>2, <2>3, <2>4, <2>5 DEF AllocationAt
  <1> QED
    BY <1>3, <1>7 DEF GeneratedNext

\* The report is what it was, or what the runtime has just recorded.
LEMMA ReportKept ==
  ASSUME LedgerInv, Next
  PROVE  UNCHANGED <<file, report>> \/ report' = Snapshot
  <1>1. CASE Quiet
    BY <1>1 DEF Quiet, Refused, Refuse, FinishAgain, Finish, Exit, Killed, Publication, OpenFails, Open,
       WriteFails, Write, Close, output
  <1>2. CASE Measuring
    BY <1>2 DEF Measuring, ObsInit, Started, Ended, Covered, Entered, Moved, Removed, output
  <1> QED
    BY <1>1, <1>2, Steps DEF LedgerInv

LEMMA SitesInvStep ==
  ASSUME LedgerInv, SitesInv, [DriverNext]_allVars
  PROVE  SitesInv'
  <1>1. ASSUME UNCHANGED <<records, file, report, generated>> PROVE SitesInv'
    BY <1>1 DEF SitesInv, SitesAllow, SiteAllows
  <1>2. CASE Image /\ generated
    <2>1. GeneratedNext /\ Next /\ generated' = generated
      BY <1>2, GeneratedIsNext DEF Image
    <2>2. SitesAllow(records')
      BY <1>2, <2>1, GeneratedKeeps DEF SitesInv
    <2>3. file' = "ours" => SitesAllow(report'.records)
      BY <1>2, <2>1, ReportKept, SnapshotFields DEF SitesInv
    <2> QED
      BY <2>2, <2>3 DEF SitesInv, SitesAllow, SiteAllows
  <1>3. CASE Image /\ ~ generated
    BY <1>3 DEF Image, SitesInv
  <1>4. CASE Driver \/ Exec \/ ExecFails \/ KilledBeforeExec \/ UNCHANGED allVars
    BY <1>1, <1>4 DEF Driver, LaunchFails, Launch, PipeRead, Wait, Judge, Exec, ExecFails, KilledBeforeExec,
       allVars, vars, driver, ledger, output
  <1> QED
    BY <1>2, <1>3, <1>4 DEF DriverNext

\* The driver judges a child that is gone, and nothing changes after it passes.
DriverInv ==
  /\ drv \in {"launch", "pipe", "wait", "read", "done"}
  /\ drv = "read" /\ launch = "ok" => child = "gone"
  /\ verdict = "pass" => drv = "done" /\ child = "gone"
  /\ VerdictSound

\* A report that claims to be complete tells of all the tests and what is live.
LEMMA CompleteTells ==
  ASSUME LedgerInv, file = "ours", report.complete
  PROVE  /\ report.config = config /\ report.reason = "ok" /\ report.endpoint
         /\ report.started = config.tests /\ report.completed = config.tests /\ config.tests > 0
         /\ report.failed = failed /\ report.total = total /\ report.hits = hits /\ report.records = records
         /\ \A t \in TestIds : tests[t] = 2
  BY LedgerInvSound DEF LedgerInv, PublishInv, PlausibleReport, StillSo, ReportTrue, CompleteReportTrue

\* The parser accepts what the runtime calls possible.
LEMMA ParserAgrees ==
  ASSUME LedgerInv, SitesInv
  PROVE  ReportsPlausible
  <1> SUFFICES ASSUME generated, WellFormed PROVE Plausible(report)
    BY DEF ReportsPlausible
  <1>1. PlausibleReport(report) /\ report.config = Expected
    BY DEF WellFormed, LedgerInv, PublishInv
  <1>2. PICK r : r = report
    OBVIOUS
  <1>3. PlausibleReport(r) /\ r.config = Expected /\ SitesAllow(r.records)
    BY <1>1, <1>2 DEF SitesInv, WellFormed
  <1>4. Plausible(r)
    BY <1>3 DEF PlausibleReport, Plausible, SitesAllow
  <1> QED
    BY <1>2, <1>4

LEMMA JudgeSound ==
  ASSUME LedgerInv, DriverInv, NEW bad, Judge(bad)
  PROVE  DriverInv'
  <1>1. /\ drv = "read" /\ drv' = "done" /\ UNCHANGED <<vars, child, launch>>
        /\ verdict' = IF ~ bad /\ Parsed /\ Status THEN "pass" ELSE "fail"
    BY DEF Judge
  <1>2. CASE Parsed /\ Status
    <2>1. /\ file = "ours" /\ report.config = Expected /\ report.complete /\ exit = "zero" /\ launch = "ok"
          /\ ~ report.failed /\ report.total <= MaxLeaked
          /\ Expected.coverage => CoveragePass(Cardinality(report.hits))
      BY <1>2 DEF Parsed, WellFormed, Status
    <2>2. /\ config = Expected /\ ~ failed /\ \A t \in TestIds : tests[t] = 2
          /\ report.total = total /\ report.hits = hits /\ report.records = records
      BY <2>1, CompleteTells
    <2>3. WithinLimits
      BY <2>1, <2>2 DEF WithinLimits, CoveragePass
    <2>4. \A i \in Entries : SiteAllows(records[i])
      BY <1>2, <2>2 DEF Parsed, Plausible, Entries
    <2>5. UNCHANGED <<exit, config, failed, tests, total, hits, records>>
      BY <1>1 DEF vars, settings, ending, progress, ledger, process
    <2>6. (/\ exit = "zero" /\ config = Expected /\ ~ failed /\ (\A t \in TestIds : tests[t] = 2) /\ WithinLimits
           /\ \A i \in Entries : SiteAllows(records[i]))'
      BY <2>1, <2>2, <2>3, <2>4, <2>5 DEF TestIds, WithinLimits, Entries, SiteAllows
    <2> QED
      BY <1>1, <2>1, <2>6 DEF DriverInv, VerdictSound
  <1>3. CASE ~ (Parsed /\ Status)
    BY <1>1, <1>3 DEF DriverInv, VerdictSound
  <1> QED
    BY <1>2, <1>3

LEMMA DriverStep ==
  ASSUME LedgerInv, DriverInv, DriverNext
  PROVE  LedgerInv' /\ DriverInv'
  <1>1. ASSUME NEW bad \in BOOLEAN, LaunchFails \/ Launch \/ PipeRead(bad) \/ Wait(bad)
        PROVE  LedgerInv' /\ DriverInv'
    <2>1. UNCHANGED vars /\ verdict # "pass" /\ verdict' = verdict
      BY <1>1 DEF LaunchFails, Launch, PipeRead, Wait, DriverInv
    <2>2. LedgerInv'
      BY <2>1, LedgerInvStep
    <2>3. /\ drv' \in {"launch", "pipe", "wait", "read", "done"}
          /\ drv' = "read" /\ launch' = "ok" => child' = "gone"
      BY <1>1 DEF LaunchFails, Launch, PipeRead, Wait
    <2> QED
      BY <2>1, <2>2, <2>3 DEF DriverInv, VerdictSound
  <1>2. ASSUME NEW bad \in BOOLEAN, Judge(bad)
        PROVE  LedgerInv' /\ DriverInv'
    <2>1. UNCHANGED vars
      BY <1>2 DEF Judge
    <2> QED
      BY <1>2, <2>1, LedgerInvStep, JudgeSound
  <1>3. CASE Exec \/ ExecFails \/ KilledBeforeExec \/ Image
    <2>1. child # "gone" /\ UNCHANGED <<drv, launch, verdict>>
      BY <1>3 DEF Exec, ExecFails, KilledBeforeExec, Image
    <2>2. verdict # "pass" /\ ~ (drv = "read" /\ launch = "ok")
      BY <2>1 DEF DriverInv
    <2>3. DriverInv'
      BY <2>1, <2>2 DEF DriverInv, VerdictSound
    <2>4. LedgerInv'
      <3>1. CASE Exec
        BY <3>1, LedgerInvStep DEF Exec
      <3>2. CASE ExecFails \/ KilledBeforeExec
        BY <3>2, LedgerInvExit DEF ExecFails, KilledBeforeExec
      <3>3. CASE Image
        BY <3>3, LedgerInvStep, GeneratedIsNext DEF Image
      <3> QED
        BY <1>3, <3>1, <3>2, <3>3
    <2> QED
      BY <2>3, <2>4
  <1> QED
    BY <1>1, <1>2, <1>3 DEF DriverNext, Driver

LEMMA DriverInvStep ==
  LedgerInv /\ DriverInv /\ SitesInv /\ [DriverNext]_allVars => LedgerInv' /\ DriverInv' /\ SitesInv'
  <1>1. ASSUME LedgerInv, DriverInv, UNCHANGED allVars PROVE LedgerInv' /\ DriverInv'
    <2>1. UNCHANGED vars /\ UNCHANGED driver
      BY <1>1 DEF allVars
    <2>2. LedgerInv'
      BY <1>1, <2>1, LedgerInvStep
    <2>3. VerdictSound' = VerdictSound
      <3>1. UNCHANGED <<verdict, exit, config, failed, tests, total, hits, records>>
        BY <2>1 DEF vars, driver, settings, ending, progress, ledger, process
      <3> QED
        BY <3>1 DEF VerdictSound, WithinLimits, TestIds, Entries, SiteAllows
    <2>4. DriverInv'
      BY <1>1, <2>1, <2>3 DEF DriverInv, driver
    <2> QED
      BY <2>2, <2>4
  <1> QED
    BY <1>1, DriverStep, SitesInvStep

LEMMA DriverInvInit ==
  DriverInit => LedgerInv /\ DriverInv /\ SitesInv
  <1>1. DriverInit => records = << >> /\ file # "ours"
    BY DEF DriverInit, Init
  <1> QED
    BY <1>1, LedgerInvInit DEF DriverInit, DriverInv, VerdictSound, SitesInv, SitesAllow

\* The verdict is right whatever the image did and whichever call failed: it
\* passes only a child that came to its end by itself, with all its tests
\* returned, what is live in its heap and the lines it hit within the limits,
\* and no record against the manifest; and of an image that makes the calls the
\* compiler generates the parser finds no whole report impossible.
THEOREM VerdictAlwaysWellFounded == DriverSpec => []VerdictWellFounded
  <1>1. DriverInit => LedgerInv /\ DriverInv /\ SitesInv
    BY DriverInvInit
  <1>2. LedgerInv /\ DriverInv /\ SitesInv /\ [DriverNext]_allVars => LedgerInv' /\ DriverInv' /\ SitesInv'
    BY DriverInvStep
  <1>3. LedgerInv /\ DriverInv /\ SitesInv => VerdictWellFounded
    BY ParserAgrees DEF DriverInv, VerdictWellFounded
  <1> QED
    BY <1>1, <1>2, <1>3, PTL DEF DriverSpec

LEMMA DeservedStep ==
  ASSUME LedgerInv, SitesInv, Judge(FALSE), launch = "ok", generated, exit = "zero", ret = 0,
         config = Expected, ~ failed, WithinLimits
  PROVE  verdict' = "pass"
  <1>1. file = "ours" /\ left = 0 /\ report.complete
    BY DEF LedgerInv, PublishInv
  <1>2. /\ report.config = config /\ report.reason = "ok" /\ report.endpoint
        /\ report.started = config.tests /\ report.completed = config.tests /\ config.tests > 0
        /\ report.failed = failed /\ report.total = total /\ report.hits = hits
    BY <1>1, CompleteTells
  <1>3. Parsed
    BY <1>1, <1>2, ParserAgrees DEF Parsed, WellFormed, ReportsPlausible
  <1>4. Status
    BY <1>1, <1>2 DEF Status, WithinLimits, CoveragePass
  <1> QED
    BY <1>3, <1>4 DEF Judge

\* A suite of generated calls that succeeded within the limits passes, unless a
\* call of the driver's own fails.
THEOREM DeservedPasses == DriverSpec => PassesWhenDeserved
  <1>1. DriverInit => LedgerInv /\ DriverInv /\ SitesInv
    BY DriverInvInit
  <1>2. LedgerInv /\ DriverInv /\ SitesInv /\ [DriverNext]_allVars => LedgerInv' /\ DriverInv' /\ SitesInv'
    BY DriverInvStep
  <1>3. LedgerInv /\ SitesInv /\ [DriverNext]_allVars =>
          [/\ Judge(FALSE) /\ launch = "ok" /\ generated
           /\ exit = "zero" /\ ret = 0 /\ config = Expected /\ ~ failed /\ WithinLimits
           => verdict' = "pass"]_allVars
    BY DeservedStep
  <1> QED
    BY <1>1, <1>2, <1>3, PTL DEF DriverSpec, PassesWhenDeserved

================================================================================
