--------------------------- MODULE OperatorLemmas ---------------------------
(***************************************************************************)
(* What the operators that several modules share do for every argument.    *)
(* The free-list operators of Ranges: the proofs about the modules that    *)
(* own a free list cite these facts and never open Carve or Give           *)
(* themselves.  Sums and enumerations of a finite set (Collections): the   *)
(* library's induction over finite sets cannot be instantiated, so these   *)
(* are proved by a smallest counterexample: the subsets of a finite set    *)
(* are well founded.  Folds over a sequence, and the placement of module   *)
(* Placement that is written with them: a fold that stays inside a set has *)
(* a table of its results, and what each step keeps holds of the last.     *)
(***************************************************************************)
EXTENDS Ranges, Placement, Sequences, FiniteSetTheorems, WellFoundedInduction, TLAPS

Piece(at, bytes) == [offset |-> at, bytes |-> bytes]

\* An end is an integer behind the start of its extent.
LEMMA EndOfExtent ==
  ASSUME NEW e \in Extent
  PROVE  /\ e.offset \in Nat
         /\ e.bytes \in Nat \ {0}
         /\ End(e) \in Nat
         /\ e.offset < End(e)
BY DEF Extent, End

\* Cutting a fitting request out of a free range (allocate_from_range)
\* leaves a well-formed, coalesced free list that lost exactly the request's
\* bytes.
LEMMA CarveKeepsFreeList ==
  ASSUME NEW free \in SUBSET Extent, Separated(free),
         NEW r \in free, NEW at \in Nat, NEW bytes \in Nat \ {0},
         r.offset <= at, at + bytes <= End(r)
  PROVE  /\ Carve(free, r, at, bytes) \in SUBSET Extent
         /\ Separated(Carve(free, r, at, bytes))
         /\ \A x \in Carve(free, r, at, bytes) : \E s \in free : Within(x, s)
         /\ \A u \in Int : FreeUnit(Carve(free, r, at, bytes), u)
              <=> FreeUnit(free, u) /\ ~ Covers(Piece(at, bytes), u)
<1> DEFINE left == Piece(r.offset, at - r.offset)
           right == Piece(at + bytes, End(r) - (at + bytes))
           new == Carve(free, r, at, bytes)
<1>1. /\ r \in Extent
      /\ r.offset \in Nat /\ End(r) \in Nat /\ r.bytes \in Nat \ {0}
      /\ End(r) = r.offset + r.bytes
  BY EndOfExtent DEF End
<1>2. /\ left.offset = r.offset /\ left.bytes = at - r.offset
      /\ right.offset = at + bytes /\ right.bytes = End(r) - (at + bytes)
      /\ End(left) = at
      /\ End(right) = End(r)
  BY <1>1 DEF Piece, End
<1>3. \A x : x \in new <=> \/ x \in free /\ x # r
                           \/ x = left /\ left.bytes > 0
                           \/ x = right /\ right.bytes > 0
  BY DEF Carve, Piece
<1>4. new \in SUBSET Extent
  <2>1. left.bytes > 0 => left \in Extent
    BY <1>1, <1>2 DEF Extent, Piece
  <2>2. right.bytes > 0 => right \in Extent
    BY <1>1, <1>2 DEF Extent, Piece
  <2> QED BY <1>3, <2>1, <2>2
<1>5. \A x \in new : \E s \in free : Within(x, s)
  <2> SUFFICES ASSUME NEW x \in new PROVE \E s \in free : Within(x, s)
    OBVIOUS
  <2>1. CASE x \in free /\ x # r
    <3>1. x.offset <= x.offset /\ End(x) <= End(x)
      BY <2>1, EndOfExtent
    <3> QED BY <2>1, <3>1 DEF Within
  <2>2. CASE x = left
    BY <2>2, <1>1, <1>2 DEF Within
  <2>3. CASE x = right
    BY <2>3, <1>1, <1>2 DEF Within
  <2> QED BY <1>3, <2>1, <2>2, <2>3
<1>6. Separated(new)
  <2> SUFFICES ASSUME NEW x \in new, NEW y \in new, x # y
               PROVE  End(x) < y.offset \/ End(y) < x.offset
    BY DEF Separated
  <2>1. \A s \in free : s # r => /\ s.offset \in Nat /\ End(s) \in Nat
                                 /\ (End(s) < r.offset \/ End(r) < s.offset)
    BY EndOfExtent DEF Separated
  <2>2. CASE x \in free /\ x # r /\ y \in free /\ y # r
    BY <2>2 DEF Separated
  <2>3. CASE x \in free /\ x # r /\ ~(y \in free /\ y # r)
    <3>1. (y = left \/ y = right) /\ y.bytes > 0
      BY <2>3, <1>3
    <3>2. r.offset <= y.offset /\ End(y) <= End(r) /\ y.offset \in Int /\ End(y) \in Int
      BY <3>1, <1>1, <1>2
    <3> QED BY <2>1, <2>3, <3>2, <1>1
  <2>4. CASE ~(x \in free /\ x # r) /\ y \in free /\ y # r
    <3>1. (x = left \/ x = right) /\ x.bytes > 0
      BY <2>4, <1>3
    <3>2. r.offset <= x.offset /\ End(x) <= End(r) /\ x.offset \in Int /\ End(x) \in Int
      BY <3>1, <1>1, <1>2
    <3> QED BY <2>1, <2>4, <3>2, <1>1
  <2>5. CASE ~(x \in free /\ x # r) /\ ~(y \in free /\ y # r)
    <3>1. (x = left /\ y = right) \/ (x = right /\ y = left)
      BY <2>5, <1>3
    <3> QED BY <3>1, <1>1, <1>2
  <2> QED BY <2>2, <2>3, <2>4, <2>5
<1>7. ASSUME NEW u \in Int
      PROVE  FreeUnit(new, u) <=> FreeUnit(free, u) /\ ~ Covers(Piece(at, bytes), u)
  <2>1. Covers(Piece(at, bytes), u) <=> at <= u /\ u < at + bytes
    BY DEF Covers, Piece, End
  <2>2. Covers(left, u) <=> r.offset <= u /\ u < at
    BY <1>2 DEF Covers
  <2>3. Covers(right, u) <=> at + bytes <= u /\ u < End(r)
    BY <1>2 DEF Covers
  <2>4. Covers(r, u) <=> r.offset <= u /\ u < End(r)
    BY DEF Covers
  <2>5. FreeUnit(new, u) <=> \/ \E s \in free : s # r /\ Covers(s, u)
                             \/ Covers(left, u) /\ left.bytes > 0
                             \/ Covers(right, u) /\ right.bytes > 0
    BY <1>3 DEF FreeUnit
  <2>6. FreeUnit(free, u) <=> (\E s \in free : s # r /\ Covers(s, u)) \/ Covers(r, u)
    BY DEF FreeUnit
  <2>7. (\E s \in free : s # r /\ Covers(s, u)) => ~ Covers(r, u)
    <3> SUFFICES ASSUME NEW s \in free, s # r, Covers(s, u) PROVE ~ Covers(r, u)
      OBVIOUS
    <3>1. s.offset \in Nat /\ End(s) \in Nat
      BY EndOfExtent
    <3>2. End(s) < r.offset \/ End(r) < s.offset
      BY DEF Separated
    <3> QED BY <3>1, <3>2, <1>1 DEF Covers
  <2>8. left.bytes > 0 <=> r.offset < at
    BY <1>1, <1>2
  <2>9. right.bytes > 0 <=> at + bytes < End(r)
    BY <1>1, <1>2
  <2> HIDE DEF left, right, new
  <2> QED BY <2>1, <2>2, <2>3, <2>4, <2>5, <2>6, <2>7, <2>8, <2>9, <1>1
<1> QED BY <1>4, <1>5, <1>6, <1>7

\* The merged range spans the freed extent and the neighbours that touch it.
LEMMA MergedSpan ==
  ASSUME NEW free \in SUBSET Extent, Separated(free), NEW e \in Extent
  PROVE  /\ Merged(free, e) \in Extent
         /\ \A b \in Before(free, e) : Merged(free, e).offset = b.offset
         /\ Before(free, e) = {} => Merged(free, e).offset = e.offset
         /\ \A a \in After(free, e) : End(Merged(free, e)) = End(a)
         /\ After(free, e) = {} => End(Merged(free, e)) = End(e)
<1> DEFINE pb == CHOOSE x \in Before(free, e) : TRUE
           pa == CHOOSE x \in After(free, e) : TRUE
           lo == IF Before(free, e) = {} THEN e.offset ELSE pb.offset
           hi == IF After(free, e) = {} THEN End(e) ELSE End(pa)
<1>1. Merged(free, e) = [offset |-> lo, bytes |-> hi - lo]
  BY DEF Merged
<1>2. \A b \in Before(free, e) : b = pb
  <2> SUFFICES ASSUME NEW b \in Before(free, e) PROVE b = pb
    OBVIOUS
  <2>1. pb \in Before(free, e)
    OBVIOUS
  <2>2. b \in free /\ pb \in free /\ End(b) = e.offset /\ End(pb) = e.offset
    BY <2>1 DEF Before
  <2>3. b.offset < End(b) /\ pb.offset < End(pb) /\ b.offset \in Nat /\ pb.offset \in Nat
        /\ e.offset \in Nat
    BY <2>2, EndOfExtent
  <2> QED BY <2>2, <2>3 DEF Separated
<1>3. \A a \in After(free, e) : a = pa
  <2> SUFFICES ASSUME NEW a \in After(free, e) PROVE a = pa
    OBVIOUS
  <2>1. pa \in After(free, e)
    OBVIOUS
  <2>2. a \in free /\ pa \in free /\ a.offset = End(e) /\ pa.offset = End(e)
    BY <2>1 DEF After
  <2>3. /\ a.offset < End(a) /\ pa.offset < End(pa) /\ End(a) \in Nat
        /\ End(pa) \in Nat /\ End(e) \in Nat
    BY <2>2, EndOfExtent
  <2> QED BY <2>2, <2>3 DEF Separated
<1>4. lo \in Nat /\ lo <= e.offset
  <2>1. CASE Before(free, e) = {}
    BY <2>1, EndOfExtent
  <2>2. CASE Before(free, e) # {}
    <3>1. pb \in Before(free, e)
      BY <2>2
    <3>2. pb \in free /\ End(pb) = e.offset
      BY <3>1 DEF Before
    <3>3. lo = pb.offset
      BY <2>2
    <3> QED BY <3>2, <3>3, EndOfExtent
  <2> QED BY <2>1, <2>2
<1>5. hi \in Nat /\ End(e) <= hi
  <2>1. CASE After(free, e) = {}
    BY <2>1, EndOfExtent
  <2>2. CASE After(free, e) # {}
    <3>1. pa \in After(free, e)
      BY <2>2
    <3>2. pa \in free /\ pa.offset = End(e)
      BY <3>1 DEF After
    <3>3. hi = End(pa)
      BY <2>2
    <3> QED BY <3>2, <3>3, EndOfExtent
  <2> QED BY <2>1, <2>2
<1>6. hi - lo \in Nat \ {0} /\ lo + (hi - lo) = hi
  <2>1. e.offset < End(e) /\ e.offset \in Nat /\ End(e) \in Nat
    BY EndOfExtent
  <2> HIDE DEF lo, hi
  <2> QED BY <1>4, <1>5, <2>1
<1>7. Merged(free, e) \in Extent
  <2> HIDE DEF lo, hi
  <2> QED BY <1>1, <1>4, <1>6 DEF Extent
<1>8. Merged(free, e).offset = lo /\ End(Merged(free, e)) = hi
  <2> HIDE DEF lo, hi
  <2> QED BY <1>1, <1>6 DEF End
<1>9. \A b \in Before(free, e) : lo = b.offset
  BY <1>2
<1>10. \A a \in After(free, e) : hi = End(a)
  BY <1>3
<1>11. /\ Before(free, e) = {} => lo = e.offset
       /\ After(free, e) = {} => hi = End(e)
  OBVIOUS
<1> HIDE DEF lo, hi
<1> QED BY <1>7, <1>8, <1>9, <1>10, <1>11

\* Returning an extent that no free range overlaps (shadowspill_range_free)
\* leaves a well-formed, coalesced free list that gained exactly the bytes of
\* the extent.
LEMMA GiveKeepsFreeList ==
  ASSUME NEW free \in SUBSET Extent, Separated(free), NEW e \in Extent,
         \A r \in free : Disjoint(r, e)
  PROVE  /\ Give(free, e) \in SUBSET Extent
         /\ Separated(Give(free, e))
         /\ \A x \in Give(free, e) : \E s \in free \cup {e} : End(x) = End(s)
         /\ \A u \in Int : FreeUnit(Give(free, e), u)
              <=> FreeUnit(free, u) \/ Covers(e, u)
<1> DEFINE m == Merged(free, e)
           new == Give(free, e)
<1>1. /\ m \in Extent
      /\ \A b \in Before(free, e) : m.offset = b.offset
      /\ Before(free, e) = {} => m.offset = e.offset
      /\ \A a \in After(free, e) : End(m) = End(a)
      /\ After(free, e) = {} => End(m) = End(e)
  BY MergedSpan
<1> HIDE DEF m
<1>2. \A x : x \in new <=> \/ x \in free /\ End(x) # e.offset /\ x.offset # End(e)
                           \/ x = m
  BY DEF Give, Before, After, m
<1>3. /\ e.offset \in Nat /\ End(e) \in Nat /\ e.offset < End(e)
      /\ m.offset \in Nat /\ End(m) \in Nat /\ m.offset < End(m)
      /\ \A s \in free : s.offset \in Nat /\ End(s) \in Nat /\ s.offset < End(s)
  BY <1>1, EndOfExtent
<1>4. new \in SUBSET Extent
  BY <1>1, <1>2
<1>5. \A x \in new : \E s \in free \cup {e} : End(x) = End(s)
  <2>1. \E s \in free \cup {e} : End(m) = End(s)
    <3>1. CASE After(free, e) = {}
      BY <1>1, <3>1
    <3>2. CASE After(free, e) # {}
      <4>1. PICK a \in After(free, e) : TRUE
        BY <3>2
      <4> QED BY <1>1, <4>1 DEF After
    <3> QED BY <3>1, <3>2
  <2> QED BY <1>2, <2>1
<1>6. \A s \in free : End(s) # e.offset /\ s.offset # End(e)
                        => End(s) < m.offset \/ End(m) < s.offset
  <2> SUFFICES ASSUME NEW s \in free, End(s) # e.offset, s.offset # End(e)
               PROVE  End(s) < m.offset \/ End(m) < s.offset
    OBVIOUS
  <2>1. End(s) < e.offset \/ End(e) < s.offset
    BY <1>3 DEF Disjoint
  <2>2. CASE End(s) < e.offset
    <3>1. CASE Before(free, e) = {}
      BY <2>2, <3>1, <1>1
    <3>2. CASE Before(free, e) # {}
      <4>1. PICK b \in Before(free, e) : TRUE
        BY <3>2
      <4>2. b \in free /\ End(b) = e.offset /\ m.offset = b.offset
        BY <4>1, <1>1 DEF Before
      <4>3. End(s) < b.offset \/ End(b) < s.offset
        BY <4>2, <2>2, <1>3 DEF Separated
      <4> QED BY <4>2, <4>3, <2>2, <1>3
    <3> QED BY <3>1, <3>2
  <2>3. CASE End(e) < s.offset
    <3>1. CASE After(free, e) = {}
      BY <2>3, <3>1, <1>1
    <3>2. CASE After(free, e) # {}
      <4>1. PICK a \in After(free, e) : TRUE
        BY <3>2
      <4>2. a \in free /\ a.offset = End(e) /\ End(m) = End(a)
        BY <4>1, <1>1 DEF After
      <4>3. End(s) < a.offset \/ End(a) < s.offset
        BY <4>2, <2>3, <1>3 DEF Separated
      <4> QED BY <4>2, <4>3, <2>3, <1>3
    <3> QED BY <3>1, <3>2
  <2> QED BY <2>1, <2>2, <2>3
<1>7. Separated(new)
  <2> SUFFICES ASSUME NEW x \in new, NEW y \in new, x # y
               PROVE  End(x) < y.offset \/ End(y) < x.offset
    BY DEF Separated
  <2> QED BY <1>2, <1>6 DEF Separated
<1>8. ASSUME NEW u \in Int
      PROVE  FreeUnit(new, u) <=> FreeUnit(free, u) \/ Covers(e, u)
  <2>1. ASSUME Covers(m, u) PROVE FreeUnit(free, u) \/ Covers(e, u)
    <3>1. m.offset <= u /\ u < End(m)
      BY <2>1 DEF Covers
    <3>2. CASE u < e.offset
      <4>1. Before(free, e) # {}
        BY <3>1, <3>2, <1>1, <1>3
      <4>2. PICK b \in Before(free, e) : TRUE
        BY <4>1
      <4>3. b \in free /\ Covers(b, u)
        BY <4>2, <3>1, <3>2, <1>1 DEF Before, Covers
      <4> QED BY <4>3 DEF FreeUnit
    <3>3. CASE End(e) <= u
      <4>1. After(free, e) # {}
        BY <3>1, <3>3, <1>1, <1>3
      <4>2. PICK a \in After(free, e) : TRUE
        BY <4>1
      <4>3. a \in free /\ Covers(a, u)
        BY <4>2, <3>1, <3>3, <1>1 DEF After, Covers
      <4> QED BY <4>3 DEF FreeUnit
    <3>4. CASE e.offset <= u /\ u < End(e)
      BY <3>4 DEF Covers
    <3> QED BY <3>2, <3>3, <3>4, <1>3
  <2>2. ASSUME Covers(e, u) PROVE Covers(m, u)
    <3>1. m.offset <= e.offset
      <4>1. CASE Before(free, e) = {}
        BY <4>1, <1>1, <1>3
      <4>2. CASE Before(free, e) # {}
        <5>1. PICK b \in Before(free, e) : TRUE
          BY <4>2
        <5> QED BY <5>1, <1>1, <1>3 DEF Before
      <4> QED BY <4>1, <4>2
    <3>2. End(e) <= End(m)
      <4>1. CASE After(free, e) = {}
        BY <4>1, <1>1, <1>3
      <4>2. CASE After(free, e) # {}
        <5>1. PICK a \in After(free, e) : TRUE
          BY <4>2
        <5> QED BY <5>1, <1>1, <1>3 DEF After
      <4> QED BY <4>1, <4>2
    <3> QED BY <2>2, <3>1, <3>2, <1>3 DEF Covers
  <2>3. ASSUME NEW s \in free, Covers(s, u) PROVE FreeUnit(new, u)
    <3>1. CASE End(s) = e.offset
      <4>1. s \in Before(free, e) /\ m.offset = s.offset
        BY <3>1, <1>1 DEF Before
      <4>2. e.offset <= End(m)
        <5>1. CASE After(free, e) = {}
          BY <5>1, <1>1, <1>3
        <5>2. CASE After(free, e) # {}
          <6>1. PICK a \in After(free, e) : TRUE
            BY <5>2
          <6> QED BY <6>1, <1>1, <1>3 DEF After
        <5> QED BY <5>1, <5>2
      <4>3. Covers(m, u)
        BY <2>3, <3>1, <4>1, <4>2, <1>3 DEF Covers
      <4> QED BY <4>3, <1>2 DEF FreeUnit
    <3>2. CASE s.offset = End(e)
      <4>1. s \in After(free, e) /\ End(m) = End(s)
        BY <3>2, <1>1 DEF After
      <4>2. m.offset <= End(e)
        <5>1. CASE Before(free, e) = {}
          BY <5>1, <1>1, <1>3
        <5>2. CASE Before(free, e) # {}
          <6>1. PICK b \in Before(free, e) : TRUE
            BY <5>2
          <6> QED BY <6>1, <1>1, <1>3 DEF Before
        <5> QED BY <5>1, <5>2
      <4>3. Covers(m, u)
        BY <2>3, <3>2, <4>1, <4>2, <1>3 DEF Covers
      <4> QED BY <4>3, <1>2 DEF FreeUnit
    <3>3. CASE End(s) # e.offset /\ s.offset # End(e)
      BY <2>3, <3>3, <1>2 DEF FreeUnit
    <3> QED BY <3>1, <3>2, <3>3
  <2>4. ASSUME NEW x \in new, Covers(x, u) PROVE FreeUnit(free, u) \/ Covers(e, u)
    BY <2>4, <2>1, <1>2 DEF FreeUnit
  <2>5. Covers(e, u) => FreeUnit(new, u)
    BY <2>2, <1>2 DEF FreeUnit
  <2> QED BY <2>3, <2>4, <2>5 DEF FreeUnit
<1> QED BY <1>4, <1>5, <1>7, <1>8

\* Whatever policy selects a place, the request lies inside the free range it
\* is taken from.
LEMMA SelectedFits ==
  ASSUME NEW free \in SUBSET Extent, NEW bytes \in Nat \ {0},
         NEW alignment \in Nat \ {0}, NEW lowest \in Nat,
         NEW f \in FirstFit(free, bytes, alignment)
                 \cup BestFitLow(free, bytes, alignment)
                 \cup BestFitHigh(free, bytes, alignment)
                 \cup HighestFit(free, bytes, alignment, lowest)
  PROVE  /\ f.range \in free
         /\ f.at \in Nat
         /\ f.range.offset <= f.at
         /\ f.at + bytes <= End(f.range)
<1>1. ASSUME f \in LowFits(free, bytes, alignment)
      PROVE  /\ f.range \in free /\ f.at \in Nat
             /\ f.range.offset <= f.at /\ f.at + bytes <= End(f.range)
  <2>1. PICK r \in free : f = [range |-> r, at |-> AlignUp(r.offset, alignment)]
    BY <1>1 DEF LowFits
  <2>2. f.range = r /\ f.at = AlignUp(r.offset, alignment)
    BY <2>1
  <2>3. r.offset \in Nat
    BY EndOfExtent
  <2>4. AlignUp(r.offset, alignment) \in Int
    BY <2>3 DEF AlignUp
  <2>5. f.range.offset <= f.at /\ f.at + bytes <= End(f.range)
    BY <1>1 DEF LowFits
  <2>6. f.at \in Nat
    BY <2>2, <2>3, <2>4, <2>5
  <2> QED BY <2>2, <2>5, <2>6
<1>2. ASSUME NEW low \in Nat, f \in HighFits(free, bytes, alignment, low)
      PROVE  /\ f.range \in free /\ f.at \in Nat
             /\ f.range.offset <= f.at /\ f.at + bytes <= End(f.range)
  <2>1. PICK r \in free : /\ bytes <= r.bytes
                          /\ f = [range |-> r, at |-> AlignDown(End(r) - bytes, alignment)]
    BY <1>2 DEF HighFits
  <2>2. f.range = r /\ f.at = AlignDown(End(r) - bytes, alignment)
    BY <2>1
  <2>3. End(r) \in Nat /\ r.offset \in Nat
    BY EndOfExtent
  <2>4. /\ AlignDown(End(r) - bytes, alignment) \in Int
        /\ AlignDown(End(r) - bytes, alignment) <= End(r) - bytes
    <3>1. (End(r) - bytes) % alignment \in 0..(alignment - 1)
      BY <2>3
    <3> QED BY <2>3, <3>1 DEF AlignDown
  <2>5. f.range.offset <= f.at
    BY <1>2 DEF HighFits
  <2> QED BY <2>2, <2>3, <2>4, <2>5
<1>3. \/ f \in LowFits(free, bytes, alignment)
      \/ \E low \in Nat : f \in HighFits(free, bytes, alignment, low)
  BY DEF FirstFit, BestFitLow, BestFitHigh, HighestFit, SmallestLow, SmallestHigh
<1> QED BY <1>1, <1>2, <1>3

\* The same for shadowspill_range_allocate_at.
LEMMA FitAtFits ==
  ASSUME NEW free \in SUBSET Extent, NEW bytes \in Nat \ {0}, NEW offset \in Nat,
         NEW f \in FitAt(free, offset, bytes)
  PROVE  /\ f.range \in free
         /\ f.at = offset
         /\ f.range.offset <= f.at
         /\ f.at + bytes <= End(f.range)
BY DEF FitAt

\* A nonempty set of numbers has a least one.
LEMMA LeastNat ==
  ASSUME NEW T \in SUBSET Nat, T # {}
  PROVE  \E x \in T : \A y \in T : x <= y
<1> DEFINE R == OpToRel(<, Nat)
<1>1. IsWellFoundedOn(R, Nat)
  BY NatLessThanWellFounded
<1>2. \A x, y \in Nat : y < x => <<y, x>> \in R
  BY DEF OpToRel
<1> HIDE DEF R
<1>3. PICK x \in T : \A y \in T : ~ (<<y, x>> \in R)
  BY <1>1, WFMin
<1>4. \A y \in T : ~ (y < x)
  BY <1>2, <1>3, Zenon
<1> QED BY <1>4

\* A bounded set of numbers that is not empty has a least and a greatest.
LEMMA Extremes ==
  ASSUME NEW n \in Nat, NEW H \in SUBSET (0 .. n), H # {}
  PROVE  /\ Min(H) \in H /\ \A h \in H : Min(H) <= h
         /\ Max(H) \in H /\ \A h \in H : h <= Max(H)
<1>1. \E x \in H : \A y \in H : x <= y
  BY LeastNat
<1> DEFINE D == {n - h : h \in H}
<1>2. D \in SUBSET Nat /\ D # {}
  <2>1. \A h \in H : n - h \in Nat
    OBVIOUS
  <2> QED BY <2>1
<1>3. PICK d \in D : \A e \in D : d <= e
  <2> HIDE DEF D
  <2> QED BY <1>2, LeastNat
<1>4. PICK x \in H : d = n - x
  BY <1>3
<1>5. \A y \in H : y <= x
  <2> TAKE y \in H
  <2>1. n - x <= n - y
    BY <1>3, <1>4
  <2> QED BY <2>1
<1> QED BY <1>1, <1>4, <1>5 DEF Min, Max

\* Rounding up and down to a multiple of the alignment lands on the nearest
\* multiple (align_up, and the last aligned start of the high policies).
LEMMA AlignNearest ==
  ASSUME NEW v \in Nat, NEW a \in Nat \ {0}, NEW at \in Nat, at % a = 0
  PROVE  /\ AlignUp(v, a) \in Nat /\ v <= AlignUp(v, a)
         /\ AlignDown(v, a) \in Nat /\ AlignDown(v, a) <= v
         /\ v <= at => AlignUp(v, a) <= at
         /\ at <= v => at <= AlignDown(v, a)
<1>1. PICK d \in Int, m \in 0..(a - 1) : v = d * a + m /\ m = v % a
  <2>1. v = (v \div a) * a + (v % a) /\ v % a \in 0..(a - 1) /\ v \div a \in Int
    OBVIOUS
  <2> QED BY <2>1
<1>2. PICK k \in Int : at = k * a
  <2>1. at = (at \div a) * a /\ at \div a \in Int
    OBVIOUS
  <2> QED BY <2>1
<1>3. ASSUME NEW i \in Int, NEW j \in Int, i <= j PROVE i * a <= j * a
  <2>1. (j - i) * a >= 0 /\ j * a = (j - i) * a + i * a
    BY <1>3
  <2> QED BY <2>1
<1>4. AlignDown(v, a) = d * a /\ AlignUp(v, a) = IF m = 0 THEN d * a ELSE d * a + a
  BY <1>1 DEF AlignUp, AlignDown
<1>5. d * a \in Int /\ k * a \in Int /\ (d + 1) * a = d * a + a /\ a \in Int
  OBVIOUS
<1>6. 0 <= d * a
  <2>1. CASE d <= -1
    <3>1. d * a <= (-1) * a
      BY <2>1, <1>3
    <3> QED BY <3>1, <1>1
  <2>2. CASE 0 <= d
    <3>1. 0 * a <= d * a
      BY <2>2, <1>3
    <3> QED BY <3>1
  <2> QED BY <2>1, <2>2
<1>7. ASSUME v <= at PROVE AlignUp(v, a) <= at
  <2>1. CASE m = 0
    BY <2>1, <1>1, <1>2, <1>4, <1>7
  <2>2. CASE m # 0
    <3>1. ~ k <= d
      BY <1>1, <1>2, <1>3, <1>7, <2>2
    <3>2. (d + 1) * a <= k * a
      BY <3>1, <1>3
    <3> QED BY <3>2, <2>2, <1>2, <1>4, <1>5
  <2> QED BY <2>1, <2>2
<1>8. ASSUME at <= v PROVE at <= AlignDown(v, a)
  <2>1. ~ d + 1 <= k
    BY <1>1, <1>2, <1>3, <1>5, <1>8
  <2>2. k * a <= d * a
    BY <2>1, <1>3
  <2> QED BY <2>2, <1>2, <1>4
<1>9. /\ AlignUp(v, a) \in Nat /\ v <= AlignUp(v, a)
      /\ AlignDown(v, a) \in Nat /\ AlignDown(v, a) <= v
  BY <1>1, <1>4, <1>5, <1>6
<1> QED BY <1>7, <1>8, <1>9

\* A run of free bytes lies inside one free range: the ranges of a coalesced
\* list do not touch.
LEMMA RunInOneRange ==
  ASSUME NEW free \in SUBSET Extent, Separated(free),
         NEW at \in Nat, NEW bytes \in Nat \ {0},
         \A u \in at..(at + bytes - 1) : FreeUnit(free, u)
  PROVE  \E r \in free : r.offset <= at /\ at + bytes <= End(r)
<1>1. PICK r \in free : Covers(r, at)
  BY DEF FreeUnit
<1>2. r.offset \in Nat /\ End(r) \in Nat /\ r.offset <= at /\ at < End(r)
  BY <1>1, EndOfExtent DEF Covers
<1>3. ASSUME End(r) < at + bytes PROVE FALSE
  <2>1. PICK s \in free : Covers(s, End(r))
    <3>1. End(r) \in at..(at + bytes - 1)
      BY <1>2, <1>3
    <3> QED BY <3>1 DEF FreeUnit
  <2>2. s.offset \in Nat /\ End(s) \in Nat /\ s.offset <= End(r) /\ End(r) < End(s)
    BY <2>1, EndOfExtent DEF Covers
  <2>3. s # r
    BY <2>2
  <2> QED BY <1>2, <2>2, <2>3 DEF Separated
<1> QED BY <1>2, <1>3

\* A request that fits at some aligned offset of a free range fits at the
\* offset the walk tries there, for the low policies and for the high ones.
LEMMA WalkMeetsFit ==
  ASSUME NEW free \in SUBSET Extent, NEW bytes \in Nat \ {0},
         NEW alignment \in Nat \ {0}, NEW lowest \in Nat,
         NEW at \in Nat, at % alignment = 0, lowest <= at,
         NEW r \in free, r.offset <= at, at + bytes <= End(r)
  PROVE  /\ LowFits(free, bytes, alignment) # {}
         /\ HighFits(free, bytes, alignment, lowest) # {}
<1>1. r.offset \in Nat /\ End(r) \in Nat /\ r.bytes \in Nat /\ End(r) = r.offset + r.bytes
  BY EndOfExtent DEF End
<1>2. LowFits(free, bytes, alignment) # {}
  <2> DEFINE f == [range |-> r, at |-> AlignUp(r.offset, alignment)]
  <2>1. f.range = r /\ f.at = AlignUp(r.offset, alignment)
    OBVIOUS
  <2>2. /\ AlignUp(r.offset, alignment) \in Nat
        /\ r.offset <= AlignUp(r.offset, alignment)
        /\ AlignUp(r.offset, alignment) <= at
    BY <1>1, AlignNearest
  <2>3. f.range.offset <= f.at /\ f.at + bytes <= End(f.range)
    BY <1>1, <2>1, <2>2
  <2>4. f \in LowFits(free, bytes, alignment)
    BY <2>3 DEF LowFits
  <2> QED BY <2>4
<1>3. HighFits(free, bytes, alignment, lowest) # {}
  <2> DEFINE last == End(r) - bytes
             f == [range |-> r, at |-> AlignDown(last, alignment)]
  <2>1. last \in Nat /\ at <= last
    BY <1>1
  <2>2. f.range = r /\ f.at = AlignDown(last, alignment)
    OBVIOUS
  <2>3. AlignDown(last, alignment) \in Nat /\ at <= AlignDown(last, alignment)
    <3> HIDE DEF last
    <3> QED BY <2>1, AlignNearest
  <2>4. f.range.offset <= f.at /\ lowest <= f.at
    BY <1>1, <2>2, <2>3
  <2>5. bytes <= r.bytes
    BY <1>1
  <2>6. f \in HighFits(free, bytes, alignment, lowest)
    BY <2>4, <2>5 DEF HighFits
  <2> QED BY <2>6
<1> QED BY <1>2, <1>3

\* Every place the walks consider has a numeric offset and range.
LEMMA FitFields ==
  ASSUME NEW free \in SUBSET Extent, NEW bytes \in Nat \ {0},
         NEW alignment \in Nat \ {0}, NEW lowest \in Nat,
         NEW f \in LowFits(free, bytes, alignment)
                 \cup HighFits(free, bytes, alignment, lowest)
  PROVE  /\ f.range \in free /\ f.at \in Nat
         /\ f.range.offset \in Nat /\ f.range.bytes \in Nat
         /\ f.at <= End(f.range) /\ End(f.range) \in Nat
<1>1. CASE f \in LowFits(free, bytes, alignment)
  <2>1. PICK r \in free : f = [range |-> r, at |-> AlignUp(r.offset, alignment)]
    BY <1>1 DEF LowFits
  <2>2. f.range = r /\ f.at = AlignUp(r.offset, alignment)
    BY <2>1
  <2>3. r.offset \in Nat /\ r.bytes \in Nat /\ End(r) \in Nat
    BY EndOfExtent
  <2>4. AlignUp(r.offset, alignment) \in Nat
    BY <2>3, AlignNearest, 0 \in Nat, 0 % alignment = 0
  <2>5. f.at + bytes <= End(f.range)
    BY <1>1 DEF LowFits
  <2> QED BY <2>2, <2>3, <2>4, <2>5
<1>2. CASE f \in HighFits(free, bytes, alignment, lowest)
  <2>1. PICK r \in free : /\ bytes <= r.bytes
                          /\ f = [range |-> r, at |-> AlignDown(End(r) - bytes, alignment)]
    BY <1>2 DEF HighFits
  <2>2. f.range = r /\ f.at = AlignDown(End(r) - bytes, alignment)
    BY <2>1
  <2>3. r.offset \in Nat /\ r.bytes \in Nat /\ End(r) \in Nat /\ End(r) - bytes \in Nat
    BY <2>1, EndOfExtent DEF End
  <2>4. /\ AlignDown(End(r) - bytes, alignment) \in Nat
        /\ AlignDown(End(r) - bytes, alignment) <= End(r) - bytes
    BY <2>3, AlignNearest, 0 \in Nat, 0 % alignment = 0
  <2> QED BY <2>2, <2>3, <2>4
<1> QED BY <1>1, <1>2

\* Each policy selects a place whenever its walk meets one: the smallest, the
\* lowest and the highest exist in every bounded pool.
LEMMA PoliciesSelect ==
  ASSUME NEW free \in SUBSET Extent, NEW bytes \in Nat \ {0},
         NEW alignment \in Nat \ {0}, NEW lowest \in Nat,
         NEW capacity \in Nat, \A r \in free : End(r) <= capacity
  PROVE  /\ LowFits(free, bytes, alignment) # {} =>
              /\ FirstFit(free, bytes, alignment) # {}
              /\ BestFitLow(free, bytes, alignment) # {}
         /\ HighFits(free, bytes, alignment, 0) # {} =>
              BestFitHigh(free, bytes, alignment) # {}
         /\ HighFits(free, bytes, alignment, lowest) # {} =>
              HighestFit(free, bytes, alignment, lowest) # {}
<1>1. ASSUME NEW fits \in {LowFits(free, bytes, alignment),
                           HighFits(free, bytes, alignment, 0),
                           HighFits(free, bytes, alignment, lowest)},
             NEW f \in fits
      PROVE  /\ f.range.offset \in Nat /\ f.range.bytes \in Nat
             /\ f.at \in Nat /\ f.at <= capacity
  <2>1. PICK low \in Nat : f \in LowFits(free, bytes, alignment)
                                \cup HighFits(free, bytes, alignment, low)
    BY 0 \in Nat
  <2>2. /\ f.range \in free /\ f.at \in Nat
        /\ f.range.offset \in Nat /\ f.range.bytes \in Nat
        /\ f.at <= End(f.range) /\ End(f.range) \in Nat
    BY <2>1, FitFields
  <2>3. End(f.range) <= capacity
    BY <2>2
  <2> QED BY <2>2, <2>3
<1>2. ASSUME NEW fits, fits # {}, \A f \in fits : f.range.offset \in Nat
      PROVE  \E f \in fits : \A g \in fits : f.range.offset <= g.range.offset
  <2> DEFINE T == {f.range.offset : f \in fits}
  <2>1. T \in SUBSET Nat /\ T # {}
    BY <1>2
  <2>2. \A f \in fits : f.range.offset \in T
    OBVIOUS
  <2>3. \A t \in T : \E f \in fits : f.range.offset = t
    OBVIOUS
  <2> HIDE DEF T
  <2>4. PICK x \in T : \A y \in T : x <= y
    BY <2>1, LeastNat
  <2> QED BY <2>2, <2>3, <2>4
<1>3. ASSUME NEW fits, fits # {}, \A f \in fits : f.range.bytes \in Nat
      PROVE  \E f \in fits : \A g \in fits : f.range.bytes <= g.range.bytes
  <2> DEFINE T == {f.range.bytes : f \in fits}
  <2>1. T \in SUBSET Nat /\ T # {}
    BY <1>3
  <2>2. \A f \in fits : f.range.bytes \in T
    OBVIOUS
  <2>3. \A t \in T : \E f \in fits : f.range.bytes = t
    OBVIOUS
  <2> HIDE DEF T
  <2>4. PICK x \in T : \A y \in T : x <= y
    BY <2>1, LeastNat
  <2> QED BY <2>2, <2>3, <2>4
<1>4. ASSUME NEW fits, fits # {}, \A f \in fits : f.at \in Nat
      PROVE  \E f \in fits : \A g \in fits : f.at <= g.at
  <2> DEFINE T == {f.at : f \in fits}
  <2>1. T \in SUBSET Nat /\ T # {}
    BY <1>4
  <2>2. \A f \in fits : f.at \in T
    OBVIOUS
  <2>3. \A t \in T : \E f \in fits : f.at = t
    OBVIOUS
  <2> HIDE DEF T
  <2>4. PICK x \in T : \A y \in T : x <= y
    BY <2>1, LeastNat
  <2> QED BY <2>2, <2>3, <2>4
<1>5. ASSUME NEW fits, fits # {}, \A f \in fits : f.at \in Nat /\ f.at <= capacity
      PROVE  \E f \in fits : \A g \in fits : g.at <= f.at
  <2> DEFINE T == {capacity - f.at : f \in fits}
  <2>1. T \in SUBSET Nat /\ T # {}
    BY <1>5
  <2>2. \A f \in fits : capacity - f.at \in T
    OBVIOUS
  <2>3. \A t \in T : \E f \in fits : capacity - f.at = t
    OBVIOUS
  <2> HIDE DEF T
  <2>4. PICK x \in T : \A y \in T : x <= y
    BY <2>1, LeastNat
  <2> QED BY <2>2, <2>3, <2>4, <1>5
<1>6. ASSUME LowFits(free, bytes, alignment) # {}
      PROVE  FirstFit(free, bytes, alignment) # {}
  <2>1. \E f \in LowFits(free, bytes, alignment) :
          \A g \in LowFits(free, bytes, alignment) : f.range.offset <= g.range.offset
    BY <1>1, <1>2, <1>6
  <2> QED BY <2>1 DEF FirstFit
<1>7. ASSUME LowFits(free, bytes, alignment) # {}
      PROVE  BestFitLow(free, bytes, alignment) # {}
  <2> DEFINE fits == LowFits(free, bytes, alignment)
  <2>1. \A f \in fits : f.range.bytes \in Nat /\ f.at \in Nat
    BY <1>1
  <2>2. fits # {}
    BY <1>7
  <2> HIDE DEF fits
  <2>3. PICK x \in fits : \A g \in fits : x.range.bytes <= g.range.bytes
    BY <1>3, <2>1, <2>2
  <2> DEFINE least == {f \in fits : f.range.bytes = x.range.bytes}
  <2>4. least # {} /\ \A f \in least : f \in fits /\ f.at \in Nat /\ f.range.bytes = x.range.bytes
    BY <2>1, <2>3
  <2>5. \A f \in fits : f.range.bytes = x.range.bytes => f \in least
    OBVIOUS
  <2> HIDE DEF least
  <2>6. PICK y \in least : \A g \in least : y.at <= g.at
    BY <1>4, <2>4
  <2>7. \A g \in fits : \/ y.range.bytes < g.range.bytes
                        \/ y.range.bytes = g.range.bytes /\ y.at <= g.at
    BY <2>1, <2>3, <2>4, <2>5, <2>6
  <2>8. y \in SmallestLow(fits)
    BY <2>4, <2>6, <2>7 DEF SmallestLow
  <2> QED BY <2>8 DEF BestFitLow, fits
<1>8. ASSUME HighFits(free, bytes, alignment, 0) # {}
      PROVE  BestFitHigh(free, bytes, alignment) # {}
  <2> DEFINE fits == HighFits(free, bytes, alignment, 0)
  <2>1. \A f \in fits : f.range.bytes \in Nat /\ f.at \in Nat /\ f.at <= capacity
    BY <1>1
  <2>2. fits # {}
    BY <1>8
  <2> HIDE DEF fits
  <2>3. PICK x \in fits : \A g \in fits : x.range.bytes <= g.range.bytes
    BY <1>3, <2>1, <2>2
  <2> DEFINE least == {f \in fits : f.range.bytes = x.range.bytes}
  <2>4. least # {} /\ \A f \in least : /\ f \in fits /\ f.at \in Nat /\ f.at <= capacity
                                       /\ f.range.bytes = x.range.bytes
    BY <2>1, <2>3
  <2>5. \A f \in fits : f.range.bytes = x.range.bytes => f \in least
    OBVIOUS
  <2> HIDE DEF least
  <2>6. PICK y \in least : \A g \in least : g.at <= y.at
    BY <1>5, <2>4
  <2>7. \A g \in fits : \/ y.range.bytes < g.range.bytes
                        \/ y.range.bytes = g.range.bytes /\ g.at <= y.at
    BY <2>1, <2>3, <2>4, <2>5, <2>6
  <2>8. y \in SmallestHigh(fits)
    BY <2>4, <2>6, <2>7 DEF SmallestHigh
  <2> QED BY <2>8 DEF BestFitHigh, fits
<1>9. ASSUME HighFits(free, bytes, alignment, lowest) # {}
      PROVE  HighestFit(free, bytes, alignment, lowest) # {}
  <2>1. \E f \in HighFits(free, bytes, alignment, lowest) :
          \A g \in HighFits(free, bytes, alignment, lowest) : g.at <= f.at
    BY <1>1, <1>5, <1>9
  <2> QED BY <2>1 DEF HighestFit
<1> QED BY <1>6, <1>7, <1>8, <1>9

(***************************************************************************)
(* Sums.                                                                   *)
(***************************************************************************)
\* The member a fold takes first, and what makes g the table of its results.
Pick(s) == CHOOSE x \in s : TRUE
Sums(w, S, g) == g = [s \in SUBSET S |-> IF s = {} THEN 0 ELSE w[Pick(s)] + g[s \ {Pick(s)}]]

\* The fold of a sum is the table's entry for the whole set.
LEMMA TotalUnfold ==
  ASSUME NEW w, NEW S
  PROVE  Total(w, S) = (CHOOSE g : Sums(w, S, g))[S]
BY DEF Total, FoldSet, MapThenFoldSet, Sums, Pick

\* A set that is not empty has the member the fold takes first.
LEMMA PickIn ==
  ASSUME NEW s, s # {}
  PROVE  Pick(s) \in s
BY DEF Pick

\* Among some subsets of a finite set there is one that has no other inside.
LEMMA MinimalSubset ==
  ASSUME NEW S, IsFiniteSet(S), NEW B, B \subseteq SUBSET S, B # {}
  PROVE  \E x \in B : \A y \in B : y \subseteq x => y = x
<1>1. FiniteSubsetsOf(S) = SUBSET S
  BY FS_FiniteSubsetsOfFinite
<1>2. IsWellFoundedOn(StrictSubsetOrdering(S), SUBSET S)
  BY <1>1, FS_StrictSubsetOrderingWellFounded
<1>3. PICK x \in B : \A y \in B : ~(<<y, x>> \in StrictSubsetOrdering(S))
  BY <1>2, WFMin
<1>4. \A y \in B : y \subseteq x => y = x
  BY <1>3 DEF StrictSubsetOrdering
<1> QED BY <1>4

\* Two tables agree wherever both are defined.
LEMMA SumsUnique ==
  ASSUME NEW w, NEW S, IsFiniteSet(S), NEW T \in SUBSET S, NEW g, NEW h,
         Sums(w, S, g), Sums(w, T, h)
  PROVE  \A s \in SUBSET T : g[s] = h[s]
<1> DEFINE B == {s \in SUBSET T : g[s] # h[s]}
<1> SUFFICES ASSUME B # {} PROVE FALSE
  OBVIOUS
<1>1. IsFiniteSet(T)
  BY FS_Subset
<1>2. PICK x \in B : \A y \in B : y \subseteq x => y = x
  <2> HIDE DEF B
  <2>1. B \subseteq SUBSET T
    BY DEF B
  <2> QED BY <1>1, <2>1, MinimalSubset
<1>3. x # {}
  BY DEF Sums
<1>4. Pick(x) \in x
  BY <1>3, PickIn
<1> DEFINE y == x \ {Pick(x)}
<1>5. y \notin B
  BY <1>2, <1>4
<1>6. g[y] = h[y]
  BY <1>5
<1>7. g[x] = w[Pick(x)] + g[y]
  <2>1. x \in SUBSET S
    OBVIOUS
  <2> HIDE DEF y, B
  <2>2. g[x] = w[Pick(x)] + g[x \ {Pick(x)}]
    BY <1>3, <2>1 DEF Sums
  <2> QED BY <2>2 DEF y
<1>8. h[x] = w[Pick(x)] + h[y]
  <2>1. x \in SUBSET T
    OBVIOUS
  <2> HIDE DEF y, B
  <2>2. h[x] = w[Pick(x)] + h[x \ {Pick(x)}]
    BY <1>3, <2>1 DEF Sums
  <2> QED BY <2>2 DEF y
<1> QED BY <1>6, <1>7, <1>8

\* Every finite set has a table.
LEMMA SumsExist ==
  ASSUME NEW w, NEW S, IsFiniteSet(S)
  PROVE  \E g : Sums(w, S, g)
<1> DEFINE B == {T \in SUBSET S : ~ \E g : Sums(w, T, g)}
<1> SUFFICES ASSUME B # {} PROVE FALSE
  OBVIOUS
<1>2. PICK T \in B : \A y \in B : y \subseteq T => y = T
  <2>1. B \subseteq SUBSET S
    OBVIOUS
  <2> HIDE DEF B
  <2> QED BY <2>1, MinimalSubset
<1> DEFINE G(s) == CHOOSE g : Sums(w, s, g)
           F(s) == IF s = {} THEN 0 ELSE w[Pick(s)] + G(s \ {Pick(s)})[s \ {Pick(s)}]
           f == [s \in SUBSET T |-> F(s)]
<1>3. \A s \in SUBSET T : s # T => Sums(w, s, G(s))
  <2> SUFFICES ASSUME NEW s \in SUBSET T, s # T PROVE Sums(w, s, G(s))
    OBVIOUS
  <2>1. \E g : Sums(w, s, g)
    BY <1>2
  <2> QED BY <2>1
<1>4. ASSUME NEW u \in SUBSET T, u # T PROVE F(u) = G(u)[u]
  <2>1. Sums(w, u, G(u))
    BY <1>3, <1>4
  <2>2. CASE u = {}
    <3> HIDE DEF G
    <3>1. G(u)[u] = 0
      BY <2>1, <2>2 DEF Sums
    <3> QED BY <2>2, <3>1
  <2>3. CASE u # {}
    <3> DEFINE v == u \ {Pick(u)}
    <3>1. Pick(u) \in u
      BY <2>3, PickIn
    <3>2. Sums(w, v, G(v))
      BY <1>3, <1>4, <3>1
    <3>3. IsFiniteSet(u)
      BY <1>4, FS_Subset
    <3> HIDE DEF G
    <3>4. G(u)[v] = G(v)[v]
      BY <2>1, <3>2, <3>3, SumsUnique
    <3>5. G(u)[u] = w[Pick(u)] + G(u)[v]
      BY <2>1, <2>3 DEF Sums
    <3> QED BY <2>3, <3>4, <3>5
  <2> QED BY <2>2, <2>3
<1>5. ASSUME NEW s \in SUBSET T
      PROVE  F(s) = IF s = {} THEN 0 ELSE w[Pick(s)] + f[s \ {Pick(s)}]
  <2>1. CASE s = {}
    BY <2>1
  <2>2. CASE s # {}
    <3> DEFINE u == s \ {Pick(s)}
    <3>1. Pick(s) \in s
      BY <2>2, PickIn
    <3>2. u \in SUBSET T /\ u # T
      BY <1>5, <3>1
    <3>3. F(u) = G(u)[u]
      BY <1>4, <3>2
    <3>4. f[u] = F(u)
      BY <3>2
    <3> HIDE DEF G
    <3> QED BY <2>2, <3>3, <3>4
  <2> QED BY <2>1, <2>2
<1>6. Sums(w, T, f)
  <2> HIDE DEF F
  <2> QED BY <1>5 DEF Sums
<1> QED
  <2> HIDE DEF F, f
  <2> QED BY <1>2, <1>6

\* Nothing weighs nothing.
LEMMA TotalEmpty ==
  ASSUME NEW w
  PROVE  Total(w, {}) = 0
<1> DEFINE g == CHOOSE f : Sums(w, {}, f)
<1>1. IsFiniteSet({})
  BY FS_EmptySet
<1>2. Sums(w, {}, g)
  BY <1>1, SumsExist
<1> HIDE DEF g
<1>3. g[{}] = 0
  BY <1>2 DEF Sums
<1> QED BY <1>3, TotalUnfold DEF g

\* A sum is the first member's weight and the sum of the others.
LEMMA TotalStep ==
  ASSUME NEW w, NEW S, IsFiniteSet(S), S # {}
  PROVE  Total(w, S) = w[Pick(S)] + Total(w, S \ {Pick(S)})
<1> DEFINE T == S \ {Pick(S)}
           g == CHOOSE f : Sums(w, S, f)
           h == CHOOSE f : Sums(w, T, f)
<1>1. IsFiniteSet(T)
  BY FS_Subset
<1>2. Sums(w, S, g)
  BY SumsExist
<1>3. Sums(w, T, h)
  BY <1>1, SumsExist
<1> HIDE DEF g, h
<1>4. g[T] = h[T]
  <2>1. \A s \in SUBSET T : g[s] = h[s]
    <3>1. T \in SUBSET S
      OBVIOUS
    <3> HIDE DEF T
    <3> QED BY <1>2, <1>3, <3>1, SumsUnique
  <2> QED BY <2>1
<1>5. g[S] = w[Pick(S)] + g[T]
  BY <1>2 DEF Sums
<1>6. Total(w, S) = g[S] /\ Total(w, T) = h[T]
  BY TotalUnfold DEF g, h
<1> QED BY <1>4, <1>5, <1>6

\* A sum of natural numbers is one.
LEMMA TotalType ==
  ASSUME NEW w, NEW S, IsFiniteSet(S), \A a \in S : w[a] \in Nat
  PROVE  Total(w, S) \in Nat
<1> DEFINE B == {T \in SUBSET S : Total(w, T) \notin Nat}
<1> SUFFICES ASSUME B # {} PROVE FALSE
  OBVIOUS
<1>1. PICK T \in B : \A y \in B : y \subseteq T => y = T
  <2>1. B \subseteq SUBSET S
    OBVIOUS
  <2> HIDE DEF B
  <2> QED BY <2>1, MinimalSubset
<1>2. T # {} /\ IsFiniteSet(T)
  <2>1. Total(w, T) \notin Nat /\ T \in SUBSET S
    OBVIOUS
  <2>2. T # {}
    BY <2>1, TotalEmpty
  <2> QED BY <2>1, <2>2, FS_Subset
<1>3. Pick(T) \in T
  BY <1>2, PickIn
<1>4. Total(w, T \ {Pick(T)}) \in Nat
  BY <1>1, <1>3
<1>5. w[Pick(T)] \in Nat
  BY <1>3
<1>6. Total(w, T) = w[Pick(T)] + Total(w, T \ {Pick(T)})
  BY <1>2, TotalStep
<1> QED BY <1>4, <1>5, <1>6

\* An element can be taken out of a sum wherever it stands.
LEMMA TotalRemove ==
  ASSUME NEW w, NEW S, IsFiniteSet(S), \A a \in S : w[a] \in Nat, NEW x \in S
  PROVE  Total(w, S) = w[x] + Total(w, S \ {x})
<1> DEFINE P(T) == \A y \in T : Total(w, T) = w[y] + Total(w, T \ {y})
           B == {T \in SUBSET S : ~P(T)}
<1> SUFFICES ASSUME B # {} PROVE FALSE
  OBVIOUS
<1>1. PICK T \in B : \A y \in B : y \subseteq T => y = T
  <2>1. B \subseteq SUBSET S
    OBVIOUS
  <2> HIDE DEF B
  <2> QED BY <2>1, MinimalSubset
<1>2. PICK y \in T : ~(Total(w, T) = w[y] + Total(w, T \ {y}))
  BY <1>1
<1>3. T # {} /\ IsFiniteSet(T)
  BY <1>2, FS_Subset
<1> DEFINE c == Pick(T)
           U == T \ {c}
           V == T \ {y}
           W == T \ {c, y}
<1>4. c \in T
  BY <1>3, PickIn
<1>5. Total(w, T) = w[c] + Total(w, U)
  BY <1>3, TotalStep
<1>6. c # y
  BY <1>2, <1>5
<1>7. P(U) /\ P(V)
  BY <1>1, <1>2, <1>4
<1>8. U \ {y} = W /\ V \ {c} = W /\ y \in U /\ c \in V
  BY <1>2, <1>4, <1>6
<1>9. Total(w, U) = w[y] + Total(w, W) /\ Total(w, V) = w[c] + Total(w, W)
  BY <1>7, <1>8
<1>10. w[c] \in Nat /\ w[y] \in Nat /\ Total(w, W) \in Nat
  <2>1. IsFiniteSet(W) /\ \A a \in W : w[a] \in Nat
    BY <1>3, FS_Subset
  <2> HIDE DEF W
  <2>2. Total(w, W) \in Nat
    BY <2>1, TotalType
  <2> QED BY <1>2, <1>4, <2>2
<1>11. Total(w, T) = w[y] + Total(w, V)
  <2> HIDE DEF c, U, V, W, P
  <2> QED BY <1>5, <1>9, <1>10
<1> QED BY <1>2, <1>11

\* A member more.
LEMMA TotalAdd ==
  ASSUME NEW w, NEW S, IsFiniteSet(S), NEW x, x \notin S, w[x] \in Nat, \A a \in S : w[a] \in Nat
  PROVE  Total(w, S \cup {x}) = Total(w, S) + w[x]
<1> DEFINE T == S \cup {x}
<1>1. IsFiniteSet(T) /\ x \in T /\ T \ {x} = S /\ \A a \in T : w[a] \in Nat
  BY FS_AddElement
<1>2. Total(w, T) = w[x] + Total(w, T \ {x})
  <2> HIDE DEF T
  <2> QED BY <1>1, TotalRemove
<1>3. Total(w, S) \in Nat
  BY TotalType
<1> QED BY <1>1, <1>2, <1>3

\* A set of bytes added to a disjoint one.
LEMMA TotalUnion ==
  ASSUME NEW w, NEW S, IsFiniteSet(S), NEW R, IsFiniteSet(R), S \cap R = {},
         \A a \in S \cup R : w[a] \in Nat
  PROVE  Total(w, S \cup R) = Total(w, S) + Total(w, R)
<1> DEFINE B == {T \in SUBSET R : Total(w, S \cup T) # Total(w, S) + Total(w, T)}
<1> SUFFICES ASSUME B # {} PROVE FALSE
  OBVIOUS
<1>0. Total(w, S) \in Nat
  BY TotalType
<1>1. PICK T \in B : \A y \in B : y \subseteq T => y = T
  <2>1. B \subseteq SUBSET R
    OBVIOUS
  <2> HIDE DEF B
  <2> QED BY <2>1, MinimalSubset
<1>2. T # {}
  <2>1. S \cup {} = S
    OBVIOUS
  <2> QED BY <1>0, <2>1, TotalEmpty
<1>3. PICK x : x \in T
  BY <1>2
<1> DEFINE U == T \ {x}
<1>4. U \notin B /\ U \in SUBSET R
  BY <1>1, <1>3
<1>5. Total(w, S \cup U) = Total(w, S) + Total(w, U)
  BY <1>4
<1>6. /\ IsFiniteSet(U) /\ IsFiniteSet(S \cup U)
      /\ x \notin U /\ x \notin S \cup U /\ w[x] \in Nat
      /\ U \cup {x} = T /\ (S \cup U) \cup {x} = S \cup T
      /\ \A a \in S \cup U : w[a] \in Nat
  BY <1>3, FS_Subset, FS_Union
<1>7. Total(w, T) = Total(w, U) + w[x] /\ Total(w, U) \in Nat
  <2> HIDE DEF U, B
  <2>1. \A a \in U : w[a] \in Nat
    BY <1>6
  <2> QED BY <1>6, <2>1, TotalAdd, TotalType
<1>8. Total(w, S \cup T) = Total(w, S \cup U) + w[x]
  <2> DEFINE V == S \cup U
  <2>1. IsFiniteSet(V) /\ x \notin V /\ (\A a \in V : w[a] \in Nat) /\ V \cup {x} = S \cup T
    BY <1>6
  <2>2. Total(w, V \cup {x}) = Total(w, V) + w[x]
    <3> HIDE DEF V
    <3> QED BY <1>6, <2>1, TotalAdd
  <2> QED BY <2>1, <2>2
<1> QED
  <2> HIDE DEF U
  <2> QED BY <1>0, <1>1, <1>5, <1>6, <1>7, <1>8

\* A sum is determined by the weights of its members.
LEMMA TotalAgree ==
  ASSUME NEW w, NEW v, NEW S, IsFiniteSet(S), \A a \in S : w[a] = v[a]
  PROVE  Total(w, S) = Total(v, S)
<1> DEFINE B == {T \in SUBSET S : Total(w, T) # Total(v, T)}
<1> SUFFICES ASSUME B # {} PROVE FALSE
  OBVIOUS
<1>1. PICK T \in B : \A y \in B : y \subseteq T => y = T
  <2>1. B \subseteq SUBSET S
    OBVIOUS
  <2> HIDE DEF B
  <2> QED BY <2>1, MinimalSubset
<1>2. T # {} /\ IsFiniteSet(T)
  <2>1. Total(w, T) # Total(v, T) /\ T \in SUBSET S
    OBVIOUS
  <2> QED BY <2>1, TotalEmpty, FS_Subset
<1>3. Pick(T) \in T
  BY <1>2, PickIn
<1>4. Total(w, T \ {Pick(T)}) = Total(v, T \ {Pick(T)})
  BY <1>1, <1>3
<1>5. Total(w, T) = w[Pick(T)] + Total(w, T \ {Pick(T)})
  BY <1>2, TotalStep
<1>6. Total(v, T) = v[Pick(T)] + Total(v, T \ {Pick(T)})
  BY <1>2, TotalStep
<1>7. w[Pick(T)] = v[Pick(T)]
  BY <1>3
<1> QED BY <1>1, <1>4, <1>5, <1>6, <1>7

\* Weights of nothing sum to nothing.
LEMMA TotalZero ==
  ASSUME NEW w, NEW S, IsFiniteSet(S), \A a \in S : w[a] = 0
  PROVE  Total(w, S) = 0
<1> DEFINE B == {T \in SUBSET S : Total(w, T) # 0}
<1> SUFFICES ASSUME B # {} PROVE FALSE
  OBVIOUS
<1>1. PICK T \in B : \A y \in B : y \subseteq T => y = T
  <2>1. B \subseteq SUBSET S
    OBVIOUS
  <2> HIDE DEF B
  <2> QED BY <2>1, MinimalSubset
<1>2. T # {} /\ IsFiniteSet(T)
  <2>1. Total(w, T) # 0 /\ T \in SUBSET S
    OBVIOUS
  <2> QED BY <2>1, TotalEmpty, FS_Subset
<1>3. Pick(T) \in T
  BY <1>2, PickIn
<1>4. Total(w, T \ {Pick(T)}) = 0
  BY <1>1, <1>3
<1>5. Total(w, T) = w[Pick(T)] + Total(w, T \ {Pick(T)})
  BY <1>2, TotalStep
<1> QED BY <1>1, <1>3, <1>4, <1>5

\* Weights that count in a part only sum to the sum over the part.
LEMMA TotalMasked ==
  ASSUME NEW S, IsFiniteSet(S), NEW w, \A a \in S : w[a] \in Nat, NEW T \in SUBSET S,
         NEW v, \A a \in S : v[a] = IF a \in T THEN w[a] ELSE 0
  PROVE  Total(v, S) = Total(w, T)
<1>1. IsFiniteSet(T) /\ IsFiniteSet(S \ T) /\ T \cup (S \ T) = S /\ T \cap (S \ T) = {}
  BY FS_Subset
<1>2. Total(v, T \cup (S \ T)) = Total(v, T) + Total(v, S \ T)
  <2>1. \A a \in S : v[a] \in Nat
    OBVIOUS
  <2> QED BY <1>1, <2>1, TotalUnion
<1>3. Total(v, T) = Total(w, T)
  BY <1>1, TotalAgree
<1>4. Total(v, S \ T) = 0
  BY <1>1, TotalZero
<1>5. Total(w, T) \in Nat
  BY <1>1, TotalType
<1> QED BY <1>1, <1>2, <1>3, <1>4, <1>5

\* Of natural weights a part sums to no more than the whole.
LEMMA TotalMore ==
  ASSUME NEW S, IsFiniteSet(S), NEW w, \A a \in S : w[a] \in Nat, NEW T \in SUBSET S
  PROVE  Total(w, T) <= Total(w, S) /\ Total(w, T) \in Nat /\ Total(w, S) \in Nat
<1>1. IsFiniteSet(T) /\ IsFiniteSet(S \ T) /\ T \cup (S \ T) = S /\ T \cap (S \ T) = {}
  BY FS_Subset
<1>2. Total(w, T \cup (S \ T)) = Total(w, T) + Total(w, S \ T)
  BY <1>1, TotalUnion
<1>3. Total(w, T) \in Nat /\ Total(w, S \ T) \in Nat
  BY <1>1, TotalType
<1>4. Total(w, S) = Total(w, T) + Total(w, S \ T)
  <2> DEFINE R == S \ T
  <2>1. T \cup R = S
    BY <1>1
  <2>2. Total(w, T \cup R) = Total(w, T) + Total(w, R)
    BY <1>2
  <2> HIDE DEF R
  <2>3. Total(w, S) = Total(w, T) + Total(w, R)
    BY <2>1, <2>2
  <2> QED BY <2>3 DEF R
<1> DEFINE x == Total(w, T)
           y == Total(w, S \ T)
           z == Total(w, S)
<1>5. x \in Nat /\ y \in Nat /\ z = x + y
  BY <1>3, <1>4
<1> HIDE DEF x, y, z
<1>6. x <= z /\ x \in Nat /\ z \in Nat
  BY <1>5
<1> QED BY <1>6 DEF x, z

(***************************************************************************)
(* Enumerations.                                                           *)
(***************************************************************************)
\* The numbers of a finite set, in ascending order, are a sequence that rises:
\* how many members are at most a is a bijection from the set to its positions.
LEMMA AscendingRises ==
  ASSUME NEW S, S \subseteq Nat, IsFiniteSet(S)
  PROVE  /\ Ascending(S) \in Seq(S) /\ Len(Ascending(S)) = Cardinality(S)
         /\ \A i, j \in DOMAIN Ascending(S) : i < j => Ascending(S)[i] < Ascending(S)[j]
<1> DEFINE n == Cardinality(S)
           UpTo(a) == {b \in S : b <= a}
           rank == [a \in S |-> Cardinality(UpTo(a))]
           A == Ascending(S)
<1>1. n \in Nat
  BY FS_CardinalityType
<1>2. ASSUME NEW a \in S
      PROVE  IsFiniteSet(UpTo(a)) /\ rank[a] \in 1 .. n
  <2>1. UpTo(a) \in SUBSET S /\ a \in UpTo(a) /\ a \in Nat
    OBVIOUS
  <2> HIDE DEF UpTo
  <2>2. IsFiniteSet(UpTo(a)) /\ Cardinality(UpTo(a)) <= n
    BY <2>1, FS_Subset
  <2>3. Cardinality(UpTo(a)) \in Nat
    BY <2>2, FS_CardinalityType
  <2>4. Cardinality(UpTo(a)) # 0
    BY <2>1, <2>2, FS_EmptySet
  <2> QED BY <1>1, <2>2, <2>3, <2>4
<1>3. ASSUME NEW a \in S, NEW b \in S, a < b
      PROVE  rank[a] < rank[b]
  <2>0. a \in Int /\ b \in Int /\ \A c \in S : c \in Int
    OBVIOUS
  <2>1. UpTo(a) \in SUBSET UpTo(b) /\ b \in UpTo(b) /\ b \notin UpTo(a)
    <3>1. \A c \in UpTo(a) : c \in UpTo(b)
      BY <1>3, <2>0
    <3>2. b \in UpTo(b) /\ b \notin UpTo(a)
      BY <1>3, <2>0
    <3> QED BY <3>1, <3>2
  <2>2. IsFiniteSet(UpTo(b)) /\ rank[a] \in 1 .. n /\ rank[b] \in 1 .. n
    BY <1>2
  <2>3. rank[a] = Cardinality(UpTo(a)) /\ rank[b] = Cardinality(UpTo(b))
    OBVIOUS
  <2> HIDE DEF UpTo, rank
  <2>4. /\ Cardinality(UpTo(a)) <= Cardinality(UpTo(b))
        /\ Cardinality(UpTo(a)) # Cardinality(UpTo(b))
    BY <2>1, <2>2, FS_Subset
  <2> QED BY <1>1, <2>2, <2>3, <2>4
<1>4. \A i \in 1 .. n : \E a \in S : rank[a] = i
  <2>1. rank \in [S -> 1 .. n]
    BY <1>2
  <2>2. \A a, b \in S : rank[a] = rank[b] => a = b
    <3> SUFFICES ASSUME NEW a \in S, NEW b \in S, rank[a] = rank[b], a # b PROVE FALSE
      OBVIOUS
    <3>1. a \in Nat /\ b \in Nat /\ rank[a] \in 1 .. n
      BY <1>2
    <3>2. a < b \/ b < a
      BY <3>1
    <3> HIDE DEF rank
    <3>3. rank[a] < rank[b] \/ rank[b] < rank[a]
      BY <1>3, <3>2
    <3> QED BY <1>1, <3>1, <3>3
  <2>3. rank \in Injection(S, 1 .. n)
    <3> HIDE DEF rank
    <3> QED BY <2>1, <2>2 DEF Injection, IsInjective
  <2>4. IsFiniteSet(1 .. n) /\ Cardinality(1 .. n) = n
    BY <1>1, FS_Interval
  <2>5. rank \in Surjection(S, 1 .. n)
    <3> HIDE DEF rank
    <3> QED BY <2>3, <2>4, FS_Injection
  <2> HIDE DEF rank
  <2> QED BY <2>5 DEF Surjection
<1>5. ASSUME NEW i \in 1 .. n
      PROVE  A[i] \in S /\ rank[A[i]] = i
  <2>1. PICK a \in S : rank[a] = i
    BY <1>4
  <2>2. Cardinality(UpTo(a)) = i
    BY <2>1
  <2>3. A[i] = CHOOSE b \in S : Cardinality(UpTo(b)) = i
    BY DEF Ascending
  <2>4. A[i] \in S /\ Cardinality(UpTo(A[i])) = i
    <3> HIDE DEF UpTo, A
    <3> QED BY <2>2, <2>3
  <2> QED BY <2>4
<1>6. A \in [1 .. n -> S] /\ DOMAIN A = 1 .. n
  BY <1>5 DEF Ascending
<1>7. ASSUME NEW i \in 1 .. n, NEW j \in 1 .. n, i < j
      PROVE  A[i] < A[j]
  <2>1. A[i] \in S /\ A[j] \in S /\ rank[A[i]] = i /\ rank[A[j]] = j
    BY <1>5
  <2> HIDE DEF A, rank
  <2>0. i \in Int /\ j \in Int /\ i # j
    BY <1>1, <1>7
  <2>2. A[i] \in Int /\ A[j] \in Int
    <3>1. \A c \in S : c \in Int
      OBVIOUS
    <3> QED BY <2>1, <3>1
  <2>3. A[j] < A[i] => rank[A[j]] < rank[A[i]]
    BY <1>3, <2>1
  <2>4. ~(A[j] < A[i])
    BY <1>7, <2>0, <2>1, <2>3
  <2>5. A[i] # A[j]
    BY <2>0, <2>1
  <2> QED BY <2>2, <2>4, <2>5
<1> QED
  <2> HIDE DEF A, n
  <2>1. A \in Seq(S) /\ Len(A) = n
    BY <1>1, <1>6
  <2> QED BY <1>6, <1>7, <2>1 DEF A, n

(***************************************************************************)
(* Folds over a sequence, and sorting.                                     *)
(***************************************************************************)
\* A set of positions has a last one.
LEMMA LastIn ==
  ASSUME NEW n \in Nat, NEW s \in SUBSET (1 .. n), s # {}
  PROVE  Max(s) \in s /\ \A i \in s : i <= Max(s)
<1> DEFINE D == {n - i : i \in s}
<1>1. D \in SUBSET Nat /\ D # {}
  <2>1. \A i \in s : n - i \in Nat
    OBVIOUS
  <2> QED BY <2>1
<1>2. PICK d \in D : \A e \in D : d <= e
  <2> HIDE DEF D
  <2> QED BY <1>1, LeastNat
<1>3. PICK i \in s : d = n - i
  BY <1>2
<1>4. \A j \in s : i >= j
  <2> TAKE j \in s
  <2>1. n - i <= n - j
    BY <1>2, <1>3
  <2> QED BY <2>1
<1>5. Max(s) \in s /\ \A j \in s : Max(s) >= j
  BY <1>3, <1>4 DEF Max
<1> QED BY <1>5

\* The first positions end with the last of them.
LEMMA UpToLast ==
  ASSUME NEW n \in Nat, NEW i \in 1 .. n
  PROVE  /\ 1 .. i \in SUBSET (1 .. n) /\ 1 .. i # {}
         /\ Max(1 .. i) = i /\ (1 .. i) \ {i} = 1 .. (i - 1)
<1>1. 1 .. i \in SUBSET (1 .. n) /\ i \in 1 .. i
  OBVIOUS
<1>2. Max(1 .. i) \in 1 .. i /\ i <= Max(1 .. i)
  BY <1>1, LastIn
<1> QED BY <1>1, <1>2

\* A fold that steps inside a set C has a table of its results, with values in C.
Tabled(n, base, G, g) ==
  \A s \in SUBSET (1 .. n) : g[s] = IF s = {} THEN base ELSE G[<<g[s \ {Max(s)}], Max(s)>>]
LEMMA TableExists ==
  ASSUME NEW n \in Nat, NEW C, NEW base \in C, NEW G \in [C \X (1 .. n) -> C]
  PROVE  \E g \in [SUBSET (1 .. n) -> C] : Tabled(n, base, G, g)
<1> DEFINE P(m) == \E g \in [SUBSET (1 .. m) -> C] : Tabled(m, base, G, g)
           B == {m \in 0 .. n : ~P(m)}
<1> SUFFICES ASSUME B # {} PROVE FALSE
  <2>1. n \in 0 .. n
    OBVIOUS
  <2> QED BY <2>1
<1>1. PICK m \in B : \A j \in B : m <= j
  <2>1. B \in SUBSET Nat
    OBVIOUS
  <2> HIDE DEF B
  <2> QED BY <2>1, LeastNat
<1>2. m # 0
  <2> DEFINE g == [s \in SUBSET (1 .. 0) |-> base]
  <2>1. \A s \in SUBSET (1 .. 0) : s = {}
    OBVIOUS
  <2>2. g \in [SUBSET (1 .. 0) -> C] /\ Tabled(0, base, G, g)
    BY <2>1 DEF Tabled
  <2> HIDE DEF g
  <2> QED BY <1>1, <2>2
<1>3. m \in 1 .. n /\ m \in Nat /\ m - 1 \in 0 .. n /\ m - 1 \notin B
  <2>1. m \in 0 .. n
    OBVIOUS
  <2> HIDE DEF B
  <2>2. m \in 1 .. n /\ m \in Nat /\ m - 1 \in 0 .. n
    BY <1>2, <2>1
  <2>3. m - 1 \in B => m <= m - 1
    BY <1>1
  <2> QED BY <2>2, <2>3
<1>4. PICK h \in [SUBSET (1 .. (m - 1)) -> C] : Tabled(m - 1, base, G, h)
  BY <1>3
<1> DEFINE g == [s \in SUBSET (1 .. m) |-> IF m \in s THEN G[<<h[s \ {m}], m>>] ELSE h[s]]
<1>5. ASSUME NEW s \in SUBSET (1 .. m)
      PROVE  /\ s \ {m} \in SUBSET (1 .. (m - 1))
             /\ m \notin s => s \in SUBSET (1 .. (m - 1))
             /\ m \in s => Max(s) = m
  <2>1. m \in Nat /\ \A i \in s : i # m => i \in 1 .. (m - 1)
    BY <1>3
  <2>2. s # {} => Max(s) \in s /\ \A i \in s : i <= Max(s)
    BY <2>1, LastIn
  <2>3. m \in s => Max(s) = m
    <3>1. s # {} => Max(s) \in 1 .. m
      BY <2>2
    <3> QED BY <2>1, <2>2, <3>1
  <2> QED BY <2>1, <2>3
<1>6. g \in [SUBSET (1 .. m) -> C]
  <2> SUFFICES ASSUME NEW s \in SUBSET (1 .. m) PROVE g[s] \in C
    OBVIOUS
  <2>1. m \in s => <<h[s \ {m}], m>> \in C \X (1 .. n)
    BY <1>3, <1>4, <1>5
  <2>2. m \notin s => h[s] \in C
    BY <1>4, <1>5
  <2> QED BY <2>1, <2>2
<1>7. ASSUME NEW s \in SUBSET (1 .. m)
      PROVE  g[s] = IF s = {} THEN base ELSE G[<<g[s \ {Max(s)}], Max(s)>>]
  <2>1. CASE m \in s
    <3>1. g[s] = G[<<h[s \ {m}], m>>] /\ Max(s) = m /\ s \ {m} \in SUBSET (1 .. m)
      BY <1>5, <2>1
    <3>2. g[s \ {m}] = h[s \ {m}]
      BY <3>1
    <3> QED BY <2>1, <3>1, <3>2
  <2>2. CASE m \notin s
    <3>1. g[s] = h[s] /\ s \in SUBSET (1 .. (m - 1))
      BY <1>5, <2>2
    <3>2. s # {} => Max(s) \in s
      <4> HIDE DEF g, B
      <4> QED BY <1>3, LastIn
    <3>3. s # {} => g[s \ {Max(s)}] = h[s \ {Max(s)}]
      BY <2>2, <3>2
    <3>4. h[s] = IF s = {} THEN base ELSE G[<<h[s \ {Max(s)}], Max(s)>>]
      BY <1>4, <3>1 DEF Tabled
    <3> HIDE DEF g
    <3> QED BY <3>1, <3>3, <3>4
  <2> QED BY <2>1, <2>2
<1>8. Tabled(m, base, G, g)
  <2> HIDE DEF g
  <2> QED BY <1>7 DEF Tabled
<1> QED
  <2> HIDE DEF g
  <2> QED BY <1>1, <1>6, <1>8

\* Sorting by a strict total order lists every member once, in that order.
LEMMA ArrangedInOrder ==
  ASSUME NEW S, IsFiniteSet(S), NEW W,
         \A a, b \in S : a # b => <<a, b>> \in W \/ <<b, a>> \in W,
         \A a \in S : <<a, a>> \notin W,
         \A a, b, c \in S : <<a, b>> \in W /\ <<b, c>> \in W => <<a, c>> \in W
  PROVE  /\ Arranged(S, W) \in Seq(S) /\ Len(Arranged(S, W)) = Cardinality(S)
         /\ \A a \in S : \E i \in 1 .. Cardinality(S) : Arranged(S, W)[i] = a
         /\ \A i, j \in 1 .. Cardinality(S) : i < j => <<Arranged(S, W)[i], Arranged(S, W)[j]>> \in W
<1> DEFINE n == Cardinality(S)
           Below(a) == {b \in S : <<b, a>> \in W}
           rank == [a \in S |-> Cardinality(Below(a)) + 1]
           A == Arranged(S, W)
<1>1. n \in Nat
  BY FS_CardinalityType
<1>2. ASSUME NEW a \in S
      PROVE  IsFiniteSet(Below(a)) /\ Cardinality(Below(a)) \in Nat /\ rank[a] \in 1 .. n
  <2>1. Below(a) \in SUBSET S /\ a \notin Below(a)
    OBVIOUS
  <2>0. rank[a] = Cardinality(Below(a)) + 1
    OBVIOUS
  <2> HIDE DEF Below, rank
  <2>2. IsFiniteSet(Below(a)) /\ Cardinality(Below(a)) <= n /\ Cardinality(Below(a)) # n
    BY <2>1, FS_Subset
  <2>3. Cardinality(Below(a)) \in Nat
    BY <2>2, FS_CardinalityType
  <2> QED BY <1>1, <2>0, <2>2, <2>3
<1>3. ASSUME NEW a \in S, NEW b \in S, <<a, b>> \in W
      PROVE  rank[a] < rank[b]
  <2>1. Below(a) \in SUBSET Below(b) /\ a \in Below(b) /\ a \notin Below(a)
    BY <1>3
  <2>2. IsFiniteSet(Below(b)) /\ Cardinality(Below(a)) \in Nat /\ Cardinality(Below(b)) \in Nat
    BY <1>2
  <2>3. rank[a] = Cardinality(Below(a)) + 1 /\ rank[b] = Cardinality(Below(b)) + 1
    OBVIOUS
  <2> HIDE DEF Below, rank
  <2>4. /\ Cardinality(Below(a)) <= Cardinality(Below(b))
        /\ Cardinality(Below(a)) # Cardinality(Below(b))
    BY <2>1, <2>2, FS_Subset
  <2> QED BY <2>2, <2>3, <2>4
<1>4. \A a, b \in S : rank[a] = rank[b] => a = b
  <2> SUFFICES ASSUME NEW a \in S, NEW b \in S, rank[a] = rank[b], a # b PROVE FALSE
    OBVIOUS
  <2>1. rank[a] \in 1 .. n
    BY <1>2
  <2> HIDE DEF rank
  <2>2. rank[a] < rank[b] \/ rank[b] < rank[a]
    BY <1>3
  <2> QED BY <1>1, <2>1, <2>2
<1>5. \A i \in 1 .. n : \E a \in S : rank[a] = i
  <2>1. rank \in [S -> 1 .. n]
    BY <1>2
  <2>2. rank \in Injection(S, 1 .. n)
    <3> HIDE DEF rank
    <3> QED BY <1>4, <2>1 DEF Injection, IsInjective
  <2>3. IsFiniteSet(1 .. n) /\ Cardinality(1 .. n) = n
    BY <1>1, FS_Interval
  <2>4. rank \in Surjection(S, 1 .. n)
    <3> HIDE DEF rank
    <3> QED BY <2>2, <2>3, FS_Injection
  <2> HIDE DEF rank
  <2> QED BY <2>4 DEF Surjection
<1>6. ASSUME NEW i \in 1 .. n
      PROVE  A[i] \in S /\ rank[A[i]] = i
  <2>1. PICK a \in S : rank[a] = i
    BY <1>5
  <2>2. Cardinality(Below(a)) = i - 1
    <3>1. Cardinality(Below(a)) + 1 = i
      BY <2>1
    <3>2. Cardinality(Below(a)) \in Nat
      BY <1>2
    <3> HIDE DEF Below
    <3> QED BY <1>1, <3>1, <3>2
  <2>3. A[i] = CHOOSE b \in S : Cardinality(Below(b)) = i - 1
    BY DEF Arranged
  <2>4. A[i] \in S /\ Cardinality(Below(A[i])) = i - 1
    <3> HIDE DEF Below, A
    <3> QED BY <2>2, <2>3
  <2>5. rank[A[i]] = Cardinality(Below(A[i])) + 1
    BY <2>4
  <2> HIDE DEF A, rank, Below
  <2> QED BY <1>1, <2>4, <2>5
<1>7. A \in [1 .. n -> S] /\ DOMAIN A = 1 .. n
  BY <1>6 DEF Arranged
<1>8. ASSUME NEW i \in 1 .. n, NEW j \in 1 .. n, i < j
      PROVE  <<A[i], A[j]>> \in W
  <2>1. A[i] \in S /\ A[j] \in S /\ rank[A[i]] = i /\ rank[A[j]] = j
    BY <1>6
  <2> HIDE DEF A, rank
  <2>2. i \in Int /\ j \in Int /\ i # j
    BY <1>1, <1>8
  <2>3. <<A[j], A[i]>> \in W => rank[A[j]] < rank[A[i]]
    BY <1>3, <2>1
  <2>4. <<A[j], A[i]>> \notin W /\ A[i] # A[j]
    BY <1>8, <2>1, <2>2, <2>3
  <2> QED BY <2>1, <2>4
<1>9. \A a \in S : \E i \in 1 .. n : A[i] = a
  <2> TAKE a \in S
  <2>1. rank[a] \in 1 .. n
    BY <1>2
  <2>2. A[rank[a]] \in S /\ rank[A[rank[a]]] = rank[a]
    <3> HIDE DEF A, rank
    <3> QED BY <1>6, <2>1
  <2> HIDE DEF A, rank
  <2> QED BY <1>4, <2>1, <2>2
<1> QED
  <2> HIDE DEF A, n
  <2>1. A \in Seq(S) /\ Len(A) = n
    BY <1>1, <1>7
  <2> QED BY <1>8, <1>9, <2>1 DEF A, n

(***************************************************************************)
(* Placement.                                                              *)
(***************************************************************************)
\* Comparing pairs, and comparing tuples of four.
LEMMA LexTwo ==
  ASSUME NEW x, NEW y
  PROVE  Lex(x, y, 2) <=> x[1] < y[1] \/ (x[1] = y[1] /\ x[2] < y[2])
BY DEF Lex

LEMMA LexFour ==
  ASSUME NEW x, NEW y
  PROVE  Lex(x, y, 4) <=>
           \/ x[1] < y[1]
           \/ x[1] = y[1] /\ x[2] < y[2]
           \/ x[1] = y[1] /\ x[2] = y[2] /\ x[3] < y[3]
           \/ x[1] = y[1] /\ x[2] = y[2] /\ x[3] = y[3] /\ x[4] < y[4]
<1>1. ASSUME NEW n \in 1 .. 4 PROVE n = 1 \/ n = 2 \/ n = 3 \/ n = 4
  OBVIOUS
<1> QED BY <1>1 DEF Lex

\* Rounding up to a multiple: the least one that is not below.
LEMMA AlignedLeast ==
  ASSUME NEW n \in Nat, NEW align \in Nat \ {0}
  PROVE  /\ Aligned(n, align) \in Nat /\ n <= Aligned(n, align)
         /\ Aligned(n, align) % align = 0
         /\ \A o \in Nat : o % align = 0 /\ o < Aligned(n, align) => o < n
<1> DEFINE q == (n + align - 1) \div align
<1>1. q \in Nat /\ q * align <= n + align - 1 /\ n + align - 1 < (q + 1) * align
  OBVIOUS
<1>2. Aligned(n, align) = q * align
  BY DEF Aligned
<1> HIDE DEF q
<1>3. (q + 1) * align = q * align + align /\ q * align \in Nat
  BY <1>1
<1>4. n <= q * align
  BY <1>1, <1>3
<1>5. (q * align) % align = 0
  BY <1>1
<1>6. ASSUME NEW o \in Nat, o % align = 0, o < q * align PROVE o < n
  <2> DEFINE k == o \div align
  <2>1. k \in Nat /\ o = k * align
    BY <1>6
  <2> HIDE DEF k
  <2>2. k < q
    BY <1>1, <1>6, <2>1
  <2>3. (k + 1) * align <= q * align /\ (k + 1) * align = o + align
    BY <1>1, <2>1, <2>2
  <2> QED BY <1>1, <1>3, <2>3
<1> QED BY <1>2, <1>3, <1>4, <1>5, <1>6

\* The table of the scan's results, and the scan as its last entry.
Passes(bytes_, align, q, g) ==
  g = [s \in SUBSET DOMAIN q |->
         IF s = {} THEN [at |-> 0, stop |-> FALSE]
         ELSE Pass(bytes_, align, g[s \ {Max(s)}], q[Max(s)])]
Scan(bytes_, align, q) == CHOOSE g : Passes(bytes_, align, q, g)
ByPair(occupied) == Arranged(occupied, {p \in occupied \X occupied : Lex(p[1], p[2], 2)})

LEMMA FitUnfold ==
  ASSUME NEW bytes_, NEW align, NEW occupied
  PROVE  LowestFit(bytes_, align, occupied)
           = Aligned(Scan(bytes_, align, ByPair(occupied))[DOMAIN ByPair(occupied)].at, align)
BY DEF Scan, LowestFit, FoldLeft, MapThenFoldSet, Passes, ByPair

\* Occupied extents in the order of their starts.
LEMMA PairsInOrder ==
  ASSUME NEW occupied, IsFiniteSet(occupied), occupied \subseteq Nat \X Nat
  PROVE  /\ ByPair(occupied) \in Seq(occupied)
         /\ Len(ByPair(occupied)) = Cardinality(occupied)
         /\ \A x \in occupied : \E i \in 1 .. Cardinality(occupied) : ByPair(occupied)[i] = x
         /\ \A i, j \in 1 .. Cardinality(occupied) :
              i < j => ByPair(occupied)[i][1] <= ByPair(occupied)[j][1]
<1> DEFINE W == {p \in occupied \X occupied : Lex(p[1], p[2], 2)}
<1>1. \A x \in occupied : x[1] \in Nat /\ x[2] \in Nat /\ x = <<x[1], x[2]>>
  OBVIOUS
<1>2. \A x, y \in occupied :
        <<x, y>> \in W <=> x[1] < y[1] \/ (x[1] = y[1] /\ x[2] < y[2])
  BY LexTwo
<1> HIDE DEF W
<1>3. \A x, y \in occupied : x # y => <<x, y>> \in W \/ <<y, x>> \in W
  <2> SUFFICES ASSUME NEW x \in occupied, NEW y \in occupied, x # y
               PROVE  <<x, y>> \in W \/ <<y, x>> \in W
    OBVIOUS
  <2>1. x[1] # y[1] \/ x[2] # y[2]
    BY <1>1, Zenon
  <2> QED BY <1>1, <1>2, <2>1
<1>4. /\ \A x \in occupied : <<x, x>> \notin W
      /\ \A x, y, z \in occupied : <<x, y>> \in W /\ <<y, z>> \in W => <<x, z>> \in W
  BY <1>1, <1>2
<1> DEFINE n == Cardinality(occupied)
           q == Arranged(occupied, W)
<1>5. /\ q \in Seq(occupied) /\ Len(q) = n
      /\ \A x \in occupied : \E i \in 1 .. n : q[i] = x
      /\ \A i, j \in 1 .. n : i < j => <<q[i], q[j]>> \in W
  BY <1>3, <1>4, ArrangedInOrder
<1>6. ByPair(occupied) = q
  BY DEF ByPair, W
<1>7. \A i \in 1 .. n : q[i] \in occupied
  <2> HIDE DEF q, n
  <2> QED BY <1>5
<1> HIDE DEF q
<1>8. \A i, j \in 1 .. n : i < j => q[i][1] <= q[j][1]
  <2> HIDE DEF n
  <2> SUFFICES ASSUME NEW i \in 1 .. n, NEW j \in 1 .. n, i < j PROVE q[i][1] <= q[j][1]
    OBVIOUS
  <2>1. q[i] \in occupied /\ q[j] \in occupied /\ <<q[i], q[j]>> \in W
    BY <1>5, <1>7
  <2>2. q[i][1] \in Nat /\ q[j][1] \in Nat
    BY <1>1, <2>1
  <2>3. q[i][1] < q[j][1] \/ q[i][1] = q[j][1]
    BY <1>2, <2>1
  <2> QED BY <2>2, <2>3
<1> QED BY <1>5, <1>6, <1>8

\* The scan, extent by extent.
Stepwise(bytes_, align, n, q) ==
  LET f == Scan(bytes_, align, q)
  IN  /\ f[{}] = [at |-> 0, stop |-> FALSE]
      /\ \A i \in 1 .. n : f[1 .. i] = Pass(bytes_, align, f[1 .. (i - 1)], q[i])
LEMMA ScanSteps ==
  ASSUME NEW bytes_ \in Nat, NEW align \in Nat \ {0}, NEW n \in Nat, NEW q,
         DOMAIN q = 1 .. n, \A i \in 1 .. n : q[i][1] \in Nat /\ q[i][2] \in Nat
  PROVE  Stepwise(bytes_, align, n, q)
<1> DEFINE C == [at : Nat, stop : BOOLEAN]
           base == [at |-> 0, stop |-> FALSE]
           G == [p \in C \X (1 .. n) |-> Pass(bytes_, align, p[1], q[p[2]])]
           f == Scan(bytes_, align, q)
<1>1. base \in C
  OBVIOUS
<1>2. G \in [C \X (1 .. n) -> C]
  <2>1. ASSUME NEW c \in C, NEW i \in 1 .. n PROVE Pass(bytes_, align, c, q[i]) \in C
    BY <2>1 DEF Pass
  <2> HIDE DEF C
  <2> QED BY <2>1
<1>3. PICK g \in [SUBSET (1 .. n) -> C] : Tabled(n, base, G, g)
  <2> HIDE DEF C, base, G
  <2> QED BY <1>1, <1>2, TableExists
<1>4. Passes(bytes_, align, q, g)
  <2>1. ASSUME NEW s \in SUBSET (1 .. n)
        PROVE  g[s] = IF s = {} THEN base
                      ELSE Pass(bytes_, align, g[s \ {Max(s)}], q[Max(s)])
    <3>1. CASE s = {}
      BY <1>3, <3>1 DEF Tabled
    <3>2. CASE s # {}
      <4>1. g[s] = G[<<g[s \ {Max(s)}], Max(s)>>]
        <5> HIDE DEF G, base
        <5> QED BY <1>3, <3>2 DEF Tabled
      <4>2. Max(s) \in s /\ s \ {Max(s)} \in SUBSET (1 .. n)
        BY <3>2, LastIn
      <4>3. <<g[s \ {Max(s)}], Max(s)>> \in C \X (1 .. n)
        <5> HIDE DEF C
        <5> QED BY <1>3, <4>2
      <4>4. G[<<g[s \ {Max(s)}], Max(s)>>] = Pass(bytes_, align, g[s \ {Max(s)}], q[Max(s)])
        <5> HIDE DEF C
        <5> QED BY <4>3
      <4> QED BY <3>2, <4>1, <4>4
    <3> QED BY <3>1, <3>2
  <2> HIDE DEF C, G, base
  <2>2. g = [s \in SUBSET (1 .. n) |->
               IF s = {} THEN base ELSE Pass(bytes_, align, g[s \ {Max(s)}], q[Max(s)])]
    BY <1>3, <2>1
  <2> QED BY <2>2 DEF Passes, base
<1>5. Passes(bytes_, align, q, f)
  BY <1>4 DEF Scan
<1> HIDE DEF f
<1>6. ASSUME NEW s \in SUBSET (1 .. n)
      PROVE  f[s] = IF s = {} THEN base
                    ELSE Pass(bytes_, align, f[s \ {Max(s)}], q[Max(s)])
  BY <1>5 DEF Passes
<1>7. ASSUME NEW i \in 1 .. n
      PROVE  f[1 .. i] = Pass(bytes_, align, f[1 .. (i - 1)], q[i])
  <2>1. /\ 1 .. i \in SUBSET (1 .. n) /\ 1 .. i # {}
        /\ Max(1 .. i) = i /\ (1 .. i) \ {i} = 1 .. (i - 1)
    BY UpToLast
  <2>2. f[1 .. i] = Pass(bytes_, align, f[(1 .. i) \ {Max(1 .. i)}], q[Max(1 .. i)])
    BY <1>6, <2>1
  <2> QED BY <2>1, <2>2
<1> QED BY <1>6, <1>7 DEF Stepwise, f

\* Bytes [low, low + bytes_) clear an extent, or meet it.
Clears(low, bytes_, x) == x[2] <= low \/ low + bytes_ <= x[1]
Crosses(low, bytes_, x) == x[1] < low + bytes_ /\ low < x[2]

\* The first fit clears every occupied extent, and every aligned offset below it meets one.
LEMMA LowestFitSound ==
  ASSUME NEW bytes_ \in Nat \ {0}, NEW align \in Nat \ {0}, NEW occupied, IsFiniteSet(occupied),
         occupied \subseteq Nat \X Nat, NEW low, low = LowestFit(bytes_, align, occupied)
  PROVE  /\ low \in Nat /\ low % align = 0
         /\ \A x \in occupied : Clears(low, bytes_, x)
         /\ \A o \in Nat : o < low /\ o % align = 0 =>
              \E x \in occupied : Crosses(o, bytes_, x)
<1> DEFINE n == Cardinality(occupied)
           q == ByPair(occupied)
           f == Scan(bytes_, align, q)
           c(i) == f[1 .. i]
<1>1. /\ n \in Nat /\ q \in Seq(occupied) /\ Len(q) = n
      /\ \A x \in occupied : \E i \in 1 .. n : q[i] = x
      /\ \A i, j \in 1 .. n : i < j => q[i][1] <= q[j][1]
  BY PairsInOrder, FS_CardinalityType
<1>2. low = Aligned(f[DOMAIN q].at, align) 
  BY FitUnfold
<1> HIDE DEF n, q, f
<1>3. DOMAIN q = 1 .. n /\ \A i \in 1 .. n : q[i] \in occupied
  BY <1>1
<1>4. \A i \in 1 .. n : q[i][1] \in Nat /\ q[i][2] \in Nat
  BY <1>3
<1>5. /\ f[{}] = [at |-> 0, stop |-> FALSE]
      /\ \A i \in 1 .. n : f[1 .. i] = Pass(bytes_, align, f[1 .. (i - 1)], q[i])
  <2>1. bytes_ \in Nat /\ n \in Nat /\ DOMAIN q = 1 .. n
    BY <1>1, <1>3
  <2>2. Stepwise(bytes_, align, n, q)
    BY <1>4, <2>1, ScanSteps
  <2> QED BY <2>2 DEF Stepwise, f
<1> DEFINE I(i) ==
      /\ c(i) \in [at : Nat, stop : BOOLEAN]
      /\ \A o \in Nat : o < Aligned(c(i).at, align) /\ o % align = 0 =>
           \E j \in 1 .. n : Crosses(o, bytes_, q[j])
      /\ ~c(i).stop => \A j \in 1 .. i : q[j][2] <= c(i).at
      /\ c(i).stop => \A j \in 1 .. n : Clears(Aligned(c(i).at, align), bytes_, q[j])
           B == {i \in 0 .. n : ~I(i)}
<1>6. c(0) = [at |-> 0, stop |-> FALSE]
  <2>1. 1 .. 0 = {}
    OBVIOUS
  <2> QED BY <1>5, <2>1
<1>7. I(0)
  <2>1. c(0).at = 0 /\ ~c(0).stop /\ c(0) \in [at : Nat, stop : BOOLEAN]
    BY <1>6
  <2>2. \A o \in Nat : o < Aligned(0, align) /\ o % align = 0 => o < 0
    BY AlignedLeast
  <2> HIDE DEF c
  <2> QED BY <2>1, <2>2
<1>8. ASSUME NEW i \in 1 .. n, I(i - 1) PROVE I(i)
  <2> DEFINE b == c(i - 1)
             x == q[i]
             a == Aligned(b.at, align)
  <2>1. b \in [at : Nat, stop : BOOLEAN] /\ b.at \in Nat /\ b.stop \in BOOLEAN
    BY <1>8
  <2>2. c(i) = Pass(bytes_, align, b, x) /\ x[1] \in Nat /\ x[2] \in Nat /\ i \in Nat
    BY <1>1, <1>4, <1>5
  <2>3. \A o \in Nat : o < a /\ o % align = 0 => \E j \in 1 .. n : Crosses(o, bytes_, q[j])
    BY <1>8
  <2>4. ~b.stop => \A j \in 1 .. (i - 1) : q[j][2] <= b.at
    BY <1>8
  <2>5. b.stop => \A j \in 1 .. n : Clears(a, bytes_, q[j])
    BY <1>8
  <2>6. /\ a \in Nat /\ b.at <= a
        /\ \A o \in Nat : o % align = 0 /\ o < a => o < b.at
    BY <2>1, AlignedLeast
  <2>7. \A j \in 1 .. i : j = i \/ j \in 1 .. (i - 1)
    BY <2>2
  <2> HIDE DEF b, c
  <2>8. CASE b.stop \/ x[2] <= b.at
    <3>1. c(i) = b
      BY <2>2, <2>8 DEF Pass
    <3>2. ~b.stop => \A j \in 1 .. i : q[j][2] <= b.at
      BY <2>4, <2>7, <2>8
    <3> QED BY <2>1, <2>3, <2>5, <3>1, <3>2
  <2>9. CASE ~(b.stop \/ x[2] <= b.at) /\ a + bytes_ <= x[1]
    <3>1. c(i) = [b EXCEPT !.stop = TRUE]
      BY <2>2, <2>9 DEF Pass
    <3>2. c(i) \in [at : Nat, stop : BOOLEAN] /\ c(i).at = b.at /\ c(i).stop
      BY <2>1, <3>1
    <3>3. ASSUME NEW j \in 1 .. n PROVE Clears(a, bytes_, q[j])
      <4>1. CASE j \in 1 .. (i - 1)
        <5>1. q[j][2] <= b.at /\ q[j][2] \in Nat
          BY <1>4, <2>4, <2>9, <4>1
        <5> QED BY <2>1, <2>6, <5>1 DEF Clears
      <4>2. CASE j \notin 1 .. (i - 1)
        <5>1. x[1] <= q[j][1] /\ q[j][1] \in Nat
          <6>1. i = j \/ i < j
            BY <1>1, <2>2, <4>2
          <6>2. i < j => x[1] <= q[j][1]
            BY <1>1
          <6>3. q[j][1] \in Nat /\ (i = j => x[1] <= q[j][1])
            BY <1>4
          <6> QED BY <6>1, <6>2, <6>3
        <5> HIDE DEF a, x
        <5> QED BY <2>2, <2>6, <2>9, <5>1 DEF Clears
      <4> QED BY <4>1, <4>2
    <3> QED BY <2>3, <3>2, <3>3
  <2>10. CASE ~(b.stop \/ x[2] <= b.at) /\ ~(a + bytes_ <= x[1])
    <3>1. c(i) = [b EXCEPT !.at = x[2]]
      BY <2>2, <2>10 DEF Pass
    <3>2. c(i) \in [at : Nat, stop : BOOLEAN] /\ c(i).at = x[2] /\ ~c(i).stop
      BY <2>1, <2>2, <2>10, <3>1
    <3>3. \A o \in Nat : o % align = 0 /\ o < Aligned(x[2], align) => o < x[2]
      BY <2>2, AlignedLeast
    <3>4. ASSUME NEW o \in Nat, o < Aligned(x[2], align), o % align = 0
          PROVE  \E j \in 1 .. n : Crosses(o, bytes_, q[j])
      <4>1. CASE o < a
        BY <2>3, <3>4, <4>1
      <4>2. CASE ~(o < a)
        <5>1. o < x[2]
          BY <3>3, <3>4
        <5>2. x[1] < o + bytes_
          <6> HIDE DEF a, x
          <6> QED BY <2>2, <2>6, <2>10, <4>2
        <5> QED BY <5>1, <5>2 DEF Crosses
      <4> QED BY <4>1, <4>2
    <3>5. \A j \in 1 .. i : q[j][2] <= x[2]
      <4> SUFFICES ASSUME NEW j \in 1 .. i PROVE q[j][2] <= x[2]
        OBVIOUS
      <4>1. j \in 1 .. (i - 1) => q[j][2] <= b.at /\ q[j][2] \in Nat
        <5>1. j \in 1 .. (i - 1) => j \in 1 .. n
          BY <1>1, <2>2
        <5> QED BY <1>4, <2>4, <2>10, <5>1
      <4> HIDE DEF b
      <4> QED BY <2>1, <2>2, <2>7, <2>10, <4>1
    <3> QED BY <3>2, <3>4, <3>5
  <2> QED BY <2>8, <2>9, <2>10
<1>9. I(n)
  <2> HIDE DEF I
  <2> SUFFICES ASSUME B # {} PROVE FALSE
    <3>1. n \in 0 .. n
      BY <1>1
    <3> QED BY <3>1
  <2>1. B \in SUBSET Nat
    BY <1>1
  <2>2. PICK i \in B : \A j \in B : i <= j
    <3> HIDE DEF B
    <3> QED BY <2>1, LeastNat
  <2>3. i \in 0 .. n /\ ~I(i)
    OBVIOUS
  <2>4. i # 0
    BY <1>7, <2>3
  <2>5. i \in 1 .. n /\ i - 1 \in 0 .. n /\ i \in Nat
    BY <1>1, <2>3, <2>4
  <2>6. I(i - 1)
    <3>1. i - 1 \in B => i <= i - 1
      BY <2>2
    <3>2. i - 1 \notin B
      <4> HIDE DEF B
      <4> QED BY <2>5, <3>1
    <3> QED BY <2>5, <3>2
  <2> QED BY <1>8, <2>3, <2>5, <2>6
<1> DEFINE e == c(n)
<1>10. low = Aligned(e.at, align) /\ e.at \in Nat /\ e.stop \in BOOLEAN
  BY <1>2, <1>3, <1>9
<1>11. low \in Nat /\ low % align = 0 /\ e.at <= low
  <2> HIDE DEF e
  <2> QED BY <1>10, AlignedLeast
<1>12. \A j \in 1 .. n : Clears(low, bytes_, q[j])
  <2>1. e.stop => \A j \in 1 .. n : Clears(low, bytes_, q[j])
    BY <1>9, <1>10
  <2>2. ~e.stop => \A j \in 1 .. n : q[j][2] <= e.at
    BY <1>9
  <2> HIDE DEF e
  <2> QED BY <1>4, <1>10, <1>11, <2>1, <2>2 DEF Clears
<1>13. \A o \in Nat : o < low /\ o % align = 0 => \E j \in 1 .. n : Crosses(o, bytes_, q[j])
  BY <1>9, <1>10
<1>14. \A x \in occupied : Clears(low, bytes_, x)
  BY <1>1, <1>12
<1> HIDE DEF e
<1> QED BY <1>3, <1>11, <1>13, <1>14

\* What placement asks of the lifetimes.
Lives(life, ids) ==
  \A k \in ids : /\ life[k].bytes \in Nat \ {0}
                 /\ life[k].from \in Nat /\ life[k].to \in Nat

\* The values a table takes on a finite set are finitely many.
LEMMA ValuesFinite ==
  ASSUME NEW S, IsFiniteSet(S), NEW f
  PROVE  IsFiniteSet({f[x] : x \in S})
<1> DEFINE T == {f[x] : x \in S}
           g == [x \in S |-> f[x]]
<1>1. g \in Surjection(S, T)
  BY DEF Surjection
<1> QED BY <1>1, FS_Surjection

\* A lease's key is made of numbers and ends with the lease.
LEMMA KeyTyped ==
  ASSUME NEW ids \in SUBSET Nat, IsFiniteSet(ids), NEW life, Lives(life, ids), NEW l \in ids
  PROVE  /\ Key(life, ids, l)[1] \in Int /\ Key(life, ids, l)[2] \in Int
         /\ Key(life, ids, l)[3] \in Int /\ Key(life, ids, l)[4] = l /\ l \in Int
<1> DEFINE points == {life[k].from : k \in ids} \cup {life[k].to : k \in ids}
           inside == {x \in points : life[l].from <= x /\ x < life[l].to}
           first == [k \in ids |-> life[k].from]
           last == [k \in ids |-> life[k].to]
<1>1. IsFiniteSet({life[k].from : k \in ids}) /\ IsFiniteSet({life[k].to : k \in ids})
  <2>1. IsFiniteSet({first[k] : k \in ids}) /\ IsFiniteSet({last[k] : k \in ids})
    <3> HIDE DEF first, last
    <3> QED BY ValuesFinite
  <2>2. /\ {first[k] : k \in ids} = {life[k].from : k \in ids}
        /\ {last[k] : k \in ids} = {life[k].to : k \in ids}
    OBVIOUS
  <2> QED BY <2>1, <2>2
<1>2. IsFiniteSet(inside)
  <2>1. IsFiniteSet(points)
    BY <1>1, FS_Union
  <2>2. inside \in SUBSET points
    OBVIOUS
  <2> HIDE DEF points, inside
  <2> QED BY <2>1, <2>2, FS_Subset
<1>3. Cardinality(inside) \in Nat
  <2> HIDE DEF inside
  <2> QED BY <1>2, FS_CardinalityType
<1>4. Key(life, ids, l) = <<-life[l].bytes, -Cardinality(inside), life[l].from, l>>
  BY DEF Key
<1> HIDE DEF inside
<1> QED BY <1>3, <1>4 DEF Lives

\* The placement order lists every lease once.
LEMMA PlacementOrdered ==
  ASSUME NEW ids \in SUBSET Nat, IsFiniteSet(ids), NEW life, Lives(life, ids)
  PROVE  LET q == PlacementOrder(life, ids)
             n == Cardinality(ids)
         IN  /\ q \in Seq(ids) /\ Len(q) = n
             /\ \A a \in ids : \E i \in 1 .. n : q[i] = a
             /\ \A i, j \in 1 .. n : i < j => q[i] # q[j]
<1> DEFINE W == {p \in ids \X ids : Lex(Key(life, ids, p[1]), Key(life, ids, p[2]), 4)}
           n == Cardinality(ids)
           q == Arranged(ids, W)
           key == [a \in ids |-> Key(life, ids, a)]
<1>1. \A a \in ids : /\ key[a][1] \in Int /\ key[a][2] \in Int
                     /\ key[a][3] \in Int /\ key[a][4] = a /\ a \in Int
  BY KeyTyped
<1>2. \A a, b \in ids :
        <<a, b>> \in W <=>
          \/ key[a][1] < key[b][1]
          \/ key[a][1] = key[b][1] /\ key[a][2] < key[b][2]
          \/ key[a][1] = key[b][1] /\ key[a][2] = key[b][2] /\ key[a][3] < key[b][3]
          \/ /\ key[a][1] = key[b][1] /\ key[a][2] = key[b][2]
             /\ key[a][3] = key[b][3] /\ key[a][4] < key[b][4]
  <2> TAKE a, b \in ids
  <2>1. <<a, b>> \in W <=> Lex(key[a], key[b], 4)
    OBVIOUS
  <2> HIDE DEF W, key
  <2> QED BY <2>1, LexFour
<1> HIDE DEF W, key
<1>3. /\ \A a, b \in ids : a # b => <<a, b>> \in W \/ <<b, a>> \in W
      /\ \A a \in ids : <<a, a>> \notin W
  BY <1>1, <1>2
<1>4. \A a, b, c \in ids : <<a, b>> \in W /\ <<b, c>> \in W => <<a, c>> \in W
  BY <1>1, <1>2
<1>5. /\ q \in Seq(ids) /\ Len(q) = n
      /\ \A a \in ids : \E i \in 1 .. n : q[i] = a
      /\ \A i, j \in 1 .. n : i < j => <<q[i], q[j]>> \in W
  BY <1>3, <1>4, ArrangedInOrder
<1>6. q = PlacementOrder(life, ids)
  BY DEF PlacementOrder, W
<1>7. \A i \in 1 .. n : q[i] \in ids
  <2> HIDE DEF q, n
  <2> QED BY <1>5
<1> HIDE DEF q
<1>8. \A i, j \in 1 .. n : i < j => q[i] # q[j]
  BY <1>3, <1>5, <1>7
<1> QED BY <1>5, <1>6, <1>8

\* Two placed leases are apart; lease l at offset o would meet placed lease k.
Apart(life, at, k, l) ==
  at[k] + life[k].bytes <= at[l] \/ at[l] + life[l].bytes <= at[k]
Blocks(life, at, k, l, o) ==
  /\ Coincide(life[l], life[k])
  /\ at[k] < o + life[l].bytes /\ o < at[k] + life[k].bytes

\* The offset the scan finds for one more lease.
LEMMA PlaceOne ==
  ASSUME NEW align \in Nat \ {0}, NEW ids \in SUBSET Nat, IsFiniteSet(ids),
         NEW life, Lives(life, ids), NEW D \in SUBSET ids, NEW at \in [D -> Nat],
         NEW l \in ids, NEW low, low = LowestFit(life[l].bytes, align, Occupied(life, at, l))
  PROVE  /\ low \in Nat /\ low % align = 0
         /\ \A k \in D : Coincide(life[l], life[k]) =>
              at[k] + life[k].bytes <= low \/ low + life[l].bytes <= at[k]
         /\ \A o \in Nat : o < low /\ o % align = 0 => \E k \in D : Blocks(life, at, k, l, o)
<1> DEFINE S == {j \in D : Coincide(life[l], life[j])}
           f == [k \in S |-> <<at[k], at[k] + life[k].bytes>>]
           occupied == Occupied(life, at, l)
           b == life[l].bytes
<1>1. occupied = {f[k] : k \in S}
  BY DEF Occupied
<1>2. IsFiniteSet(S)
  BY FS_Subset
<1>3. \A k \in S : f[k] = <<at[k], at[k] + life[k].bytes>> /\ f[k] \in Nat \X Nat
  BY DEF Lives
<1>4. IsFiniteSet(occupied) /\ occupied \subseteq Nat \X Nat
  <2> HIDE DEF S, f, occupied
  <2> QED BY <1>1, <1>2, <1>3, ValuesFinite
<1>5. b \in Nat \ {0}
  BY DEF Lives
<1> HIDE DEF occupied, b
<1>6. low = LowestFit(b, align, occupied)
  BY DEF occupied, b
<1>7. /\ low \in Nat /\ low % align = 0
      /\ \A x \in occupied : Clears(low, b, x)
      /\ \A o \in Nat : o < low /\ o % align = 0 => \E x \in occupied : Crosses(o, b, x)
  BY <1>4, <1>5, <1>6, LowestFitSound
<1>8. ASSUME NEW k \in D, Coincide(life[l], life[k])
      PROVE  at[k] + life[k].bytes <= low \/ low + life[l].bytes <= at[k]
  <2>1. f[k] \in occupied /\ f[k][1] = at[k] /\ f[k][2] = at[k] + life[k].bytes
    BY <1>1, <1>8
  <2> HIDE DEF f
  <2> QED BY <1>7, <2>1 DEF Clears, b
<1>9. ASSUME NEW o \in Nat, o < low, o % align = 0
      PROVE  \E k \in D : Blocks(life, at, k, l, o)
  <2>1. PICK x \in occupied : Crosses(o, b, x)
    BY <1>7, <1>9
  <2>2. PICK k \in S : x = f[k]
    BY <1>1
  <2>3. x[1] = at[k] /\ x[2] = at[k] + life[k].bytes /\ k \in D /\ Coincide(life[l], life[k])
    BY <2>2
  <2> QED BY <2>1, <2>3 DEF Crosses, Blocks, b
<1> QED BY <1>7, <1>8, <1>9

\* A sound placement stays sound when one more lease is placed.
SoundAt(life, align, at, l) ==
  /\ at[l] % align = 0
  /\ \A k \in DOMAIN at \ {l} : Coincide(life[l], life[k]) => Apart(life, at, k, l)
  /\ \A o \in Nat : o < at[l] /\ o % align = 0 =>
       \E k \in DOMAIN at \ {l} : Blocks(life, at, k, l, o)
SoundPlaces(life, align, at) == \A l \in DOMAIN at : SoundAt(life, align, at, l)
LEMMA PlaceKeepsSound ==
  ASSUME NEW align \in Nat \ {0}, NEW ids \in SUBSET Nat, IsFiniteSet(ids),
         NEW life, Lives(life, ids), NEW D \in SUBSET ids, NEW at \in [D -> Nat],
         NEW l \in ids, l \notin D, SoundPlaces(life, align, at),
         NEW low, low = LowestFit(life[l].bytes, align, Occupied(life, at, l))
  PROVE  /\ Placed(at, l, low) \in [D \cup {l} -> Nat]
         /\ SoundPlaces(life, align, Placed(at, l, low))
<1> DEFINE new == Placed(at, l, low)
<1>1. /\ low \in Nat /\ low % align = 0
      /\ \A k \in D : Coincide(life[l], life[k]) =>
           at[k] + life[k].bytes <= low \/ low + life[l].bytes <= at[k]
      /\ \A o \in Nat : o < low /\ o % align = 0 => \E k \in D : Blocks(life, at, k, l, o)
  BY PlaceOne
<1>2. /\ new \in [D \cup {l} -> Nat] /\ new[l] = low
      /\ \A k \in D : new[k] = at[k] /\ k # l
  BY <1>1 DEF Placed
<1> HIDE DEF new
<1>3. DOMAIN new = D \cup {l} /\ DOMAIN at = D
  BY <1>2
<1>4. ASSUME NEW m \in D PROVE SoundAt(life, align, new, m)
  <2>1. /\ at[m] % align = 0
        /\ \A k \in D \ {m} : Coincide(life[m], life[k]) => Apart(life, at, k, m)
        /\ \A o \in Nat : o < at[m] /\ o % align = 0 =>
             \E k \in D \ {m} : Blocks(life, at, k, m, o)
    BY <1>3 DEF SoundPlaces, SoundAt
  <2>2. ASSUME NEW k \in DOMAIN new \ {m}, Coincide(life[m], life[k])
        PROVE  Apart(life, new, k, m)
    <3>1. CASE k = l
      <4>1. Coincide(life[l], life[m])
        BY <2>2, <3>1 DEF Coincide
      <4> QED BY <1>1, <1>2, <3>1, <4>1 DEF Apart
    <3>2. CASE k # l
      BY <1>2, <1>3, <2>1, <2>2, <3>2 DEF Apart
    <3> QED BY <3>1, <3>2
  <2>3. ASSUME NEW o \in Nat, o < new[m], o % align = 0
        PROVE  \E k \in DOMAIN new \ {m} : Blocks(life, new, k, m, o)
    <3>1. PICK k \in D \ {m} : Blocks(life, at, k, m, o)
      BY <1>2, <2>1, <2>3
    <3>2. Blocks(life, new, k, m, o)
      BY <1>2, <3>1 DEF Blocks
    <3> QED BY <1>3, <3>2
  <2>4. new[m] % align = 0
    BY <1>2, <2>1
  <2> QED BY <2>2, <2>3, <2>4, Zenon DEF SoundAt
<1>5. SoundAt(life, align, new, l)
  <2>1. \A k \in DOMAIN new \ {l} : Coincide(life[l], life[k]) => Apart(life, new, k, l)
    BY <1>1, <1>2, <1>3 DEF Apart
  <2>2. ASSUME NEW o \in Nat, o < new[l], o % align = 0
        PROVE  \E k \in DOMAIN new \ {l} : Blocks(life, new, k, l, o)
    <3>1. PICK k \in D : Blocks(life, at, k, l, o)
      BY <1>1, <1>2, <2>2
    <3>2. Blocks(life, new, k, l, o)
      BY <1>2, <3>1 DEF Blocks
    <3> QED BY <1>2, <1>3, <3>2
  <2>3. new[l] % align = 0
    BY <1>1, <1>2
  <2> QED BY <2>1, <2>2, <2>3, Zenon DEF SoundAt
<1>6. SoundPlaces(life, align, new)
  BY <1>3, <1>4, <1>5 DEF SoundPlaces
<1> QED BY <1>2, <1>6 DEF new

\* One lease more, and the table of the placements.
PlaceStep(life, align, at, l) ==
  Placed(at, l, LowestFit(life[l].bytes, align, Occupied(life, at, l)))
Placings(life, align, q, g) ==
  g = [s \in SUBSET DOMAIN q |->
         IF s = {} THEN <<>>
         ELSE PlaceStep(life, align, g[s \ {Max(s)}], q[Max(s)])]
Placing(life, align, q) == CHOOSE g : Placings(life, align, q, g)
LEMMA PlaceUnfold ==
  ASSUME NEW life, NEW ids, NEW align
  PROVE  PlaceLifetimes(life, ids, align)
           = Placing(life, align, PlacementOrder(life, ids))[DOMAIN PlacementOrder(life, ids)]
BY DEF PlaceLifetimes, FoldLeft, MapThenFoldSet, Placings, Placing, PlaceStep

\* Assignments of offsets to some of the leases.
Assignments(ids) == UNION {[T -> Nat] : T \in SUBSET ids}
LEMMA AssignmentsExtended ==
  ASSUME NEW ids, NEW at \in Assignments(ids), NEW l \in ids, NEW o \in Nat
  PROVE  Placed(at, l, o) \in Assignments(ids)
<1>1. PICK T \in SUBSET ids : at \in [T -> Nat]
  BY DEF Assignments
<1>2. T \cup {l} \in SUBSET ids
  OBVIOUS
<1>3. Placed(at, l, o) \in [T \cup {l} -> Nat]
  BY <1>1 DEF Placed
<1> QED BY <1>2, <1>3, Zenon DEF Assignments

\* The placement, lease by lease.
PlacedStepwise(life, align, n, q) ==
  LET f == Placing(life, align, q)
  IN  /\ f[{}] = <<>>
      /\ \A i \in 1 .. n : f[1 .. i] = PlaceStep(life, align, f[1 .. (i - 1)], q[i])
LEMMA PlaceSteps ==
  ASSUME NEW align \in Nat \ {0}, NEW ids \in SUBSET Nat, IsFiniteSet(ids),
         NEW life, Lives(life, ids), NEW n \in Nat, NEW q, DOMAIN q = 1 .. n,
         \A i \in 1 .. n : q[i] \in ids
  PROVE  PlacedStepwise(life, align, n, q)
<1> DEFINE C == Assignments(ids)
           G == [p \in C \X (1 .. n) |-> PlaceStep(life, align, p[1], q[p[2]])]
           f == Placing(life, align, q)
<1>1. <<>> \in C
  <2>1. {} \in SUBSET ids /\ <<>> \in [{} -> Nat]
    OBVIOUS
  <2> QED BY <2>1, Zenon DEF Assignments
<1>2. G \in [C \X (1 .. n) -> C]
  <2>1. ASSUME NEW at \in C, NEW i \in 1 .. n PROVE PlaceStep(life, align, at, q[i]) \in C
    <3>1. PICK T \in SUBSET ids : at \in [T -> Nat]
      BY DEF Assignments
    <3> DEFINE low == LowestFit(life[q[i]].bytes, align, Occupied(life, at, q[i]))
    <3>2. low \in Nat
      BY <3>1, PlaceOne
    <3> HIDE DEF low
    <3>3. Placed(at, q[i], low) \in C
      BY <3>2, AssignmentsExtended
    <3> QED BY <3>3 DEF PlaceStep, low
  <2> HIDE DEF C
  <2> QED BY <2>1
<1>3. PICK g \in [SUBSET (1 .. n) -> C] : Tabled(n, <<>>, G, g)
  <2> HIDE DEF C, G
  <2> QED BY <1>1, <1>2, TableExists
<1>4. Placings(life, align, q, g)
  <2>1. ASSUME NEW s \in SUBSET (1 .. n)
        PROVE  g[s] = IF s = {} THEN <<>>
                      ELSE PlaceStep(life, align, g[s \ {Max(s)}], q[Max(s)])
    <3>1. CASE s = {}
      BY <1>3, <3>1 DEF Tabled
    <3>2. CASE s # {}
      <4>1. g[s] = G[<<g[s \ {Max(s)}], Max(s)>>]
        <5> HIDE DEF G
        <5> QED BY <1>3, <3>2 DEF Tabled
      <4>2. Max(s) \in s /\ s \ {Max(s)} \in SUBSET (1 .. n)
        BY <3>2, LastIn
      <4>3. <<g[s \ {Max(s)}], Max(s)>> \in C \X (1 .. n)
        <5> HIDE DEF C
        <5> QED BY <1>3, <4>2
      <4>4. G[<<g[s \ {Max(s)}], Max(s)>>] = PlaceStep(life, align, g[s \ {Max(s)}], q[Max(s)])
        <5> HIDE DEF C
        <5> QED BY <4>3
      <4> QED BY <3>2, <4>1, <4>4
    <3> QED BY <3>1, <3>2
  <2> HIDE DEF C, G
  <2>2. g = [s \in SUBSET (1 .. n) |->
               IF s = {} THEN <<>> ELSE PlaceStep(life, align, g[s \ {Max(s)}], q[Max(s)])]
    BY <1>3, <2>1
  <2> QED BY <2>2 DEF Placings
<1>5. Placings(life, align, q, f)
  BY <1>4 DEF Placing
<1> HIDE DEF f
<1>6. ASSUME NEW s \in SUBSET (1 .. n)
      PROVE  f[s] = IF s = {} THEN <<>>
                    ELSE PlaceStep(life, align, f[s \ {Max(s)}], q[Max(s)])
  BY <1>5 DEF Placings
<1>7. ASSUME NEW i \in 1 .. n
      PROVE  f[1 .. i] = PlaceStep(life, align, f[1 .. (i - 1)], q[i])
  <2>1. /\ 1 .. i \in SUBSET (1 .. n) /\ 1 .. i # {}
        /\ Max(1 .. i) = i /\ (1 .. i) \ {i} = 1 .. (i - 1)
    BY UpToLast
  <2>2. f[1 .. i] = PlaceStep(life, align, f[(1 .. i) \ {Max(1 .. i)}], q[Max(1 .. i)])
    BY <1>6, <2>1
  <2> QED BY <2>1, <2>2
<1> QED BY <1>6, <1>7 DEF PlacedStepwise, f

\* The main assignment: leases predicted to be live together are apart, every offset
\* is aligned, and no lease fits any lower.
LEMMA MainAssignment ==
  ASSUME NEW align \in Nat \ {0}, NEW ids \in SUBSET Nat, IsFiniteSet(ids),
         NEW life, Lives(life, ids)
  PROVE  /\ PlaceLifetimes(life, ids, align) \in [ids -> Nat]
         /\ SoundPlaces(life, align, PlaceLifetimes(life, ids, align))
<1> DEFINE n == Cardinality(ids)
           q == PlacementOrder(life, ids)
           f == Placing(life, align, q)
           D(i) == {q[j] : j \in 1 .. i}
           I(i) == f[1 .. i] \in [D(i) -> Nat] /\ SoundPlaces(life, align, f[1 .. i])
           B == {i \in 0 .. n : ~I(i)}
<1>1. /\ n \in Nat /\ q \in Seq(ids) /\ Len(q) = n
      /\ \A a \in ids : \E i \in 1 .. n : q[i] = a
      /\ \A i, j \in 1 .. n : i < j => q[i] # q[j]
  BY PlacementOrdered, FS_CardinalityType
<1>2. PlaceLifetimes(life, ids, align) = f[DOMAIN q]
  BY PlaceUnfold
<1> HIDE DEF n, q
<1>3. DOMAIN q = 1 .. n /\ \A i \in 1 .. n : q[i] \in ids
  BY <1>1
<1>4. /\ f[{}] = <<>>
      /\ \A i \in 1 .. n : f[1 .. i] = PlaceStep(life, align, f[1 .. (i - 1)], q[i])
  <2>1. PlacedStepwise(life, align, n, q)
    BY <1>1, <1>3, PlaceSteps
  <2> QED BY <2>1 DEF PlacedStepwise
<1> HIDE DEF f
<1>5. I(0)
  <2>1. 1 .. 0 = {} /\ D(0) = {}
    OBVIOUS
  <2>2. f[1 .. 0] = <<>>
    BY <1>4, <2>1
  <2>3. <<>> \in [{} -> Nat] /\ DOMAIN <<>> = {}
    OBVIOUS
  <2>4. SoundPlaces(life, align, <<>>)
    BY <2>3 DEF SoundPlaces
  <2> HIDE DEF D
  <2> QED BY <2>1, <2>2, <2>3, <2>4
<1>6. ASSUME NEW i \in 1 .. n, I(i - 1) PROVE I(i)
  <2> DEFINE at == f[1 .. (i - 1)]
             l == q[i]
             low == LowestFit(life[l].bytes, align, Occupied(life, at, l))
  <2>1. D(i - 1) \in SUBSET ids /\ l \in ids
    BY <1>1, <1>3
  <2>2. l \notin D(i - 1) /\ D(i) = D(i - 1) \cup {l}
    <3>1. \A j \in 1 .. (i - 1) : j \in 1 .. n /\ j < i
      BY <1>1
    <3>2. \A j : j \in 1 .. i <=> j \in 1 .. (i - 1) \/ j = i
      BY <1>1
    <3> QED BY <1>1, <3>1, <3>2
  <2>3. at \in [D(i - 1) -> Nat] /\ SoundPlaces(life, align, at)
    BY <1>6
  <2>4. f[1 .. i] = Placed(at, l, low)
    BY <1>4 DEF PlaceStep
  <2> HIDE DEF D, at, l
  <2>5. Placed(at, l, low) \in [D(i - 1) \cup {l} -> Nat] /\ SoundPlaces(life, align, Placed(at, l, low))
    BY <2>1, <2>2, <2>3, PlaceKeepsSound
  <2> HIDE DEF low
  <2> QED BY <2>2, <2>4, <2>5
<1>7. I(n)
  <2> HIDE DEF I
  <2> SUFFICES ASSUME B # {} PROVE FALSE
    <3>1. n \in 0 .. n
      BY <1>1
    <3> QED BY <3>1
  <2>1. B \in SUBSET Nat
    BY <1>1
  <2>2. PICK i \in B : \A j \in B : i <= j
    <3> HIDE DEF B
    <3> QED BY <2>1, LeastNat
  <2>3. i \in 0 .. n /\ ~I(i)
    OBVIOUS
  <2>4. i # 0
    BY <1>5, <2>3
  <2>5. i \in 1 .. n /\ i - 1 \in 0 .. n /\ i \in Nat
    BY <1>1, <2>3, <2>4
  <2>6. I(i - 1)
    <3>1. i - 1 \in B => i <= i - 1
      BY <2>2
    <3>2. i - 1 \notin B
      <4> HIDE DEF B
      <4> QED BY <2>5, <3>1
    <3> QED BY <2>5, <3>2
  <2> QED BY <1>6, <2>3, <2>5, <2>6
<1>8. D(n) = ids
  <2>1. \A a \in D(n) : a \in ids
    BY <1>3
  <2>2. \A a \in ids : a \in D(n)
    BY <1>1
  <2> HIDE DEF D
  <2> QED BY <2>1, <2>2
<1>9. PlaceLifetimes(life, ids, align) = f[1 .. n]
  BY <1>2, <1>3
<1> HIDE DEF D
<1> QED BY <1>7, <1>8, <1>9

\* Among the nonempty sets of numbers in a finite set there is none without a greatest.
LEMMA GreatestExists ==
  ASSUME NEW S, IsFiniteSet(S)
  PROVE  \A T \in SUBSET S : T \subseteq Nat /\ T # {} => \E m \in T : \A x \in T : x <= m
<1> DEFINE B == {T \in SUBSET S : T \subseteq Nat /\ T # {} /\ ~ \E m \in T : \A x \in T : x <= m}
<1>1. B = {}
  <2> SUFFICES ASSUME B # {} PROVE FALSE
    OBVIOUS
  <2>1. PICK T \in B : \A y \in B : y \subseteq T => y = T
    <3>1. B \subseteq SUBSET S
      OBVIOUS
    <3> HIDE DEF B
    <3> QED BY <3>1, MinimalSubset
  <2>2. T \in SUBSET S /\ T \subseteq Nat /\ T # {} /\ ~ \E m \in T : \A x \in T : x <= m
    OBVIOUS
  <2>3. PICK e \in T : TRUE
    BY <2>2
  <2>4. T \ {e} \notin B
    <3> HIDE DEF B
    <3> QED BY <2>1, <2>3
  <2>5. CASE T \ {e} = {}
    <3>1. \A x \in T : x <= e
      <4>1. \A x \in T : x = e /\ x \in Nat
        BY <2>2, <2>5
      <4> QED BY <4>1
    <3> QED BY <2>2, <2>3, <3>1
  <2>6. CASE T \ {e} # {}
    <3>1. PICK m \in T \ {e} : \A x \in T \ {e} : x <= m
      BY <2>2, <2>4, <2>6
    <3>2. e \in Nat /\ m \in Nat /\ m \in T
      BY <2>2, <2>3, <3>1
    <3>3. \A x \in T : x = e \/ x <= m
      BY <3>1
    <3>4. \A x \in T : x \in Nat
      BY <2>2
    <3>5. (\A x \in T : x <= e) \/ (\A x \in T : x <= m)
      <4>1. CASE e <= m
        BY <3>2, <3>3, <3>4, <4>1
      <4>2. CASE m <= e
        BY <3>2, <3>3, <3>4, <4>2
      <4> QED BY <3>2, <4>1, <4>2
    <3> QED BY <2>2, <2>3, <3>2, <3>5
  <2> QED BY <2>5, <2>6
<1> QED BY <1>1

\* A finite set of numbers that is not empty has a greatest one, which Max is.
LEMMA GreatestIn ==
  ASSUME NEW S, IsFiniteSet(S), S \subseteq Nat, S # {}
  PROVE  Max(S) \in S /\ \A x \in S : x <= Max(S)
<1>1. S \in SUBSET S
  OBVIOUS
<1>2. PICK g \in S : \A x \in S : x <= g
  BY <1>1, GreatestExists
<1>3. \E m \in S : \A x \in S : m >= x
  <2>1. \A x \in S : g >= x
    BY <1>2
  <2> QED BY <2>1
<1>4. Max(S) \in S /\ \A x \in S : Max(S) >= x
  BY <1>3 DEF Max
<1> QED BY <1>4

\* Every placed lease ends inside the bytes the placement needs.
LEMMA RequiredBounds ==
  ASSUME NEW T, IsFiniteSet(T), NEW at \in [T -> Nat], NEW life,
         \A k \in T : life[k].bytes \in Nat
  PROVE  /\ Required(life, at) \in Nat
         /\ \A k \in T : at[k] + life[k].bytes <= Required(life, at)
<1> DEFINE f == [k \in T |-> at[k] + life[k].bytes]
           ends == {f[k] : k \in T}
           S == {0} \cup ends
<1>1. Required(life, at) = Max(S)
  BY DEF Required
<1>2. \A k \in T : f[k] = at[k] + life[k].bytes /\ f[k] \in Nat
  OBVIOUS
<1> HIDE DEF f
<1>3. IsFiniteSet(ends)
  BY ValuesFinite
<1>4. IsFiniteSet(S) /\ S \subseteq Nat /\ S # {}
  <2>1. S \subseteq Nat /\ S # {}
    BY <1>2
  <2>2. IsFiniteSet({0})
    BY FS_Singleton
  <2> HIDE DEF ends
  <2> QED BY <1>3, <2>1, <2>2, FS_Union
<1>5. \A k \in T : f[k] \in S
  OBVIOUS
<1> HIDE DEF S
<1>6. Max(S) \in S /\ \A x \in S : x <= Max(S)
  BY <1>4, GreatestIn
<1> QED BY <1>1, <1>2, <1>4, <1>5, <1>6

\* One resident lease more, and the table of the placements.
ResidentStep(life, align, at, l) == Placed(at, l, Aligned(Required(life, at), align))
Residents(life, align, main, q, g) ==
  g = [s \in SUBSET DOMAIN q |->
         IF s = {} THEN main
         ELSE ResidentStep(life, align, g[s \ {Max(s)}], q[Max(s)])]
SliceTable(life, align, main, q) == CHOOSE g : Residents(life, align, main, q, g)
LEMMA ResidentUnfold ==
  ASSUME NEW life, NEW ids, NEW align, NEW main
  PROVE  PlaceResident(life, ids, align, main)
           = SliceTable(life, align, main, Ascending(ids))[DOMAIN Ascending(ids)]
BY DEF PlaceResident, FoldLeft, MapThenFoldSet, Residents, SliceTable, ResidentStep

\* The slice, lease by lease.
ResidentStepwise(life, align, main, n, q) ==
  LET f == SliceTable(life, align, main, q)
  IN  /\ f[{}] = main
      /\ \A i \in 1 .. n : f[1 .. i] = ResidentStep(life, align, f[1 .. (i - 1)], q[i])
LEMMA ResidentSteps ==
  ASSUME NEW align \in Nat \ {0}, NEW all \in SUBSET Nat, IsFiniteSet(all),
         NEW life, Lives(life, all), NEW main \in Assignments(all),
         NEW n \in Nat, NEW q, DOMAIN q = 1 .. n, \A i \in 1 .. n : q[i] \in all
  PROVE  ResidentStepwise(life, align, main, n, q)
<1> DEFINE C == Assignments(all)
           G == [p \in C \X (1 .. n) |-> ResidentStep(life, align, p[1], q[p[2]])]
           f == SliceTable(life, align, main, q)
<1>1. main \in C
  OBVIOUS
<1>2. G \in [C \X (1 .. n) -> C]
  <2>1. ASSUME NEW at \in C, NEW i \in 1 .. n PROVE ResidentStep(life, align, at, q[i]) \in C
    <3>1. PICK T \in SUBSET all : at \in [T -> Nat]
      BY DEF Assignments
    <3> DEFINE low == Aligned(Required(life, at), align)
    <3>2. low \in Nat
      <4>1. IsFiniteSet(T) /\ \A k \in T : life[k].bytes \in Nat
        BY FS_Subset DEF Lives
      <4>2. Required(life, at) \in Nat
        BY <3>1, <4>1, RequiredBounds
      <4> QED BY <4>2, AlignedLeast
    <3> HIDE DEF low
    <3>3. Placed(at, q[i], low) \in C
      BY <3>2, AssignmentsExtended
    <3> QED BY <3>3 DEF ResidentStep, low
  <2> HIDE DEF C
  <2> QED BY <2>1
<1>3. PICK g \in [SUBSET (1 .. n) -> C] : Tabled(n, main, G, g)
  <2> HIDE DEF C, G
  <2> QED BY <1>1, <1>2, TableExists
<1>4. Residents(life, align, main, q, g)
  <2>1. ASSUME NEW s \in SUBSET (1 .. n)
        PROVE  g[s] = IF s = {} THEN main
                      ELSE ResidentStep(life, align, g[s \ {Max(s)}], q[Max(s)])
    <3>1. CASE s = {}
      BY <1>3, <3>1 DEF Tabled
    <3>2. CASE s # {}
      <4>1. g[s] = G[<<g[s \ {Max(s)}], Max(s)>>]
        <5> HIDE DEF G
        <5> QED BY <1>3, <3>2 DEF Tabled
      <4>2. Max(s) \in s /\ s \ {Max(s)} \in SUBSET (1 .. n)
        BY <3>2, LastIn
      <4>3. <<g[s \ {Max(s)}], Max(s)>> \in C \X (1 .. n)
        <5> HIDE DEF C
        <5> QED BY <1>3, <4>2
      <4>4. G[<<g[s \ {Max(s)}], Max(s)>>] = ResidentStep(life, align, g[s \ {Max(s)}], q[Max(s)])
        <5> HIDE DEF C
        <5> QED BY <4>3
      <4> QED BY <3>2, <4>1, <4>4
    <3> QED BY <3>1, <3>2
  <2> HIDE DEF C, G
  <2>2. g = [s \in SUBSET (1 .. n) |->
               IF s = {} THEN main ELSE ResidentStep(life, align, g[s \ {Max(s)}], q[Max(s)])]
    BY <1>3, <2>1
  <2> QED BY <2>2 DEF Residents
<1>5. Residents(life, align, main, q, f)
  BY <1>4 DEF SliceTable
<1> HIDE DEF f
<1>6. ASSUME NEW s \in SUBSET (1 .. n)
      PROVE  f[s] = IF s = {} THEN main
                    ELSE ResidentStep(life, align, f[s \ {Max(s)}], q[Max(s)])
  BY <1>5 DEF Residents
<1>7. ASSUME NEW i \in 1 .. n
      PROVE  f[1 .. i] = ResidentStep(life, align, f[1 .. (i - 1)], q[i])
  <2>1. /\ 1 .. i \in SUBSET (1 .. n) /\ 1 .. i # {}
        /\ Max(1 .. i) = i /\ (1 .. i) \ {i} = 1 .. (i - 1)
    BY UpToLast
  <2>2. f[1 .. i] = ResidentStep(life, align, f[(1 .. i) \ {Max(1 .. i)}], q[Max(1 .. i)])
    BY <1>6, <2>1
  <2> QED BY <2>1, <2>2
<1> QED BY <1>6, <1>7 DEF ResidentStepwise, f

\* Resident leases T behind the main assignment: it is unchanged, and each of them is
\* aligned and apart from everything else.
SliceSound(life, align, main, T, at) ==
  /\ \A k \in DOMAIN main : at[k] = main[k]
  /\ \A l \in T : /\ at[l] % align = 0
                  /\ \A k \in DOMAIN at \ {l} : Apart(life, at, k, l)
LEMMA SliceGrows ==
  ASSUME NEW align \in Nat \ {0}, NEW all \in SUBSET Nat, IsFiniteSet(all),
         NEW life, Lives(life, all), NEW M \in SUBSET all, NEW main \in [M -> Nat],
         NEW T \in SUBSET all, NEW at \in [M \cup T -> Nat],
         SliceSound(life, align, main, T, at),
         NEW l \in all, l \notin M \cup T
  PROVE  LET new == ResidentStep(life, align, at, l)
         IN  new \in [M \cup (T \cup {l}) -> Nat] /\ SliceSound(life, align, main, T \cup {l}, new)
<1> DEFINE low == Aligned(Required(life, at), align)
           new == Placed(at, l, low)
<1>1. /\ Required(life, at) \in Nat
      /\ \A k \in M \cup T : at[k] + life[k].bytes <= Required(life, at)
  <2>1. M \cup T \in SUBSET all
    OBVIOUS
  <2>2. IsFiniteSet(M \cup T) /\ \A k \in M \cup T : life[k].bytes \in Nat
    BY <2>1, FS_Subset DEF Lives
  <2> DEFINE S == M \cup T
  <2>3. IsFiniteSet(S) /\ at \in [S -> Nat] /\ \A k \in S : life[k].bytes \in Nat
    BY <2>2
  <2> HIDE DEF S
  <2>4. /\ Required(life, at) \in Nat
        /\ \A k \in S : at[k] + life[k].bytes <= Required(life, at)
    BY <2>3, RequiredBounds
  <2> QED BY <2>4 DEF S
<1>2. low \in Nat /\ low % align = 0 /\ Required(life, at) <= low
  BY <1>1, AlignedLeast
<1> HIDE DEF low
<1>3. \A k \in M \cup T : at[k] + life[k].bytes <= low /\ at[k] \in Nat /\ life[k].bytes \in Nat
  BY <1>1, <1>2 DEF Lives
<1>4. /\ new \in [M \cup (T \cup {l}) -> Nat] /\ new[l] = low
      /\ \A k \in M \cup T : new[k] = at[k] /\ k # l
  BY <1>2 DEF Placed
<1>5. new = ResidentStep(life, align, at, l)
  BY DEF ResidentStep, low
<1> HIDE DEF new
<1>6. DOMAIN new = M \cup (T \cup {l}) /\ DOMAIN at = M \cup T /\ DOMAIN main = M
  BY <1>4
<1>7. \A k \in DOMAIN main : new[k] = main[k]
  BY <1>4, <1>6 DEF SliceSound
<1>8. ASSUME NEW m \in T, NEW k \in DOMAIN new \ {m} PROVE Apart(life, new, k, m)
  <2>1. CASE k = l
    BY <1>3, <1>4, <2>1 DEF Apart
  <2>2. CASE k # l
    <3>1. k \in DOMAIN at \ {m}
      BY <1>6, <2>2
    <3>2. Apart(life, at, k, m)
      BY <3>1 DEF SliceSound
    <3> QED BY <1>4, <1>6, <3>1, <3>2 DEF Apart
  <2> QED BY <2>1, <2>2
<1>9. ASSUME NEW k \in DOMAIN new \ {l} PROVE Apart(life, new, k, l)
  BY <1>3, <1>4, <1>6 DEF Apart
<1>10. \A m \in T \cup {l} : new[m] % align = 0
  BY <1>2, <1>4 DEF SliceSound
<1>11. SliceSound(life, align, main, T \cup {l}, new)
  BY <1>7, <1>8, <1>9, <1>10 DEF SliceSound
<1> QED BY <1>4, <1>5, <1>11

\* The numbers in ascending order list every member once.
LEMMA AscendingLists ==
  ASSUME NEW S, S \subseteq Nat, IsFiniteSet(S)
  PROVE  LET q == Ascending(S)
             n == Cardinality(S)
         IN  /\ q \in Seq(S) /\ Len(q) = n
             /\ \A a \in S : \E i \in 1 .. n : q[i] = a
             /\ \A i, j \in 1 .. n : i < j => q[i] # q[j]
<1> DEFINE q == Ascending(S)
           n == Cardinality(S)
<1>1. /\ q \in Seq(S) /\ Len(q) = n /\ n \in Nat
      /\ \A i, j \in DOMAIN q : i < j => q[i] < q[j]
  BY AscendingRises, FS_CardinalityType
<1> HIDE DEF q, n
<1>2. q \in [1 .. n -> S] /\ DOMAIN q = 1 .. n
  BY <1>1
<1>3. \A i, j \in 1 .. n : i < j => q[i] # q[j]
  <2> SUFFICES ASSUME NEW i \in 1 .. n, NEW j \in 1 .. n, i < j PROVE q[i] # q[j]
    OBVIOUS
  <2>1. q[i] < q[j] /\ q[i] \in Nat /\ q[j] \in Nat
    BY <1>1, <1>2
  <2> QED BY <2>1
<1>4. \A i, j \in 1 .. n : q[i] = q[j] => i = j
  <2> SUFFICES ASSUME NEW i \in 1 .. n, NEW j \in 1 .. n, i # j PROVE q[i] # q[j]
    OBVIOUS
  <2>1. i < j \/ j < i
    BY <1>1
  <2> QED BY <1>3, <2>1
<1>5. q \in Surjection(1 .. n, S)
  <2>1. q \in Injection(1 .. n, S)
    BY <1>2, <1>4 DEF Injection, IsInjective
  <2>2. Cardinality(1 .. n) = n
    BY <1>1, FS_Interval
  <2> QED BY <2>1, <2>2, FS_Injection DEF n
<1>6. \A a \in S : \E i \in 1 .. n : q[i] = a
  BY <1>5 DEF Surjection
<1> QED BY <1>1, <1>3, <1>6 DEF q, n

\* The resident slice: behind the main assignment, every lease aligned and apart from
\* everything else.
LEMMA ResidentSlice ==
  ASSUME NEW align \in Nat \ {0}, NEW all \in SUBSET Nat, IsFiniteSet(all),
         NEW life, Lives(life, all), NEW M \in SUBSET all, NEW main \in [M -> Nat],
         NEW ids \in SUBSET all, M \cap ids = {}
  PROVE  /\ PlaceResident(life, ids, align, main) \in [M \cup ids -> Nat]
         /\ SliceSound(life, align, main, ids, PlaceResident(life, ids, align, main))
<1> DEFINE n == Cardinality(ids)
           q == Ascending(ids)
           f == SliceTable(life, align, main, q)
           D(i) == {q[j] : j \in 1 .. i}
           I(i) == /\ f[1 .. i] \in [M \cup D(i) -> Nat]
                   /\ SliceSound(life, align, main, D(i), f[1 .. i])
           B == {i \in 0 .. n : ~I(i)}
<1>0. ids \subseteq Nat /\ IsFiniteSet(ids)
  BY FS_Subset
<1>1. /\ n \in Nat /\ q \in Seq(ids) /\ Len(q) = n
      /\ \A a \in ids : \E i \in 1 .. n : q[i] = a
      /\ \A i, j \in 1 .. n : i < j => q[i] # q[j]
  BY <1>0, AscendingLists, FS_CardinalityType
<1>2. PlaceResident(life, ids, align, main) = f[DOMAIN q]
  BY ResidentUnfold
<1> HIDE DEF n, q
<1>3. DOMAIN q = 1 .. n /\ \A i \in 1 .. n : q[i] \in ids
  BY <1>1
<1>4. /\ f[{}] = main
      /\ \A i \in 1 .. n : f[1 .. i] = ResidentStep(life, align, f[1 .. (i - 1)], q[i])
  <2>1. main \in Assignments(all)
    BY Zenon DEF Assignments
  <2>2. \A i \in 1 .. n : q[i] \in all
    BY <1>3
  <2>3. ResidentStepwise(life, align, main, n, q)
    BY <1>1, <1>3, <2>1, <2>2, ResidentSteps
  <2> QED BY <2>3 DEF ResidentStepwise
<1> HIDE DEF f
<1>5. I(0)
  <2>1. 1 .. 0 = {} /\ D(0) = {}
    OBVIOUS
  <2>2. f[1 .. 0] = main
    BY <1>4, <2>1
  <2>3. SliceSound(life, align, main, {}, main) /\ main \in [M \cup {} -> Nat]
    BY DEF SliceSound
  <2> HIDE DEF D
  <2> QED BY <2>1, <2>2, <2>3
<1>6. ASSUME NEW i \in 1 .. n, I(i - 1) PROVE I(i)
  <2> DEFINE at == f[1 .. (i - 1)]
             l == q[i]
  <2>1. D(i - 1) \in SUBSET all /\ l \in all /\ l \notin M
    <3>1. \A j \in 1 .. (i - 1) : j \in 1 .. n
      BY <1>1
    <3>2. \A x \in D(i - 1) : x \in all
      BY <1>3, <3>1
    <3>3. l \in all /\ l \notin M
      BY <1>3
    <3> HIDE DEF D
    <3> QED BY <3>2, <3>3
  <2>2. l \notin D(i - 1) /\ D(i) = D(i - 1) \cup {l}
    <3>1. \A j \in 1 .. (i - 1) : j \in 1 .. n /\ j < i
      BY <1>1
    <3>2. \A j : j \in 1 .. i <=> j \in 1 .. (i - 1) \/ j = i
      BY <1>1
    <3> QED BY <1>1, <3>1, <3>2
  <2>3. at \in [M \cup D(i - 1) -> Nat] /\ SliceSound(life, align, main, D(i - 1), at)
    BY <1>6
  <2>4. f[1 .. i] = ResidentStep(life, align, at, l)
    BY <1>4
  <2> HIDE DEF at, l
  <2> DEFINE T == D(i - 1)
  <2>5. T \in SUBSET all /\ l \notin M \cup T /\ D(i) = T \cup {l}
        /\ at \in [M \cup T -> Nat] /\ SliceSound(life, align, main, T, at)
    BY <2>1, <2>2, <2>3
  <2> HIDE DEF D, T
  <2>6. /\ ResidentStep(life, align, at, l) \in [M \cup (T \cup {l}) -> Nat]
        /\ SliceSound(life, align, main, T \cup {l}, ResidentStep(life, align, at, l))
    BY <2>1, <2>5, SliceGrows
  <2> QED BY <2>4, <2>5, <2>6
<1>7. I(n)
  <2> HIDE DEF I
  <2> SUFFICES ASSUME B # {} PROVE FALSE
    <3>1. n \in 0 .. n
      BY <1>1
    <3> QED BY <3>1
  <2>1. B \in SUBSET Nat
    BY <1>1
  <2>2. PICK i \in B : \A j \in B : i <= j
    <3> HIDE DEF B
    <3> QED BY <2>1, LeastNat
  <2>3. i \in 0 .. n /\ ~I(i)
    OBVIOUS
  <2>4. i # 0
    BY <1>5, <2>3
  <2>5. i \in 1 .. n /\ i - 1 \in 0 .. n /\ i \in Nat
    BY <1>1, <2>3, <2>4
  <2>6. I(i - 1)
    <3>1. i - 1 \in B => i <= i - 1
      BY <2>2
    <3>2. i - 1 \notin B
      <4> HIDE DEF B
      <4> QED BY <2>5, <3>1
    <3> QED BY <2>5, <3>2
  <2> QED BY <1>6, <2>3, <2>5, <2>6
<1>8. D(n) = ids
  <2>1. \A a \in D(n) : a \in ids
    BY <1>3
  <2>2. \A a \in ids : a \in D(n)
    BY <1>1
  <2> HIDE DEF D
  <2> QED BY <2>1, <2>2
<1>9. PlaceResident(life, ids, align, main) = f[1 .. n]
  BY <1>2, <1>3
<1> HIDE DEF D
<1> QED BY <1>7, <1>8, <1>9

\* Extents that cross have a byte in common, when neither is empty.
LEMMA CrossingMeets ==
  ASSUME NEW a \in Nat, NEW b \in Nat \ {0}, NEW c \in Nat, NEW d \in Nat \ {0},
         a < c + d, c < a + b
  PROVE  (a .. (a + b - 1)) \cap (c .. (c + d - 1)) # {}
<1>1. CASE a <= c
  <2>1. c \in a .. (a + b - 1) /\ c \in c .. (c + d - 1)
    BY <1>1
  <2> QED BY <2>1
<1>2. CASE c < a
  <2>1. a \in a .. (a + b - 1) /\ a \in c .. (c + d - 1)
    BY <1>2
  <2> QED BY <2>1
<1> QED BY <1>1, <1>2

\* The whole layout: both parts together.
LayoutSound(life, align, fixed, kept, at) ==
  /\ \A l \in fixed : at[l] % align = 0
  /\ \A l \in fixed, k \in fixed : k # l /\ (Coincide(life[l], life[k]) \/ l \in kept)
       => Apart(life, at, k, l)
  /\ \A l \in fixed \ kept : \A o \in Nat : o < at[l] /\ o % align = 0 =>
       \E k \in fixed \ (kept \cup {l}) : Blocks(life, at, k, l, o)
LEMMA OffsetsSound ==
  ASSUME NEW align \in Nat \ {0}, NEW fixed \in SUBSET Nat, IsFiniteSet(fixed),
         NEW life, Lives(life, fixed), NEW kept \in SUBSET fixed,
         NEW at, at = PlaceResident(life, kept, align, PlaceLifetimes(life, fixed \ kept, align))
  PROVE  at \in [fixed -> Nat] /\ LayoutSound(life, align, fixed, kept, at)
<1> DEFINE M == fixed \ kept
           main == PlaceLifetimes(life, M, align)
<1>1. M \in SUBSET Nat /\ M \in SUBSET fixed /\ M \cap kept = {} /\ M \cup kept = fixed
  OBVIOUS
<1>2. IsFiniteSet(M) /\ Lives(life, M)
  BY <1>1, FS_Subset DEF Lives
<1> HIDE DEF M
<1>3. main \in [M -> Nat] /\ SoundPlaces(life, align, main)
  BY <1>1, <1>2, MainAssignment
<1>4. at = PlaceResident(life, kept, align, main)
  BY DEF M
<1> HIDE DEF main
<1>5. at \in [M \cup kept -> Nat] /\ SliceSound(life, align, main, kept, at)
  <2>1. main \in [M -> Nat] /\ kept \in SUBSET fixed
    BY <1>3
  <2>2. /\ PlaceResident(life, kept, align, main) \in [M \cup kept -> Nat]
        /\ SliceSound(life, align, main, kept, PlaceResident(life, kept, align, main))
    BY <1>1, <2>1, ResidentSlice
  <2> QED BY <1>4, <2>2
<1>6. /\ at \in [fixed -> Nat] /\ DOMAIN at = fixed /\ DOMAIN main = M
      /\ \A k \in M : at[k] = main[k]
  BY <1>1, <1>3, <1>5 DEF SliceSound
<1>7. ASSUME NEW l \in fixed, NEW k \in fixed, k # l, Coincide(life[l], life[k]) \/ l \in kept
      PROVE  Apart(life, at, k, l)
  <2>1. CASE l \in kept
    BY <1>5, <1>6, <1>7, <2>1 DEF SliceSound
  <2>2. CASE k \in kept
    <3>1. Apart(life, at, l, k)
      BY <1>5, <1>6, <1>7, <2>2 DEF SliceSound
    <3> QED BY <3>1 DEF Apart
  <2>3. CASE l \notin kept /\ k \notin kept
    <3>1. l \in M /\ k \in M /\ Coincide(life[l], life[k])
      BY <1>1, <1>7, <2>3
    <3>2. Apart(life, main, k, l)
      BY <1>3, <1>6, <1>7, <3>1 DEF SoundPlaces, SoundAt
    <3> QED BY <1>6, <3>1, <3>2 DEF Apart
  <2> QED BY <2>1, <2>2, <2>3
<1>8. \A l \in fixed : at[l] % align = 0
  BY <1>1, <1>3, <1>5, <1>6 DEF SliceSound, SoundPlaces, SoundAt
<1>9. ASSUME NEW l \in fixed \ kept, NEW o \in Nat, o < at[l], o % align = 0
      PROVE  \E k \in fixed \ (kept \cup {l}) : Blocks(life, at, k, l, o)
  <2>1. l \in M
    BY <1>1
  <2>2. PICK k \in M \ {l} : Blocks(life, main, k, l, o)
    BY <1>3, <1>6, <1>9, <2>1 DEF SoundPlaces, SoundAt
  <2>3. Blocks(life, at, k, l, o)
    BY <1>6, <2>2 DEF Blocks
  <2>4. k \in fixed \ (kept \cup {l})
    BY <1>1, <2>2
  <2> QED BY <2>3, <2>4
<1> QED BY <1>6, <1>7, <1>8, <1>9 DEF LayoutSound
=============================================================================
