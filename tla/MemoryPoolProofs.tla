-------------------------- MODULE MemoryPoolProofs --------------------------
(***************************************************************************)
(* For every capacity, arena, set of sizes and set of alignments, the      *)
(* range allocator hands out disjoint extents and keeps a coalesced free   *)
(* list.  The inductive invariant is the conjunction of the type           *)
(* invariant, the partition of the bytes and the coalesced list: a cut     *)
(* keeps the partition only because free ranges do not overlap, and a free *)
(* merges correctly only because the returned extent overlaps none of      *)
(* them.  That a refusal is real rests on the same invariant and on a      *)
(* count: free ranges that do not touch are at most one more than the held *)
(* extents between them, so the arena has a node for each.                 *)
(*                                                                         *)
(* For any number of foreground clients, calls and retirement records, the *)
(* pool's lock has one holder, and its three counters, which are changed   *)
(* with and without the lock, are exactly what their readers take them     *)
(* for.  They are unsigned in the code, so a counter that was taken down   *)
(* once too often would read as a crowd of waiters.                        *)
(***************************************************************************)
EXTENDS RangeAllocator, PoolLock, OperatorLemmas

\* The shapes of the fields, before anything is counted.
Shaped ==
  /\ free \subseteq Extent /\ held \subseteq Extent
  /\ allocated \in Int /\ peak \in Int /\ nodes \in Int
  /\ last \in Call

IInv == Shaped /\ FreeListCoalesced /\ BytesPartitioned

\* The initial free list is the whole pool.
LEMMA InitEstablishes == Init => IInv
<1> SUFFICES ASSUME Init PROVE IInv
  OBVIOUS
<1> USE CapacityAssumption, NodeAssumption DEF Init
<1>1. Shaped
  BY DEF Shaped, Extent, Call, Idle, Ok, Exhausted, Rejected
<1>2. FreeListCoalesced
  BY DEF FreeListCoalesced, Separated
<1>3. BytesPartitioned
  <2>1. CASE Capacity = 0
    BY <2>1 DEF BytesPartitioned
  <2>2. CASE Capacity # 0
    <3>1. free = {[offset |-> 0, bytes |-> Capacity]}
      BY <2>2
    <3>2. End([offset |-> 0, bytes |-> Capacity]) = Capacity
      BY DEF End
    <3>3. \A u \in 0..(Capacity - 1) : FreeUnit(free, u)
      BY <3>1, <3>2 DEF FreeUnit, Covers
    <3> QED BY <3>1, <3>2, <3>3 DEF BytesPartitioned
  <2> QED BY <2>1, <2>2
<1> QED BY <1>1, <1>2, <1>3 DEF IInv

\* An extent a caller holds overlaps no free range.
LEMMA HeldAvoidsFree ==
  ASSUME IInv, NEW e \in held, NEW r \in free
  PROVE  Disjoint(r, e)
<1>1. /\ e \in Extent /\ r \in Extent
      /\ e.offset \in Nat /\ End(e) \in Nat /\ e.offset < End(e)
      /\ r.offset \in Nat /\ End(r) \in Nat /\ r.offset < End(r)
      /\ End(e) <= Capacity /\ End(r) <= Capacity
  BY EndOfExtent DEF IInv, Shaped, BytesPartitioned
<1>2. SUFFICES ASSUME r.offset < End(e), e.offset < End(r) PROVE FALSE
  BY <1>1 DEF Disjoint
<1>3. PICK u \in 0..(Capacity - 1) : Covers(e, u) /\ Covers(r, u)
  <2>1. CASE r.offset <= e.offset
    <3>1. e.offset \in 0..(Capacity - 1) /\ Covers(e, e.offset) /\ Covers(r, e.offset)
      BY <2>1, <1>1, <1>2, CapacityAssumption DEF Covers
    <3> QED BY <3>1
  <2>2. CASE e.offset < r.offset
    <3>1. r.offset \in 0..(Capacity - 1) /\ Covers(e, r.offset) /\ Covers(r, r.offset)
      BY <2>2, <1>1, <1>2, CapacityAssumption DEF Covers
    <3> QED BY <3>1
  <2> QED BY <1>1, <2>1, <2>2
<1> QED BY <1>3 DEF IInv, BytesPartitioned, FreeUnit

\* A request cut from a free range overlaps nothing a caller holds.
LEMMA PieceAvoidsHeld ==
  ASSUME IInv, NEW r \in free, NEW at \in Nat, NEW bytes \in Nat \ {0},
         r.offset <= at, at + bytes <= End(r), NEW e \in held
  PROVE  Disjoint(Piece(at, bytes), e) /\ Disjoint(e, Piece(at, bytes))
<1>1. Disjoint(r, e)
  BY HeldAvoidsFree
<1>2. /\ e.offset \in Nat /\ End(e) \in Nat /\ r.offset \in Nat /\ End(r) \in Nat
  BY EndOfExtent DEF IInv, Shaped
<1> QED BY <1>1, <1>2 DEF Disjoint, Piece, End

\* A successful cut (allocate_from_range) preserves the invariant.
LEMMA CarveStep ==
  ASSUME IInv, NEW f, NEW bytes \in Nat \ {0},
         f.range \in free, f.at \in Nat,
         f.range.offset <= f.at, f.at + bytes <= End(f.range),
         free' = Carve(free, f.range, f.at, bytes),
         held' = held \cup {[offset |-> f.at, bytes |-> bytes]}
  PROVE  /\ free' \subseteq Extent
         /\ held' \subseteq Extent
         /\ FreeListCoalesced'
         /\ BytesPartitioned'
<1> DEFINE p == Piece(f.at, bytes)
<1>0. /\ free \in SUBSET Extent /\ Separated(free)
      /\ held' = held \cup {p}
      /\ p \in Extent
  BY DEF IInv, Shaped, FreeListCoalesced, Piece, Extent
<1>1. /\ free' \in SUBSET Extent
      /\ Separated(free')
      /\ \A x \in free' : \E s \in free : Within(x, s)
      /\ \A u \in Int : FreeUnit(free', u) <=> FreeUnit(free, u) /\ ~ Covers(p, u)
  BY <1>0, CarveKeepsFreeList
<1>2. held' \subseteq Extent
  BY <1>0 DEF IInv, Shaped
<1>3. \A u \in 0..(Capacity - 1) :
        FreeUnit(free', u) <=> ~ \E e \in held' : Covers(e, u)
  BY <1>0, <1>1 DEF IInv, BytesPartitioned
<1>4. \A e, d \in held' : e # d => Disjoint(e, d)
  BY <1>0, PieceAvoidsHeld DEF IInv, BytesPartitioned
<1>5. \A e \in free' \cup held' : End(e) <= Capacity
  <2>1. End(f.range) \in Nat /\ End(f.range) <= Capacity
    BY <1>0, EndOfExtent DEF IInv, BytesPartitioned
  <2>2. End(p) <= Capacity
    BY <2>1, CapacityAssumption DEF Piece, End
  <2>3. ASSUME NEW x \in free' PROVE End(x) <= Capacity
    <3>1. PICK s \in free : Within(x, s)
      BY <1>1
    <3>2. End(x) \in Nat /\ End(s) \in Nat /\ End(s) <= Capacity
      BY <1>0, <1>1, EndOfExtent DEF IInv, BytesPartitioned
    <3> QED BY <3>1, <3>2, CapacityAssumption DEF Within
  <2> QED BY <1>0, <2>2, <2>3 DEF IInv, BytesPartitioned
<1> QED BY <1>1, <1>2, <1>3, <1>4, <1>5 DEF FreeListCoalesced, BytesPartitioned

\* Serving a request, whatever it answers, preserves the invariant.
LEMMA ServeStep ==
  ASSUME IInv, NEW call \in [op : Policies, bytes : Nat \ {0},
                             alignment : Nat \ {0}, lowest : Nat],
         NEW fits, Serve(call, fits),
         \A f \in fits : /\ f.range \in free /\ f.at \in Nat
                         /\ f.range.offset <= f.at
                         /\ f.at + call.bytes <= End(f.range)
  PROVE  IInv'
<1> USE DEF Ok, Exhausted, Rejected
<1>1. CASE UNCHANGED <<free, held, allocated, peak, nodes>>
           /\ \E status \in {Ok, Exhausted, Rejected} : Answer(call, status, 0)
  BY <1>1 DEF IInv, Shaped, FreeListCoalesced, BytesPartitioned, Answer, Call
<1>2. CASE \E f \in fits :
             /\ free' = Carve(free, f.range, f.at, call.bytes)
             /\ held' = held \cup {[offset |-> f.at, bytes |-> call.bytes]}
             /\ nodes' = NodesAfterCarve(f, call.bytes)
             /\ allocated' = allocated + call.bytes
             /\ peak' = IF allocated' > peak THEN allocated' ELSE peak
             /\ Answer(call, Ok, f.at)
  <2>1. PICK f \in fits :
             /\ free' = Carve(free, f.range, f.at, call.bytes)
             /\ held' = held \cup {[offset |-> f.at, bytes |-> call.bytes]}
             /\ nodes' = NodesAfterCarve(f, call.bytes)
             /\ allocated' = allocated + call.bytes
             /\ peak' = IF allocated' > peak THEN allocated' ELSE peak
             /\ Answer(call, Ok, f.at)
    BY <1>2
  <2>2. /\ f.range \in free /\ f.at \in Nat /\ f.range.offset <= f.at
        /\ f.at + call.bytes <= End(f.range)
    OBVIOUS
  <2>3. /\ free' \subseteq Extent /\ held' \subseteq Extent
        /\ FreeListCoalesced' /\ BytesPartitioned'
    BY <2>1, <2>2, CarveStep
  <2>4. nodes' \in Int
    BY <2>1 DEF NodesAfterCarve, IInv, Shaped
  <2>5. last' \in Call
    BY <2>1, <2>2 DEF Answer, Call
  <2>6. allocated' \in Int /\ peak' \in Int
    BY <2>1 DEF IInv, Shaped
  <2> QED BY <2>3, <2>4, <2>5, <2>6 DEF IInv, Shaped
<1> QED BY <1>1, <1>2 DEF Serve, AllocateFrom

\* Returning a held extent, whatever it answers, preserves the invariant.
LEMMA FreeStep ==
  ASSUME IInv, NEW e \in held, Free(e)
  PROVE  IInv'
<1> USE DEF Ok, Exhausted, Rejected
<1>0. /\ free \in SUBSET Extent /\ Separated(free) /\ e \in Extent
      /\ e.offset \in Nat /\ e.bytes \in Nat \ {0}
  BY DEF IInv, Shaped, FreeListCoalesced, Extent
<1>1. last' \in Call
  BY <1>0 DEF Free, Answer, Call, Request
<1>2. CASE nodes = 0
  BY <1>1, <1>2 DEF Free, IInv, Shaped, FreeListCoalesced, BytesPartitioned
<1>3. CASE nodes # 0
  <2>1. /\ free' = Give(free, e) /\ held' = held \ {e}
        /\ nodes' = nodes - 1 + Returned(Before(free, e)) + Returned(After(free, e))
        /\ allocated' = allocated - e.bytes /\ peak' = peak
    BY <1>3 DEF Free
  <2>2. /\ free' \in SUBSET Extent
        /\ Separated(free')
        /\ \A x \in free' : \E s \in free \cup {e} : End(x) = End(s)
        /\ \A u \in Int : FreeUnit(free', u) <=> FreeUnit(free, u) \/ Covers(e, u)
    <3>1. \A r \in free : Disjoint(r, e)
      BY HeldAvoidsFree
    <3> QED BY <2>1, <1>0, <3>1, GiveKeepsFreeList
  <2>3. \A u \in 0..(Capacity - 1) :
          FreeUnit(free', u) <=> ~ \E d \in held' : Covers(d, u)
    <3> SUFFICES ASSUME NEW u \in 0..(Capacity - 1)
                 PROVE  FreeUnit(free', u) <=> ~ \E d \in held' : Covers(d, u)
      OBVIOUS
    <3>1. ASSUME Covers(e, u), NEW d \in held, d # e PROVE ~ Covers(d, u)
      <4>1. Disjoint(e, d) /\ d \in Extent
        BY <3>1 DEF IInv, Shaped, BytesPartitioned
      <4>2. End(d) \in Nat /\ End(e) \in Nat /\ d.offset \in Nat
        BY <1>0, <4>1, EndOfExtent
      <4> QED BY <1>0, <3>1, <4>1, <4>2 DEF Covers, Disjoint
    <3> QED BY <2>1, <2>2, <3>1 DEF IInv, BytesPartitioned
  <2>4. \A d, c \in held' : d # c => Disjoint(d, c)
    BY <2>1 DEF IInv, BytesPartitioned
  <2>5. \A d \in free' \cup held' : End(d) <= Capacity
    BY <2>1, <2>2 DEF IInv, BytesPartitioned
  <2>6. nodes' \in Int /\ allocated' \in Int /\ peak' \in Int
    BY <2>1, <1>0 DEF Returned, IInv, Shaped
  <2>7. held' \subseteq Extent
    BY <2>1 DEF IInv, Shaped
  <2> QED BY <1>1, <2>2, <2>3, <2>4, <2>5, <2>6, <2>7
          DEF IInv, Shaped, FreeListCoalesced, BytesPartitioned
<1> QED BY <1>2, <1>3

\* Every step of the allocator preserves the invariant.
LEMMA NextPreserves == IInv /\ [Next]_vars => IInv'
<1> SUFFICES ASSUME IInv, [Next]_vars PROVE IInv'
  OBVIOUS
<1> USE SizesAssumption, AlignmentsAssumption, CapacityAssumption
<1>0. free \in SUBSET Extent
  BY DEF IInv, Shaped
<1>1. ASSUME NEW bytes \in Sizes, NEW alignment \in Alignments, Allocate(bytes, alignment)
      PROVE  IInv'
  <2>1. Request("first_fit", bytes, alignment, 0)
          \in [op : Policies, bytes : Nat \ {0}, alignment : Nat \ {0}, lowest : Nat]
    BY DEF Request, Policies
  <2>2. \A f \in FirstFit(free, bytes, alignment) :
          /\ f.range \in free /\ f.at \in Nat /\ f.range.offset <= f.at
          /\ f.at + bytes <= End(f.range)
    BY <1>0, SelectedFits
  <2>3. Request("first_fit", bytes, alignment, 0).bytes = bytes
    BY DEF Request
  <2> QED BY <1>1, <2>1, <2>2, <2>3, ServeStep DEF Allocate
<1>2. ASSUME NEW bytes \in Sizes, NEW alignment \in Alignments,
             AllocateBestFitLow(bytes, alignment)
      PROVE  IInv'
  <2>1. Request("best_fit_low", bytes, alignment, 0)
          \in [op : Policies, bytes : Nat \ {0}, alignment : Nat \ {0}, lowest : Nat]
    BY DEF Request, Policies
  <2>2. \A f \in BestFitLow(free, bytes, alignment) :
          /\ f.range \in free /\ f.at \in Nat /\ f.range.offset <= f.at
          /\ f.at + bytes <= End(f.range)
    BY <1>0, SelectedFits
  <2>3. Request("best_fit_low", bytes, alignment, 0).bytes = bytes
    BY DEF Request
  <2> QED BY <1>2, <2>1, <2>2, <2>3, ServeStep DEF AllocateBestFitLow
<1>3. ASSUME NEW bytes \in Sizes, NEW alignment \in Alignments,
             AllocateBestFitHigh(bytes, alignment)
      PROVE  IInv'
  <2>1. Request("best_fit_high", bytes, alignment, 0)
          \in [op : Policies, bytes : Nat \ {0}, alignment : Nat \ {0}, lowest : Nat]
    BY DEF Request, Policies
  <2>2. \A f \in BestFitHigh(free, bytes, alignment) :
          /\ f.range \in free /\ f.at \in Nat /\ f.range.offset <= f.at
          /\ f.at + bytes <= End(f.range)
    BY <1>0, SelectedFits
  <2>3. Request("best_fit_high", bytes, alignment, 0).bytes = bytes
    BY DEF Request
  <2> QED BY <1>3, <2>1, <2>2, <2>3, ServeStep DEF AllocateBestFitHigh
<1>4. ASSUME NEW bytes \in Sizes, NEW alignment \in Alignments, NEW lowest \in 0..Capacity,
             AllocateHighest(bytes, alignment, lowest)
      PROVE  IInv'
  <2>1. Request("highest", bytes, alignment, lowest)
          \in [op : Policies, bytes : Nat \ {0}, alignment : Nat \ {0}, lowest : Nat]
    BY DEF Request, Policies
  <2>2. \A f \in HighestFit(free, bytes, alignment, lowest) :
          /\ f.range \in free /\ f.at \in Nat /\ f.range.offset <= f.at
          /\ f.at + bytes <= End(f.range)
    BY <1>0, SelectedFits
  <2>3. Request("highest", bytes, alignment, lowest).bytes = bytes
    BY DEF Request
  <2> QED BY <1>4, <2>1, <2>2, <2>3, ServeStep DEF AllocateHighest
<1>5. ASSUME NEW bytes \in Sizes, NEW offset \in 0..Capacity, AllocateAt(offset, bytes)
      PROVE  IInv'
  <2> DEFINE call == Request("at", bytes, 1, offset)
  <2>1. call \in [op : Policies, bytes : Nat \ {0}, alignment : Nat \ {0}, lowest : Nat]
    BY DEF Request, Policies
  <2>2. \A f \in FitAt(free, offset, bytes) :
          /\ f.range \in free /\ f.at \in Nat /\ f.range.offset <= f.at
          /\ f.at + bytes <= End(f.range)
    <3>1. bytes \in Nat \ {0} /\ offset \in Nat
      BY SizesAssumption, CapacityAssumption
    <3>2. free \in SUBSET Extent
      BY <1>0
    <3> HIDE DEF call
    <3> QED BY <3>1, <3>2, FitAtFits
  <2>3. call.bytes = bytes
    BY DEF Request
  <2>4. CASE Serve(call, FitAt(free, offset, bytes))
    <3> HIDE DEF call
    <3> QED BY <2>1, <2>2, <2>3, <2>4, ServeStep
  <2>5. CASE /\ Answer(call, Rejected, 0)
             /\ UNCHANGED <<free, held, allocated, peak, nodes>>
    BY <2>5, <2>1 DEF IInv, Shaped, FreeListCoalesced, BytesPartitioned, Answer, Call,
                      Rejected, Ok, Exhausted
  <2> QED BY <1>5, <2>4, <2>5 DEF AllocateAt
<1>6. ASSUME NEW e \in held, Free(e) PROVE IInv'
  BY <1>6, FreeStep
<1>7. CASE UNCHANGED vars
  BY <1>7 DEF vars, IInv, Shaped, FreeListCoalesced, BytesPartitioned
<1> QED BY <1>1, <1>2, <1>3, <1>4, <1>5, <1>6, <1>7 DEF Next

(***************************************************************************)
(* For every pool size and every sequence of calls, each byte is free or   *)
(* in exactly one held extent: allocate_from_range and                     *)
(* shadowspill_range_free never lend a byte twice and never lose one.      *)
(***************************************************************************)
THEOREM AllocatorPartitionsBytes == Spec => []BytesPartitioned
<1>1. IInv => BytesPartitioned
  BY DEF IInv
<1> QED BY InitEstablishes, NextPreserves, <1>1, PTL DEF Spec

(***************************************************************************)
(* The free list stays coalesced: no two free ranges touch.                *)
(***************************************************************************)
THEOREM AllocatorCoalesces == Spec => []FreeListCoalesced
<1>1. IInv => FreeListCoalesced
  BY DEF IInv
<1> QED BY InitEstablishes, NextPreserves, <1>1, PTL DEF Spec

-----------------------------------------------------------------------------
(***************************************************************************)
(* Refusals.  The list nodes are counted: a cut takes one, gives one back  *)
(* or leaves their number, and a free takes one before it gives up to two  *)
(* back, so the arena and the free list always share NodeCapacity nodes.   *)
(* That a large enough arena never runs out needs one fact more: between   *)
(* two free ranges there is a held extent, so the list has at most one     *)
(* range more than the callers hold extents.                               *)
(***************************************************************************)
\* The bytes of these extents.
Lent(extents) == {u \in 0..(Capacity - 1) : \E e \in extents : Covers(e, u)}

Accounting ==
  /\ IsFiniteSet(free) /\ IsFiniteSet(held)
  /\ Cardinality(held) <= MaxHeld
  /\ nodes = NodeCapacity - Cardinality(free) /\ nodes \in Nat
  /\ allocated = Cardinality(Lent(held)) /\ allocated <= peak /\ peak <= Capacity

AInv == IInv /\ Accounting /\ ExhaustionIsReal

\* The bytes lent are as many as the pool has, and a further extent adds its own.
LEMMA LentCount ==
  ASSUME NEW S \in SUBSET Extent
  PROVE  /\ IsFiniteSet(Lent(S)) /\ Cardinality(Lent(S)) \in 0..Capacity
         /\ \A e \in Extent :
              (End(e) <= Capacity /\ \A d \in S : Disjoint(d, e)) =>
                Cardinality(Lent(S \cup {e})) = Cardinality(Lent(S)) + e.bytes
<1>1. IsFiniteSet(0..(Capacity - 1)) /\ Cardinality(0..(Capacity - 1)) = Capacity
  BY CapacityAssumption, FS_Interval
<1>2. Lent(S) \in SUBSET (0..(Capacity - 1))
  BY DEF Lent
<1>3. IsFiniteSet(Lent(S)) /\ Cardinality(Lent(S)) \in 0..Capacity
  <2>1. IsFiniteSet(Lent(S)) /\ Cardinality(Lent(S)) <= Capacity
    BY <1>1, <1>2, FS_Subset
  <2> QED BY <2>1, FS_CardinalityType, CapacityAssumption
<1>4. ASSUME NEW e \in Extent, End(e) <= Capacity, \A d \in S : Disjoint(d, e)
      PROVE  Cardinality(Lent(S \cup {e})) = Cardinality(Lent(S)) + e.bytes
  <2> DEFINE V == e.offset..(End(e) - 1)
  <2>1. e.offset \in Nat /\ End(e) \in Nat /\ e.bytes \in Nat /\ e.bytes = End(e) - e.offset
        /\ e.offset < End(e)
    BY EndOfExtent DEF Extent, End
  <2>2. IsFiniteSet(V) /\ Cardinality(V) = e.bytes
    <3>1. /\ e.offset \in Int /\ End(e) - 1 \in Int /\ ~(e.offset > End(e) - 1)
          /\ (End(e) - 1) - e.offset + 1 = e.bytes
      BY <2>1
    <3>2. /\ IsFiniteSet(V)
          /\ Cardinality(V) = IF e.offset > End(e) - 1 THEN 0 ELSE (End(e) - 1) - e.offset + 1
      BY <3>1, FS_Interval
    <3> QED BY <3>1, <3>2
  <2>3. Lent(S \cup {e}) = Lent(S) \cup V
    BY <1>4, <2>1, CapacityAssumption DEF Lent, Covers
  <2>4. Lent(S) \cap V = {}
    <3>1. ASSUME NEW d \in S, NEW u \in V, Covers(d, u) PROVE FALSE
      <4>1. d.offset \in Nat /\ End(d) \in Nat /\ Disjoint(d, e)
        BY <1>4, EndOfExtent
      <4> QED BY <2>1, <3>1, <4>1 DEF Covers, Disjoint
    <3> QED BY <3>1 DEF Lent
  <2> HIDE DEF V
  <2>5. Cardinality(Lent(S) \cup V)
          = Cardinality(Lent(S)) + Cardinality(V) - Cardinality(Lent(S) \cap V)
    BY <1>3, <2>2, FS_Union
  <2>6. Cardinality(Lent(S) \cap V) = 0
    BY <2>4, FS_EmptySet
  <2>7. Cardinality(Lent(S)) \in Int /\ e.bytes \in Int
    BY <1>3, <2>1
  <2>8. Cardinality(Lent(S) \cup V) = Cardinality(Lent(S)) + e.bytes
    BY <2>2, <2>5, <2>6, <2>7
  <2> QED BY <2>3, <2>8
<1> QED BY <1>3, <1>4

\* How a cut changes the length of the free list (the three branches of
\* allocate_from_range).
LEMMA CarveCount ==
  ASSUME NEW f, NEW list \in SUBSET Extent, Separated(list), IsFiniteSet(list),
         f.range \in list, f.at \in Nat, NEW bytes \in Nat \ {0},
         f.range.offset <= f.at, f.at + bytes <= End(f.range)
  PROVE  /\ IsFiniteSet(Carve(list, f.range, f.at, bytes))
         /\ Cardinality(Carve(list, f.range, f.at, bytes)) = Cardinality(list) +
              CASE Splits(f, bytes) -> 1
                [] f.at = f.range.offset /\ f.at + bytes = End(f.range) -> -1
                [] OTHER -> 0
<1> DEFINE r == f.range
           at == f.at
           rest == list \ {r}
           left == Piece(r.offset, at - r.offset)
           right == Piece(at + bytes, End(r) - (at + bytes))
           new == Carve(list, r, at, bytes)
<1>1. /\ r \in Extent /\ r.offset \in Nat /\ End(r) \in Nat /\ r.offset < End(r)
  BY EndOfExtent
<1>2. /\ left.offset = r.offset /\ left.bytes = at - r.offset /\ End(left) = at
      /\ right.offset = at + bytes /\ right.bytes = End(r) - (at + bytes)
      /\ End(right) = End(r)
  BY <1>1 DEF Piece, End
<1>3. /\ IsFiniteSet(rest) /\ Cardinality(rest) = Cardinality(list) - 1
      /\ Cardinality(list) \in Nat
  BY FS_RemoveElement, FS_CardinalityType
<1>4. \A x : x \in new <=> \/ x \in rest
                           \/ x = left /\ left.bytes > 0
                           \/ x = right /\ right.bytes > 0
  BY DEF Carve, Piece
<1>5. left \notin rest
  <2> SUFFICES ASSUME left \in rest PROVE FALSE
    OBVIOUS
  <2>1. left.offset < End(left) /\ left \in list /\ left # r
    BY EndOfExtent
  <2>2. End(left) < r.offset \/ End(r) < left.offset
    BY <2>1 DEF Separated
  <2> QED BY <2>1, <2>2, <1>1, <1>2
<1>6. right \notin rest
  <2> SUFFICES ASSUME right \in rest PROVE FALSE
    OBVIOUS
  <2>1. right.offset < End(right) /\ right \in list /\ right # r
    BY EndOfExtent
  <2>2. End(right) < r.offset \/ End(r) < right.offset
    BY <2>1 DEF Separated
  <2> QED BY <2>1, <2>2, <1>1, <1>2
<1>7. left # right
  BY <1>1, <1>2
<1>8. /\ left.bytes > 0 <=> r.offset # at
      /\ right.bytes > 0 <=> at + bytes # End(r)
  BY <1>1, <1>2
<1>9. Splits(f, bytes) <=> r.offset # at /\ at + bytes # End(r)
  BY DEF Splits
<1> HIDE DEF left, right, rest
<1>10. CASE r.offset # at /\ at + bytes # End(r)
  <2>1. new = (rest \cup {left}) \cup {right}
    BY <1>4, <1>8, <1>10
  <2>2. IsFiniteSet(rest \cup {left}) /\ Cardinality(rest \cup {left}) = Cardinality(rest) + 1
    BY <1>3, <1>5, FS_AddElement
  <2>3. right \notin rest \cup {left}
    BY <1>6, <1>7
  <2>4. IsFiniteSet(new) /\ Cardinality(new) = Cardinality(rest) + 1 + 1
    BY <2>1, <2>2, <2>3, FS_AddElement
  <2> QED BY <2>4, <1>3, <1>9, <1>10
<1>11. CASE r.offset # at /\ at + bytes = End(r)
  <2>1. new = rest \cup {left}
    BY <1>4, <1>8, <1>11
  <2>2. IsFiniteSet(new) /\ Cardinality(new) = Cardinality(rest) + 1
    BY <2>1, <1>3, <1>5, FS_AddElement
  <2> QED BY <2>2, <1>3, <1>9, <1>11
<1>12. CASE r.offset = at /\ at + bytes # End(r)
  <2>1. new = rest \cup {right}
    BY <1>4, <1>8, <1>12
  <2>2. IsFiniteSet(new) /\ Cardinality(new) = Cardinality(rest) + 1
    BY <2>1, <1>3, <1>6, FS_AddElement
  <2> QED BY <2>2, <1>3, <1>9, <1>12
<1>13. CASE r.offset = at /\ at + bytes = End(r)
  <2>1. new = rest
    BY <1>4, <1>8, <1>13
  <2> QED BY <2>1, <1>3, <1>9, <1>13
<1> QED BY <1>10, <1>11, <1>12, <1>13

\* How a free changes the length of the list: one range more, less the
\* neighbours it merges with.
LEMMA GiveCount ==
  ASSUME NEW list \in SUBSET Extent, Separated(list), IsFiniteSet(list),
         NEW e \in Extent, \A r \in list : Disjoint(r, e)
  PROVE  /\ IsFiniteSet(Give(list, e))
         /\ Cardinality(Give(list, e)) = Cardinality(list) + 1
              - Returned(Before(list, e)) - Returned(After(list, e))
<1> DEFINE B == Before(list, e)
           A == After(list, e)
           m == Merged(list, e)
<1>1. /\ m \in Extent
      /\ \A b \in B : m.offset = b.offset
      /\ B = {} => m.offset = e.offset
      /\ \A a \in A : End(m) = End(a)
      /\ A = {} => End(m) = End(e)
  BY MergedSpan
<1>2. /\ e.offset \in Nat /\ End(e) \in Nat /\ e.offset < End(e)
      /\ m.offset \in Nat /\ End(m) \in Nat
      /\ \A s \in list : s.offset \in Nat /\ End(s) \in Nat /\ s.offset < End(s)
  BY <1>1, EndOfExtent
<1>3. /\ \A b \in B : b \in list /\ End(b) = e.offset
      /\ \A a \in A : a \in list /\ a.offset = End(e)
  BY DEF Before, After
<1>4. Give(list, e) = ((list \ B) \ A) \cup {m}
  BY DEF Give
<1> HIDE DEF B, A, m
<1>5. m \notin (list \ B) \ A
  <2> SUFFICES ASSUME m \in list PROVE FALSE
    OBVIOUS
  <2>1. m.offset <= e.offset
    BY <1>1, <1>2, <1>3
  <2>2. End(e) <= End(m)
    BY <1>1, <1>2, <1>3
  <2>3. End(m) <= e.offset \/ End(e) <= m.offset
    BY DEF Disjoint
  <2> QED BY <2>1, <2>2, <2>3, <1>2
<1>6. Cardinality(list) \in Nat
  BY FS_CardinalityType
<1>7. /\ IsFiniteSet(list \ B)
      /\ Cardinality(list \ B) = Cardinality(list) - Returned(B)
  <2>1. CASE B = {}
    BY <2>1, <1>6 DEF Returned
  <2>2. CASE B # {}
    <3>1. PICK b \in B : TRUE
      BY <2>2
    <3>2. \A c \in B : c = b
      <4> SUFFICES ASSUME NEW c \in B PROVE c = b
        OBVIOUS
      <4>1. /\ b \in list /\ c \in list /\ End(b) = End(c)
            /\ b.offset < End(b) /\ c.offset < End(c)
            /\ b.offset \in Nat /\ c.offset \in Nat /\ End(b) \in Nat
        BY <1>2, <1>3
      <4> QED BY <4>1 DEF Separated
    <3>3. list \ B = list \ {b} /\ b \in list
      BY <3>1, <3>2, <1>3
    <3>4. Returned(B) = 1
      BY <2>2 DEF Returned
    <3> QED BY <3>3, <3>4, FS_RemoveElement
  <2> QED BY <2>1, <2>2
<1> DEFINE C == list \ B
<1>8. IsFiniteSet(C \ A) /\ Cardinality(C \ A) = Cardinality(C) - Returned(A)
  <2>1. CASE A = {}
    BY <2>1, <1>7, FS_CardinalityType DEF Returned
  <2>2. CASE A # {}
    <3>1. PICK a \in A : TRUE
      BY <2>2
    <3>2. \A c \in A : c = a
      <4> SUFFICES ASSUME NEW c \in A PROVE c = a
        OBVIOUS
      <4>1. /\ a \in list /\ c \in list /\ a.offset = c.offset
            /\ a.offset < End(a) /\ c.offset < End(c)
            /\ a.offset \in Nat /\ End(c) \in Nat /\ End(a) \in Nat
        BY <1>2, <1>3
      <4> QED BY <4>1 DEF Separated
    <3>3. a \in list /\ a \notin B
      BY <3>1, <1>2, <1>3
    <3>4. C \ A = C \ {a} /\ a \in C
      BY <3>1, <3>2, <3>3
    <3>5. Returned(A) = 1
      BY <2>2 DEF Returned
    <3>6. IsFiniteSet(C)
      BY <1>7
    <3> HIDE DEF C
    <3> QED BY <3>4, <3>5, <3>6, FS_RemoveElement
  <2> QED BY <2>1, <2>2
<1>9. IsFiniteSet(Give(list, e)) /\ Cardinality(Give(list, e)) = Cardinality(C \ A) + 1
  <2> DEFINE D == C \ A
  <2>1. Give(list, e) = D \cup {m} /\ m \notin D /\ IsFiniteSet(D)
    BY <1>4, <1>5, <1>8
  <2> HIDE DEF D
  <2>2. IsFiniteSet(Give(list, e)) /\ Cardinality(Give(list, e)) = Cardinality(D) + 1
    BY <2>1, FS_AddElement
  <2> QED BY <2>2 DEF D
<1>10. Returned(A) \in Int /\ Returned(B) \in Int
  BY DEF Returned
<1> QED BY <1>6, <1>7, <1>8, <1>9, <1>10 DEF A, B

\* Between two free ranges there is a held extent.
LEMMA FreeListShort ==
  ASSUME IInv, IsFiniteSet(held)
  PROVE  IsFiniteSet(free) /\ Cardinality(free) <= Cardinality(held) + 1
<1> DEFINE none == [offset |-> 0, bytes |-> 0]
           T == held \cup {none}
           g == [r \in free |-> IF End(r) = Capacity THEN none
                                ELSE CHOOSE e \in held : Covers(e, End(r))]
<1>1. \A r \in free : /\ r \in Extent /\ r.offset \in Nat /\ End(r) \in Nat
                      /\ r.offset < End(r) /\ End(r) <= Capacity
  BY EndOfExtent DEF IInv, Shaped, BytesPartitioned
<1>2. \A e \in held : e.offset \in Nat /\ End(e) \in Nat /\ e # none
  <2>1. none.bytes = 0
    OBVIOUS
  <2>2. \A e \in held : e \in Extent
    BY DEF IInv, Shaped
  <2> QED BY <2>1, <2>2, EndOfExtent
<1>3. ASSUME NEW r \in free, End(r) # Capacity
      PROVE  \E e \in held : Covers(e, End(r))
  <2>1. End(r) \in 0..(Capacity - 1)
    BY <1>1, <1>3, CapacityAssumption
  <2>2. ~ FreeUnit(free, End(r))
    <3> SUFFICES ASSUME NEW s \in free, Covers(s, End(r)) PROVE FALSE
      BY DEF FreeUnit
    <3>1. s # r
      BY <1>1 DEF Covers
    <3>2. End(r) < s.offset \/ End(s) < r.offset
      BY <3>1 DEF IInv, FreeListCoalesced, Separated
    <3> QED BY <3>2, <1>1 DEF Covers
  <2> QED BY <2>1, <2>2 DEF IInv, BytesPartitioned
<1>4. ASSUME NEW r \in free
      PROVE  /\ End(r) = Capacity => g[r] = none
             /\ End(r) # Capacity => g[r] \in held /\ Covers(g[r], End(r))
  BY <1>3
<1>5. g \in [free -> T]
  BY <1>4
<1> HIDE DEF g
<1>6. ASSUME NEW r \in free, NEW s \in free, g[r] = g[s], End(r) < s.offset
      PROVE  FALSE
  <2>1. End(r) # Capacity /\ g[r] \in held /\ Covers(g[r], End(r))
    BY <1>1, <1>4, <1>6
  <2>2. End(s) # Capacity /\ Covers(g[r], End(s))
    BY <1>2, <1>4, <1>6, <2>1
  <2>3. Disjoint(s, g[r])
    BY <2>1, HeldAvoidsFree
  <2> QED BY <2>1, <2>2, <2>3, <1>1, <1>2, <1>6 DEF Covers, Disjoint
<1>7. g \in Injection(free, T)
  <2>1. \A r, s \in free : g[r] = g[s] => r = s
    BY <1>6 DEF IInv, FreeListCoalesced, Separated
  <2> QED BY <1>5, <2>1 DEF Injection, IsInjective
<1>8. IsFiniteSet(T) /\ Cardinality(T) = Cardinality(held) + 1
  BY <1>2, FS_AddElement
<1> HIDE DEF T
<1> QED BY <1>7, <1>8, FS_Injection

\* A policy that selects nothing had nothing to select: no aligned offset has
\* all of the request's bytes free.
LEMMA RefusalsReal ==
  ASSUME IInv, NEW bytes \in Nat \ {0}, NEW alignment \in Nat \ {0},
         NEW lowest \in Nat, NEW at \in 0..Capacity,
         at % alignment = 0, at >= lowest, FitsAt(free, bytes, at)
  PROVE  /\ FirstFit(free, bytes, alignment) # {}
         /\ BestFitLow(free, bytes, alignment) # {}
         /\ BestFitHigh(free, bytes, alignment) # {}
         /\ HighestFit(free, bytes, alignment, lowest) # {}
<1>1. /\ free \in SUBSET Extent /\ Separated(free) /\ Capacity \in Nat
      /\ \A r \in free : End(r) <= Capacity
  BY CapacityAssumption DEF IInv, Shaped, FreeListCoalesced, BytesPartitioned
<1>2. at \in Nat /\ 0 \in Nat /\ 0 <= at /\ lowest <= at
  OBVIOUS
<1>3. PICK r \in free : r.offset <= at /\ at + bytes <= End(r)
  BY <1>1, <1>2, RunInOneRange DEF FitsAt
<1>4. /\ LowFits(free, bytes, alignment) # {}
      /\ HighFits(free, bytes, alignment, lowest) # {}
  BY <1>1, <1>2, <1>3, WalkMeetsFit
<1>5. HighFits(free, bytes, alignment, 0) # {}
  BY <1>1, <1>2, <1>3, WalkMeetsFit
<1> QED BY <1>1, <1>4, <1>5, PoliciesSelect

\* With two nodes more than extents held, the arena is not empty.
LEMMA ArenaSuffices ==
  ASSUME IInv, Accounting, NodeCapacity >= MaxHeld + 2
  PROVE  nodes # 0
<1>1. /\ IsFiniteSet(held) /\ Cardinality(held) \in Nat /\ Cardinality(held) <= MaxHeld
      /\ Cardinality(free) \in Nat
      /\ nodes = NodeCapacity - Cardinality(free)
  BY FS_CardinalityType DEF Accounting
<1>2. Cardinality(free) <= Cardinality(held) + 1
  BY <1>1, FreeListShort
<1> QED BY <1>1, <1>2, NodeAssumption, MaxHeldAssumption

\* What a call answers is judged by its own fields.
LEMMA AnswerFields ==
  ASSUME NEW call \in [op : Policies \cup {"free"}, bytes : Nat \ {0},
                       alignment : Nat \ {0}, lowest : Nat],
         NEW status, NEW at, Answer(call, status, at)
  PROVE  /\ last'.op = call.op /\ last'.bytes = call.bytes
         /\ last'.lowest = call.lowest /\ last'.status = status
         /\ \A list : Feasible(list, last') = Feasible(list, call)
BY DEF Answer, Feasible

\* Serving a request keeps the count of nodes, and refuses only with reason.
LEMMA ServeAccounts ==
  ASSUME AInv, MayHold,
         NEW call \in [op : Policies, bytes : Nat \ {0}, alignment : Nat \ {0}, lowest : Nat],
         NEW fits, Serve(call, fits),
         \A f \in fits : /\ f.range \in free /\ f.at \in Nat
                         /\ f.range.offset <= f.at
                         /\ f.at + call.bytes <= End(f.range),
         fits = {} => Feasible(free, call) = {}
  PROVE  Accounting' /\ ExhaustionIsReal'
<1> USE DEF Ok, Exhausted, Rejected
<1>0. /\ free \in SUBSET Extent /\ Separated(free)
      /\ IsFiniteSet(free) /\ IsFiniteSet(held)
      /\ nodes = NodeCapacity - Cardinality(free)
      /\ Cardinality(free) \in Nat /\ Cardinality(held) \in Nat
      /\ Cardinality(held) < MaxHeld
      /\ NodeCapacity \in Nat /\ MaxHeld \in Nat /\ nodes \in Nat
  BY FS_CardinalityType, NodeAssumption, MaxHeldAssumption
     DEF AInv, IInv, Shaped, FreeListCoalesced, Accounting, MayHold
<1>1. CASE fits = {} /\ Answer(call, Exhausted, 0) /\ UNCHANGED <<free, held, allocated, peak, nodes>>
  <2>1. Accounting'
    BY <1>1, <1>0 DEF AInv, Accounting
  <2>2. last'.status = 1 /\ Feasible(free', last') = {}
    BY <1>1, AnswerFields
  <2> QED BY <1>1, <1>0, <2>1, <2>2 DEF ExhaustionIsReal
<1>2. CASE \E f \in fits : AllocateFrom(call, f)
  <2>1. PICK f \in fits : AllocateFrom(call, f)
    BY <1>2
  <2>2. /\ f.range \in free /\ f.at \in Nat /\ f.range.offset <= f.at
        /\ f.at + call.bytes <= End(f.range) /\ call.bytes \in Nat \ {0}
    OBVIOUS
  <2>3. CASE Splits(f, call.bytes) /\ nodes = 0
    <3>1. Answer(call, Rejected, 0) /\ UNCHANGED <<free, held, allocated, peak, nodes>>
      BY <2>1, <2>3 DEF AllocateFrom
    <3>2. Accounting'
      BY <3>1, <1>0 DEF AInv, Accounting
    <3>3. last'.status = -1
      BY <3>1, AnswerFields
    <3>4. ~ NodeCapacity >= MaxHeld + 2
      BY <2>3, ArenaSuffices DEF AInv
    <3> QED BY <3>1, <3>2, <3>3, <3>4, <1>0 DEF ExhaustionIsReal
  <2>4. CASE ~(Splits(f, call.bytes) /\ nodes = 0)
    <3>1. /\ free' = Carve(free, f.range, f.at, call.bytes)
          /\ held' = held \cup {[offset |-> f.at, bytes |-> call.bytes]}
          /\ nodes' = NodesAfterCarve(f, call.bytes)
          /\ allocated' = allocated + call.bytes
          /\ peak' = IF allocated' > peak THEN allocated' ELSE peak
          /\ Answer(call, Ok, f.at)
      BY <2>1, <2>4 DEF AllocateFrom
    <3>2. /\ IsFiniteSet(free')
          /\ Cardinality(free') = Cardinality(free) +
               CASE Splits(f, call.bytes) -> 1
                 [] f.at = f.range.offset /\ f.at + call.bytes = End(f.range) -> -1
                 [] OTHER -> 0
      BY <3>1, <2>2, <1>0, CarveCount
    <3>3. nodes' = NodeCapacity - Cardinality(free') /\ nodes' \in Nat
      BY <2>4, <3>1, <3>2, <1>0 DEF NodesAfterCarve
    <3>4. IsFiniteSet(held') /\ Cardinality(held') <= MaxHeld
      <4> DEFINE p == [offset |-> f.at, bytes |-> call.bytes]
      <4> HIDE DEF p
      <4>1. /\ IsFiniteSet(held \cup {p})
            /\ Cardinality(held \cup {p}) =
                 IF p \in held THEN Cardinality(held) ELSE Cardinality(held) + 1
        BY <1>0, FS_AddElement
      <4>2. Cardinality(held \cup {p}) <= MaxHeld
        BY <4>1, <1>0
      <4> QED BY <3>1, <4>1, <4>2 DEF p
    <3>5. last'.status = 0
      BY <3>1, AnswerFields
    <3>6. /\ allocated' = Cardinality(Lent(held')) /\ allocated' <= peak'
          /\ peak' <= Capacity
      <4> DEFINE p == Piece(f.at, call.bytes)
      <4>1. /\ p \in Extent /\ p.bytes = call.bytes /\ held' = held \cup {p}
            /\ End(p) = f.at + call.bytes
        BY <2>2, <3>1 DEF Piece, Extent, End
      <4>2. \A d \in held : Disjoint(d, p)
        BY <2>2, PieceAvoidsHeld DEF AInv
      <4>3. /\ held \in SUBSET Extent /\ held' \in SUBSET Extent
            /\ End(f.range) \in Nat /\ End(f.range) <= Capacity
        BY <1>0, <2>2, <4>1, EndOfExtent DEF AInv, IInv, Shaped, BytesPartitioned
      <4> HIDE DEF p
      <4>4. End(p) <= Capacity
        BY <2>2, <4>1, <4>3, CapacityAssumption
      <4>5. /\ Cardinality(Lent(held')) = Cardinality(Lent(held)) + call.bytes
            /\ Cardinality(Lent(held')) \in 0..Capacity
        BY <4>1, <4>2, <4>3, <4>4, LentCount
      <4>6. /\ allocated = Cardinality(Lent(held)) /\ peak \in Int
            /\ allocated <= peak /\ peak <= Capacity
        BY DEF AInv, Accounting, IInv, Shaped
      <4> QED BY <3>1, <4>5, <4>6, CapacityAssumption
    <3> QED BY <3>2, <3>3, <3>4, <3>5, <3>6 DEF Accounting, ExhaustionIsReal
  <2> QED BY <2>3, <2>4
<1> QED BY <1>1, <1>2 DEF Serve

\* So does returning an extent.
LEMMA FreeAccounts ==
  ASSUME AInv, NEW e \in held, Free(e)
  PROVE  Accounting' /\ ExhaustionIsReal'
<1> USE DEF Ok, Exhausted, Rejected
<1> DEFINE call == Request("free", e.bytes, 1, e.offset)
<1>0. /\ free \in SUBSET Extent /\ Separated(free) /\ e \in Extent
      /\ e.offset \in Nat /\ e.bytes \in Nat \ {0}
      /\ IsFiniteSet(free) /\ IsFiniteSet(held)
      /\ nodes = NodeCapacity - Cardinality(free)
      /\ Cardinality(free) \in Nat /\ Cardinality(held) \in Nat
      /\ Cardinality(held) <= MaxHeld
      /\ NodeCapacity \in Nat /\ MaxHeld \in Nat /\ nodes \in Nat
  BY FS_CardinalityType, NodeAssumption, MaxHeldAssumption
     DEF AInv, IInv, Shaped, FreeListCoalesced, Accounting, Extent
<1>1. call \in [op : Policies \cup {"free"}, bytes : Nat \ {0}, alignment : Nat \ {0}, lowest : Nat]
  BY <1>0 DEF Request
<1>2. CASE nodes = 0
  <2>1. Answer(call, Rejected, 0) /\ UNCHANGED <<free, held, allocated, peak, nodes>>
    BY <1>2 DEF Free
  <2> HIDE DEF call
  <2>2. Accounting'
    BY <2>1, <1>0 DEF AInv, Accounting
  <2>3. last'.status = -1
    BY <2>1, <1>1, AnswerFields
  <2>4. ~ NodeCapacity >= MaxHeld + 2
    BY <1>2, ArenaSuffices DEF AInv
  <2> QED BY <2>1, <2>2, <2>3, <2>4, <1>0 DEF ExhaustionIsReal
<1>3. CASE nodes # 0
  <2>1. /\ free' = Give(free, e) /\ held' = held \ {e}
        /\ nodes' = nodes - 1 + Returned(Before(free, e)) + Returned(After(free, e))
        /\ allocated' = allocated - e.bytes /\ peak' = peak
        /\ Answer(call, Ok, e.offset)
    BY <1>3 DEF Free
  <2> HIDE DEF call
  <2>2. \A r \in free : Disjoint(r, e)
    BY HeldAvoidsFree DEF AInv
  <2>3. /\ IsFiniteSet(free')
        /\ Cardinality(free') = Cardinality(free) + 1
             - Returned(Before(free, e)) - Returned(After(free, e))
    BY <2>1, <2>2, <1>0, GiveCount
  <2>4. Returned(Before(free, e)) \in Nat /\ Returned(After(free, e)) \in Nat
    BY DEF Returned
  <2>5. nodes' = NodeCapacity - Cardinality(free') /\ nodes' \in Nat
    BY <1>3, <2>1, <2>3, <2>4, <1>0
  <2>6. IsFiniteSet(held') /\ Cardinality(held') <= MaxHeld
    <3>1. /\ IsFiniteSet(held \ {e})
          /\ Cardinality(held \ {e}) = Cardinality(held) - 1
      BY <1>0, FS_RemoveElement
    <3> QED BY <2>1, <1>0, <3>1
  <2>7. last'.status = 0
    BY <2>1, <1>1, AnswerFields
  <2>8. allocated' = Cardinality(Lent(held')) /\ allocated' <= peak' /\ peak' <= Capacity
    <3>1. /\ held' \in SUBSET Extent /\ held = held' \cup {e} /\ End(e) <= Capacity
          /\ \A d \in held' : Disjoint(d, e)
      BY <2>1 DEF AInv, IInv, Shaped, BytesPartitioned
    <3>2. /\ Cardinality(Lent(held)) = Cardinality(Lent(held')) + e.bytes
          /\ Cardinality(Lent(held')) \in 0..Capacity
      BY <1>0, <3>1, LentCount
    <3>3. /\ allocated = Cardinality(Lent(held)) /\ peak \in Int
          /\ allocated <= peak /\ peak <= Capacity
      BY DEF AInv, Accounting, IInv, Shaped
    <3> QED BY <1>0, <2>1, <3>2, <3>3, CapacityAssumption
  <2> QED BY <2>3, <2>5, <2>6, <2>7, <2>8 DEF Accounting, ExhaustionIsReal
<1> QED BY <1>2, <1>3

\* The whole pool on the list takes one node.
LEMMA InitAccounts == Init => AInv
<1> SUFFICES ASSUME Init PROVE AInv
  OBVIOUS
<1>1. IInv
  BY InitEstablishes
<1>2. IsFiniteSet(held) /\ Cardinality(held) = 0 /\ held = {}
  BY FS_EmptySet DEF Init
<1>3. IsFiniteSet(free) /\ nodes = NodeCapacity - Cardinality(free) /\ nodes \in Nat
  <2>1. CASE Capacity = 0
    BY <2>1, FS_EmptySet, NodeAssumption DEF Init
  <2>2. CASE Capacity # 0
    <3>1. free = {[offset |-> 0, bytes |-> Capacity]} /\ nodes = NodeCapacity - 1
      BY <2>2 DEF Init
    <3>2. IsFiniteSet(free) /\ Cardinality(free) = 1
      BY <3>1, FS_Singleton
    <3> QED BY <3>1, <3>2, NodeAssumption
  <2> QED BY <2>1, <2>2
<1>4. last.status = 0
  BY DEF Init, Idle, Ok
<1>5. Accounting
  <2>1. Cardinality(Lent(held)) = 0
    BY <1>2, FS_EmptySet DEF Lent
  <2>2. allocated = 0 /\ peak = 0
    BY DEF Init
  <2> QED BY <1>2, <1>3, <2>1, <2>2, MaxHeldAssumption, CapacityAssumption DEF Accounting
<1>6. ExhaustionIsReal
  BY <1>3, <1>4 DEF ExhaustionIsReal, Ok, Exhausted, Rejected
<1> QED BY <1>1, <1>5, <1>6 DEF AInv

\* Every step keeps the count and answers with reason.
LEMMA NextAccounts == AInv /\ [Next]_vars => AInv'
<1> SUFFICES ASSUME AInv, [Next]_vars PROVE AInv'
  OBVIOUS
<1> USE SizesAssumption, AlignmentsAssumption, CapacityAssumption
<1> DEFINE Calls == [op : Policies, bytes : Nat \ {0}, alignment : Nat \ {0}, lowest : Nat]
<1>0. IInv /\ IInv' /\ free \in SUBSET Extent
  BY NextPreserves DEF AInv, IInv, Shaped
<1>1. ASSUME NEW bytes \in Sizes, NEW alignment \in Alignments, Allocate(bytes, alignment)
      PROVE  Accounting' /\ ExhaustionIsReal'
  <2> DEFINE call == Request("first_fit", bytes, alignment, 0)
  <2>1. call \in Calls /\ call.bytes = bytes
    BY DEF Request, Policies
  <2>2. \A f \in FirstFit(free, bytes, alignment) :
          /\ f.range \in free /\ f.at \in Nat /\ f.range.offset <= f.at
          /\ f.at + bytes <= End(f.range)
    BY <1>0, SelectedFits
  <2>3. FirstFit(free, bytes, alignment) = {} => Feasible(free, call) = {}
    BY <1>0, RefusalsReal DEF Feasible, Request
  <2>4. MayHold /\ Serve(call, FirstFit(free, bytes, alignment))
    BY <1>1 DEF Allocate
  <2> HIDE DEF call
  <2> QED BY <2>1, <2>2, <2>3, <2>4, ServeAccounts
<1>2. ASSUME NEW bytes \in Sizes, NEW alignment \in Alignments,
             AllocateBestFitLow(bytes, alignment)
      PROVE  Accounting' /\ ExhaustionIsReal'
  <2> DEFINE call == Request("best_fit_low", bytes, alignment, 0)
  <2>1. call \in Calls /\ call.bytes = bytes
    BY DEF Request, Policies
  <2>2. \A f \in BestFitLow(free, bytes, alignment) :
          /\ f.range \in free /\ f.at \in Nat /\ f.range.offset <= f.at
          /\ f.at + bytes <= End(f.range)
    BY <1>0, SelectedFits
  <2>3. BestFitLow(free, bytes, alignment) = {} => Feasible(free, call) = {}
    BY <1>0, RefusalsReal DEF Feasible, Request
  <2>4. MayHold /\ Serve(call, BestFitLow(free, bytes, alignment))
    BY <1>2 DEF AllocateBestFitLow
  <2> HIDE DEF call
  <2> QED BY <2>1, <2>2, <2>3, <2>4, ServeAccounts
<1>3. ASSUME NEW bytes \in Sizes, NEW alignment \in Alignments,
             AllocateBestFitHigh(bytes, alignment)
      PROVE  Accounting' /\ ExhaustionIsReal'
  <2> DEFINE call == Request("best_fit_high", bytes, alignment, 0)
  <2>1. call \in Calls /\ call.bytes = bytes
    BY DEF Request, Policies
  <2>2. \A f \in BestFitHigh(free, bytes, alignment) :
          /\ f.range \in free /\ f.at \in Nat /\ f.range.offset <= f.at
          /\ f.at + bytes <= End(f.range)
    BY <1>0, SelectedFits
  <2>3. BestFitHigh(free, bytes, alignment) = {} => Feasible(free, call) = {}
    BY <1>0, RefusalsReal DEF Feasible, Request
  <2>4. MayHold /\ Serve(call, BestFitHigh(free, bytes, alignment))
    BY <1>3 DEF AllocateBestFitHigh
  <2> HIDE DEF call
  <2> QED BY <2>1, <2>2, <2>3, <2>4, ServeAccounts
<1>4. ASSUME NEW bytes \in Sizes, NEW alignment \in Alignments, NEW lowest \in 0..Capacity,
             AllocateHighest(bytes, alignment, lowest)
      PROVE  Accounting' /\ ExhaustionIsReal'
  <2> DEFINE call == Request("highest", bytes, alignment, lowest)
  <2>1. call \in Calls /\ call.bytes = bytes
    BY DEF Request, Policies
  <2>2. \A f \in HighestFit(free, bytes, alignment, lowest) :
          /\ f.range \in free /\ f.at \in Nat /\ f.range.offset <= f.at
          /\ f.at + bytes <= End(f.range)
    BY <1>0, SelectedFits
  <2>3. HighestFit(free, bytes, alignment, lowest) = {} => Feasible(free, call) = {}
    BY <1>0, RefusalsReal DEF Feasible, Request
  <2>4. MayHold /\ Serve(call, HighestFit(free, bytes, alignment, lowest))
    BY <1>4 DEF AllocateHighest
  <2> HIDE DEF call
  <2> QED BY <2>1, <2>2, <2>3, <2>4, ServeAccounts
<1>5. ASSUME NEW bytes \in Sizes, NEW offset \in 0..Capacity, AllocateAt(offset, bytes)
      PROVE  Accounting' /\ ExhaustionIsReal'
  <2> DEFINE call == Request("at", bytes, 1, offset)
  <2>1. /\ call \in Calls /\ call.bytes = bytes
        /\ call.op = "at" /\ call.lowest = offset
    BY DEF Request, Policies
  <2>2. CASE offset + bytes > Capacity
    <3>1. Answer(call, Rejected, 0) /\ UNCHANGED <<free, held, allocated, peak, nodes>>
      BY <1>5, <2>2 DEF AllocateAt
    <3> HIDE DEF call
    <3>2. /\ last'.op = "at" /\ last'.lowest = offset /\ last'.bytes = bytes
          /\ last'.status = Rejected
      BY <3>1, <2>1, AnswerFields
    <3>3. Accounting'
      BY <3>1 DEF AInv, Accounting
    <3> QED BY <3>1, <3>2, <3>3, <2>2
            DEF AInv, Accounting, ExhaustionIsReal, Exhausted, Rejected
  <2>3. CASE ~(offset + bytes > Capacity)
    <3>1. MayHold /\ Serve(call, FitAt(free, offset, bytes))
      BY <1>5, <2>3 DEF AllocateAt
    <3>2. \A f \in FitAt(free, offset, bytes) :
            /\ f.range \in free /\ f.at \in Nat /\ f.range.offset <= f.at
            /\ f.at + bytes <= End(f.range)
      <4>1. bytes \in Nat \ {0} /\ offset \in Nat
        BY SizesAssumption, CapacityAssumption
      <4>2. free \in SUBSET Extent
        BY <1>0
      <4> HIDE DEF call
      <4> QED BY <4>1, <4>2, FitAtFits
    <3> HIDE DEF call
    <3>3. ASSUME FitsAt(free, bytes, offset) PROVE FitAt(free, offset, bytes) # {}
      <4>1. PICK r \in free : r.offset <= offset /\ offset + bytes <= End(r)
        BY <1>0, <3>3, RunInOneRange DEF FitsAt, IInv, FreeListCoalesced
      <4> DEFINE f == [range |-> r, at |-> offset]
      <4>2. f.range.offset <= offset /\ offset + bytes <= End(f.range)
        BY <4>1
      <4>3. f \in FitAt(free, offset, bytes)
        BY <4>2 DEF FitAt
      <4> QED BY <4>3
    <3>4. FitAt(free, offset, bytes) = {} => Feasible(free, call) = {}
      BY <2>1, <3>3 DEF Feasible
    <3> QED BY <2>1, <3>1, <3>2, <3>4, ServeAccounts
  <2> QED BY <2>2, <2>3
<1>6. ASSUME NEW e \in held, Free(e) PROVE Accounting' /\ ExhaustionIsReal'
  BY <1>6, FreeAccounts
<1>7. ASSUME UNCHANGED vars PROVE Accounting' /\ ExhaustionIsReal'
  BY <1>7 DEF vars, AInv, Accounting, ExhaustionIsReal
<1>8. Accounting' /\ ExhaustionIsReal'
  BY <1>1, <1>2, <1>3, <1>4, <1>5, <1>6, <1>7 DEF Next
<1> QED BY <1>0, <1>8 DEF AInv

(***************************************************************************)
(* For every pool, arena and sequence of calls: an entry point answers     *)
(* "out of memory" only when no aligned offset has the bytes free, the     *)
(* nodes of the list and of the arena add up, and an arena of two nodes    *)
(* more than the extents held at once rejects no call inside the pool.     *)
(***************************************************************************)
THEOREM AllocatorRefusalsReal == Spec => []ExhaustionIsReal
<1>1. AInv => ExhaustionIsReal
  BY DEF AInv
<1> QED BY InitAccounts, NextAccounts, <1>1, PTL DEF Spec

(***************************************************************************)
(* For every pool, arena and alignment, no sequence of calls leaves an     *)
(* empty free range or one past the pool's end behind, and no counter goes *)
(* below zero or past its limit: allocated counts the bytes lent, so a     *)
(* free never takes it below zero, and the nodes in the arena and on the   *)
(* list are always NodeCapacity.                                           *)
(***************************************************************************)
THEOREM TypeCorrect == Spec => []TypeOK
<1>1. ASSUME AInv PROVE TypeOK
  <2>1. /\ nodes = NodeCapacity - Cardinality(free) /\ nodes \in Nat
        /\ Cardinality(free) \in Nat
    BY <1>1, FS_CardinalityType DEF AInv, Accounting
  <2>2. /\ allocated = Cardinality(Lent(held)) /\ allocated <= peak /\ peak <= Capacity
        /\ peak \in Int /\ held \in SUBSET Extent
    BY <1>1 DEF AInv, Accounting, IInv, Shaped
  <2>3. Cardinality(Lent(held)) \in 0..Capacity
    BY <2>2, LentCount
  <2> QED BY <1>1, <2>1, <2>2, <2>3, NodeAssumption, CapacityAssumption
          DEF TypeOK, AInv, IInv, Shaped, BytesPartitioned
<1> QED BY InitAccounts, NextAccounts, <1>1, PTL DEF Spec

-----------------------------------------------------------------------------
(* The lock of the pool.                                                   *)

\* The lock is held by whoever is inside its critical section, and by no other.
LockExclusive ==
  /\ \A c \in Clients : lock = c <=> client[c] \in {"locked", "inside"}
  /\ lock = Boundary <=> boundary = "reserve"
  /\ lock = Worker <=> worker \in {"recheck", "release", "locked"}

\* The clients that announced themselves and have not been let in.
Announced == {c \in Clients : client[c] \in {"look", "try", "locked"}}

\* foreground_waiters counts them, and the worker while it returns use records.
ForegroundExact ==
  foreground = Cardinality(Announced)
                 + (IF worker \in {"look", "try", "locked"} THEN 1 ELSE 0)

\* reservation_waiters is raised from the declaration to its withdrawal.
ReservationExact ==
  reservation = IF boundary \in {"try", "reserve", "wait", "reserved", "refused"}
                THEN 1 ELSE 0

\* The record the worker took off the queue and has not counted down.
Taken == IF worker \in {"peek", "mutex", "recheck", "release", "count"}
         THEN {record} ELSE {}

\* pending_retirements counts the records queued or taken: none is lost when the
\* worker backs off, and none is counted down twice.
PendingExact ==
  /\ worker # "scan" => record \in Records
  /\ Taken \cap queue = {}
  /\ pending = Cardinality(queue \cup Taken)

LockInv == LockTypes /\ LockExclusive /\ ForegroundExact /\ ReservationExact /\ PendingExact

-----------------------------------------------------------------------------
(* The counted sets. *)

\* They are finite.
LEMMA CountedFinite ==
  ASSUME LockTypes, PendingExact
  PROVE  /\ IsFiniteSet(Announced) /\ Cardinality(Announced) \in Nat
         /\ IsFiniteSet(queue \cup Taken) /\ Cardinality(queue \cup Taken) \in Nat
<1>1. Announced \subseteq Clients /\ queue \cup Taken \subseteq Records
  BY DEF Announced, LockTypes, PendingExact, Taken
<1>2. IsFiniteSet(Announced) /\ IsFiniteSet(queue \cup Taken)
  BY <1>1, FS_Subset, ThreadsAssumption, RecordsAssumption
<1> QED BY <1>2, FS_CardinalityType

\* One client moves from one place to another.
LEMMA ClientMoves ==
  ASSUME LockTypes, PendingExact, NEW c \in Clients, NEW place,
         client' = [client EXCEPT ![c] = place]
  PROVE  LET waits == {"look", "try", "locked"} IN
         /\ (client[c] \in waits <=> place \in waits) => Announced' = Announced
         /\ client[c] \notin waits /\ place \in waits =>
              Cardinality(Announced') = Cardinality(Announced) + 1
         /\ client[c] \in waits /\ place \notin waits =>
              /\ Cardinality(Announced') = Cardinality(Announced) - 1
              /\ Cardinality(Announced) > 0
<1> DEFINE waits == {"look", "try", "locked"}
<1>1. client \in [Clients -> {"away", "look", "try", "locked", "inside"}]
      /\ IsFiniteSet(Announced) /\ Cardinality(Announced) \in Nat
  BY CountedFinite DEF LockTypes
<1>2. (client[c] \in waits <=> place \in waits) => Announced' = Announced
  BY <1>1 DEF Announced
<1>3. ASSUME client[c] \notin waits, place \in waits
      PROVE  Cardinality(Announced') = Cardinality(Announced) + 1
  <2>1. Announced' = Announced \cup {c} /\ c \notin Announced
    BY <1>1, <1>3 DEF Announced
  <2>2. Cardinality(Announced \cup {c}) = Cardinality(Announced) + 1
    BY <1>1, <2>1, FS_AddElement
  <2> QED BY <2>1, <2>2
<1>4. ASSUME client[c] \in waits, place \notin waits
      PROVE  /\ Cardinality(Announced') = Cardinality(Announced) - 1
             /\ Cardinality(Announced) > 0
  <2>1. Announced' = Announced \ {c} /\ c \in Announced
    BY <1>1, <1>4 DEF Announced
  <2>2. Cardinality(Announced \ {c}) = Cardinality(Announced) - 1
    BY <1>1, <2>1, FS_RemoveElement
  <2>3. Cardinality(Announced \ {c}) \in Nat
    BY <1>1, <2>1, FS_RemoveElement, FS_CardinalityType
  <2> QED BY <1>1, <2>1, <2>2, <2>3
<1> QED BY <1>2, <1>3, <1>4

-----------------------------------------------------------------------------
\* It holds when the pool is made.
LEMMA LockInitHolds == LockInit => LockInv
<1> SUFFICES ASSUME LockInit PROVE LockInv
  OBVIOUS
<1>1. /\ demand \in Demands /\ demand.queued \subseteq Records /\ queue = demand.queued
      /\ pending = Cardinality(queue) /\ IsFiniteSet(queue)
  BY DemandsAssumption, RecordsAssumption, FS_Subset DEF LockInit
<1>2. LockTypes
  <2>1. Cardinality(queue) \in Nat
    BY <1>1, FS_CardinalityType
  <2>2. /\ calls \in [Clients -> 0..MaxCalls]
        /\ client \in [Clients -> {"away", "look", "try", "locked", "inside"}]
    BY MaxCallsAssumption DEF LockInit
  <2> QED BY <1>1, <2>1, <2>2 DEF LockInit, LockTypes, Threads
<1>3. LockExclusive
  <2>1. /\ lock = Nobody /\ boundary = "start" /\ worker = "scan"
        /\ \A c \in Clients : client[c] = "away" /\ c # Nobody
    BY ThreadsAssumption DEF LockInit
  <2> QED BY <2>1, ThreadsAssumption DEF LockExclusive
<1>4. Announced = {} /\ Taken = {} /\ queue \cup Taken = queue /\ worker = "scan"
  BY DEF LockInit, Announced, Taken
<1>5. ForegroundExact /\ ReservationExact
  BY <1>4, FS_EmptySet DEF LockInit, ForegroundExact, ReservationExact
<1>6. PendingExact
  BY <1>1, <1>4 DEF PendingExact
<1> QED BY <1>2, <1>3, <1>5, <1>6 DEF LockInv

\* A step of a foreground client.
LEMMA ClientKeeps ==
  ASSUME LockInv, NEW c \in Clients, ForegroundAsk(c) \/ ClientStep(c)
  PROVE  LockInv'
<1> USE DEF LockInv
<1>1. /\ client \in [Clients -> {"away", "look", "try", "locked", "inside"}]
      /\ calls \in [Clients -> 0..MaxCalls] /\ MaxCalls \in Nat
      /\ c # Nobody /\ c # Worker /\ c # Boundary /\ c \in Threads
      /\ foreground \in Nat /\ room \in Nat /\ lock \in Threads /\ Nobody \in Threads
      /\ Cardinality(Announced) \in Nat
  BY ThreadsAssumption, MaxCallsAssumption, CountedFinite DEF LockTypes, Threads
<1>2. PICK place \in {"away", "look", "try", "locked", "inside"} :
        client' = [client EXCEPT ![c] = place]
  BY DEF ForegroundAsk, ClientStep, ForegroundLook, ForegroundTry, ForegroundLocked,
         ForegroundUnlock
<1>3. /\ UNCHANGED <<reservation, epoch, pending, promised, boundaryVars, workerVars>>
      /\ room' \in Nat
  BY <1>1 DEF ForegroundAsk, ClientStep, ForegroundLook, ForegroundTry, ForegroundLocked,
         ForegroundUnlock, poolVars
<1>4. /\ foreground' = foreground + (Cardinality(Announced') - Cardinality(Announced))
      /\ Cardinality(Announced') \in Nat
  <2>1. CASE ForegroundAsk(c)
    <3>1. /\ client' = [client EXCEPT ![c] = "look"] /\ client[c] = "away"
          /\ foreground' = foreground + 1
      BY <2>1 DEF ForegroundAsk
    <3>2. Cardinality(Announced') = Cardinality(Announced) + 1
      BY <3>1, ClientMoves
    <3> QED BY <1>1, <3>1, <3>2
  <2>2. CASE ForegroundLook(c) \/ ForegroundTry(c) \/ ForegroundUnlock(c)
    <3>1. /\ foreground' = foreground
          /\ client[c] \in {"look", "try", "locked"}
               <=> client'[c] \in {"look", "try", "locked"}
      BY <1>1, <2>2 DEF ForegroundLook, ForegroundTry, ForegroundUnlock
    <3>2. Announced' = Announced
      BY <1>1, <1>2, <3>1 DEF Announced
    <3> QED BY <1>1, <3>1, <3>2
  <2>3. CASE ForegroundLocked(c)
    <3>1. /\ client' = [client EXCEPT ![c] = "inside"] /\ client[c] = "locked"
          /\ foreground' = foreground - 1
      BY <2>3 DEF ForegroundLocked
    <3>2. client[c] \in {"look", "try", "locked"} /\ "inside" \notin {"look", "try", "locked"}
      BY <3>1
    <3>3. Cardinality(Announced') = Cardinality(Announced) - 1 /\ Cardinality(Announced) > 0
      BY <3>1, <3>2, ClientMoves
    <3> QED BY <1>1, <3>1, <3>3
  <2> QED BY <2>1, <2>2, <2>3 DEF ClientStep
<1>5. ForegroundExact' /\ foreground' \in Nat
  BY <1>1, <1>3, <1>4 DEF ForegroundExact, workerVars
<1>6. calls' \in [Clients -> 0..MaxCalls]
  BY <1>1 DEF ForegroundAsk, ClientStep, ForegroundLook, ForegroundTry, ForegroundLocked,
         ForegroundUnlock
<1>7. LockExclusive' /\ lock' \in Threads
  <2>1. boundary' = boundary /\ worker' = worker
    BY <1>3 DEF boundaryVars, workerVars
  <2>2. CASE ForegroundAsk(c) \/ ForegroundLook(c) \/ ForegroundLocked(c)
    BY <1>1, <2>1, <2>2 DEF ForegroundAsk, ForegroundLook, ForegroundLocked, LockExclusive
  <2>3. CASE ForegroundTry(c)
    BY <1>1, <2>1, <2>3, ThreadsAssumption DEF ForegroundTry, LockExclusive
  <2>4. CASE ForegroundUnlock(c)
    BY <1>1, <2>1, <2>4, ThreadsAssumption DEF ForegroundUnlock, LockExclusive
  <2> QED BY <2>2, <2>3, <2>4 DEF ClientStep
<1>8. LockTypes'
  BY <1>1, <1>2, <1>3, <1>5, <1>6, <1>7 DEF LockTypes, boundaryVars, workerVars, Threads
<1>9. ReservationExact' /\ PendingExact'
  BY <1>3 DEF ReservationExact, PendingExact, Taken, boundaryVars, workerVars
<1> QED BY <1>5, <1>7, <1>8, <1>9

\* A step of the task boundary.
LEMMA BoundaryKeeps ==
  ASSUME LockInv, DeclareReservation \/ BoundaryStep
  PROVE  LockInv'
<1> USE DEF LockInv
<1>1. /\ UNCHANGED <<foreground, epoch, pending, clientVars, demand, workerVars>>
      /\ room \in Nat /\ epoch \in Nat /\ demand.needed \in Nat /\ reservation \in Nat
      /\ Nobody \in Threads /\ Boundary \in Threads
  BY DemandsAssumption DEF DeclareReservation, BoundaryStep, TryReservation, Reserve, WaitForEpoch,
     Relinquish, poolVars, LockTypes, Threads
<1>2. ReservationExact' /\ reservation' \in Nat
  BY <1>1 DEF ReservationExact, DeclareReservation, BoundaryStep, TryReservation, Reserve,
     WaitForEpoch, Relinquish
<1>3. LockExclusive' /\ lock' \in Threads
  <2>1. client' = client /\ worker' = worker
    BY <1>1 DEF clientVars, workerVars
  <2>2. CASE DeclareReservation \/ WaitForEpoch \/ Relinquish
    BY <2>1, <2>2 DEF DeclareReservation, WaitForEpoch, Relinquish, LockExclusive, LockTypes
  <2>3. CASE TryReservation
    BY <1>1, <2>1, <2>3, ThreadsAssumption DEF TryReservation, LockExclusive
  <2>4. CASE Reserve
    <3>1. /\ lock = Boundary /\ lock' = Nobody
          /\ boundary' \in {"reserved", "wait", "refused"}
      BY <2>4 DEF Reserve, LockExclusive
    <3> QED BY <1>1, <2>1, <3>1, ThreadsAssumption DEF LockExclusive
  <2> QED BY <2>2, <2>3, <2>4 DEF BoundaryStep
<1>4. /\ boundary' \in {"start", "try", "reserve", "wait", "reserved", "refused", "end"}
      /\ seen' \in Nat
  BY <1>1 DEF LockTypes, DeclareReservation, BoundaryStep, TryReservation, Reserve, WaitForEpoch,
     Relinquish
<1>5. room' \in Nat
  BY <1>1 DEF DeclareReservation, BoundaryStep, TryReservation, Reserve, WaitForEpoch,
     Relinquish, poolVars
<1>6. promised' \subseteq Records
  <2>1. promised \subseteq Records /\ Candidates \subseteq Records
    BY DEF LockTypes, PendingExact, Candidates, Retiring
  <2> QED BY <2>1 DEF DeclareReservation, BoundaryStep, TryReservation, Reserve, WaitForEpoch,
     Relinquish, poolVars
<1>7. LockTypes'
  BY <1>1, <1>2, <1>3, <1>4, <1>5, <1>6 DEF LockTypes, clientVars, workerVars, Threads
<1>8. ForegroundExact' /\ PendingExact'
  BY <1>1 DEF ForegroundExact, Announced, PendingExact, Taken, clientVars, workerVars
<1> QED BY <1>2, <1>3, <1>7, <1>8

\* A step of the worker.
LEMMA WorkerKeeps ==
  ASSUME LockInv, WorkerStep
  PROVE  LockInv'
<1> USE DEF LockInv
<1>1. /\ UNCHANGED <<reservation, promised, clientVars, boundaryVars>>
      /\ client' = client /\ boundary' = boundary /\ Announced' = Announced
      /\ foreground \in Nat /\ room \in Nat /\ epoch \in Nat /\ pending \in Nat
      /\ Nobody \in Threads /\ Worker \in Threads
      /\ Cardinality(Announced) \in Nat /\ Cardinality(queue \cup Taken) \in Nat
      /\ IsFiniteSet(queue \cup Taken)
      /\ queue \subseteq Records /\ (worker # "scan" => record \in Records)
  BY CountedFinite DEF WorkerStep, ReclaimStart, ReclaimPeek, ReclaimTry, ReclaimRecheck, ReclaimRelease,
     ReclaimCount, WorkerLook, WorkerTry, WorkerReturn, poolVars, LockTypes, Threads,
     clientVars, boundaryVars, Announced, PendingExact
<1>2. LockExclusive' /\ lock' \in Threads
  <2>1. CASE \E r \in Records : ReclaimStart(r)
    BY <1>1, <2>1, ThreadsAssumption DEF ReclaimStart, LockExclusive, LockTypes
  <2>2. CASE ReclaimPeek
    BY <1>1, <2>2, ThreadsAssumption DEF ReclaimPeek, Requeue, LockExclusive, LockTypes
  <2>3. CASE ReclaimTry
    BY <1>1, <2>3, ThreadsAssumption DEF ReclaimTry, Requeue, LockExclusive, LockTypes
  <2>4. CASE ReclaimRecheck
    BY <1>1, <2>4, ThreadsAssumption DEF ReclaimRecheck, Requeue, LockExclusive, LockTypes
  <2>5. CASE ReclaimRelease
    BY <1>1, <2>5, ThreadsAssumption DEF ReclaimRelease, LockExclusive, LockTypes
  <2>6. CASE ReclaimCount
    BY <1>1, <2>6, ThreadsAssumption DEF ReclaimCount, LockExclusive, LockTypes
  <2>7. CASE WorkerLook
    BY <1>1, <2>7, ThreadsAssumption DEF WorkerLook, LockExclusive, LockTypes
  <2>8. CASE WorkerTry
    BY <1>1, <2>8, ThreadsAssumption DEF WorkerTry, LockExclusive, LockTypes
  <2>9. CASE WorkerReturn
    BY <1>1, <2>9, ThreadsAssumption DEF WorkerReturn, LockExclusive, LockTypes
  <2> QED BY <2>1, <2>2, <2>3, <2>4, <2>5, <2>6, <2>7, <2>8, <2>9 DEF WorkerStep
<1>3. ForegroundExact' /\ foreground' \in Nat
  <2>1. CASE \E r \in Records : ReclaimStart(r)
    BY <1>1, <2>1 DEF ReclaimStart, ForegroundExact
  <2>2. CASE ReclaimPeek
    BY <1>1, <2>2 DEF ReclaimPeek, Requeue, ForegroundExact
  <2>3. CASE ReclaimTry
    BY <1>1, <2>3 DEF ReclaimTry, Requeue, ForegroundExact
  <2>4. CASE ReclaimRecheck
    BY <1>1, <2>4 DEF ReclaimRecheck, Requeue, ForegroundExact
  <2>5. CASE ReclaimRelease
    BY <1>1, <2>5 DEF ReclaimRelease, ForegroundExact
  <2>6. CASE ReclaimCount
    BY <1>1, <2>6 DEF ReclaimCount, ForegroundExact
  <2>7. CASE WorkerLook
    BY <1>1, <2>7 DEF WorkerLook, ForegroundExact
  <2>8. CASE WorkerTry
    BY <1>1, <2>8 DEF WorkerTry, ForegroundExact
  <2>9. CASE WorkerReturn
    BY <1>1, <2>9 DEF WorkerReturn, ForegroundExact
  <2> QED BY <2>1, <2>2, <2>3, <2>4, <2>5, <2>6, <2>7, <2>8, <2>9 DEF WorkerStep
<1>4. PendingExact' /\ pending' \in Nat
  <2>1. CASE ReclaimCount
    <3>1. /\ Taken = {record} /\ record \notin queue /\ record \in Records
          /\ Taken' = {} /\ queue' = queue /\ pending' = pending - 1
          /\ worker' # "scan" => record' = record
      BY <1>1, <2>1 DEF ReclaimCount, Taken, PendingExact
    <3>2. /\ queue = (queue \cup Taken) \ {record} /\ record \in queue \cup Taken
      BY <3>1
    <3>3. Cardinality((queue \cup Taken) \ {record}) = Cardinality(queue \cup Taken) - 1
          /\ IsFiniteSet((queue \cup Taken) \ {record})
      BY <1>1, <3>2, FS_RemoveElement
    <3>4. Cardinality(queue) = Cardinality(queue \cup Taken) - 1 /\ Cardinality(queue) \in Nat
      <4>1. Cardinality((queue \cup Taken) \ {record}) \in Nat
        BY <3>3, FS_CardinalityType
      <4> QED BY <3>2, <3>3, <4>1
    <3>5. queue' \cup Taken' = queue
      BY <3>1
    <3>6. pending = Cardinality(queue \cup Taken)
      BY DEF PendingExact
    <3> QED BY <1>1, <3>1, <3>4, <3>5, <3>6 DEF PendingExact
  <2>2. CASE ~ReclaimCount
    <3>1. /\ pending' = pending /\ queue' \cup Taken' = queue \cup Taken
          /\ Taken' \cap queue' = {} /\ (worker' # "scan" => record' \in Records)
      BY <1>1, <2>2
         DEF WorkerStep, ReclaimStart, ReclaimPeek, ReclaimTry, ReclaimRecheck, ReclaimRelease,
         WorkerLook, WorkerTry, WorkerReturn, Requeue, PendingExact, Taken, poolVars
    <3> QED BY <1>1, <3>1 DEF PendingExact
  <2> QED BY <2>1, <2>2
<1>5. /\ worker' \in {"scan", "peek", "mutex", "recheck", "release", "count",
                     "look", "try", "locked"}
      /\ record' \in Records \cup {NoRecord} /\ queue' \subseteq Records
  BY <1>1
     DEF WorkerStep, ReclaimStart, ReclaimPeek, ReclaimTry, ReclaimRecheck, ReclaimRelease,
     ReclaimCount, WorkerLook, WorkerTry, WorkerReturn, Requeue, LockTypes
<1>8. room' \in Nat /\ epoch' \in Nat
  BY <1>1
     DEF WorkerStep, ReclaimStart, ReclaimPeek, ReclaimTry, ReclaimRecheck, ReclaimRelease,
     ReclaimCount, WorkerLook, WorkerTry, WorkerReturn, poolVars
<1>9. ahead' \in BOOLEAN
  BY DEF WorkerStep, ReclaimStart, ReclaimPeek, ReclaimTry, ReclaimRecheck, ReclaimRelease,
     ReclaimCount, WorkerLook, WorkerTry, WorkerReturn, LockTypes
<1>6. LockTypes'
  BY <1>1, <1>2, <1>3, <1>4, <1>5, <1>8, <1>9 DEF LockTypes, clientVars, boundaryVars, Threads
<1>7. ReservationExact'
  BY <1>1 DEF ReservationExact
<1> QED BY <1>2, <1>3, <1>4, <1>6, <1>7

\* Every step keeps it.
LEMMA LockNextHolds == LockInv /\ [LockNext]_lockVars => LockInv'
<1> SUFFICES ASSUME LockInv, [LockNext]_lockVars PROVE LockInv'
  OBVIOUS
<1>1. CASE UNCHANGED lockVars
  BY <1>1 DEF lockVars, LockInv, LockTypes, Threads, LockExclusive, ForegroundExact, Announced,
              ReservationExact, PendingExact, Taken
<1>2. CASE LockNext
  BY <1>2, ClientKeeps, BoundaryKeeps, WorkerKeeps DEF LockNext
<1> QED BY <1>1, <1>2

\* The invariant holds of every behaviour of the lock protocol (locks.c).
THEOREM LockInvariant == LockSpec => []LockInv
BY LockInitHolds, LockNextHolds, PTL DEF LockSpec

\* Every thread is at one of the places its loop has, and the unsigned counters
\* of locks.c and retirement_queue.c are never taken below zero.
THEOREM LockTypeCorrect == LockSpec => []LockTypes
<1>1. LockInv => LockTypes
  BY DEF LockInv
<1> QED BY <1>1, LockInvariant, PTL

\* One thread at a time is inside the lock, foreground_waiters and
\* reservation_waiters are raised for exactly the threads that wait, and
\* pending_retirements counts each queued or taken record once, although the
\* first two are changed without the lock and the third after its release.
THEOREM LockCountersExact ==
  LockSpec => [](LockExclusive /\ ForegroundExact /\ ReservationExact /\ PendingExact)
<1>1. LockInv => LockExclusive /\ ForegroundExact /\ ReservationExact /\ PendingExact
  BY DEF LockInv
<1> QED BY <1>1, LockInvariant, PTL
=============================================================================
