--------------------------- MODULE RangeAllocator ---------------------------
(***************************************************************************)
(* The range allocator of ranges.c as a state machine: one free list, the  *)
(* extents its callers hold, the byte counters, and the arena of list      *)
(* nodes a bounded allocator draws from (the dry-run allocator of the      *)
(* release frontier is built on such an arena).                            *)
(*                                                                         *)
(* Every entry point is one action, its failing returns included; the last *)
(* call and what it returned are kept in "last", so that a property can    *)
(* judge the answer.  Callers free exactly the extents they hold.          *)
(***************************************************************************)
EXTENDS Ranges, FiniteSets, FiniteSetsExt

CONSTANTS
  Capacity,      \* bytes the allocator manages
  NodeCapacity,  \* nodes of the arena passed to initialize_with_nodes
  Sizes,         \* request sizes
  Alignments,    \* request alignments
  MaxHeld        \* bound: extents held at once

ASSUME CapacityAssumption == Capacity \in Nat
ASSUME NodeAssumption == NodeCapacity \in Nat \ {0}
ASSUME SizesAssumption == Sizes \subseteq Nat \ {0}
ASSUME AlignmentsAssumption == Alignments \subseteq Nat \ {0}
ASSUME MaxHeldAssumption == MaxHeld \in Nat

VARIABLES
  free,       \* allocator->free_ranges
  held,       \* extents handed out and not freed: the callers' side
  allocated,  \* allocator->allocated
  peak,       \* allocator->peak_allocated
  nodes,      \* length of allocator->available_nodes
  last        \* the last call and its answer

vars == <<free, held, allocated, peak, nodes, last>>

Policies == {"first_fit", "best_fit_low", "best_fit_high", "highest", "at"}

\* The int the entry points return.
Ok == 0
Exhausted == 1
Rejected == -1

Idle == [op |-> "none", bytes |-> 0, alignment |-> 1, lowest |-> 0,
         status |-> Ok, at |-> 0]

-----------------------------------------------------------------------------
\* shadowspill_range_initialize_with_nodes
Init ==
  /\ free = IF Capacity = 0 THEN {} ELSE {[offset |-> 0, bytes |-> Capacity]}
  /\ nodes = IF Capacity = 0 THEN NodeCapacity ELSE NodeCapacity - 1
  /\ held = {}
  /\ allocated = 0
  /\ peak = 0
  /\ last = Idle

Answer(call, status, at) ==
  last' = [op |-> call.op, bytes |-> call.bytes, alignment |-> call.alignment,
           lowest |-> call.lowest, status |-> status, at |-> at]

NodesAfterCarve(f, bytes) ==
  CASE Splits(f, bytes) -> nodes - 1
    [] f.at = f.range.offset /\ f.at + bytes = End(f.range) -> nodes + 1
    [] OTHER -> nodes

\* allocate_from_range
AllocateFrom(call, f) ==
  IF Splits(f, call.bytes) /\ nodes = 0
  THEN Answer(call, Rejected, 0) /\ UNCHANGED <<free, held, allocated, peak, nodes>>
  ELSE /\ free' = Carve(free, f.range, f.at, call.bytes)
       /\ held' = held \cup {[offset |-> f.at, bytes |-> call.bytes]}
       /\ nodes' = NodesAfterCarve(f, call.bytes)
       /\ allocated' = allocated + call.bytes
       /\ peak' = IF allocated' > peak THEN allocated' ELSE peak
       /\ Answer(call, Ok, f.at)

Serve(call, fits) ==
  \/ /\ fits = {}
     /\ Answer(call, Exhausted, 0)
     /\ UNCHANGED <<free, held, allocated, peak, nodes>>
  \/ \E f \in fits : AllocateFrom(call, f)

Request(op, bytes, alignment, lowest) ==
  [op |-> op, bytes |-> bytes, alignment |-> alignment, lowest |-> lowest]

MayHold == Cardinality(held) < MaxHeld

Allocate(bytes, alignment) ==
  /\ MayHold
  /\ Serve(Request("first_fit", bytes, alignment, 0),
           FirstFit(free, bytes, alignment))

AllocateBestFitLow(bytes, alignment) ==
  /\ MayHold
  /\ Serve(Request("best_fit_low", bytes, alignment, 0),
           BestFitLow(free, bytes, alignment))

AllocateBestFitHigh(bytes, alignment) ==
  /\ MayHold
  /\ Serve(Request("best_fit_high", bytes, alignment, 0),
           BestFitHigh(free, bytes, alignment))

AllocateHighest(bytes, alignment, lowest) ==
  /\ MayHold
  /\ Serve(Request("highest", bytes, alignment, lowest),
           HighestFit(free, bytes, alignment, lowest))

AllocateAt(offset, bytes) ==
  /\ MayHold
  /\ LET call == Request("at", bytes, 1, offset)
     IN  IF offset + bytes > Capacity
         THEN /\ Answer(call, Rejected, 0)
              /\ UNCHANGED <<free, held, allocated, peak, nodes>>
         ELSE Serve(call, FitAt(free, offset, bytes))

\* A neighbour that is merged gives its node back.
Returned(neighbour) == IF neighbour = {} THEN 0 ELSE 1

\* shadowspill_range_free takes its node before it coalesces: the neighbours
\* the extent merges with are returned afterwards.
Free(e) ==
  /\ LET call == Request("free", e.bytes, 1, e.offset)
     IN  IF nodes = 0
         THEN Answer(call, Rejected, 0) /\ UNCHANGED <<free, held, allocated, peak, nodes>>
         ELSE /\ free' = Give(free, e)
              /\ held' = held \ {e}
              /\ nodes' = nodes - 1 + Returned(Before(free, e)) + Returned(After(free, e))
              /\ allocated' = allocated - e.bytes
              /\ UNCHANGED peak
              /\ Answer(call, Ok, e.offset)

Next ==
  \/ \E bytes \in Sizes, alignment \in Alignments :
       \/ Allocate(bytes, alignment)
       \/ AllocateBestFitLow(bytes, alignment)
       \/ AllocateBestFitHigh(bytes, alignment)
       \/ \E lowest \in 0..Capacity : AllocateHighest(bytes, alignment, lowest)
  \/ \E bytes \in Sizes, offset \in 0..Capacity : AllocateAt(offset, bytes)
  \/ \E e \in held : Free(e)

Spec == Init /\ [][Next]_vars

-----------------------------------------------------------------------------
Call == [op : Policies \cup {"none", "free"}, bytes : Nat, alignment : Nat \ {0},
         lowest : Nat, status : {Ok, Exhausted, Rejected}, at : Nat]

(***************************************************************************)
(* Type invariant of the allocator's fields: no range is empty or reaches  *)
(* past the pool, and the unsigned counters neither pass their limits nor  *)
(* wrap below zero (allocate_from_range, shadowspill_range_free).          *)
(***************************************************************************)
TypeOK ==
  /\ free \subseteq Extent /\ held \subseteq Extent
  /\ \A e \in free \cup held : End(e) <= Capacity
  /\ nodes \in 0..NodeCapacity
  /\ peak \in 0..Capacity /\ allocated \in 0..peak
  /\ last \in Call

(***************************************************************************)
(* Every byte of the pool is either on the free list or in exactly one     *)
(* extent a caller holds: no policy hands out a byte twice, and no split   *)
(* or merge loses one.  (allocate_from_range and shadowspill_range_free.)  *)
(***************************************************************************)
BytesPartitioned ==
  /\ \A u \in 0..(Capacity - 1) :
       FreeUnit(free, u) <=> ~ \E e \in held : Covers(e, u)
  /\ \A e, d \in held : e # d => Disjoint(e, d)
  /\ \A e \in free \cup held : End(e) <= Capacity

(***************************************************************************)
(* Free neighbours are always merged, so the largest free range is as      *)
(* large as the held extents allow (the two merges of                      *)
(* shadowspill_range_free, after every policy's cuts).                     *)
(***************************************************************************)
FreeListCoalesced == Separated(free)

(***************************************************************************)
(* Refusals are real.  "Out of memory" is never said while the request     *)
(* fits: when an entry point returned 1, no aligned offset has all of its  *)
(* bytes free, which compares every policy's walk over the list with the   *)
(* definition of fitting, byte by byte.  And an arena of two nodes more    *)
(* than the extents held at once never runs out, although a free takes its *)
(* node before it merges: no call inside the pool's bounds is rejected.    *)
(* The release-frontier workspace is sized 2 * leases + 2                  *)
(* (reserve_lease_records).                                                *)
(***************************************************************************)
FitsAt(freeList, bytes, at) == \A u \in at..(at + bytes - 1) : FreeUnit(freeList, u)

Feasible(freeList, call) ==
  IF call.op = "at" THEN {at \in {call.lowest} : FitsAt(freeList, call.bytes, at)}
  ELSE {at \in 0..Capacity : /\ at % call.alignment = 0
                             /\ at >= call.lowest
                             /\ FitsAt(freeList, call.bytes, at)}

ExhaustionIsReal ==
  /\ last.status = Exhausted => Feasible(free, last) = {}
  /\ nodes = NodeCapacity - Cardinality(free)
  /\ NodeCapacity >= MaxHeld + 2 =>
       (last.status = Rejected => last.op = "at" /\ last.lowest + last.bytes > Capacity)
=============================================================================
