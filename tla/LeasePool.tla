------------------------------ MODULE LeasePool ------------------------------
(***************************************************************************)
(* One memory pool: its free list and the leases over its ranges           *)
(* (memory_pool/leases.c, memory_pool/causal.c).  Every operation runs     *)
(* under the pool's lock, so each one is a single action.                  *)
(*                                                                         *)
(* A lease is the record of one range.  Its charged bytes are "bytes"      *)
(* here, so that a lease that has a range is also an extent.  A successor  *)
(* is a lease that has been promised the whole range of a lease that is    *)
(* still retiring; it takes the range over when it is acquired behind the  *)
(* predecessor's completion event, or when the predecessor is released.    *)
(*                                                                         *)
(* Plan slices ("claims") are ranges taken straight from the pool by a     *)
(* fixed layout; the leases placed in them borrow their bytes.             *)
(*                                                                         *)
(* release_sequence is only ever compared between retiring leases, so the  *)
(* order of retirements is kept instead of the counter: earlier[l] is the  *)
(* set of the leases that were retiring when l began to.                   *)
(***************************************************************************)
EXTENDS Ranges, FiniteSets, FiniteSetsExt

CONSTANTS
  Leases,         \* lease records
  NoLease,        \* NULL
  Capacity,       \* bytes of the pool
  Sizes,          \* request sizes (charged bytes: a request of 0 is charged 1)
  Alignments,     \* effective alignments: at least the pool's minimum
  MaxClaims,      \* bound: plan slices at once
  EpochModulus    \* 2^64 in the code

ASSUME CapacityAssumption == Capacity \in Nat
ASSUME SizesAssumption == Sizes \subseteq Nat \ {0}
ASSUME AlignmentsAssumption == Alignments \subseteq Nat \ {0}
ASSUME NoLeaseAssumption == NoLease \notin Leases
ASSUME EpochAssumption == EpochModulus \in Nat \ {0, 1}

VARIABLES
  free,      \* pool->ranges.free_ranges
  lease,     \* the lease records
  claims,    \* ranges reserved by plan slices
  reserved,  \* pool->reserved_bytes
  earlier,   \* the order in which retirements began
  epoch      \* pool->capacity_epoch

vars == <<free, lease, claims, reserved, earlier, epoch>>

States == {"free", "in_use", "retire_pending", "reserved",
           "successor_reserved", "predecessor_transferred"}

LeaseRecord == [state : States, offset : Nat, bytes : Nat, owns : BOOLEAN,
                event : BOOLEAN, expected : BOOLEAN,
                pred : Leases \cup {NoLease}, succ : Leases \cup {NoLease}]

\* A record that holds nothing: what release and cancel leave behind.
Blank == [state |-> "free", offset |-> 0, bytes |-> 0, owns |-> FALSE,
          event |-> FALSE, expected |-> FALSE, pred |-> NoLease, succ |-> NoLease]

\* Members of pool->range_leases.
Listed(l) == lease[l].state \in {"in_use", "retire_pending", "reserved"}

\* The leases whose range is theirs to give back.
Owns(l) == Listed(l) /\ lease[l].owns

Borrowed(l) == Listed(l) /\ ~ lease[l].owns

NextEpoch == epoch' = (epoch + 1) % EpochModulus

-----------------------------------------------------------------------------
Init ==
  /\ free = IF Capacity = 0 THEN {} ELSE {[offset |-> 0, bytes |-> Capacity]}
  /\ lease = [l \in Leases |-> Blank]
  /\ claims = {}
  /\ reserved = 0
  /\ earlier = [l \in Leases |-> {}]
  /\ epoch = 0

(***************************************************************************)
(* Taking a range.                                                         *)
(***************************************************************************)
\* shadowspill_memory_pool_reserve_locked: the placement policies of the pool.
Place(placement, bytes, alignment) ==
  CASE placement = "first_fit" -> FirstFit(free, bytes, alignment)
    [] placement = "best_fit_low" -> BestFitLow(free, bytes, alignment)
    [] placement = "best_fit_high" -> BestFitHigh(free, bytes, alignment)

Placements == {"first_fit", "best_fit_low", "best_fit_high"}

\* adopt_lease_locked
Adopted(offset, bytes, owns) ==
  [Blank EXCEPT !.state = "in_use", !.offset = offset, !.bytes = bytes, !.owns = owns]

\* shadowspill_memory_pool_reserve_lease_locked
ReserveLease(l, bytes, alignment, placement) ==
  /\ lease[l].state = "free"
  /\ \E f \in Place(placement, bytes, alignment) :
       /\ free' = Carve(free, f.range, f.at, bytes)
       /\ lease' = [lease EXCEPT ![l] = Adopted(f.at, bytes, TRUE)]
  /\ UNCHANGED <<claims, reserved, earlier, epoch>>

\* shadowspill_fixed_layout_reserve_slice
ReserveSlice(bytes, alignment) ==
  /\ Cardinality(claims) < MaxClaims
  /\ \E f \in BestFitLow(free, bytes, alignment) :
       /\ free' = Carve(free, f.range, f.at, bytes)
       /\ claims' = claims \cup {[offset |-> f.at, bytes |-> bytes]}
  /\ UNCHANGED <<lease, reserved, earlier, epoch>>

\* shadowspill_memory_pool_reserve_at_locked, as a lent slice is taken back
ReserveSliceAt(offset, bytes) ==
  /\ Cardinality(claims) < MaxClaims
  /\ \E f \in FitAt(free, offset, bytes) :
       /\ free' = Carve(free, f.range, f.at, bytes)
       /\ claims' = claims \cup {[offset |-> f.at, bytes |-> bytes]}
  /\ UNCHANGED <<lease, reserved, earlier, epoch>>

\* A slice is cleared or lent only while no lease of the pool borrows.
ReleaseSlice(c) ==
  /\ \A l \in Leases : ~ Borrowed(l)
  /\ free' = Give(free, c)
  /\ claims' = claims \ {c}
  /\ NextEpoch
  /\ UNCHANGED <<lease, reserved, earlier>>

\* shadowspill_fixed_layout_adopt_execution_lease_locked
AdoptBorrowed(l, c, offset, bytes) ==
  /\ lease[l].state = "free"
  /\ Within([offset |-> offset, bytes |-> bytes], c)
  /\ lease' = [lease EXCEPT ![l] = Adopted(offset, bytes, FALSE)]
  /\ UNCHANGED <<free, claims, reserved, earlier, epoch>>

(***************************************************************************)
(* Retiring a range.                                                       *)
(***************************************************************************)
\* shadowspill_memory_pool_begin_retirement_locked; the dependency is an
\* event, the promise of one, or neither (several events are awaited).
BeginRetirement(l, event, expected) ==
  /\ lease[l].state = "in_use"
  /\ lease[l].succ = NoLease
  /\ ~ (event /\ expected)
  /\ lease' = [lease EXCEPT ![l].state = "retire_pending",
                            ![l].event = event, ![l].expected = expected]
  /\ earlier' = [m \in Leases |->
                   IF m = l THEN {k \in Leases \ {l} : lease[k].state = "retire_pending"}
                   ELSE earlier[m] \ {l}]
  /\ UNCHANGED <<free, claims, reserved, epoch>>

\* shadowspill_memory_pool_publish_retirement_dependency_locked
PublishDependency(l) ==
  /\ lease[l].state = "retire_pending"
  /\ ~ lease[l].event
  /\ lease[l].expected
  /\ lease' = [lease EXCEPT ![l].event = TRUE, ![l].expected = FALSE]
  /\ UNCHANGED <<free, claims, reserved, earlier, epoch>>

\* An aborted task withdraws its promise and awaits each use instead
\* (shadowspill_finalize_aborted_task_retirements).
WithdrawDependency(l) ==
  /\ lease[l].state = "retire_pending"
  /\ lease[l].expected
  /\ lease' = [lease EXCEPT ![l].expected = FALSE]
  /\ UNCHANGED <<free, claims, reserved, earlier, epoch>>

\* shadowspill_memory_pool_cancel_retirement_locked, and the reuse of a
\* whole retiring range by the next request on its stream
CancelRetirement(l) ==
  /\ lease[l].state = "retire_pending"
  /\ lease[l].succ = NoLease
  /\ lease' = [lease EXCEPT ![l].state = "in_use", ![l].event = FALSE,
                            ![l].expected = FALSE]
  /\ UNCHANGED <<free, claims, reserved, earlier, epoch>>

\* Mutants of SplitRetiring: the retiring lease keeps its whole range; a range
\* already promised to a successor is split.
SplitKeepsWhole(l, s, bytes) ==
  /\ lease[l].state = "retire_pending"
  /\ lease[l].owns
  /\ lease[l].succ = NoLease
  /\ lease[l].bytes > bytes
  /\ lease[s].state = "free"
  /\ lease' = [lease EXCEPT ![s] = Adopted(lease[l].offset, bytes, TRUE)]
  /\ UNCHANGED <<free, claims, reserved, earlier, epoch>>

SplitPromised(l, s, bytes) ==
  /\ lease[l].state = "retire_pending"
  /\ lease[l].owns
  /\ lease[l].bytes > bytes
  /\ lease[s].state = "free"
  /\ lease' = [lease EXCEPT ![s] = Adopted(lease[l].offset, bytes, TRUE),
                            ![l].offset = lease[l].offset + bytes,
                            ![l].bytes = lease[l].bytes - bytes]
  /\ UNCHANGED <<free, claims, reserved, earlier, epoch>>

\* A smaller request on the same stream takes the front of a retiring range;
\* the rest stays with the retiring lease.
SplitRetiring(l, s, bytes) ==
  /\ lease[l].state = "retire_pending"
  /\ lease[l].owns
  /\ lease[l].succ = NoLease
  /\ lease[l].bytes > bytes
  /\ lease[s].state = "free"
  /\ lease' = [lease EXCEPT ![s] = Adopted(lease[l].offset, bytes, TRUE),
                            ![l].offset = lease[l].offset + bytes,
                            ![l].bytes = lease[l].bytes - bytes]
  /\ UNCHANGED <<free, claims, reserved, earlier, epoch>>

(***************************************************************************)
(* Promising a retiring range to a successor.                              *)
(***************************************************************************)
\* The retiring leases a successor may be promised.
Candidate(p, bytes, alignment) ==
  /\ lease[p].state = "retire_pending"
  /\ lease[p].owns
  /\ lease[p].event \/ lease[p].expected
  /\ lease[p].succ = NoLease
  /\ lease[p].bytes >= bytes
  /\ lease[p].offset % alignment = 0

\* causal_candidate_precedes: published first, then the smallest range, then
\* the oldest retirement.
Precedes(p, q) ==
  \/ lease[p].event /\ ~ lease[q].event
  \/ /\ lease[p].event = lease[q].event
     /\ \/ lease[p].bytes < lease[q].bytes
        \/ lease[p].bytes = lease[q].bytes /\ p \in earlier[q]

Selected(p, bytes, alignment) ==
  /\ Candidate(p, bytes, alignment)
  /\ \A q \in Leases \ {p} : Candidate(q, bytes, alignment) => Precedes(p, q)

\* shadowspill_memory_pool_reserve_causal_successor_locked
ReserveSuccessor(s, p, bytes, alignment) ==
  /\ lease[s].state = "free"
  /\ Selected(p, bytes, alignment)
  /\ lease' = [lease EXCEPT
       ![s] = [Blank EXCEPT !.state = "successor_reserved",
                            !.offset = lease[p].offset, !.bytes = lease[p].bytes,
                            !.owns = TRUE, !.pred = p],
       ![p].succ = s]
  /\ reserved' = reserved + lease[p].bytes
  /\ UNCHANGED <<free, claims, earlier, epoch>>

\* shadowspill_memory_pool_mark_reserved_locked
MarkReserved(l) ==
  /\ lease[l].state = "in_use"
  /\ lease' = [lease EXCEPT ![l].state = "reserved"]
  /\ reserved' = reserved + lease[l].bytes
  /\ UNCHANGED <<free, claims, earlier, epoch>>

\* What shadowspill_pool_handoff_causal_range_locked makes of the
\* predecessor: a detached record without a range.
Transferred(p) ==
  [lease[p] EXCEPT !.state = "predecessor_transferred", !.owns = FALSE,
                   !.event = FALSE, !.expected = FALSE, !.succ = NoLease]

\* shadowspill_memory_pool_acquire_reserved_lease_locked on a plain
\* reservation
AcquireReserved(l) ==
  /\ lease[l].state = "reserved"
  /\ reserved >= lease[l].bytes
  /\ reserved' = reserved - lease[l].bytes
  /\ lease' = [lease EXCEPT ![l].state = "in_use"]
  /\ UNCHANGED <<free, claims, earlier, epoch>>

\* ... and on a successor: only behind a published dependency, which the
\* caller makes its stream wait for.
AcquireSuccessor(s) ==
  /\ lease[s].state = "successor_reserved"
  /\ LET p == lease[s].pred
     IN  /\ lease[p].event
         /\ reserved >= lease[s].bytes
         /\ lease' = [lease EXCEPT ![p] = Transferred(p),
                                   ![s].state = "in_use", ![s].pred = NoLease]
         /\ reserved' = reserved - lease[s].bytes
  /\ NextEpoch
  /\ UNCHANGED <<free, claims, earlier>>

\* shadowspill_memory_pool_cancel_reservation_locked on a successor
CancelSuccessor(s) ==
  /\ lease[s].state = "successor_reserved"
  /\ reserved >= lease[s].bytes
  /\ lease' = [lease EXCEPT ![lease[s].pred].succ = NoLease, ![s] = Blank]
  /\ reserved' = reserved - lease[s].bytes
  /\ UNCHANGED <<free, claims, earlier, epoch>>

(***************************************************************************)
(* shadowspill_memory_pool_release_lease_locked.                           *)
(***************************************************************************)
\* The detached predecessor of an acquired successor.
ReleaseTransferred(l) ==
  /\ lease[l].state = "predecessor_transferred"
  /\ lease' = [lease EXCEPT ![l] = Blank]
  /\ UNCHANGED <<free, claims, reserved, earlier, epoch>>

\* A lease with a successor hands the range over instead of freeing it.
ReleaseToSuccessor(l) ==
  /\ Listed(l)
  /\ lease[l].succ # NoLease
  /\ lease' = [lease EXCEPT ![l] = Blank,
                            ![lease[l].succ].state = "reserved",
                            ![lease[l].succ].pred = NoLease]
  /\ NextEpoch
  /\ UNCHANGED <<free, claims, reserved, earlier>>

\* Mutant of ReleaseLease: a promised range is freed.
ReleasePromised(l) ==
  /\ Owns(l)
  /\ lease[l].state = "retire_pending"
  /\ free' = Give(free, [offset |-> lease[l].offset, bytes |-> lease[l].bytes])
  /\ NextEpoch
  /\ lease' = [lease EXCEPT ![l] = Blank]
  /\ UNCHANGED <<claims, earlier, reserved>>

ReleaseLease(l) ==
  /\ Listed(l)
  /\ lease[l].succ = NoLease
  /\ lease[l].state = "reserved" => reserved >= lease[l].bytes
  /\ reserved' = IF lease[l].state = "reserved" THEN reserved - lease[l].bytes
                 ELSE reserved
  /\ IF lease[l].owns
     THEN free' = Give(free, [offset |-> lease[l].offset, bytes |-> lease[l].bytes])
          /\ NextEpoch
     ELSE UNCHANGED <<free, epoch>>
  /\ lease' = [lease EXCEPT ![l] = Blank]
  /\ UNCHANGED <<claims, earlier>>

-----------------------------------------------------------------------------
Take ==
  \E bytes \in Sizes, alignment \in Alignments :
    \/ \E l \in Leases, placement \in Placements :
         ReserveLease(l, bytes, alignment, placement)
    \/ ReserveSlice(bytes, alignment)
    \/ \E s, p \in Leases : ReserveSuccessor(s, p, bytes, alignment)

Borrow ==
  \/ \E bytes \in Sizes, offset \in 0..Capacity :
       \/ ReserveSliceAt(offset, bytes)
       \/ \E l \in Leases, c \in claims : AdoptBorrowed(l, c, offset, bytes)
  \/ \E c \in claims : ReleaseSlice(c)

Retire ==
  \E l \in Leases :
    \/ \E event, expected \in BOOLEAN : BeginRetirement(l, event, expected)
    \/ PublishDependency(l)
    \/ WithdrawDependency(l)
    \/ CancelRetirement(l)
    \/ \E s \in Leases, bytes \in Sizes : SplitRetiring(l, s, bytes)

Settle ==
  \E l \in Leases :
    \/ MarkReserved(l)
    \/ AcquireReserved(l)
    \/ AcquireSuccessor(l)
    \/ CancelSuccessor(l)
    \/ ReleaseTransferred(l)
    \/ ReleaseToSuccessor(l)
    \/ ReleaseLease(l)

Next == Take \/ Borrow \/ Retire \/ Settle

Spec == Init /\ [][Next]_vars

-----------------------------------------------------------------------------
(***************************************************************************)
(* Type invariant of the pool's fields.                                    *)
(***************************************************************************)
TypeOK ==
  /\ free \subseteq Extent
  /\ lease \in [Leases -> LeaseRecord]
  /\ claims \subseteq Extent
  /\ reserved \in Int
  /\ earlier \in [Leases -> SUBSET Leases]
  /\ epoch \in 0..(EpochModulus - 1)

(***************************************************************************)
(* Every byte of the pool has exactly one owner: the free list, a plan     *)
(* slice, or one lease that owns its range.  A promise to a successor does *)
(* not make it an owner; a handoff moves ownership without a moment in     *)
(* which the range has two owners or none.  A borrowed lease lies in a     *)
(* slice that is still reserved: no sequence of reserve, lend, take back   *)
(* and clear leaves it over bytes the pool may hand to somebody else.      *)
(***************************************************************************)
HeldBy(u) == {l \in Leases : Owns(l) /\ Covers(lease[l], u)}
ClaimedBy(u) == {c \in claims : Covers(c, u)}

OneOwnerPerByte ==
  /\ \A u \in 0..(Capacity - 1) :
       FreeUnit(free, u) <=> HeldBy(u) = {} /\ ClaimedBy(u) = {}
  /\ \A l, m \in Leases : Owns(l) /\ Owns(m) /\ l # m => Disjoint(lease[l], lease[m])
  /\ \A c, d \in claims : c # d => Disjoint(c, d)
  /\ \A l \in Leases, c \in claims : Owns(l) => Disjoint(lease[l], c)
  /\ \A r \in free \cup claims : End(r) <= Capacity
  /\ \A l \in Leases : Owns(l) => lease[l].bytes > 0 /\ End(lease[l]) <= Capacity
  /\ \A l \in Leases : Borrowed(l) => \E c \in claims : Within(lease[l], c)

(***************************************************************************)
(* Promises are exclusive and exact: a successor's predecessor is a        *)
(* retiring lease that owns exactly the range the successor was promised,  *)
(* that knows of this successor and of no other, and that is no successor  *)
(* itself (reserve_causal_successor, cancel_reservation, handoff).         *)
(***************************************************************************)
PromisesExact ==
  \A s, p \in Leases :
    /\ lease[p].succ = s <=> lease[s].state = "successor_reserved" /\ lease[s].pred = p
    /\ lease[p].succ = s => /\ lease[p].state = "retire_pending"
                            /\ lease[p].owns
                            /\ lease[p].pred = NoLease
                            /\ lease[s].offset = lease[p].offset
                            /\ lease[s].bytes = lease[p].bytes
                            /\ lease[s].owns /\ lease[s].succ = NoLease

(***************************************************************************)
(* A promised range never passes through the free list: while a successor  *)
(* waits for it, its bytes cannot be taken by another request.             *)
(***************************************************************************)
PromisedNeverFreed ==
  [][\A s \in Leases :
       lease[s].state = "successor_reserved" =>
         ~ \E r \in free' : ~ Disjoint(r, lease[s])]_vars
=============================================================================
