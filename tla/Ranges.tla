------------------------------- MODULE Ranges -------------------------------
(***************************************************************************)
(* The free list of one memory pool, as the pure operators of ranges.c     *)
(* compute it.                                                             *)
(*                                                                         *)
(* The code keeps a singly linked list of free ranges sorted by offset.    *)
(* Offsets in the list are distinct, so the list is modelled by the set of *)
(* its ranges; "the next node" of a range is the one that starts at or     *)
(* after its end.  An extent is a nonempty interval of pool bytes, and the *)
(* model's unit of memory is one byte.                                     *)
(*                                                                         *)
(* Unsigned overflow: align_up refuses a range whose aligned start would   *)
(* pass UINT64_MAX.  Such a start lies behind the end of the range, so the *)
(* fit test below refuses the same ranges with unbounded integers.         *)
(***************************************************************************)
EXTENDS Integers

Extent == [offset : Nat, bytes : Nat \ {0}]

End(r) == r.offset + r.bytes

Covers(r, u) == r.offset <= u /\ u < End(r)

Disjoint(r, s) == End(r) <= s.offset \/ End(s) <= r.offset

\* e lies inside r.
Within(e, r) == r.offset <= e.offset /\ End(e) <= End(r)

\* Byte u is on the free list.
FreeUnit(free, u) == \E r \in free : Covers(r, u)

\* Two free ranges never overlap and never touch: the list is coalesced.
Separated(free) ==
  \A r, s \in free : r # s => End(r) < s.offset \/ End(s) < r.offset

-----------------------------------------------------------------------------
AlignUp(v, a) == IF v % a = 0 THEN v ELSE v + (a - (v % a))

AlignDown(v, a) == v - (v % a)

(***************************************************************************)
(* The places a policy considers: every free range the request fits in,    *)
(* with the aligned offset it would get there.  The low policies align the *)
(* start of the range up, the high ones the last possible start down.      *)
(***************************************************************************)
\* Mutant of LowFits: a range the request fills to its last byte is passed over.
LowFitsOffByOne(free, bytes, alignment) ==
  {f \in {[range |-> r, at |-> AlignUp(r.offset, alignment)] : r \in free} :
     f.range.offset <= f.at /\ f.at + bytes < End(f.range)}

LowFits(free, bytes, alignment) ==
  {f \in {[range |-> r, at |-> AlignUp(r.offset, alignment)] : r \in free} :
     f.range.offset <= f.at /\ f.at + bytes <= End(f.range)}

HighFits(free, bytes, alignment, lowest) ==
  {f \in {[range |-> r, at |-> AlignDown(End(r) - bytes, alignment)] :
            r \in {s \in free : bytes <= s.bytes}} :
     f.range.offset <= f.at /\ lowest <= f.at}

\* The smallest free range, the one nearer to the pool's start on a tie.
SmallestLow(fits) ==
  {f \in fits : \A g \in fits :
     \/ f.range.bytes < g.range.bytes
     \/ f.range.bytes = g.range.bytes /\ f.at <= g.at}

SmallestHigh(fits) ==
  {f \in fits : \A g \in fits :
     \/ f.range.bytes < g.range.bytes
     \/ f.range.bytes = g.range.bytes /\ g.at <= f.at}

(***************************************************************************)
(* What each allocation entry point selects: a set with one fit in it, or  *)
(* the empty set when the code returns 1 (out of memory).                  *)
(***************************************************************************)
FirstFit(free, bytes, alignment) ==
  LET fits == LowFits(free, bytes, alignment)
  IN  {f \in fits : \A g \in fits : f.range.offset <= g.range.offset}

BestFitLow(free, bytes, alignment) ==
  SmallestLow(LowFits(free, bytes, alignment))

BestFitHigh(free, bytes, alignment) ==
  SmallestHigh(HighFits(free, bytes, alignment, 0))

HighestFit(free, bytes, alignment, lowest) ==
  LET fits == HighFits(free, bytes, alignment, lowest)
  IN  {f \in fits : \A g \in fits : g.at <= f.at}

FitAt(free, offset, bytes) ==
  {f \in {[range |-> r, at |-> offset] : r \in free} :
     f.range.offset <= offset /\ offset + bytes <= End(f.range)}

-----------------------------------------------------------------------------
\* Mutants of Carve: the remainder in front is lost; an empty remainder stays.
CarveDropsFront(free, r, at, bytes) ==
  (free \ {r}) \cup
    {e \in {[offset |-> at + bytes, bytes |-> End(r) - (at + bytes)]} : e.bytes > 0}

CarveKeepsEmpty(free, r, at, bytes) ==
  (free \ {r}) \cup {[offset |-> r.offset, bytes |-> at - r.offset],
                     [offset |-> at + bytes, bytes |-> End(r) - (at + bytes)]}

(***************************************************************************)
(* allocate_from_range cuts bytes out of the selected range: what is left  *)
(* in front and behind stays free.                                         *)
(***************************************************************************)
Carve(free, r, at, bytes) ==
  (free \ {r}) \cup
    {e \in {[offset |-> r.offset, bytes |-> at - r.offset],
            [offset |-> at + bytes, bytes |-> End(r) - (at + bytes)]} :
       e.bytes > 0}

\* Cutting from the middle of a range needs one more list node.
Splits(f, bytes) == f.range.offset # f.at /\ f.at + bytes # End(f.range)

\* Mutant of Before: the freed extent is not merged with the range in front.
BeforeIgnored(free, e) == {}

(***************************************************************************)
(* shadowspill_range_free inserts the extent and coalesces it with the     *)
(* free range behind it and with the one in front of it.                   *)
(***************************************************************************)
Before(free, e) == {r \in free : End(r) = e.offset}
After(free, e) == {r \in free : r.offset = End(e)}

Merged(free, e) ==
  LET lo == IF Before(free, e) = {} THEN e.offset
            ELSE (CHOOSE r \in Before(free, e) : TRUE).offset
      hi == IF After(free, e) = {} THEN End(e)
            ELSE End(CHOOSE r \in After(free, e) : TRUE)
  IN  [offset |-> lo, bytes |-> hi - lo]

Give(free, e) ==
  (free \ (Before(free, e) \cup After(free, e))) \cup {Merged(free, e)}
=============================================================================
