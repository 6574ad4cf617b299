------------------------------ MODULE Placement ------------------------------
(***************************************************************************)
(* Fixed-offset placement as pure operators: place_lifetimes of the        *)
(* readable placement (reference/python/admission/placement.py) and the    *)
(* resident slice behind it (build.py).  A lifetime is a record [bytes,    *)
(* from, to]; it is live from its start up to its end.                     *)
(***************************************************************************)
EXTENDS Integers, FiniteSets, FiniteSetsExt, Sequences, SequencesExt, Collections

\* Tuples of the given length in the order Python sorts them.
Lex(x, y, length) ==
  \E n \in 1..length : x[n] < y[n] /\ \A m \in 1..(n - 1) : x[m] = y[m]

Aligned(n, align) == ((n + align - 1) \div align) * align

Coincide(l, m) == l.from < m.to /\ m.from < l.to

-----------------------------------------------------------------------------
\* Mutant of Pass: a gap is judged before the offset is aligned.
UnalignedGap(bytes_, align, c, x) ==
  IF c.stop \/ x[2] <= c.at THEN c
  ELSE IF c.at + bytes_ <= x[1] THEN [c EXCEPT !.stop = TRUE]
  ELSE [c EXCEPT !.at = x[2]]

\* The scan of the occupied extents: one that ends in front of the cursor is skipped,
\* one behind a gap that is wide enough stops it, any other is passed.
Pass(bytes_, align, c, x) ==
  IF c.stop \/ x[2] <= c.at THEN c
  ELSE IF Aligned(c.at, align) + bytes_ <= x[1] THEN [c EXCEPT !.stop = TRUE]
  ELSE [c EXCEPT !.at = x[2]]

\* The lowest aligned offset at which bytes_ fit between the occupied extents.
LowestFit(bytes_, align, occupied) ==
  Aligned(FoldLeft(LAMBDA c, x : Pass(bytes_, align, c, x), [at |-> 0, stop |-> FALSE],
                   Arranged(occupied, {p \in occupied \X occupied : Lex(p[1], p[2], 2)})).at,
          align)

\* Largest first, longest first among equals, then earliest, then by number.
Key(life, ids, l) ==
  LET points == {life[k].from : k \in ids} \cup {life[k].to : k \in ids}
  IN  <<-life[l].bytes,
        -Cardinality({x \in points : life[l].from <= x /\ x < life[l].to}),
        life[l].from, l>>
PlacementOrder(life, ids) ==
  Arranged(ids, {p \in ids \X ids : Lex(Key(life, ids, p[1]), Key(life, ids, p[2]), 4)})

\* What the lifetimes placed so far that meet l in time occupy.
Occupied(life, at, l) ==
  {<<at[k], at[k] + life[k].bytes>> : k \in {j \in DOMAIN at : Coincide(life[l], life[j])}}

Placed(at, l, offset) == [k \in DOMAIN at \cup {l} |-> IF k = l THEN offset ELSE at[k]]

PlaceLifetimes(life, ids, align) ==
  FoldLeft(LAMBDA at, l : Placed(at, l, LowestFit(life[l].bytes, align, Occupied(life, at, l))),
           <<>>, PlacementOrder(life, ids))

-----------------------------------------------------------------------------
\* The bytes a placement needs.
Required(life, at) == Max({0} \cup {at[k] + life[k].bytes : k \in DOMAIN at})

\* The resident slice follows the main assignment, in lease order.
PlaceResident(life, ids, align, main) ==
  FoldLeft(LAMBDA at, l : Placed(at, l, Aligned(Required(life, at), align)),
           main, Ascending(ids))
=============================================================================
