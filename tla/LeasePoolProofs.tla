--------------------------- MODULE LeasePoolProofs --------------------------
(***************************************************************************)
(* For every capacity, set of leases, sizes and alignments, and for any    *)
(* sequence of operations of any length: every byte of the pool has one    *)
(* owner, both ends of a promise agree, and a promised range never passes  *)
(* through the free list.                                                  *)
(*                                                                         *)
(* The inductive invariant adds to the two invariants of the pool that the *)
(* free list is coalesced (a release merges one range on each side) and    *)
(* that only a waiting successor names a predecessor.  Ownership and       *)
(* promises need each other: acquiring a successor moves the range of its  *)
(* predecessor, which is the range of the successor only because promises  *)
(* are exact.                                                              *)
(***************************************************************************)
EXTENDS LeasePool, OperatorLemmas

\* Only a successor that waits for its range names a predecessor.
PredecessorsNamed ==
  \A l \in Leases : lease[l].pred \in Leases <=> lease[l].state = "successor_reserved"

IInv == /\ TypeOK
        /\ Separated(free)
        /\ OneOwnerPerByte
        /\ PromisesExact
        /\ PredecessorsNamed

\* The initial pool is one free range and no lease has anything.
LEMMA InitEstablishes == Init => IInv
<1> SUFFICES ASSUME Init PROVE IInv
  OBVIOUS
<1> USE CapacityAssumption, EpochAssumption, NoLeaseAssumption DEF Init
<1>1. TypeOK
  BY DEF TypeOK, Extent, LeaseRecord, Blank, States
<1>2. Separated(free)
  BY DEF Separated
<1>3. \A l \in Leases : lease[l] = Blank /\ ~ Listed(l) /\ ~ Owns(l) /\ ~ Borrowed(l)
  BY DEF Blank, Listed, Owns, Borrowed
<1>4. OneOwnerPerByte
  <2>1. \A u : HeldBy(u) = {} /\ ClaimedBy(u) = {}
    BY <1>3 DEF HeldBy, ClaimedBy
  <2>2. CASE Capacity = 0
    BY <2>1, <2>2, <1>3 DEF OneOwnerPerByte, FreeUnit
  <2>3. CASE Capacity # 0
    <3>1. free = {[offset |-> 0, bytes |-> Capacity]}
      BY <2>3
    <3>2. End([offset |-> 0, bytes |-> Capacity]) = Capacity
      BY DEF End
    <3>3. \A u \in 0..(Capacity - 1) : FreeUnit(free, u)
      BY <3>1, <3>2 DEF FreeUnit, Covers
    <3> QED BY <3>1, <3>2, <3>3, <2>1, <1>3 DEF OneOwnerPerByte
  <2> QED BY <2>2, <2>3
<1>5. PromisesExact
  BY <1>3 DEF PromisesExact, Blank
<1>6. PredecessorsNamed
  BY <1>3 DEF PredecessorsNamed, Blank
<1> QED BY <1>1, <1>2, <1>4, <1>5, <1>6 DEF IInv

-----------------------------------------------------------------------------
(***************************************************************************)
(* Facts about one state.                                                  *)
(***************************************************************************)
\* The fields of a record have their types.
LEMMA LeaseFields ==
  ASSUME TypeOK, NEW l \in Leases
  PROVE  /\ lease[l] \in LeaseRecord
         /\ lease[l].state \in States
         /\ lease[l].offset \in Nat /\ lease[l].bytes \in Nat
         /\ End(lease[l]) \in Nat
         /\ lease[l].owns \in BOOLEAN /\ lease[l].event \in BOOLEAN
         /\ lease[l].expected \in BOOLEAN
         /\ lease[l].pred \in Leases \cup {NoLease}
         /\ lease[l].succ \in Leases \cup {NoLease}
BY DEF TypeOK, LeaseRecord, End

\* A lease that is not retiring has no successor.
LEMMA FreeUnpromised ==
  ASSUME IInv, NEW l \in Leases, lease[l].state # "retire_pending"
  PROVE  lease[l].succ = NoLease
<1>1. lease[l].succ \in Leases \cup {NoLease}
  BY LeaseFields DEF IInv
<1> QED BY <1>1 DEF IInv, PromisesExact

\* Two extents of the pool that share no byte are disjoint.
LEMMA NoCommonByte ==
  ASSUME NEW a, NEW b,
         a.offset \in Nat, End(a) \in Nat, a.offset < End(a), End(a) <= Capacity,
         b.offset \in Nat, End(b) \in Nat, b.offset < End(b),
         \A u \in 0..(Capacity - 1) : ~ (Covers(a, u) /\ Covers(b, u))
  PROVE  Disjoint(a, b) /\ Disjoint(b, a)
<1> USE CapacityAssumption
<1>1. SUFFICES ASSUME b.offset < End(a), a.offset < End(b) PROVE FALSE
  BY DEF Disjoint
<1>2. CASE b.offset <= a.offset
  <2>1. a.offset \in 0..(Capacity - 1) /\ Covers(a, a.offset) /\ Covers(b, a.offset)
    BY <1>1, <1>2 DEF Covers
  <2> QED BY <2>1
<1>3. CASE a.offset < b.offset
  <2>1. b.offset \in 0..(Capacity - 1) /\ Covers(a, b.offset) /\ Covers(b, b.offset)
    BY <1>1, <1>3 DEF Covers
  <2> QED BY <2>1
<1> QED BY <1>2, <1>3

\* What an owning lease holds is a nonempty extent inside the pool that no
\* free range overlaps.
LEMMA OwnedAvoidsFree ==
  ASSUME IInv, NEW l \in Leases, Owns(l)
  PROVE  /\ Piece(lease[l].offset, lease[l].bytes) \in Extent
         /\ lease[l].offset < End(lease[l]) /\ End(lease[l]) <= Capacity
         /\ \A r \in free : Disjoint(r, lease[l]) /\ Disjoint(lease[l], r)
<1>1. /\ lease[l].offset \in Nat /\ lease[l].bytes \in Nat /\ End(lease[l]) \in Nat
  BY LeaseFields DEF IInv
<1>2. lease[l].bytes > 0 /\ End(lease[l]) <= Capacity
  BY DEF IInv, OneOwnerPerByte
<1>3. lease[l].offset < End(lease[l])
  BY <1>1, <1>2 DEF End
<1>4. Piece(lease[l].offset, lease[l].bytes) \in Extent
  BY <1>1, <1>2 DEF Piece, Extent
<1>5. ASSUME NEW r \in free PROVE Disjoint(lease[l], r) /\ Disjoint(r, lease[l])
  <2>1. r.offset \in Nat /\ End(r) \in Nat /\ r.offset < End(r)
    BY EndOfExtent DEF IInv, TypeOK
  <2>2. \A u \in 0..(Capacity - 1) : ~ (Covers(lease[l], u) /\ Covers(r, u))
    BY DEF IInv, OneOwnerPerByte, FreeUnit, HeldBy
  <2> QED BY <1>1, <1>2, <1>3, <2>1, <2>2, NoCommonByte
<1> QED BY <1>2, <1>3, <1>4, <1>5

\* The same for a plan slice.
LEMMA ClaimAvoidsFree ==
  ASSUME IInv, NEW c \in claims
  PROVE  /\ c \in Extent /\ End(c) <= Capacity
         /\ \A r \in free : Disjoint(r, c) /\ Disjoint(c, r)
<1>1. /\ c \in Extent /\ c.offset \in Nat /\ End(c) \in Nat /\ c.offset < End(c)
      /\ End(c) <= Capacity
  BY EndOfExtent DEF IInv, TypeOK, OneOwnerPerByte
<1>2. ASSUME NEW r \in free PROVE Disjoint(c, r) /\ Disjoint(r, c)
  <2>1. r.offset \in Nat /\ End(r) \in Nat /\ r.offset < End(r)
    BY EndOfExtent DEF IInv, TypeOK
  <2>2. \A u \in 0..(Capacity - 1) : ~ (Covers(c, u) /\ Covers(r, u))
    BY DEF IInv, OneOwnerPerByte, FreeUnit, ClaimedBy
  <2> QED BY <1>1, <2>1, <2>2, NoCommonByte
<1> QED BY <1>1, <1>2

-----------------------------------------------------------------------------
(***************************************************************************)
(* What a change of holdings does to ownership.  Each lemma describes the  *)
(* step by the holdings alone, so that several actions share it.           *)
(***************************************************************************)
\* Lease l has the same holding after the step.
Kept(l) ==
  /\ Listed(l)' <=> Listed(l)
  /\ Listed(l) => /\ lease'[l].offset = lease[l].offset
                  /\ lease'[l].bytes = lease[l].bytes
                  /\ lease'[l].owns = lease[l].owns

\* A lease that kept its holding covers the same bytes in the same role.
LEMMA KeptHolding ==
  ASSUME NEW l \in Leases, Kept(l)
  PROVE  /\ Owns(l)' <=> Owns(l)
         /\ Borrowed(l)' <=> Borrowed(l)
         /\ Listed(l) => /\ End(lease'[l]) = End(lease[l])
                         /\ \A u : Covers(lease'[l], u) <=> Covers(lease[l], u)
                         /\ \A c : Within(lease'[l], c) <=> Within(lease[l], c)
                         /\ \A c : Disjoint(lease'[l], c) <=> Disjoint(lease[l], c)
                         /\ \A c : Disjoint(c, lease'[l]) <=> Disjoint(c, lease[l])
BY DEF Kept, Owns, Borrowed, Listed, End, Covers, Within, Disjoint

\* A step that moves no range keeps every byte with its owner.
LEMMA SameHoldings ==
  ASSUME IInv, UNCHANGED <<free, claims>>, \A l \in Leases : Kept(l)
  PROVE  OneOwnerPerByte'
<1>1. \A l \in Leases :
        /\ Owns(l)' <=> Owns(l)
        /\ Borrowed(l)' <=> Borrowed(l)
        /\ Listed(l) => /\ End(lease'[l]) = End(lease[l])
                        /\ lease'[l].bytes = lease[l].bytes
                        /\ \A u : Covers(lease'[l], u) <=> Covers(lease[l], u)
                        /\ \A c : Within(lease'[l], c) <=> Within(lease[l], c)
                        /\ \A c : Disjoint(lease'[l], c) <=> Disjoint(lease[l], c)
                        /\ \A c : Disjoint(c, lease'[l]) <=> Disjoint(c, lease[l])
  BY KeptHolding DEF Kept
<1>2. \A l \in Leases : (Owns(l) => Listed(l)) /\ (Borrowed(l) => Listed(l))
  BY DEF Owns, Borrowed
<1>3. \A u : HeldBy(u)' = HeldBy(u) /\ ClaimedBy(u)' = ClaimedBy(u)
  BY <1>1, <1>2 DEF HeldBy, ClaimedBy
<1>4. \A u \in 0..(Capacity - 1) :
        FreeUnit(free', u) <=> HeldBy(u)' = {} /\ ClaimedBy(u)' = {}
  BY <1>3 DEF IInv, OneOwnerPerByte
<1>5. \A l, m \in Leases : Owns(l)' /\ Owns(m)' /\ l # m => Disjoint(lease'[l], lease'[m])
  BY <1>1, <1>2 DEF IInv, OneOwnerPerByte
<1>6. \A l \in Leases, c \in claims' : Owns(l)' => Disjoint(lease'[l], c)
  BY <1>1, <1>2 DEF IInv, OneOwnerPerByte
<1>7. \A l \in Leases : Owns(l)' => lease'[l].bytes > 0 /\ End(lease'[l]) <= Capacity
  BY <1>1, <1>2 DEF IInv, OneOwnerPerByte
<1>8. \A l \in Leases : Borrowed(l)' => \E c \in claims' : Within(lease'[l], c)
  BY <1>1, <1>2 DEF IInv, OneOwnerPerByte
<1>9. /\ \A c, d \in claims' : c # d => Disjoint(c, d)
      /\ \A r \in free' \cup claims' : End(r) <= Capacity
  BY DEF IInv, OneOwnerPerByte
<1> QED BY <1>4, <1>5, <1>6, <1>7, <1>8, <1>9 DEF OneOwnerPerByte

\* The range of p passes to s and nothing else moves (the handoff of a
\* promised range).
LEMMA HandOver ==
  ASSUME IInv, UNCHANGED <<free, claims>>,
         NEW p \in Leases, NEW s \in Leases, p # s,
         Owns(p), ~ Listed(s), ~ Listed(p)', Owns(s)',
         lease'[s].offset = lease[p].offset, lease'[s].bytes = lease[p].bytes,
         \A l \in Leases \ {p, s} : Kept(l)
  PROVE  OneOwnerPerByte'
<1>1. \A l \in Leases \ {p, s} :
        /\ Owns(l)' <=> Owns(l)
        /\ Borrowed(l)' <=> Borrowed(l)
        /\ Listed(l) => /\ End(lease'[l]) = End(lease[l])
                        /\ lease'[l].bytes = lease[l].bytes
                        /\ \A u : Covers(lease'[l], u) <=> Covers(lease[l], u)
                        /\ \A c : Within(lease'[l], c) <=> Within(lease[l], c)
                        /\ \A c : Disjoint(lease'[l], c) <=> Disjoint(lease[l], c)
                        /\ \A c : Disjoint(c, lease'[l]) <=> Disjoint(c, lease[l])
  BY KeptHolding DEF Kept
<1>2. /\ End(lease'[s]) = End(lease[p])
      /\ \A u : Covers(lease'[s], u) <=> Covers(lease[p], u)
      /\ \A c : Disjoint(lease'[s], c) <=> Disjoint(lease[p], c)
      /\ \A c : Disjoint(c, lease'[s]) <=> Disjoint(c, lease[p])
  BY DEF End, Covers, Disjoint
<1>3. /\ \A l \in Leases : (Owns(l) => Listed(l)) /\ (Borrowed(l) => Listed(l))
      /\ ~ Owns(p)' /\ ~ Borrowed(p)' /\ ~ Borrowed(s)' /\ ~ Owns(s) /\ ~ Borrowed(s)
  BY DEF Owns, Borrowed
<1>4. \A u : /\ HeldBy(u)' = {} <=> HeldBy(u) = {}
             /\ ClaimedBy(u)' = ClaimedBy(u)
  <2> SUFFICES ASSUME NEW u PROVE HeldBy(u)' = {} <=> HeldBy(u) = {}
    BY DEF ClaimedBy
  <2>1. ASSUME NEW l \in HeldBy(u) PROVE HeldBy(u)' # {}
    <3>1. CASE l = p
      BY <2>1, <3>1, <1>2 DEF HeldBy
    <3>2. CASE l # p
      BY <2>1, <3>2, <1>1, <1>3 DEF HeldBy
    <3> QED BY <3>1, <3>2
  <2>2. ASSUME NEW l \in HeldBy(u)' PROVE HeldBy(u) # {}
    <3>1. CASE l = s
      BY <2>2, <3>1, <1>2 DEF HeldBy
    <3>2. CASE l # s
      BY <2>2, <3>2, <1>1, <1>3 DEF HeldBy
    <3> QED BY <3>1, <3>2
  <2> QED BY <2>1, <2>2
<1>5. \A u \in 0..(Capacity - 1) :
        FreeUnit(free', u) <=> HeldBy(u)' = {} /\ ClaimedBy(u)' = {}
  BY <1>4 DEF IInv, OneOwnerPerByte
<1>6. \A l, m \in Leases : Owns(l)' /\ Owns(m)' /\ l # m => Disjoint(lease'[l], lease'[m])
  BY <1>1, <1>2, <1>3 DEF IInv, OneOwnerPerByte
<1>7. \A l \in Leases, c \in claims' : Owns(l)' => Disjoint(lease'[l], c)
  BY <1>1, <1>2, <1>3 DEF IInv, OneOwnerPerByte
<1>8. \A l \in Leases : Owns(l)' => lease'[l].bytes > 0 /\ End(lease'[l]) <= Capacity
  BY <1>1, <1>2, <1>3 DEF IInv, OneOwnerPerByte
<1>9. \A l \in Leases : Borrowed(l)' => \E c \in claims' : Within(lease'[l], c)
  BY <1>1, <1>3 DEF IInv, OneOwnerPerByte
<1>10. /\ \A c, d \in claims' : c # d => Disjoint(c, d)
       /\ \A r \in free' \cup claims' : End(r) <= Capacity
  BY DEF IInv, OneOwnerPerByte
<1> QED BY <1>5, <1>6, <1>7, <1>8, <1>9, <1>10 DEF OneOwnerPerByte

\* The range of l is cut in two: s gets the front, l keeps the rest.
LEMMA SplitHolding ==
  ASSUME IInv, UNCHANGED <<free, claims>>,
         NEW l \in Leases, NEW s \in Leases, l # s, NEW bytes \in Nat \ {0},
         Owns(l), ~ Listed(s), Owns(l)', Owns(s)', lease[l].bytes > bytes,
         lease'[s].offset = lease[l].offset, lease'[s].bytes = bytes,
         lease'[l].offset = lease[l].offset + bytes,
         lease'[l].bytes = lease[l].bytes - bytes,
         \A m \in Leases \ {l, s} : Kept(m)
  PROVE  OneOwnerPerByte'
<1>0. /\ lease[l].offset \in Nat /\ lease[l].bytes \in Nat
      /\ End(lease[l]) = lease[l].offset + lease[l].bytes
      /\ End(lease'[s]) = lease[l].offset + bytes
      /\ End(lease'[l]) = End(lease[l])
      /\ lease'[s].bytes > 0 /\ lease'[l].bytes > 0
  BY LeaseFields DEF IInv, End
<1>1. \A m \in Leases \ {l, s} :
        /\ Owns(m)' <=> Owns(m)
        /\ Borrowed(m)' <=> Borrowed(m)
        /\ Listed(m) => /\ End(lease'[m]) = End(lease[m])
                        /\ lease'[m].bytes = lease[m].bytes
                        /\ \A u : Covers(lease'[m], u) <=> Covers(lease[m], u)
                        /\ \A c : Within(lease'[m], c) <=> Within(lease[m], c)
                        /\ \A c : Disjoint(lease'[m], c) <=> Disjoint(lease[m], c)
                        /\ \A c : Disjoint(c, lease'[m]) <=> Disjoint(c, lease[m])
  BY KeptHolding DEF Kept
<1>2. \A u \in Int : Covers(lease[l], u) <=> Covers(lease'[l], u) \/ Covers(lease'[s], u)
  BY <1>0 DEF Covers
<1>3. ASSUME NEW c, c.offset \in Nat, End(c) \in Nat
      PROVE  /\ Disjoint(lease[l], c) => Disjoint(lease'[l], c) /\ Disjoint(lease'[s], c)
             /\ Disjoint(c, lease[l]) => Disjoint(c, lease'[l]) /\ Disjoint(c, lease'[s])
  BY <1>0, <1>3 DEF Disjoint
<1>4. Disjoint(lease'[l], lease'[s]) /\ Disjoint(lease'[s], lease'[l])
  BY <1>0 DEF Disjoint
<1>5. /\ \A m \in Leases : (Owns(m) => Listed(m)) /\ (Borrowed(m) => Listed(m))
      /\ ~ Borrowed(l)' /\ ~ Borrowed(s)' /\ ~ Owns(s)
      /\ \A m \in Leases : lease[m].offset \in Nat /\ End(lease[m]) \in Nat
      /\ \A c \in claims : c.offset \in Nat /\ End(c) \in Nat
  BY LeaseFields, EndOfExtent DEF Owns, Borrowed, IInv, TypeOK
<1>6. \A u \in Int : /\ HeldBy(u)' = {} <=> HeldBy(u) = {}
                     /\ ClaimedBy(u)' = ClaimedBy(u)
  <2> SUFFICES ASSUME NEW u \in Int PROVE HeldBy(u)' = {} <=> HeldBy(u) = {}
    BY DEF ClaimedBy
  <2>1. ASSUME NEW m \in HeldBy(u) PROVE HeldBy(u)' # {}
    <3>1. CASE m = l
      BY <2>1, <3>1, <1>2 DEF HeldBy
    <3>2. CASE m # l
      BY <2>1, <3>2, <1>1, <1>5 DEF HeldBy
    <3> QED BY <3>1, <3>2
  <2>2. ASSUME NEW m \in HeldBy(u)' PROVE HeldBy(u) # {}
    <3>1. CASE m \in {l, s}
      BY <2>2, <3>1, <1>2 DEF HeldBy
    <3>2. CASE m \notin {l, s}
      BY <2>2, <3>2, <1>1, <1>5 DEF HeldBy
    <3> QED BY <3>1, <3>2
  <2> QED BY <2>1, <2>2
<1>7. \A u \in 0..(Capacity - 1) :
        FreeUnit(free', u) <=> HeldBy(u)' = {} /\ ClaimedBy(u)' = {}
  BY <1>6, CapacityAssumption DEF IInv, OneOwnerPerByte
<1>8. \A m, k \in Leases : Owns(m)' /\ Owns(k)' /\ m # k => Disjoint(lease'[m], lease'[k])
  <2>1. \A m \in Leases \ {l, s} : Owns(m)' =>
          /\ Disjoint(lease'[m], lease'[l]) /\ Disjoint(lease'[l], lease'[m])
          /\ Disjoint(lease'[m], lease'[s]) /\ Disjoint(lease'[s], lease'[m])
    <3> SUFFICES ASSUME NEW m \in Leases \ {l, s}, Owns(m)'
                 PROVE  /\ Disjoint(lease'[m], lease'[l]) /\ Disjoint(lease'[l], lease'[m])
                        /\ Disjoint(lease'[m], lease'[s]) /\ Disjoint(lease'[s], lease'[m])
      OBVIOUS
    <3>1. Owns(m) /\ Listed(m) /\ Disjoint(lease[m], lease[l]) /\ Disjoint(lease[l], lease[m])
      BY <1>1, <1>5 DEF IInv, OneOwnerPerByte
    <3> QED BY <3>1, <1>1, <1>3, <1>5
  <2>2. \A m, k \in Leases \ {l, s} :
          Owns(m)' /\ Owns(k)' /\ m # k => Disjoint(lease'[m], lease'[k])
    BY <1>1, <1>5 DEF IInv, OneOwnerPerByte
  <2> QED BY <2>1, <2>2, <1>4
<1>9. \A m \in Leases, c \in claims' : Owns(m)' => Disjoint(lease'[m], c)
  BY <1>1, <1>3, <1>5 DEF IInv, OneOwnerPerByte
<1>10. \A m \in Leases : Owns(m)' => lease'[m].bytes > 0 /\ End(lease'[m]) <= Capacity
  <2>1. End(lease[l]) <= Capacity
    BY DEF IInv, OneOwnerPerByte
  <2>2. End(lease'[s]) <= Capacity /\ End(lease'[l]) <= Capacity
    BY <1>0, <2>1, CapacityAssumption
  <2>3. \A m \in Leases \ {l, s} :
          Owns(m)' => lease'[m].bytes > 0 /\ End(lease'[m]) <= Capacity
    BY <1>1, <1>5 DEF IInv, OneOwnerPerByte
  <2> QED BY <1>0, <2>2, <2>3
<1>11. \A m \in Leases : Borrowed(m)' => \E c \in claims' : Within(lease'[m], c)
  BY <1>1, <1>5 DEF IInv, OneOwnerPerByte
<1>12. /\ \A c, d \in claims' : c # d => Disjoint(c, d)
       /\ \A r \in free' \cup claims' : End(r) <= Capacity
  BY DEF IInv, OneOwnerPerByte
<1> QED BY <1>7, <1>8, <1>9, <1>10, <1>11, <1>12 DEF OneOwnerPerByte

\* What a cut for a request leaves free, and that the request overlaps no
\* owner (the first half of every reservation).
LEMMA CutFacts ==
  ASSUME IInv, NEW r \in free, NEW at \in Nat, NEW bytes \in Nat \ {0},
         r.offset <= at, at + bytes <= End(r),
         free' = Carve(free, r, at, bytes)
  PROVE  /\ free' \in SUBSET Extent /\ Separated(free')
         /\ \A u \in Int : FreeUnit(free', u)
              <=> FreeUnit(free, u) /\ ~ Covers(Piece(at, bytes), u)
         /\ \A x \in free' : End(x) <= Capacity
         /\ Piece(at, bytes) \in Extent /\ End(Piece(at, bytes)) <= Capacity
         /\ \A l \in Leases : Owns(l) => /\ Disjoint(Piece(at, bytes), lease[l])
                                         /\ Disjoint(lease[l], Piece(at, bytes))
         /\ \A c \in claims : /\ Disjoint(Piece(at, bytes), c)
                              /\ Disjoint(c, Piece(at, bytes))
         /\ \A u \in Int : Covers(Piece(at, bytes), u) => FreeUnit(free, u)
<1> DEFINE e == Piece(at, bytes)
<1>1. /\ e \in Extent /\ e.offset = at /\ End(e) = at + bytes
  BY DEF Piece, Extent, End
<1>2. /\ free \in SUBSET Extent /\ Separated(free)
      /\ r.offset \in Nat /\ End(r) \in Nat /\ End(r) <= Capacity
  BY EndOfExtent DEF IInv, TypeOK, OneOwnerPerByte
<1>3. /\ free' \in SUBSET Extent /\ Separated(free')
      /\ \A x \in free' : \E s \in free : Within(x, s)
      /\ \A u \in Int : FreeUnit(free', u) <=> FreeUnit(free, u) /\ ~ Covers(e, u)
  BY <1>2, CarveKeepsFreeList
<1>4. ASSUME NEW x \in free' PROVE End(x) <= Capacity
  <2>1. PICK s \in free : Within(x, s)
    BY <1>3
  <2>2. End(x) \in Nat /\ End(s) \in Nat /\ End(s) <= Capacity
    BY <1>2, <1>3, EndOfExtent DEF IInv, OneOwnerPerByte
  <2> QED BY <2>1, <2>2, CapacityAssumption DEF Within
<1>5. End(e) <= Capacity
  BY <1>1, <1>2, CapacityAssumption
<1>6. ASSUME NEW o, o.offset \in Nat, End(o) \in Nat, Disjoint(r, o)
      PROVE  Disjoint(e, o) /\ Disjoint(o, e)
  BY <1>1, <1>2, <1>6 DEF Disjoint
<1>7. \A l \in Leases : Owns(l) => Disjoint(e, lease[l]) /\ Disjoint(lease[l], e)
  BY <1>6, OwnedAvoidsFree, LeaseFields DEF IInv
<1>8. \A c \in claims : Disjoint(e, c) /\ Disjoint(c, e)
  BY <1>6, ClaimAvoidsFree, EndOfExtent
<1>9. \A u \in Int : Covers(e, u) => FreeUnit(free, u)
  BY <1>1, <1>2 DEF Covers, FreeUnit
<1> QED BY <1>1, <1>3, <1>4, <1>5, <1>7, <1>8, <1>9

\* A request cut from a free range becomes the range of lease l.
LEMMA TakeForLease ==
  ASSUME IInv, NEW r \in free, NEW at \in Nat, NEW bytes \in Nat \ {0},
         r.offset <= at, at + bytes <= End(r),
         free' = Carve(free, r, at, bytes), claims' = claims,
         NEW l \in Leases, ~ Listed(l), Owns(l)',
         lease'[l].offset = at, lease'[l].bytes = bytes,
         \A m \in Leases \ {l} : Kept(m)
  PROVE  OneOwnerPerByte'
<1> DEFINE e == Piece(at, bytes)
<1>0. /\ \A u \in Int : FreeUnit(free', u) <=> FreeUnit(free, u) /\ ~ Covers(e, u)
      /\ \A x \in free' : End(x) <= Capacity
      /\ End(e) <= Capacity
      /\ \A m \in Leases : Owns(m) => Disjoint(e, lease[m]) /\ Disjoint(lease[m], e)
      /\ \A c \in claims : Disjoint(e, c) /\ Disjoint(c, e)
      /\ \A u \in Int : Covers(e, u) => FreeUnit(free, u)
  BY CutFacts
<1>1. /\ e.offset = lease'[l].offset /\ e.bytes = lease'[l].bytes
      /\ End(lease'[l]) = End(e)
      /\ \A u : Covers(lease'[l], u) <=> Covers(e, u)
      /\ \A c : Disjoint(lease'[l], c) <=> Disjoint(e, c)
      /\ \A c : Disjoint(c, lease'[l]) <=> Disjoint(c, e)
  BY DEF Piece, End, Covers, Disjoint
<1>2. \A m \in Leases \ {l} :
        /\ Owns(m)' <=> Owns(m)
        /\ Borrowed(m)' <=> Borrowed(m)
        /\ Listed(m) => /\ End(lease'[m]) = End(lease[m])
                        /\ lease'[m].bytes = lease[m].bytes
                        /\ \A u : Covers(lease'[m], u) <=> Covers(lease[m], u)
                        /\ \A c : Within(lease'[m], c) <=> Within(lease[m], c)
                        /\ \A c : Disjoint(lease'[m], c) <=> Disjoint(lease[m], c)
                        /\ \A c : Disjoint(c, lease'[m]) <=> Disjoint(c, lease[m])
  BY KeptHolding DEF Kept
<1>3. /\ \A m \in Leases : (Owns(m) => Listed(m)) /\ (Borrowed(m) => Listed(m))
      /\ ~ Borrowed(l)' /\ ~ Owns(l)
  BY DEF Owns, Borrowed
<1> HIDE DEF e
<1>4. \A u \in Int : /\ HeldBy(u)' = {} <=> HeldBy(u) = {} /\ ~ Covers(e, u)
                     /\ ClaimedBy(u)' = ClaimedBy(u)
  BY <1>1, <1>2, <1>3 DEF HeldBy, ClaimedBy
<1>5. \A u \in 0..(Capacity - 1) :
        FreeUnit(free', u) <=> HeldBy(u)' = {} /\ ClaimedBy(u)' = {}
  BY <1>0, <1>4, CapacityAssumption DEF IInv, OneOwnerPerByte
<1>6. \A m, k \in Leases : Owns(m)' /\ Owns(k)' /\ m # k => Disjoint(lease'[m], lease'[k])
  BY <1>0, <1>1, <1>2, <1>3 DEF IInv, OneOwnerPerByte
<1>7. \A m \in Leases, c \in claims' : Owns(m)' => Disjoint(lease'[m], c)
  BY <1>0, <1>1, <1>2, <1>3 DEF IInv, OneOwnerPerByte
<1>8. \A m \in Leases : Owns(m)' => lease'[m].bytes > 0 /\ End(lease'[m]) <= Capacity
  BY <1>0, <1>1, <1>2, <1>3 DEF IInv, OneOwnerPerByte
<1>9. \A m \in Leases : Borrowed(m)' => \E c \in claims' : Within(lease'[m], c)
  BY <1>2, <1>3 DEF IInv, OneOwnerPerByte
<1>10. /\ \A c, d \in claims' : c # d => Disjoint(c, d)
       /\ \A x \in free' \cup claims' : End(x) <= Capacity
  BY <1>0 DEF IInv, OneOwnerPerByte
<1> QED BY <1>5, <1>6, <1>7, <1>8, <1>9, <1>10 DEF OneOwnerPerByte

\* A request cut from a free range becomes a plan slice.
LEMMA TakeForClaim ==
  ASSUME IInv, NEW r \in free, NEW at \in Nat, NEW bytes \in Nat \ {0},
         r.offset <= at, at + bytes <= End(r),
         free' = Carve(free, r, at, bytes),
         claims' = claims \cup {Piece(at, bytes)}, lease' = lease
  PROVE  OneOwnerPerByte'
<1> DEFINE e == Piece(at, bytes)
<1>0. /\ \A u \in Int : FreeUnit(free', u) <=> FreeUnit(free, u) /\ ~ Covers(e, u)
      /\ \A x \in free' : End(x) <= Capacity
      /\ End(e) <= Capacity
      /\ \A m \in Leases : Owns(m) => Disjoint(e, lease[m]) /\ Disjoint(lease[m], e)
      /\ \A c \in claims : Disjoint(e, c) /\ Disjoint(c, e)
      /\ \A u \in Int : Covers(e, u) => FreeUnit(free, u)
  BY CutFacts
<1>1. \A m \in Leases : /\ Owns(m)' <=> Owns(m)
                        /\ Borrowed(m)' <=> Borrowed(m)
  BY DEF Owns, Borrowed, Listed
<1> HIDE DEF e
<1>2. claims' = claims \cup {e}
  BY DEF e
<1>3. \A u : /\ HeldBy(u)' = HeldBy(u)
             /\ ClaimedBy(u)' = {} <=> ClaimedBy(u) = {} /\ ~ Covers(e, u)
  BY <1>1, <1>2 DEF HeldBy, ClaimedBy
<1>4. \A u \in 0..(Capacity - 1) :
        FreeUnit(free', u) <=> HeldBy(u)' = {} /\ ClaimedBy(u)' = {}
  BY <1>0, <1>3, CapacityAssumption DEF IInv, OneOwnerPerByte
<1>5. \A m, k \in Leases : Owns(m)' /\ Owns(k)' /\ m # k => Disjoint(lease'[m], lease'[k])
  BY <1>1 DEF IInv, OneOwnerPerByte
<1>6. \A m \in Leases, c \in claims' : Owns(m)' => Disjoint(lease'[m], c)
  BY <1>0, <1>1, <1>2 DEF IInv, OneOwnerPerByte
<1>7. \A m \in Leases : Owns(m)' => lease'[m].bytes > 0 /\ End(lease'[m]) <= Capacity
  BY <1>1 DEF IInv, OneOwnerPerByte
<1>8. \A m \in Leases : Borrowed(m)' => \E c \in claims' : Within(lease'[m], c)
  BY <1>1, <1>2 DEF IInv, OneOwnerPerByte
<1>9. /\ \A c, d \in claims' : c # d => Disjoint(c, d)
      /\ \A x \in free' \cup claims' : End(x) <= Capacity
  BY <1>0, <1>2 DEF IInv, OneOwnerPerByte
<1> QED BY <1>4, <1>5, <1>6, <1>7, <1>8, <1>9 DEF OneOwnerPerByte

\* What returning an extent that no free range overlaps does to the list.
LEMMA GiveFacts ==
  ASSUME IInv, NEW e \in Extent, End(e) <= Capacity,
         \A r \in free : Disjoint(r, e), free' = Give(free, e)
  PROVE  /\ free' \in SUBSET Extent /\ Separated(free')
         /\ \A u \in Int : FreeUnit(free', u) <=> FreeUnit(free, u) \/ Covers(e, u)
         /\ \A x \in free' : End(x) <= Capacity
<1>1. free \in SUBSET Extent /\ Separated(free)
  BY DEF IInv, TypeOK
<1>2. /\ free' \in SUBSET Extent /\ Separated(free')
      /\ \A x \in free' : \E s \in free \cup {e} : End(x) = End(s)
      /\ \A u \in Int : FreeUnit(free', u) <=> FreeUnit(free, u) \/ Covers(e, u)
  BY <1>1, GiveKeepsFreeList
<1>3. \A s \in free \cup {e} : End(s) <= Capacity
  BY DEF IInv, OneOwnerPerByte
<1> QED BY <1>2, <1>3

\* The range of an owning lease goes back to the free list.
LEMMA GiveFromLease ==
  ASSUME IInv, NEW l \in Leases, Owns(l), ~ Listed(l)',
         free' = Give(free, Piece(lease[l].offset, lease[l].bytes)), claims' = claims,
         \A m \in Leases \ {l} : Kept(m)
  PROVE  /\ free' \in SUBSET Extent /\ Separated(free')
         /\ OneOwnerPerByte'
<1> DEFINE e == Piece(lease[l].offset, lease[l].bytes)
<1>0. /\ e \in Extent /\ End(e) = End(lease[l])
      /\ \A u : Covers(e, u) <=> Covers(lease[l], u)
      /\ \A r : Disjoint(r, e) <=> Disjoint(r, lease[l])
  BY OwnedAvoidsFree DEF Piece, End, Covers, Disjoint
<1>1. /\ free' \in SUBSET Extent /\ Separated(free')
      /\ \A u \in Int : FreeUnit(free', u) <=> FreeUnit(free, u) \/ Covers(e, u)
      /\ \A x \in free' : End(x) <= Capacity
  BY <1>0, OwnedAvoidsFree, GiveFacts
<1>2. \A m \in Leases \ {l} :
        /\ Owns(m)' <=> Owns(m)
        /\ Borrowed(m)' <=> Borrowed(m)
        /\ Listed(m) => /\ End(lease'[m]) = End(lease[m])
                        /\ lease'[m].bytes = lease[m].bytes
                        /\ \A u : Covers(lease'[m], u) <=> Covers(lease[m], u)
                        /\ \A c : Within(lease'[m], c) <=> Within(lease[m], c)
                        /\ \A c : Disjoint(lease'[m], c) <=> Disjoint(lease[m], c)
                        /\ \A c : Disjoint(c, lease'[m]) <=> Disjoint(c, lease[m])
  BY KeptHolding DEF Kept
<1>3. /\ \A m \in Leases : (Owns(m) => Listed(m)) /\ (Borrowed(m) => Listed(m))
      /\ ~ Borrowed(l)' /\ ~ Owns(l)'
  BY DEF Owns, Borrowed
<1>4. ASSUME NEW u \in Int, Covers(lease[l], u)
      PROVE  HeldBy(u)' = {} /\ ClaimedBy(u)' = {}
  <2>1. /\ lease[l].offset \in Nat /\ End(lease[l]) \in Nat
    BY LeaseFields DEF IInv
  <2>2. ASSUME NEW m \in Leases, Owns(m)' PROVE ~ Covers(lease'[m], u)
    <3>1. m # l /\ Owns(m) /\ Listed(m)
      BY <2>2, <1>2, <1>3
    <3>2. Disjoint(lease[l], lease[m])
      BY <3>1 DEF IInv, OneOwnerPerByte
    <3>3. lease[m].offset \in Nat /\ End(lease[m]) \in Nat
      BY LeaseFields DEF IInv
    <3> QED BY <3>1, <3>2, <3>3, <2>1, <1>2, <1>4 DEF Disjoint, Covers
  <2>3. ASSUME NEW c \in claims PROVE ~ Covers(c, u)
    <3>1. Disjoint(lease[l], c)
      BY DEF IInv, OneOwnerPerByte
    <3>2. c.offset \in Nat /\ End(c) \in Nat
      BY EndOfExtent DEF IInv, TypeOK
    <3> QED BY <3>1, <3>2, <2>1, <1>4 DEF Disjoint, Covers
  <2> QED BY <2>2, <2>3 DEF HeldBy, ClaimedBy
<1>5. ASSUME NEW u \in Int, ~ Covers(lease[l], u)
      PROVE  HeldBy(u)' = HeldBy(u) /\ ClaimedBy(u)' = ClaimedBy(u)
  BY <1>2, <1>3, <1>5 DEF HeldBy, ClaimedBy
<1>6. \A u \in 0..(Capacity - 1) :
        FreeUnit(free', u) <=> HeldBy(u)' = {} /\ ClaimedBy(u)' = {}
  BY <1>0, <1>1, <1>4, <1>5, CapacityAssumption DEF IInv, OneOwnerPerByte
<1>7. \A m, k \in Leases : Owns(m)' /\ Owns(k)' /\ m # k => Disjoint(lease'[m], lease'[k])
  BY <1>2, <1>3 DEF IInv, OneOwnerPerByte
<1>8. \A m \in Leases, c \in claims' : Owns(m)' => Disjoint(lease'[m], c)
  BY <1>2, <1>3 DEF IInv, OneOwnerPerByte
<1>9. \A m \in Leases : Owns(m)' => lease'[m].bytes > 0 /\ End(lease'[m]) <= Capacity
  BY <1>2, <1>3 DEF IInv, OneOwnerPerByte
<1>10. \A m \in Leases : Borrowed(m)' => \E c \in claims' : Within(lease'[m], c)
  BY <1>2, <1>3 DEF IInv, OneOwnerPerByte
<1>11. /\ \A c, d \in claims' : c # d => Disjoint(c, d)
       /\ \A x \in free' \cup claims' : End(x) <= Capacity
  BY <1>1 DEF IInv, OneOwnerPerByte
<1> QED BY <1>1, <1>6, <1>7, <1>8, <1>9, <1>10, <1>11 DEF OneOwnerPerByte

\* A plan slice goes back to the free list while no lease borrows from one.
LEMMA GiveFromClaim ==
  ASSUME IInv, NEW e \in claims, \A m \in Leases : ~ Borrowed(m),
         free' = Give(free, e), claims' = claims \ {e}, lease' = lease
  PROVE  /\ free' \in SUBSET Extent /\ Separated(free')
         /\ OneOwnerPerByte'
<1>1. /\ free' \in SUBSET Extent /\ Separated(free')
      /\ \A u \in Int : FreeUnit(free', u) <=> FreeUnit(free, u) \/ Covers(e, u)
      /\ \A x \in free' : End(x) <= Capacity
  BY ClaimAvoidsFree, GiveFacts
<1>2. \A m \in Leases : /\ Owns(m)' <=> Owns(m)
                        /\ Borrowed(m)' <=> Borrowed(m)
  BY DEF Owns, Borrowed, Listed
<1>3. ASSUME NEW u \in Int, Covers(e, u)
      PROVE  HeldBy(u)' = {} /\ ClaimedBy(u)' = {}
  <2>1. e.offset \in Nat /\ End(e) \in Nat
    BY EndOfExtent DEF IInv, TypeOK
  <2>2. ASSUME NEW m \in Leases, Owns(m)' PROVE ~ Covers(lease'[m], u)
    <3>1. Disjoint(lease[m], e)
      BY <2>2, <1>2 DEF IInv, OneOwnerPerByte
    <3>2. lease[m].offset \in Nat /\ End(lease[m]) \in Nat
      BY LeaseFields DEF IInv
    <3> QED BY <3>1, <3>2, <2>1, <1>3 DEF Disjoint, Covers
  <2>3. ASSUME NEW c \in claims' PROVE ~ Covers(c, u)
    <3>1. Disjoint(c, e)
      BY <2>3 DEF IInv, OneOwnerPerByte
    <3>2. c.offset \in Nat /\ End(c) \in Nat
      BY <2>3, EndOfExtent DEF IInv, TypeOK
    <3> QED BY <3>1, <3>2, <2>1, <1>3 DEF Disjoint, Covers
  <2> QED BY <2>2, <2>3 DEF HeldBy, ClaimedBy
<1>4. ASSUME NEW u \in Int, ~ Covers(e, u)
      PROVE  HeldBy(u)' = HeldBy(u) /\ ClaimedBy(u)' = ClaimedBy(u)
  BY <1>2, <1>4 DEF HeldBy, ClaimedBy
<1>5. \A u \in 0..(Capacity - 1) :
        FreeUnit(free', u) <=> HeldBy(u)' = {} /\ ClaimedBy(u)' = {}
  BY <1>1, <1>3, <1>4, CapacityAssumption DEF IInv, OneOwnerPerByte
<1>6. /\ \A m, k \in Leases : Owns(m)' /\ Owns(k)' /\ m # k => Disjoint(lease'[m], lease'[k])
      /\ \A m \in Leases, c \in claims' : Owns(m)' => Disjoint(lease'[m], c)
      /\ \A m \in Leases : Owns(m)' => lease'[m].bytes > 0 /\ End(lease'[m]) <= Capacity
  BY <1>2 DEF IInv, OneOwnerPerByte
<1>7. \A m \in Leases : Borrowed(m)' => \E c \in claims' : Within(lease'[m], c)
  BY <1>2
<1>8. /\ \A c, d \in claims' : c # d => Disjoint(c, d)
      /\ \A x \in free' \cup claims' : End(x) <= Capacity
  BY <1>1 DEF IInv, OneOwnerPerByte
<1> QED BY <1>1, <1>5, <1>6, <1>7, <1>8 DEF OneOwnerPerByte

\* A lease that owns nothing before or after the step starts or stops
\* borrowing; nothing else moves.
LEMMA BorrowingChanges ==
  ASSUME IInv, UNCHANGED <<free, claims>>,
         NEW l \in Leases, ~ Owns(l), ~ Owns(l)',
         Borrowed(l)' => \E c \in claims : Within(lease'[l], c),
         \A m \in Leases \ {l} : Kept(m)
  PROVE  OneOwnerPerByte'
<1>1. \A m \in Leases \ {l} :
        /\ Owns(m)' <=> Owns(m)
        /\ Borrowed(m)' <=> Borrowed(m)
        /\ Listed(m) => /\ End(lease'[m]) = End(lease[m])
                        /\ lease'[m].bytes = lease[m].bytes
                        /\ \A u : Covers(lease'[m], u) <=> Covers(lease[m], u)
                        /\ \A c : Within(lease'[m], c) <=> Within(lease[m], c)
                        /\ \A c : Disjoint(lease'[m], c) <=> Disjoint(lease[m], c)
                        /\ \A c : Disjoint(c, lease'[m]) <=> Disjoint(c, lease[m])
  BY KeptHolding DEF Kept
<1>2. \A m \in Leases : (Owns(m) => Listed(m)) /\ (Borrowed(m) => Listed(m))
  BY DEF Owns, Borrowed
<1>3. \A u : HeldBy(u)' = HeldBy(u) /\ ClaimedBy(u)' = ClaimedBy(u)
  BY <1>1, <1>2 DEF HeldBy, ClaimedBy
<1>4. \A u \in 0..(Capacity - 1) :
        FreeUnit(free', u) <=> HeldBy(u)' = {} /\ ClaimedBy(u)' = {}
  BY <1>3 DEF IInv, OneOwnerPerByte
<1>5. \A m, k \in Leases : Owns(m)' /\ Owns(k)' /\ m # k => Disjoint(lease'[m], lease'[k])
  BY <1>1, <1>2 DEF IInv, OneOwnerPerByte
<1>6. \A m \in Leases, c \in claims' : Owns(m)' => Disjoint(lease'[m], c)
  BY <1>1, <1>2 DEF IInv, OneOwnerPerByte
<1>7. \A m \in Leases : Owns(m)' => lease'[m].bytes > 0 /\ End(lease'[m]) <= Capacity
  BY <1>1, <1>2 DEF IInv, OneOwnerPerByte
<1>8. \A m \in Leases : Borrowed(m)' => \E c \in claims' : Within(lease'[m], c)
  BY <1>1, <1>2 DEF IInv, OneOwnerPerByte
<1>9. /\ \A c, d \in claims' : c # d => Disjoint(c, d)
      /\ \A x \in free' \cup claims' : End(x) <= Capacity
  BY DEF IInv, OneOwnerPerByte
<1> QED BY <1>4, <1>5, <1>6, <1>7, <1>8, <1>9 DEF OneOwnerPerByte

\* A lease outside every promise, before and after the step, is the only one
\* whose record changes.
LEMMA OutsidePromises ==
  ASSUME IInv, NEW l \in Leases,
         lease[l].state # "successor_reserved", lease[l].succ = NoLease,
         lease'[l].state # "successor_reserved",
         lease'[l].succ = NoLease, lease'[l].pred = NoLease,
         \A m \in Leases \ {l} : lease'[m] = lease[m]
  PROVE  PromisesExact' /\ PredecessorsNamed'
<1> USE NoLeaseAssumption
<1>1. PredecessorsNamed'
  BY DEF IInv, PredecessorsNamed
<1>2. \A p, s \in Leases : lease[p].succ = s => p # l /\ s # l
  BY DEF IInv, PromisesExact
<1>3. \A p, s \in Leases : lease'[p].succ = s => p # l /\ s # l /\ lease[p].succ = s
  BY <1>2
<1>4. ASSUME NEW s \in Leases, NEW p \in Leases
      PROVE  lease'[p].succ = s <=>
               lease'[s].state = "successor_reserved" /\ lease'[s].pred = p
  <2>1. CASE lease'[p].succ = s
    BY <2>1, <1>3 DEF IInv, PromisesExact
  <2>2. CASE lease'[s].state = "successor_reserved" /\ lease'[s].pred = p
    <3>1. s # l /\ lease[s].state = "successor_reserved" /\ lease[s].pred = p
      BY <2>2
    <3>2. lease[p].succ = s
      BY <3>1 DEF IInv, PromisesExact
    <3> QED BY <2>2, <3>2, <1>2
  <2> QED BY <2>1, <2>2
<1>5. ASSUME NEW s \in Leases, NEW p \in Leases, lease'[p].succ = s
      PROVE  /\ lease'[p].state = "retire_pending"
             /\ lease'[p].owns
             /\ lease'[p].pred = NoLease
             /\ lease'[s].offset = lease'[p].offset
             /\ lease'[s].bytes = lease'[p].bytes
             /\ lease'[s].owns /\ lease'[s].succ = NoLease
  <2>1. p # l /\ s # l /\ lease[p].succ = s
    BY <1>3, <1>5
  <2>2. lease'[p] = lease[p] /\ lease'[s] = lease[s]
    BY <2>1
  <2> QED BY <2>1, <2>2 DEF IInv, PromisesExact
<1> QED BY <1>1, <1>4, <1>5 DEF PromisesExact

-----------------------------------------------------------------------------
(***************************************************************************)
(* The actions.                                                            *)
(***************************************************************************)

\* Taking a range for a lease (shadowspill_memory_pool_reserve_lease_locked).
LEMMA ReserveLeaseStep ==
  ASSUME IInv, NEW l \in Leases, NEW bytes \in Sizes, NEW alignment \in Alignments,
         NEW placement \in Placements, ReserveLease(l, bytes, alignment, placement)
  PROVE  IInv'
<1> USE SizesAssumption, AlignmentsAssumption, NoLeaseAssumption
<1>1. PICK f \in Place(placement, bytes, alignment) :
        /\ free' = Carve(free, f.range, f.at, bytes)
        /\ lease' = [lease EXCEPT ![l] = Adopted(f.at, bytes, TRUE)]
  BY DEF ReserveLease
<1>2. /\ f.range \in free /\ f.at \in Nat /\ f.range.offset <= f.at
      /\ f.at + bytes <= End(f.range)
  <2>1. free \in SUBSET Extent /\ bytes \in Nat \ {0} /\ alignment \in Nat \ {0}
    BY DEF IInv, TypeOK
  <2>2. f \in FirstFit(free, bytes, alignment) \cup BestFitLow(free, bytes, alignment)
               \cup BestFitHigh(free, bytes, alignment)
    BY <1>1 DEF Place, Placements
  <2> QED BY <2>1, <2>2, SelectedFits
<1>3. /\ lease \in [Leases -> LeaseRecord] /\ lease[l].state = "free"
      /\ UNCHANGED <<claims, reserved, earlier, epoch>>
  BY DEF IInv, TypeOK, ReserveLease
<1>4. /\ lease'[l] = Adopted(f.at, bytes, TRUE)
      /\ \A m \in Leases \ {l} : lease'[m] = lease[m]
  BY <1>1, <1>3
<1>5. /\ Adopted(f.at, bytes, TRUE) \in LeaseRecord
      /\ Adopted(f.at, bytes, TRUE).state = "in_use"
      /\ Adopted(f.at, bytes, TRUE).offset = f.at
      /\ Adopted(f.at, bytes, TRUE).bytes = bytes
      /\ Adopted(f.at, bytes, TRUE).owns
      /\ Adopted(f.at, bytes, TRUE).pred = NoLease
      /\ Adopted(f.at, bytes, TRUE).succ = NoLease
  BY <1>2 DEF Adopted, Blank, LeaseRecord, States
<1>6. /\ free' \in SUBSET Extent /\ Separated(free')
  BY <1>1, <1>2, CutFacts
<1>7. OneOwnerPerByte'
  <2>1. ~ Listed(l) /\ Owns(l)' /\ \A m \in Leases \ {l} : Kept(m)
    BY <1>3, <1>4, <1>5 DEF Listed, Owns, Kept
  <2> QED BY <1>1, <1>2, <1>3, <1>4, <1>5, <2>1, TakeForLease
<1>8. TypeOK'
  BY <1>1, <1>3, <1>5, <1>6 DEF IInv, TypeOK
<1>9. PromisesExact' /\ PredecessorsNamed'
  <2>1. lease[l].succ = NoLease
    BY <1>3, FreeUnpromised
  <2> QED BY <1>3, <1>4, <1>5, <2>1, OutsidePromises
<1> QED BY <1>6, <1>7, <1>8, <1>9 DEF IInv

\* Taking a range for a plan slice, wherever it lies
\* (shadowspill_fixed_layout_reserve_slice, reserve_at_locked).
LEMMA ReserveSliceStep ==
  ASSUME IInv, NEW bytes \in Sizes, NEW f,
         f.range \in free, f.at \in Nat, f.range.offset <= f.at,
         f.at + bytes <= End(f.range),
         free' = Carve(free, f.range, f.at, bytes),
         claims' = claims \cup {[offset |-> f.at, bytes |-> bytes]},
         UNCHANGED <<lease, reserved, earlier, epoch>>
  PROVE  IInv'
<1> USE SizesAssumption
<1>1. /\ free' \in SUBSET Extent /\ Separated(free')
      /\ Piece(f.at, bytes) \in Extent
  BY CutFacts
<1>2. claims' = claims \cup {Piece(f.at, bytes)}
  BY DEF Piece
<1>3. OneOwnerPerByte'
  BY <1>2, TakeForClaim
<1>4. TypeOK'
  BY <1>1, <1>2 DEF IInv, TypeOK
<1>5. PromisesExact' /\ PredecessorsNamed'
  BY DEF IInv, PromisesExact, PredecessorsNamed
<1> QED BY <1>1, <1>3, <1>4, <1>5 DEF IInv

\* Clearing or lending a slice.
LEMMA ReleaseSliceStep ==
  ASSUME IInv, NEW c \in claims, ReleaseSlice(c)
  PROVE  IInv'
<1> USE DEF ReleaseSlice
<1>1. free' \in SUBSET Extent /\ Separated(free') /\ OneOwnerPerByte'
  BY GiveFromClaim
<1>2. epoch' \in 0..(EpochModulus - 1)
  BY EpochAssumption DEF IInv, TypeOK, NextEpoch
<1>3. TypeOK'
  BY <1>1, <1>2 DEF IInv, TypeOK
<1>4. PromisesExact' /\ PredecessorsNamed'
  BY DEF IInv, PromisesExact, PredecessorsNamed
<1> QED BY <1>1, <1>3, <1>4 DEF IInv

\* Placing a lease in a slice.
LEMMA AdoptBorrowedStep ==
  ASSUME IInv, NEW l \in Leases, NEW c \in claims, NEW offset \in Nat, NEW bytes \in Sizes,
         AdoptBorrowed(l, c, offset, bytes)
  PROVE  IInv'
<1> USE SizesAssumption, NoLeaseAssumption
<1> DEFINE new == Adopted(offset, bytes, FALSE)
<1>1. /\ lease \in [Leases -> LeaseRecord] /\ lease[l].state = "free"
      /\ lease' = [lease EXCEPT ![l] = new]
      /\ UNCHANGED <<free, claims, reserved, earlier, epoch>>
  BY DEF IInv, TypeOK, AdoptBorrowed
<1>2. /\ new \in LeaseRecord /\ new.state = "in_use" /\ new.offset = offset
      /\ new.bytes = bytes /\ ~ new.owns /\ new.pred = NoLease /\ new.succ = NoLease
  BY DEF Adopted, Blank, LeaseRecord, States
<1>3. lease'[l] = new /\ \A m \in Leases \ {l} : lease'[m] = lease[m]
  BY <1>1
<1> HIDE DEF new
<1>4. OneOwnerPerByte'
  <2>1. ~ Owns(l) /\ ~ Owns(l)' /\ \A m \in Leases \ {l} : Kept(m)
    BY <1>1, <1>2, <1>3 DEF Listed, Owns, Kept
  <2>2. Within(lease'[l], c)
    BY <1>2, <1>3 DEF AdoptBorrowed, Within, End
  <2> QED BY <1>1, <2>1, <2>2, BorrowingChanges
<1>5. TypeOK' /\ Separated(free')
  BY <1>1, <1>2 DEF IInv, TypeOK
<1>6. PromisesExact' /\ PredecessorsNamed'
  <2>1. lease[l].succ = NoLease
    BY <1>1, FreeUnpromised
  <2> QED BY <1>1, <1>2, <1>3, <2>1, OutsidePromises
<1> QED BY <1>4, <1>5, <1>6 DEF IInv

\* A step that changes the state of one listed lease outside every promise,
\* and neither its range nor the free list.
LEMMA ListedChange ==
  ASSUME IInv, NEW l \in Leases, Listed(l), lease[l].succ = NoLease,
         NEW new \in LeaseRecord, lease' = [lease EXCEPT ![l] = new],
         new.state \in {"in_use", "retire_pending", "reserved"},
         new.offset = lease[l].offset, new.bytes = lease[l].bytes,
         new.owns = lease[l].owns, new.pred = lease[l].pred, new.succ = NoLease,
         UNCHANGED <<free, claims, epoch>>,
         reserved' \in Int, earlier' \in [Leases -> SUBSET Leases]
  PROVE  IInv'
<1> USE NoLeaseAssumption
<1>1. lease \in [Leases -> LeaseRecord] /\ lease[l].state # "successor_reserved"
  BY DEF IInv, TypeOK, Listed
<1>2. lease'[l] = new /\ \A m \in Leases \ {l} : lease'[m] = lease[m]
  BY <1>1
<1>3. OneOwnerPerByte'
  <2>1. \A m \in Leases : Kept(m)
    BY <1>1, <1>2 DEF Listed, Kept
  <2> QED BY <2>1, SameHoldings
<1>4. TypeOK' /\ Separated(free')
  BY <1>1 DEF IInv, TypeOK
<1>5. PromisesExact' /\ PredecessorsNamed'
  <2>1. lease[l].pred = NoLease
    BY <1>1, LeaseFields DEF IInv, PredecessorsNamed
  <2> QED BY <1>1, <1>2, <2>1, OutsidePromises
<1> QED BY <1>3, <1>4, <1>5 DEF IInv

\* Beginning and cancelling a retirement, marking a range reserved and
\* acquiring it.
LEMMA StateSteps ==
  ASSUME IInv, NEW l \in Leases,
         \/ \E event, expected \in BOOLEAN : BeginRetirement(l, event, expected)
         \/ CancelRetirement(l) \/ MarkReserved(l) \/ AcquireReserved(l)
  PROVE  IInv'
<1>0. /\ lease \in [Leases -> LeaseRecord] /\ reserved \in Int
      /\ earlier \in [Leases -> SUBSET Leases] /\ lease[l].bytes \in Nat
  BY LeaseFields DEF IInv, TypeOK
<1>1. ASSUME NEW event \in BOOLEAN, NEW expected \in BOOLEAN,
             BeginRetirement(l, event, expected)
      PROVE  IInv'
  <2> DEFINE new == [lease[l] EXCEPT !.state = "retire_pending", !.event = event,
                                     !.expected = expected]
  <2>1. lease' = [lease EXCEPT ![l] = new]
    BY <1>0, <1>1 DEF BeginRetirement
  <2>2. /\ new \in LeaseRecord /\ new.state = "retire_pending"
        /\ new.offset = lease[l].offset /\ new.bytes = lease[l].bytes
        /\ new.owns = lease[l].owns /\ new.pred = lease[l].pred
        /\ new.succ = lease[l].succ
    BY <1>0 DEF LeaseRecord, States
  <2>3. earlier' \in [Leases -> SUBSET Leases]
    BY <1>0, <1>1 DEF BeginRetirement
  <2>4. /\ Listed(l) /\ lease[l].succ = NoLease
        /\ UNCHANGED <<free, claims, reserved, epoch>>
    BY <1>1 DEF BeginRetirement, Listed
  <2> HIDE DEF new
  <2> QED BY <1>0, <2>1, <2>2, <2>3, <2>4, ListedChange
<1>2. CASE CancelRetirement(l)
  <2> DEFINE new == [lease[l] EXCEPT !.state = "in_use", !.event = FALSE,
                                     !.expected = FALSE]
  <2>1. lease' = [lease EXCEPT ![l] = new]
    BY <1>0, <1>2 DEF CancelRetirement
  <2>2. /\ new \in LeaseRecord /\ new.state = "in_use"
        /\ new.offset = lease[l].offset /\ new.bytes = lease[l].bytes
        /\ new.owns = lease[l].owns /\ new.pred = lease[l].pred
        /\ new.succ = lease[l].succ
    BY <1>0 DEF LeaseRecord, States
  <2>3. /\ Listed(l) /\ lease[l].succ = NoLease
        /\ UNCHANGED <<free, claims, reserved, earlier, epoch>>
    BY <1>2 DEF CancelRetirement, Listed
  <2> HIDE DEF new
  <2> QED BY <1>0, <2>1, <2>2, <2>3, ListedChange
<1>3. CASE MarkReserved(l) \/ AcquireReserved(l)
  <2>1. PICK state \in {"reserved", "in_use"} :
          lease' = [lease EXCEPT ![l].state = state]
    BY <1>3 DEF MarkReserved, AcquireReserved
  <2> DEFINE new == [lease[l] EXCEPT !.state = state]
  <2>2. lease' = [lease EXCEPT ![l] = new]
    BY <1>0, <2>1
  <2>3. /\ new \in LeaseRecord /\ new.state = state
        /\ new.offset = lease[l].offset /\ new.bytes = lease[l].bytes
        /\ new.owns = lease[l].owns /\ new.pred = lease[l].pred
        /\ new.succ = lease[l].succ
    BY <1>0 DEF LeaseRecord, States
  <2>4. /\ Listed(l) /\ lease[l].state # "retire_pending"
        /\ reserved' \in Int /\ UNCHANGED <<free, claims, earlier, epoch>>
    BY <1>0, <1>3 DEF MarkReserved, AcquireReserved, Listed
  <2>5. lease[l].succ = NoLease
    BY <2>4, FreeUnpromised
  <2> HIDE DEF new
  <2> QED BY <1>0, <2>2, <2>3, <2>4, <2>5, ListedChange
<1> QED BY <1>1, <1>2, <1>3

\* Publishing or withdrawing a dependency touches no field a promise or an
\* owner is known by.
LEMMA DependencyStep ==
  ASSUME IInv, NEW l \in Leases, PublishDependency(l) \/ WithdrawDependency(l)
  PROVE  IInv'
<1>0. lease \in [Leases -> LeaseRecord]
  BY DEF IInv, TypeOK
<1>1. /\ lease' \in [Leases -> LeaseRecord]
      /\ \A m \in Leases : /\ lease'[m].state = lease[m].state
                           /\ lease'[m].offset = lease[m].offset
                           /\ lease'[m].bytes = lease[m].bytes
                           /\ lease'[m].owns = lease[m].owns
                           /\ lease'[m].pred = lease[m].pred
                           /\ lease'[m].succ = lease[m].succ
      /\ UNCHANGED <<free, claims, reserved, earlier, epoch>>
  <2>1. PICK event \in BOOLEAN, expected \in BOOLEAN :
          lease' = [lease EXCEPT ![l] = [lease[l] EXCEPT !.event = event,
                                                         !.expected = expected]]
    <3>1. CASE PublishDependency(l)
      BY <3>1, <1>0 DEF PublishDependency
    <3>2. CASE WithdrawDependency(l)
      <4>1. lease' = [lease EXCEPT ![l] = [lease[l] EXCEPT !.event = lease[l].event,
                                                           !.expected = FALSE]]
        BY <3>2, <1>0 DEF WithdrawDependency, LeaseRecord
      <4> QED BY <4>1, LeaseFields DEF IInv
    <3> QED BY <3>1, <3>2
  <2> DEFINE new == [lease[l] EXCEPT !.event = event, !.expected = expected]
  <2>2. /\ new \in LeaseRecord /\ new.state = lease[l].state
        /\ new.offset = lease[l].offset /\ new.bytes = lease[l].bytes
        /\ new.owns = lease[l].owns /\ new.pred = lease[l].pred
        /\ new.succ = lease[l].succ
    BY <1>0 DEF LeaseRecord
  <2>3. lease' = [lease EXCEPT ![l] = new]
    BY <2>1
  <2> HIDE DEF new
  <2>4. UNCHANGED <<free, claims, reserved, earlier, epoch>>
    BY DEF PublishDependency, WithdrawDependency
  <2> QED BY <1>0, <2>2, <2>3, <2>4
<1>2. OneOwnerPerByte'
  <2>1. \A m \in Leases : Kept(m)
    BY <1>1 DEF Kept, Listed
  <2> QED BY <1>1, <2>1, SameHoldings
<1>3. TypeOK' /\ Separated(free')
  BY <1>1 DEF IInv, TypeOK
<1>4. PromisesExact'
  BY <1>1 DEF IInv, PromisesExact
<1>5. PredecessorsNamed'
  BY <1>1 DEF IInv, PredecessorsNamed
<1> QED BY <1>2, <1>3, <1>4, <1>5 DEF IInv

\* A smaller request takes the front of a retiring range.
LEMMA SplitStep ==
  ASSUME IInv, NEW l \in Leases, NEW s \in Leases, NEW bytes \in Sizes,
         SplitRetiring(l, s, bytes)
  PROVE  IInv'
<1> USE SizesAssumption, NoLeaseAssumption
<1> DEFINE front == Adopted(lease[l].offset, bytes, TRUE)
           rest == [lease[l] EXCEPT !.offset = lease[l].offset + bytes,
                                    !.bytes = lease[l].bytes - bytes]
<1>1. /\ lease \in [Leases -> LeaseRecord]
      /\ lease[l].state = "retire_pending" /\ lease[l].owns /\ lease[l].succ = NoLease
      /\ lease[l].bytes > bytes /\ lease[s].state = "free"
      /\ UNCHANGED <<free, claims, reserved, earlier, epoch>>
      /\ lease[l].offset \in Nat /\ lease[l].bytes \in Nat
  BY LeaseFields DEF IInv, TypeOK, SplitRetiring
<1>2. l # s
  BY <1>1
<1>3. lease' = [lease EXCEPT ![s] = front, ![l] = rest]
  BY <1>1, <1>2 DEF SplitRetiring
<1>4. /\ front \in LeaseRecord /\ front.state = "in_use" /\ front.owns
      /\ front.offset = lease[l].offset /\ front.bytes = bytes
      /\ front.pred = NoLease /\ front.succ = NoLease
  BY <1>1 DEF Adopted, Blank, LeaseRecord, States
<1>5. /\ rest \in LeaseRecord /\ rest.state = "retire_pending" /\ rest.owns
      /\ rest.offset = lease[l].offset + bytes /\ rest.bytes = lease[l].bytes - bytes
      /\ rest.pred = lease[l].pred /\ rest.succ = NoLease
  <2>1. lease[l] \in LeaseRecord /\ bytes \in Nat
    BY <1>1
  <2>2. lease[l].offset + bytes \in Nat /\ lease[l].bytes - bytes \in Nat
    BY <1>1, <2>1
  <2> QED BY <1>1, <2>1, <2>2 DEF LeaseRecord
<1> HIDE DEF front, rest
<1>6. /\ lease'[s] = front /\ lease'[l] = rest
      /\ \A m \in Leases \ {l, s} : lease'[m] = lease[m]
  BY <1>1, <1>2, <1>3
<1>7. OneOwnerPerByte'
  <2>1. /\ Owns(l) /\ ~ Listed(s) /\ Owns(l)' /\ Owns(s)'
        /\ \A m \in Leases \ {l, s} : Kept(m)
    BY <1>1, <1>4, <1>5, <1>6 DEF Owns, Listed, Kept
  <2> QED BY <1>1, <1>2, <1>4, <1>5, <1>6, <2>1, SplitHolding
<1>8. TypeOK' /\ Separated(free')
  BY <1>1, <1>3, <1>4, <1>5 DEF IInv, TypeOK
<1>9. PromisesExact' /\ PredecessorsNamed'
  <2>1. lease[l].pred = NoLease
    BY <1>1, LeaseFields DEF IInv, PredecessorsNamed
  <2>2. PredecessorsNamed'
    BY <1>1, <1>4, <1>5, <1>6, <2>1 DEF IInv, PredecessorsNamed
  <2>3. \A p, q \in Leases : lease[p].succ = q => p \notin {l, s} /\ q \notin {l, s}
    BY <1>1 DEF IInv, PromisesExact
  <2>4. \A p, q \in Leases : lease'[p].succ = q
          => p \notin {l, s} /\ q \notin {l, s} /\ lease[p].succ = q
    BY <2>3, <1>4, <1>5, <1>6
  <2>5. \A p, q \in Leases : lease'[q].state = "successor_reserved" /\ lease'[q].pred = p
          => q \notin {l, s} /\ lease[p].succ = q
    BY <1>4, <1>5, <1>6 DEF IInv, PromisesExact
  <2>6. ASSUME NEW q \in Leases, NEW p \in Leases
        PROVE  lease'[p].succ = q <=>
                 lease'[q].state = "successor_reserved" /\ lease'[q].pred = p
    <3>1. CASE lease'[p].succ = q
      <4>1. lease[p].succ = q /\ lease'[q] = lease[q]
        BY <3>1, <2>4, <1>6
      <4> QED BY <3>1, <4>1 DEF IInv, PromisesExact
    <3>2. CASE lease'[q].state = "successor_reserved" /\ lease'[q].pred = p
      <4>1. lease[p].succ = q
        BY <3>2, <2>5
      <4>2. lease'[p] = lease[p]
        BY <4>1, <2>3, <1>6
      <4> QED BY <3>2, <4>1, <4>2
    <3> QED BY <3>1, <3>2
  <2>7. ASSUME NEW q \in Leases, NEW p \in Leases, lease'[p].succ = q
        PROVE  /\ lease'[p].state = "retire_pending"
               /\ lease'[p].owns
               /\ lease'[p].pred = NoLease
               /\ lease'[q].offset = lease'[p].offset
               /\ lease'[q].bytes = lease'[p].bytes
               /\ lease'[q].owns /\ lease'[q].succ = NoLease
    <3>1. lease[p].succ = q /\ lease'[p] = lease[p] /\ lease'[q] = lease[q]
      BY <2>4, <2>7, <1>6
    <3> QED BY <3>1 DEF IInv, PromisesExact
  <2> QED BY <2>2, <2>6, <2>7 DEF PromisesExact
<1> QED BY <1>7, <1>8, <1>9 DEF IInv

\* Promising the range of a retiring lease p to s.
LEMMA PromiseStep ==
  ASSUME IInv, NEW s \in Leases, NEW p \in Leases, NEW bytes \in Sizes,
         NEW alignment \in Alignments, ReserveSuccessor(s, p, bytes, alignment)
  PROVE  IInv'
<1> USE NoLeaseAssumption
<1> DEFINE new == [Blank EXCEPT !.state = "successor_reserved",
                                !.offset = lease[p].offset, !.bytes = lease[p].bytes,
                                !.owns = TRUE, !.pred = p]
           old == [lease[p] EXCEPT !.succ = s]
<1>1. /\ lease \in [Leases -> LeaseRecord] /\ lease[s].state = "free"
      /\ lease[p].state = "retire_pending" /\ lease[p].owns /\ lease[p].succ = NoLease
      /\ UNCHANGED <<free, claims, earlier, epoch>>
      /\ lease[p].offset \in Nat /\ lease[p].bytes \in Nat
  BY LeaseFields DEF IInv, TypeOK, ReserveSuccessor, Selected, Candidate
<1>2. reserved' \in Int
  BY <1>1 DEF ReserveSuccessor, IInv, TypeOK
<1>3. p # s
  BY <1>1
<1>4. lease' = [lease EXCEPT ![s] = new, ![p] = old]
  BY <1>1, <1>3 DEF ReserveSuccessor
<1>5. /\ new \in LeaseRecord /\ new.state = "successor_reserved" /\ new.owns
      /\ new.offset = lease[p].offset /\ new.bytes = lease[p].bytes
      /\ new.pred = p /\ new.succ = NoLease
  BY <1>1 DEF Blank, LeaseRecord, States
<1>6. /\ old \in LeaseRecord /\ old.state = "retire_pending"
      /\ old.owns /\ old.owns = lease[p].owns
      /\ old.offset = lease[p].offset /\ old.bytes = lease[p].bytes
      /\ old.pred = lease[p].pred /\ old.succ = s
  BY <1>1 DEF LeaseRecord
<1> HIDE DEF new, old
<1>7. /\ lease'[s] = new /\ lease'[p] = old
      /\ \A m \in Leases \ {p, s} : lease'[m] = lease[m]
  BY <1>1, <1>3, <1>4
<1>8. OneOwnerPerByte'
  <2>1. \A m \in Leases : Kept(m)
    <3>1. Kept(s)
      BY <1>1, <1>5, <1>7 DEF Listed, Kept
    <3>2. Kept(p)
      BY <1>1, <1>6, <1>7 DEF Listed, Kept
    <3>3. \A m \in Leases \ {p, s} : Kept(m)
      BY <1>7 DEF Listed, Kept
    <3> QED BY <3>1, <3>2, <3>3
  <2> QED BY <1>1, <2>1, SameHoldings
<1>9. TypeOK' /\ Separated(free')
  BY <1>1, <1>2, <1>4, <1>5, <1>6 DEF IInv, TypeOK
<1>10. lease[p].pred = NoLease
  BY <1>1, LeaseFields DEF IInv, PredecessorsNamed
<1>11. PredecessorsNamed'
  BY <1>1, <1>5, <1>6, <1>7, <1>10 DEF IInv, PredecessorsNamed
<1>12. PromisesExact'
  <2>1. \A q, r \in Leases : lease[q].succ = r => q \notin {p, s} /\ r \notin {p, s}
    BY <1>1 DEF IInv, PromisesExact
  <2>2. \A q, r \in Leases : lease'[q].succ = r =>
          \/ q = p /\ r = s
          \/ q \notin {p, s} /\ r \notin {p, s} /\ lease[q].succ = r
    BY <2>1, <1>5, <1>6, <1>7
  <2>3. ASSUME NEW r \in Leases, NEW q \in Leases
        PROVE  lease'[q].succ = r <=>
                 lease'[r].state = "successor_reserved" /\ lease'[r].pred = q
    <3>1. CASE q = p /\ r = s
      BY <3>1, <1>5, <1>6, <1>7
    <3>2. CASE ~ (q = p /\ r = s) /\ lease'[q].succ = r
      <4>1. lease[q].succ = r /\ lease'[r] = lease[r]
        BY <3>2, <2>2, <1>7
      <4> QED BY <3>2, <4>1 DEF IInv, PromisesExact
    <3>3. CASE ~ (q = p /\ r = s) /\ lease'[r].state = "successor_reserved"
               /\ lease'[r].pred = q
      <4>1. r \notin {p, s}
        BY <3>3, <1>5, <1>6, <1>7
      <4>2. lease[q].succ = r
        BY <3>3, <4>1, <1>7 DEF IInv, PromisesExact
      <4>3. lease'[q] = lease[q]
        BY <4>2, <2>1, <1>7
      <4> QED BY <3>3, <4>2, <4>3
    <3> QED BY <3>1, <3>2, <3>3
  <2>4. ASSUME NEW r \in Leases, NEW q \in Leases, lease'[q].succ = r
        PROVE  /\ lease'[q].state = "retire_pending"
               /\ lease'[q].owns
               /\ lease'[q].pred = NoLease
               /\ lease'[r].offset = lease'[q].offset
               /\ lease'[r].bytes = lease'[q].bytes
               /\ lease'[r].owns /\ lease'[r].succ = NoLease
    <3>1. CASE q = p /\ r = s
      BY <3>1, <1>5, <1>6, <1>7, <1>10
    <3>2. CASE ~ (q = p /\ r = s)
      <4>1. lease[q].succ = r /\ lease'[r] = lease[r] /\ lease'[q] = lease[q]
        BY <3>2, <2>2, <2>4, <1>7
      <4> QED BY <4>1 DEF IInv, PromisesExact
    <3> QED BY <3>1, <3>2
  <2> QED BY <2>3, <2>4 DEF PromisesExact
<1> QED BY <1>8, <1>9, <1>11, <1>12 DEF IInv

\* Both ends of the promise p -> s are dissolved, and no other promise is.
LEMMA PromiseDissolved ==
  ASSUME IInv, NEW p \in Leases, NEW s \in Leases, p # s, lease[p].succ = s,
         lease'[p].succ = NoLease, lease'[p].pred = NoLease,
         lease'[s].succ = NoLease, lease'[s].pred = NoLease,
         lease'[p].state # "successor_reserved", lease'[s].state # "successor_reserved",
         \A m \in Leases \ {p, s} : lease'[m] = lease[m]
  PROVE  PromisesExact' /\ PredecessorsNamed'
<1> USE NoLeaseAssumption
<1>1. PredecessorsNamed'
  BY DEF IInv, PredecessorsNamed
<1>2. /\ lease[p].state = "retire_pending" /\ lease[s].state = "successor_reserved"
      /\ lease[s].pred = p /\ lease[s].succ = NoLease
  BY DEF IInv, PromisesExact
<1>3. \A q, r \in Leases : lease[q].succ = r /\ ~ (q = p /\ r = s)
        => q \notin {p, s} /\ r \notin {p, s}
  BY <1>2 DEF IInv, PromisesExact
<1>4. \A q, r \in Leases : lease'[q].succ = r
        => q \notin {p, s} /\ r \notin {p, s} /\ lease[q].succ = r
  BY <1>3
<1>5. ASSUME NEW r \in Leases, NEW q \in Leases
      PROVE  lease'[q].succ = r <=>
               lease'[r].state = "successor_reserved" /\ lease'[r].pred = q
  <2>1. CASE lease'[q].succ = r
    <3>1. lease[q].succ = r /\ lease'[r] = lease[r]
      BY <2>1, <1>4
    <3> QED BY <2>1, <3>1 DEF IInv, PromisesExact
  <2>2. CASE lease'[r].state = "successor_reserved" /\ lease'[r].pred = q
    <3>1. r \notin {p, s}
      BY <2>2
    <3>2. lease[q].succ = r
      BY <2>2, <3>1 DEF IInv, PromisesExact
    <3>3. lease'[q] = lease[q]
      BY <3>1, <3>2, <1>3
    <3> QED BY <2>2, <3>2, <3>3
  <2> QED BY <2>1, <2>2
<1>6. ASSUME NEW r \in Leases, NEW q \in Leases, lease'[q].succ = r
      PROVE  /\ lease'[q].state = "retire_pending"
             /\ lease'[q].owns
             /\ lease'[q].pred = NoLease
             /\ lease'[r].offset = lease'[q].offset
             /\ lease'[r].bytes = lease'[q].bytes
             /\ lease'[r].owns /\ lease'[r].succ = NoLease
  <2>1. lease[q].succ = r /\ lease'[q] = lease[q] /\ lease'[r] = lease[r]
    BY <1>4, <1>6
  <2> QED BY <2>1 DEF IInv, PromisesExact
<1> QED BY <1>1, <1>5, <1>6 DEF PromisesExact

\* What both ends of a promise look like.
LEMMA PromiseEnds ==
  ASSUME IInv, NEW s \in Leases, lease[s].state = "successor_reserved"
  PROVE  /\ lease[s].pred \in Leases /\ lease[s].pred # s
         /\ lease[lease[s].pred].succ = s
         /\ lease[lease[s].pred].state = "retire_pending"
         /\ lease[lease[s].pred].owns /\ lease[lease[s].pred].pred = NoLease
         /\ lease[s].offset = lease[lease[s].pred].offset
         /\ lease[s].bytes = lease[lease[s].pred].bytes
         /\ lease[s].owns /\ lease[s].succ = NoLease
<1>1. lease[s].pred \in Leases
  BY DEF IInv, PredecessorsNamed
<1>2. lease[lease[s].pred].succ = s
  BY <1>1 DEF IInv, PromisesExact
<1> QED BY <1>1, <1>2 DEF IInv, PromisesExact

\* A record without a range has the type of a record.
LEMMA BlankRecord ==
  /\ Blank \in LeaseRecord /\ Blank.state = "free"
  /\ Blank.pred = NoLease /\ Blank.succ = NoLease
BY DEF Blank, LeaseRecord, States

\* A successor acquires the range behind its predecessor's event.
LEMMA AcquireSuccessorStep ==
  ASSUME IInv, NEW s \in Leases, AcquireSuccessor(s)
  PROVE  IInv'
<1> USE NoLeaseAssumption
<1>0. PICK p \in Leases : p = lease[s].pred
  BY PromiseEnds DEF AcquireSuccessor
<1> DEFINE gone == Transferred(p)
           got == [lease[s] EXCEPT !.state = "in_use", !.pred = NoLease]
<1>1. /\ lease \in [Leases -> LeaseRecord] /\ lease[s].state = "successor_reserved"
      /\ UNCHANGED <<free, claims, earlier>>
      /\ lease[s].bytes \in Nat /\ reserved \in Int
      /\ reserved' = reserved - lease[s].bytes /\ NextEpoch
  BY LeaseFields DEF IInv, TypeOK, AcquireSuccessor
<1>2. /\ p \in Leases /\ p # s /\ lease[p].succ = s /\ lease[p].state = "retire_pending"
      /\ lease[p].owns /\ lease[p].pred = NoLease
      /\ lease[s].offset = lease[p].offset /\ lease[s].bytes = lease[p].bytes
      /\ lease[s].owns /\ lease[s].succ = NoLease
  BY <1>0, <1>1, PromiseEnds
<1>3. lease' = [lease EXCEPT ![p] = gone, ![s] = got]
  BY <1>0, <1>1, <1>2 DEF AcquireSuccessor
<1>4. /\ gone \in LeaseRecord /\ gone.state = "predecessor_transferred"
      /\ gone.pred = NoLease /\ gone.succ = NoLease
  BY <1>1, <1>2 DEF Transferred, LeaseRecord, States
<1>5. /\ got \in LeaseRecord /\ got.state = "in_use" /\ got.owns
      /\ got.offset = lease[s].offset /\ got.bytes = lease[s].bytes
      /\ got.pred = NoLease /\ got.succ = NoLease
  BY <1>1, <1>2 DEF LeaseRecord, States
<1> HIDE DEF gone, got
<1>6. /\ lease'[p] = gone /\ lease'[s] = got
      /\ \A m \in Leases \ {p, s} : lease'[m] = lease[m]
  BY <1>1, <1>2, <1>3
<1>7. OneOwnerPerByte'
  <2>1. /\ Owns(p) /\ ~ Listed(s) /\ ~ Listed(p)' /\ Owns(s)'
        /\ \A m \in Leases \ {p, s} : Kept(m)
    BY <1>1, <1>2, <1>4, <1>5, <1>6 DEF Owns, Listed, Kept
  <2> QED BY <1>1, <1>2, <1>5, <1>6, <2>1, HandOver
<1>8. epoch' \in 0..(EpochModulus - 1)
  BY <1>1, EpochAssumption DEF IInv, TypeOK, NextEpoch
<1>9. TypeOK' /\ Separated(free')
  BY <1>1, <1>2, <1>3, <1>4, <1>5, <1>8 DEF IInv, TypeOK
<1>10. PromisesExact' /\ PredecessorsNamed'
  BY <1>2, <1>4, <1>5, <1>6, PromiseDissolved
<1> QED BY <1>7, <1>9, <1>10 DEF IInv

\* A cancelled promise leaves the range with the retiring lease.
LEMMA CancelSuccessorStep ==
  ASSUME IInv, NEW s \in Leases, CancelSuccessor(s)
  PROVE  IInv'
<1> USE NoLeaseAssumption
<1>0. PICK p \in Leases : p = lease[s].pred
  BY PromiseEnds DEF CancelSuccessor
<1> DEFINE old == [lease[p] EXCEPT !.succ = NoLease]
<1>1. /\ lease \in [Leases -> LeaseRecord] /\ lease[s].state = "successor_reserved"
      /\ UNCHANGED <<free, claims, earlier, epoch>>
      /\ lease[s].bytes \in Nat /\ reserved \in Int
      /\ reserved' = reserved - lease[s].bytes
  BY LeaseFields DEF IInv, TypeOK, CancelSuccessor
<1>2. /\ p \in Leases /\ p # s /\ lease[p].succ = s /\ lease[p].state = "retire_pending"
      /\ lease[p].owns /\ lease[p].pred = NoLease
  BY <1>0, <1>1, PromiseEnds
<1>3. lease' = [lease EXCEPT ![p] = old, ![s] = Blank]
  BY <1>0, <1>1, <1>2 DEF CancelSuccessor
<1>4. /\ old \in LeaseRecord /\ old.state = "retire_pending"
      /\ old.offset = lease[p].offset /\ old.bytes = lease[p].bytes
      /\ old.owns = lease[p].owns /\ old.pred = NoLease /\ old.succ = NoLease
  BY <1>1, <1>2 DEF LeaseRecord
<1> HIDE DEF old
<1>5. /\ lease'[p] = old /\ lease'[s] = Blank
      /\ \A m \in Leases \ {p, s} : lease'[m] = lease[m]
  BY <1>1, <1>2, <1>3
<1>6. OneOwnerPerByte'
  <2>1. Kept(s)
    BY <1>1, <1>5, BlankRecord DEF Listed, Kept
  <2>2. Kept(p)
    BY <1>2, <1>4, <1>5 DEF Listed, Kept
  <2>3. \A m \in Leases \ {p, s} : Kept(m)
    BY <1>5 DEF Listed, Kept
  <2> QED BY <1>1, <2>1, <2>2, <2>3, SameHoldings
<1>7. TypeOK' /\ Separated(free')
  BY <1>1, <1>2, <1>3, <1>4, BlankRecord DEF IInv, TypeOK
<1>8. PromisesExact' /\ PredecessorsNamed'
  BY <1>2, <1>4, <1>5, BlankRecord, PromiseDissolved
<1> QED BY <1>6, <1>7, <1>8 DEF IInv

\* A lease with a successor hands its range over when it is released.
LEMMA ReleaseToSuccessorStep ==
  ASSUME IInv, NEW l \in Leases, ReleaseToSuccessor(l)
  PROVE  IInv'
<1> USE NoLeaseAssumption
<1>0. PICK s \in Leases : s = lease[l].succ
  BY LeaseFields DEF ReleaseToSuccessor, IInv
<1> DEFINE got == [lease[s] EXCEPT !.state = "reserved", !.pred = NoLease]
<1>1. /\ lease \in [Leases -> LeaseRecord] /\ lease[l].succ # NoLease
      /\ UNCHANGED <<free, claims, reserved, earlier>> /\ NextEpoch
  BY DEF IInv, TypeOK, ReleaseToSuccessor
<1>2. s \in Leases /\ lease[l].succ = s
  BY <1>0
<1>3. lease[s].state = "successor_reserved" /\ lease[s].pred = l
  BY <1>2 DEF IInv, PromisesExact
<1>4. /\ l # s /\ lease[l].succ = s /\ lease[l].state = "retire_pending"
      /\ lease[l].owns /\ lease[s].owns /\ lease[s].succ = NoLease
      /\ lease[s].offset = lease[l].offset /\ lease[s].bytes = lease[l].bytes
  BY <1>2, <1>3, PromiseEnds
<1>5. lease' = [lease EXCEPT ![l] = Blank, ![s] = got]
  BY <1>1, <1>2, <1>4 DEF ReleaseToSuccessor
<1>6. /\ got \in LeaseRecord /\ got.state = "reserved" /\ got.owns
      /\ got.offset = lease[s].offset /\ got.bytes = lease[s].bytes
      /\ got.pred = NoLease /\ got.succ = NoLease
  <2>1. lease[s] \in LeaseRecord
    BY <1>1
  <2> QED BY <2>1, <1>4 DEF LeaseRecord, States
<1> HIDE DEF got
<1>7. /\ lease'[l] = Blank /\ lease'[s] = got
      /\ \A m \in Leases \ {l, s} : lease'[m] = lease[m]
  BY <1>1, <1>2, <1>4, <1>5
<1>8. OneOwnerPerByte'
  <2>1. /\ Owns(l) /\ ~ Listed(s) /\ ~ Listed(l)' /\ Owns(s)'
        /\ \A m \in Leases \ {l, s} : Kept(m)
    BY <1>3, <1>4, <1>6, <1>7, BlankRecord DEF Owns, Listed, Kept
  <2> QED BY <1>1, <1>2, <1>4, <1>6, <1>7, <2>1, HandOver
<1>9. epoch' \in 0..(EpochModulus - 1)
  BY <1>1, EpochAssumption DEF IInv, TypeOK, NextEpoch
<1>10. TypeOK' /\ Separated(free')
  BY <1>1, <1>2, <1>5, <1>6, <1>9, BlankRecord DEF IInv, TypeOK
<1>11. PromisesExact' /\ PredecessorsNamed'
  BY <1>2, <1>4, <1>6, <1>7, BlankRecord, PromiseDissolved
<1> QED BY <1>8, <1>10, <1>11 DEF IInv

\* The detached record of an acquired predecessor is recycled.
LEMMA ReleaseTransferredStep ==
  ASSUME IInv, NEW l \in Leases, ReleaseTransferred(l)
  PROVE  IInv'
<1>1. /\ lease \in [Leases -> LeaseRecord] /\ lease[l].state = "predecessor_transferred"
      /\ lease' = [lease EXCEPT ![l] = Blank]
      /\ UNCHANGED <<free, claims, reserved, earlier, epoch>>
  BY DEF IInv, TypeOK, ReleaseTransferred
<1>2. lease'[l] = Blank /\ \A m \in Leases \ {l} : lease'[m] = lease[m]
  BY <1>1
<1>3. OneOwnerPerByte'
  <2>1. \A m \in Leases : Kept(m)
    BY <1>1, <1>2, BlankRecord DEF Kept, Listed
  <2> QED BY <1>1, <2>1, SameHoldings
<1>4. TypeOK' /\ Separated(free')
  BY <1>1, BlankRecord DEF IInv, TypeOK
<1>5. PromisesExact' /\ PredecessorsNamed'
  <2>1. lease[l].succ = NoLease
    BY <1>1, FreeUnpromised
  <2> QED BY <1>1, <1>2, <2>1, BlankRecord, OutsidePromises
<1> QED BY <1>3, <1>4, <1>5 DEF IInv

\* A lease without a successor gives its range back, or stops borrowing.
LEMMA ReleaseLeaseStep ==
  ASSUME IInv, NEW l \in Leases, ReleaseLease(l)
  PROVE  IInv'
<1>1. /\ lease \in [Leases -> LeaseRecord] /\ Listed(l) /\ lease[l].succ = NoLease
      /\ lease' = [lease EXCEPT ![l] = Blank]
      /\ UNCHANGED <<claims, earlier>>
      /\ lease[l].bytes \in Nat /\ reserved \in Int
  BY LeaseFields DEF IInv, TypeOK, ReleaseLease
<1>2. lease'[l] = Blank /\ \A m \in Leases \ {l} : lease'[m] = lease[m]
  BY <1>1
<1>3. reserved' \in Int
  BY <1>1 DEF ReleaseLease
<1>4. PromisesExact' /\ PredecessorsNamed'
  BY <1>1, <1>2, BlankRecord, OutsidePromises DEF Listed
<1>5. ~ Listed(l)' /\ \A m \in Leases \ {l} : Kept(m)
  BY <1>2, BlankRecord DEF Kept, Listed
<1>6. CASE lease[l].owns
  <2>1. /\ free' = Give(free, Piece(lease[l].offset, lease[l].bytes))
        /\ NextEpoch
    BY <1>6 DEF ReleaseLease, Piece
  <2>2. Owns(l)
    BY <1>1, <1>6 DEF Owns
  <2>3. free' \in SUBSET Extent /\ Separated(free') /\ OneOwnerPerByte'
    BY <1>1, <1>5, <2>1, <2>2, GiveFromLease
  <2>4. epoch' \in 0..(EpochModulus - 1)
    BY <2>1, EpochAssumption DEF IInv, TypeOK, NextEpoch
  <2>5. TypeOK'
    BY <1>1, <1>3, <2>3, <2>4, BlankRecord DEF IInv, TypeOK
  <2> QED BY <1>4, <2>3, <2>5 DEF IInv
<1>7. CASE ~ lease[l].owns
  <2>1. UNCHANGED <<free, epoch>>
    BY <1>7 DEF ReleaseLease
  <2>2. ~ Owns(l) /\ ~ Owns(l)' /\ ~ Borrowed(l)'
    BY <1>5, <1>7 DEF Owns, Borrowed
  <2>3. OneOwnerPerByte'
    BY <1>1, <1>5, <2>1, <2>2, BorrowingChanges
  <2>4. TypeOK' /\ Separated(free')
    BY <1>1, <1>3, <2>1, BlankRecord DEF IInv, TypeOK
  <2> QED BY <1>4, <2>3, <2>4 DEF IInv
<1> QED BY <1>6, <1>7

\* Every operation of the pool preserves the invariant.
LEMMA NextPreserves == IInv /\ [Next]_vars => IInv'
<1> SUFFICES ASSUME IInv, [Next]_vars PROVE IInv'
  OBVIOUS
<1> USE SizesAssumption, AlignmentsAssumption, CapacityAssumption
<1>1. CASE Take
  <2>1. ASSUME NEW bytes \in Sizes, NEW alignment \in Alignments,
               ReserveSlice(bytes, alignment)
        PROVE  IInv'
    <3>1. PICK f \in BestFitLow(free, bytes, alignment) :
            /\ free' = Carve(free, f.range, f.at, bytes)
            /\ claims' = claims \cup {[offset |-> f.at, bytes |-> bytes]}
      BY <2>1 DEF ReserveSlice
    <3>2. free \in SUBSET Extent /\ bytes \in Nat \ {0} /\ alignment \in Nat \ {0}
      BY DEF IInv, TypeOK
    <3>3. /\ f.range \in free /\ f.at \in Nat /\ f.range.offset <= f.at
          /\ f.at + bytes <= End(f.range)
      BY <3>2, SelectedFits
    <3>4. UNCHANGED <<lease, reserved, earlier, epoch>>
      BY <2>1 DEF ReserveSlice
    <3> QED BY <3>1, <3>3, <3>4, ReserveSliceStep
  <2> QED BY <1>1, <2>1, ReserveLeaseStep, PromiseStep DEF Take
<1>2. CASE Borrow
  <2>1. ASSUME NEW bytes \in Sizes, NEW offset \in 0..Capacity, ReserveSliceAt(offset, bytes)
        PROVE  IInv'
    <3>1. PICK f \in FitAt(free, offset, bytes) :
            /\ free' = Carve(free, f.range, f.at, bytes)
            /\ claims' = claims \cup {[offset |-> f.at, bytes |-> bytes]}
      BY <2>1 DEF ReserveSliceAt
    <3>2. free \in SUBSET Extent /\ bytes \in Nat \ {0} /\ offset \in Nat
      BY DEF IInv, TypeOK
    <3>3. /\ f.range \in free /\ f.at = offset /\ f.range.offset <= f.at
          /\ f.at + bytes <= End(f.range)
      BY <3>2, FitAtFits
    <3>4. UNCHANGED <<lease, reserved, earlier, epoch>>
      BY <2>1 DEF ReserveSliceAt
    <3> QED BY <3>1, <3>2, <3>3, <3>4, ReserveSliceStep
  <2>2. ASSUME NEW bytes \in Sizes, NEW offset \in 0..Capacity, NEW l \in Leases,
               NEW c \in claims, AdoptBorrowed(l, c, offset, bytes)
        PROVE  IInv'
    <3>1. offset \in Nat
      OBVIOUS
    <3> QED BY <2>2, <3>1, AdoptBorrowedStep
  <2> QED BY <1>2, <2>1, <2>2, ReleaseSliceStep DEF Borrow
<1>3. CASE Retire
  BY <1>3, StateSteps, DependencyStep, SplitStep DEF Retire
<1>4. CASE Settle
  BY <1>4, StateSteps, AcquireSuccessorStep, CancelSuccessorStep,
     ReleaseTransferredStep, ReleaseToSuccessorStep, ReleaseLeaseStep DEF Settle
<1>5. CASE UNCHANGED vars
  <2>1. UNCHANGED <<free, lease, claims, reserved, earlier, epoch>>
    BY <1>5 DEF vars
  <2>2. TypeOK' /\ Separated(free') /\ PromisesExact' /\ PredecessorsNamed'
    BY <2>1 DEF IInv, TypeOK, PromisesExact, PredecessorsNamed
  <2>3. \A l \in Leases : Kept(l)
    BY <2>1 DEF Kept, Listed
  <2> QED BY <2>1, <2>2, <2>3, SameHoldings DEF IInv
<1> QED BY <1>1, <1>2, <1>3, <1>4, <1>5 DEF Next

\* A promised range is owned by somebody after every step: by the
\* predecessor, or by the successor that took it over.
LEMMA PromisedHasOwner ==
  ASSUME IInv, [Next]_vars, NEW s \in Leases, lease[s].state = "successor_reserved"
  PROVE  \E q \in Leases : /\ Owns(q)'
                           /\ lease'[q].offset = lease[s].offset
                           /\ lease'[q].bytes = lease[s].bytes
<1> USE NoLeaseAssumption
<1>0. PICK p \in Leases : p = lease[s].pred
  BY PromiseEnds
<1>1. /\ lease \in [Leases -> LeaseRecord]
      /\ p # s /\ lease[p].succ = s /\ lease[p].state = "retire_pending" /\ lease[p].owns
      /\ lease[s].offset = lease[p].offset /\ lease[s].bytes = lease[p].bytes
      /\ lease[s].owns /\ lease[s].succ = NoLease
  BY <1>0, PromiseEnds DEF IInv, TypeOK
<1>2. SUFFICES \/ /\ lease'[p].state = "retire_pending" /\ lease'[p].owns
                  /\ lease'[p].offset = lease[p].offset /\ lease'[p].bytes = lease[p].bytes
               \/ /\ lease'[s].state \in {"in_use", "reserved"} /\ lease'[s].owns
                  /\ lease'[s].offset = lease[s].offset /\ lease'[s].bytes = lease[s].bytes
  BY <1>1 DEF Owns, Listed
<1>3. ASSUME lease'[p] = lease[p]
      PROVE  /\ lease'[p].state = "retire_pending" /\ lease'[p].owns
             /\ lease'[p].offset = lease[p].offset /\ lease'[p].bytes = lease[p].bytes
  BY <1>1, <1>3
<1>4. CASE Take
  <2>1. ASSUME NEW l \in Leases, NEW bytes, NEW alignment, NEW placement,
               ReserveLease(l, bytes, alignment, placement)
        PROVE  lease'[p] = lease[p]
    BY <1>1, <2>1 DEF ReserveLease
  <2>2. ASSUME NEW q \in Leases, NEW r \in Leases, NEW bytes, NEW alignment,
               ReserveSuccessor(q, r, bytes, alignment)
        PROVE  lease'[p] = lease[p]
    BY <1>1, <2>2 DEF ReserveSuccessor, Selected, Candidate
  <2>3. ASSUME NEW bytes, NEW alignment, ReserveSlice(bytes, alignment)
        PROVE  lease'[p] = lease[p]
    BY <2>3 DEF ReserveSlice
  <2> QED BY <1>3, <1>4, <2>1, <2>2, <2>3 DEF Take
<1>5. CASE Borrow
  <2>1. lease'[p] = lease[p]
    BY <1>1, <1>5 DEF Borrow, ReserveSliceAt, AdoptBorrowed, ReleaseSlice
  <2> QED BY <1>3, <2>1
<1>6. CASE Retire
  <2>1. ASSUME NEW l \in Leases,
               \/ \E event, expected \in BOOLEAN : BeginRetirement(l, event, expected)
               \/ CancelRetirement(l)
               \/ \E q \in Leases, bytes \in Sizes : SplitRetiring(l, q, bytes)
        PROVE  lease'[p] = lease[p]
    BY <1>1, <2>1 DEF BeginRetirement, CancelRetirement, SplitRetiring
  <2>2. ASSUME NEW l \in Leases, PublishDependency(l) \/ WithdrawDependency(l)
        PROVE  /\ lease'[p].state = "retire_pending" /\ lease'[p].owns
               /\ lease'[p].offset = lease[p].offset /\ lease'[p].bytes = lease[p].bytes
    <3>1. lease[p] \in LeaseRecord
      BY <1>1
    <3>2. CASE l = p
      BY <1>1, <2>2, <3>1, <3>2 DEF PublishDependency, WithdrawDependency, LeaseRecord
    <3>3. CASE l # p
      <4>1. lease'[p] = lease[p]
        BY <1>1, <2>2, <3>3 DEF PublishDependency, WithdrawDependency
      <4> QED BY <1>1, <4>1
    <3> QED BY <3>2, <3>3
  <2> QED BY <1>3, <1>6, <2>1, <2>2 DEF Retire
<1>7. CASE Settle
  <2>1. ASSUME NEW l \in Leases,
               \/ MarkReserved(l) \/ AcquireReserved(l) \/ ReleaseTransferred(l)
               \/ ReleaseLease(l)
        PROVE  lease'[p] = lease[p]
    <3>1. l # p
      BY <1>1, <2>1 DEF MarkReserved, AcquireReserved, ReleaseTransferred, ReleaseLease
    <3> QED BY <1>1, <2>1, <3>1
            DEF MarkReserved, AcquireReserved, ReleaseTransferred, ReleaseLease
  <2>2. ASSUME NEW l \in Leases, AcquireSuccessor(l)
        PROVE  \/ lease'[p] = lease[p]
               \/ /\ lease'[s].state = "in_use" /\ lease'[s].owns
                  /\ lease'[s].offset = lease[s].offset /\ lease'[s].bytes = lease[s].bytes
    <3>1. PICK q \in Leases : q = lease[l].pred /\ lease[q].succ = l /\ q # l
      BY <2>2, PromiseEnds DEF AcquireSuccessor
    <3>2. lease' = [lease EXCEPT ![q] = Transferred(q), ![l].state = "in_use",
                                 ![l].pred = NoLease]
      BY <2>2, <3>1 DEF AcquireSuccessor
    <3>3. CASE l = s
      <4>1. q # s
        BY <3>1, <3>3
      <4>2. lease[s] \in LeaseRecord
        BY <1>1
      <4> QED BY <1>1, <3>2, <3>3, <4>1, <4>2 DEF LeaseRecord
    <3>4. CASE l # s
      <4>1. q # p /\ l # p
        BY <1>1, <2>2, <3>1, <3>4 DEF AcquireSuccessor
      <4> QED BY <1>1, <3>2, <4>1
    <3> QED BY <3>3, <3>4
  <2>3. ASSUME NEW l \in Leases, CancelSuccessor(l)
        PROVE  /\ lease'[p].state = "retire_pending" /\ lease'[p].owns
               /\ lease'[p].offset = lease[p].offset /\ lease'[p].bytes = lease[p].bytes
    <3>1. PICK q \in Leases : q = lease[l].pred /\ q # l
      BY <2>3, PromiseEnds DEF CancelSuccessor
    <3>2. lease' = [lease EXCEPT ![q].succ = NoLease, ![l] = Blank]
      BY <2>3, <3>1 DEF CancelSuccessor
    <3>3. l # p /\ lease[p] \in LeaseRecord
      BY <1>1, <2>3 DEF CancelSuccessor
    <3> QED BY <1>1, <3>2, <3>3 DEF LeaseRecord
  <2>4. ASSUME NEW l \in Leases, ReleaseToSuccessor(l)
        PROVE  \/ lease'[p] = lease[p]
               \/ /\ lease'[s].state = "reserved" /\ lease'[s].owns
                  /\ lease'[s].offset = lease[s].offset /\ lease'[s].bytes = lease[s].bytes
    <3>1. PICK q \in Leases : q = lease[l].succ
      BY <2>4, LeaseFields DEF ReleaseToSuccessor, IInv
    <3>2. lease' = [lease EXCEPT ![l] = Blank, ![q].state = "reserved", ![q].pred = NoLease]
      BY <2>4, <3>1 DEF ReleaseToSuccessor
    <3>3. q # l /\ lease[q].state = "successor_reserved"
      BY <3>1 DEF IInv, PromisesExact
    <3>4. CASE l = p
      <4>1. q = s /\ lease[s] \in LeaseRecord
        BY <1>1, <3>1, <3>4
      <4> QED BY <1>1, <3>2, <3>3, <3>4, <4>1 DEF LeaseRecord
    <3>5. CASE l # p
      <4>1. q # p
        BY <1>1, <3>3
      <4> QED BY <1>1, <3>2, <3>5, <4>1
    <3> QED BY <3>4, <3>5
  <2> QED BY <1>3, <1>7, <2>1, <2>2, <2>3, <2>4 DEF Settle
<1>8. CASE UNCHANGED vars
  BY <1>3, <1>8 DEF vars
<1> QED BY <1>4, <1>5, <1>6, <1>7, <1>8 DEF Next

-----------------------------------------------------------------------------
(***************************************************************************)
(* The fields of the pool and of its leases keep their types on every run. *)
(***************************************************************************)
THEOREM PoolTypeCorrect == Spec => []TypeOK
<1>1. IInv => TypeOK
  BY DEF IInv
<1> QED BY InitEstablishes, NextPreserves, <1>1, PTL DEF Spec

(***************************************************************************)
(* Every byte of the pool has exactly one owner, whatever sequence of      *)
(* reservations, splits, handoffs, slices and releases leases.c and        *)
(* causal.c run through: two leases never own a byte, no byte is lost, and *)
(* a borrowed lease lies in a slice that is still reserved.                *)
(***************************************************************************)
THEOREM PoolOneOwnerPerByte == Spec => []OneOwnerPerByte
<1>1. IInv => OneOwnerPerByte
  BY DEF IInv
<1> QED BY InitEstablishes, NextPreserves, <1>1, PTL DEF Spec

(***************************************************************************)
(* Promises of causal.c are exclusive and exact on every run: a waiting    *)
(* successor and its retiring predecessor name each other and the same     *)
(* range.                                                                  *)
(***************************************************************************)
THEOREM PoolPromisesExact == Spec => []PromisesExact
<1>1. IInv => PromisesExact
  BY DEF IInv
<1> QED BY InitEstablishes, NextPreserves, <1>1, PTL DEF Spec

(***************************************************************************)
(* No step puts a byte of a promised range on the free list: the range     *)
(* goes from the predecessor to the successor without a moment in which    *)
(* another request could take it (release_lease_locked, acquire and cancel *)
(* of causal.c).                                                           *)
(***************************************************************************)
THEOREM PoolPromisedNeverFreed == Spec => PromisedNeverFreed
<1>1. IInv /\ IInv' /\ [Next]_vars =>
        [\A s \in Leases :
           lease[s].state = "successor_reserved" =>
             ~ \E r \in free' : ~ Disjoint(r, lease[s])]_vars
  <2> SUFFICES ASSUME IInv, IInv', [Next]_vars, NEW s \in Leases,
                      lease[s].state = "successor_reserved", NEW r \in free'
               PROVE  Disjoint(r, lease[s])
    OBVIOUS
  <2>1. PICK q \in Leases : /\ Owns(q)'
                            /\ lease'[q].offset = lease[s].offset
                            /\ lease'[q].bytes = lease[s].bytes
    BY PromisedHasOwner
  <2>2. Disjoint(r, lease'[q])
    <3>1. /\ lease'[q].offset \in Nat /\ lease'[q].bytes \in Nat
          /\ End(lease'[q]) = lease'[q].offset + lease'[q].bytes
      BY DEF IInv, TypeOK, LeaseRecord, End
    <3>2. lease'[q].bytes > 0 /\ End(lease'[q]) <= Capacity
      BY <2>1 DEF IInv, OneOwnerPerByte
    <3>3. r.offset \in Nat /\ End(r) \in Nat /\ r.offset < End(r)
      BY EndOfExtent DEF IInv, TypeOK
    <3>4. \A u \in 0..(Capacity - 1) : ~ (Covers(lease'[q], u) /\ Covers(r, u))
      BY <2>1 DEF IInv, OneOwnerPerByte, FreeUnit, HeldBy
    <3> QED BY <3>1, <3>2, <3>3, <3>4, NoCommonByte
  <2> QED BY <2>1, <2>2 DEF Disjoint, End
<1> QED BY InitEstablishes, NextPreserves, <1>1, PTL DEF Spec, PromisedNeverFreed
=============================================================================
