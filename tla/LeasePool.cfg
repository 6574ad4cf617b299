SPECIFICATION Spec
CONSTANTS
  Leases = {l1, l2, l3}
  NoLease = NoLease
  Capacity = 3
  Sizes = {1, 2}
  Alignments = {1, 2}
  MaxClaims = 1
  EpochModulus = 2
SYMMETRY LeaseSymmetry
INVARIANTS
  OneOwnerPerByte
  PromisesExact
PROPERTIES
  PromisedNeverFreed
