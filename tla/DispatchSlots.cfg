CONSTANTS
  Requests = {r1, r2, r3}
  Accounts = {a1}
  SlotIds = {s1, s2}
  MaxLimit = 2
  NoSlot = NoSlot
  NoAccount = NoAccount
SYMMETRY RequestSymmetry
SPECIFICATION Spec
INVARIANTS TypeOK CapacityNotLost ExactUntilDisturbed AdmissionBounded
PROPERTY SemaphoreSpec
