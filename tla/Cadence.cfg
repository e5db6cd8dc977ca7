CONSTANTS
  Instances = {i1, i2}
  Environment <- FromEnvironment
  Offered <- SaveAttempts
  MaxBurst = 2
  MaxLate = 1
  MaxTime = 10
SYMMETRY SameInstances
SPECIFICATION Spec
INVARIANTS
  CadenceTypeOK
  BurstsBounded
PROPERTIES
  SendsSpaced
