SPECIFICATION Spec
CONSTANTS
  Leaves = {1, 2, 3}
  MaxLeaves = 5
  H <- Pairing
INVARIANTS
  TypeOK
  ProofsReachRoot
  InStep
  WrongLeafFails
  ProofsAreHigh
