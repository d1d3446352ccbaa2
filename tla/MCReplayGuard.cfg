SPECIFICATION GuardSpec
CONSTANTS
  Session = {s1, s2}
  Nonce = {n1, n2, n3, n4}
  MaxSeq = 3
  NONCE_WINDOW = 2
SYMMETRY Symmetry
CHECK_DEADLOCK FALSE
INVARIANTS GuardTypeOK AdmittedInOrder NonceWindowHolds WindowCoherent
