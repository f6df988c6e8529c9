\* A key found only in the keyring, and a writer that makes one over it.
SPECIFICATION Spec
CONSTANTS
  Callers = {c1, c2}
  Keys = {k1, k2}
  NoKey = NoKey
INVARIANT RecoveredIsPersisted
CHECK_DEADLOCK FALSE
