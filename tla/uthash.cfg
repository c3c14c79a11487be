SPECIFICATION Spec
CONSTANTS
  e1 = e1
  e2 = e2
  e3 = e3
  e4 = e4
  e5 = e5
  e6 = e6
  Nil = Nil
  Elem = {e1, e2, e3, e4, e5, e6}
  KeyOf <- Keys
  Hash <- Hashes
  InitBuckets = 1
  Thresh = 1
  MaxBuckets = 32
INVARIANTS Fsck FindsWhatIsThere NewestSince
PROPERTY Implements
