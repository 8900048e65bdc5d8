CONSTANTS
  t1 = t1
  t2 = t2
  Readers <- TwoReaders
  Capacity = 2
  MaxBurst = 3
  MaxBytes = 4
  MaxSessions = 3
SPECIFICATION Spec
INVARIANT NoLostWakeup
PROPERTY ImplementsPort
