\* Two sessions state the same version.
CONSTANTS
    t1 = t1  t2 = t2  s1 = s1  s2 = s2  k1 = k1  k2 = k2  k3 = k3  d1 = d1
    None = None
    Sessions = {s1, s2}
    Keys = {k1, k2, k3}
    Tasks = {t1}
    Dues = {d1}
    Requests <- ChangeRequests
    OneKeyOneOperation = TRUE
    MaxAttempts = 2
SPECIFICATION Spec
SYMMETRY Interchangeable
INVARIANTS OptimisticLock
CHECK_DEADLOCK FALSE
