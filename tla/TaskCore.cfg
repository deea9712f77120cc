\* Two sessions create, change and finish tasks, overlapping or in turn.
CONSTANTS
    t1 = t1  t2 = t2  s1 = s1  s2 = s2  k1 = k1  k2 = k2  k3 = k3  d1 = d1
    None = None
    Sessions = {s1, s2}
    Keys = {k1, k2, k3}
    Tasks = {t1, t2}
    Dues = {d1}
    Requests <- AllRequests
    OneKeyOneOperation = FALSE
    MaxAttempts = 2
SPECIFICATION WorkloadSpec
INVARIANTS TypeOK TaskHasItsCreation ConfirmedOnce AuditCoversVersion SerialVersionCounts SerialAuditReplays SerialCompletion
PROPERTIES EveryRequestEnds AuditTrail UpdatesKeepFinished ImplementsLedger
CHECK_DEADLOCK FALSE
