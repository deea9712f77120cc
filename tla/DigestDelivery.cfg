\* Two workers, two days of two minutes: the evening and the weekly review
\* share a minute on the second day.
CONSTANTS
    w1 = w1
    w2 = w2
    Worker = {w1, w2}
    DayLength = 2
    WeekLength = 2
    ZoneOffset = 1
    MorningTime = 0
    EveningTime = 1
    WeeklyDay = 2
    MaxTime = 4
    MaxFaults = 2
    None = None
SPECIFICATION Spec
SYMMETRY WorkerSymmetry
INVARIANTS TypeOK SentOncePerDate RecordedWasSent WindowDelivers EveningTellsWhatIsDue MorningHidesNothingDue
CHECK_DEADLOCK FALSE
