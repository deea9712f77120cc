\* A deadline in quiet hours.
CONSTANTS
    None = None
    Day = 5
    Hours3 = 3
    Hours2 = 2
    Hour = 1
    Grace = 0
    QuietStart = 3
    QuietEnd = 1
    BatchLimit = 50
    MaxTime = 9
    Punctual <- Undisturbed
    Callbacks = {1}
    SnoozeDelays = {2}
    RETRY_DELAYS <- Delays
    Budgets <- Undisturbed
    Versions <- DeadlineVersions
SPECIFICATION Spec
PROPERTIES DeferredIsKept
CHECK_DEADLOCK FALSE
