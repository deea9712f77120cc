\* Planning and delivery while the task is edited, Telegram fails and the worker
\* crashes, or while the task is snoozed.
CONSTANTS
    None = None
    Day = 5
    Hours3 = 3
    Hours2 = 2
    Hour = 1
    Grace = 0
    QuietStart = 3
    QuietEnd = 1
    BatchLimit = 50
    MaxTime = 7
    Punctual <- SnoozedOnly
    Callbacks = {1}
    SnoozeDelays = {2}
    RETRY_DELAYS <- Delays
    Budgets <- EditedOrSnoozed
    Versions <- AllVersions
SPECIFICATION Spec
INVARIANTS TypeOK DeliveryAccounted PlanMatchesTask
PROPERTIES OutcomeIsFinal SilenceAfterFinish SnoozeHolds
CHECK_DEADLOCK FALSE
