\* Due reminders are handled, and the lasting ones sent: every quiet hour ends
\* before the last tick.
CONSTANTS
    None = None
    Day = 5
    Hours3 = 3
    Hours2 = 2
    Hour = 1
    Grace = 0
    QuietStart = 3
    QuietEnd = 1
    BatchLimit = 1
    MaxTime = 7
    Punctual = {}
    Callbacks = {1}
    SnoozeDelays = {2}
    RETRY_DELAYS <- Delays
    Budgets <- TroubledOnly
    Versions <- AwaitingVersions
SPECIFICATION FairSpec
PROPERTIES DueIsHandled LastingReachUser
CHECK_DEADLOCK FALSE
