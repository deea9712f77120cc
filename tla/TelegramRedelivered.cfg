\* The process dies once, and the owner waits for the bot.
CONSTANTS
    None = None
    Mail = Mail
    MaxUpdates = 3
    Messages = {"text", "new"}
    CandidateActions = {}
    TaskActions = {"title"}
    Patient = TRUE
    Budgets <- OneCrash
SPECIFICATION Spec
INVARIANTS EditAppliedOnce
CHECK_DEADLOCK FALSE
