\* Nothing fails, and the owner waits for the bot.
CONSTANTS
    None = None
    Mail = Mail
    MaxUpdates = 6
    Messages = {"text"}
    CandidateActions = {"create", "edit"}
    TaskActions = {}
    Patient = TRUE
    Budgets <- NoTrouble
SPECIFICATION Spec
INVARIANTS ConfirmedBecomesTask
CHECK_DEADLOCK FALSE
