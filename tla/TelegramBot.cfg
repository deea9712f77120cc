\* Updates, candidates and tasks with two of: a crash, a failing call, a mail.
CONSTANTS
    None = None
    Mail = Mail
    MaxUpdates = 3
    Messages = {"text", "new"}
    CandidateActions = {"create", "edit", "ignore"}
    TaskActions = {"done", "status"}
    Patient = FALSE
    Budgets <- TwoTroubles
SPECIFICATION FairSpec
INVARIANTS TypeOK OnlyFailedIsLost OneTaskPerOrigin CandidateLinked EffectsAccounted
PROPERTIES EveryUpdateEnds
CHECK_DEADLOCK FALSE
