\* Two mails, the loop and a manual poll.
CONSTANTS
    loop = loop
    manual = manual
    Message = {1, 2}
    Filtered = {1}
    Cooldown = 1
    Poller = {loop, manual}
    Loop = loop
    MaxTime = 1
    Budget <- TwoPolls
    None = None
SPECIFICATION Spec
INVARIANTS TypeOK CandidateShownOrFlagged ShownOnce NothingLeftBehind
PROPERTIES EveryPollEnds MailIsHandled
CHECK_DEADLOCK FALSE
