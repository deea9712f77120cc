\* No fault: an event is created, and the bot moves the due date.
CONSTANTS
    s1 = s1  s2 = s2
    None = None
    Sessions = {s1, s2}
    Dues = {3, 5}
    Starts = {None}
    Half = 1
    Windows <- NothingAsked
    Budgets <- Faultless
SPECIFICATION Spec
INVARIANTS LinkedFollowsDue
CHECK_DEADLOCK FALSE
