\* Two sessions, faults, and a change by the bot.
CONSTANTS
    s1 = s1  s2 = s2
    None = None
    Sessions = {s1, s2}
    Dues = {3, 5, None}
    Starts = {None}
    Half = 1
    Windows <- Asked
    Budgets <- Faulty
SPECIFICATION Spec
SYMMETRY Interchangeable
INVARIANTS TypeOK EventsAccounted DivergenceIsTold
CHECK_DEADLOCK FALSE
