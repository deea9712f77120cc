---------------------------- MODULE DigestContent ----------------------------
(***************************************************************************)
(* What a digest tells its owner (app/jobs/digest.py): the sections of the *)
(* morning digest and the evening review as functions of the tasks that    *)
(* were loaded and of the current time.                                    *)
(*                                                                         *)
(* An instant is a minute in UTC; a day of the owner's zone begins         *)
(* ZoneOffset minutes before the day of UTC.  A deadline is an instant     *)
(* (due_at), a day of the owner's zone (due_date), both or neither.        *)
(***************************************************************************)
EXTENDS Integers, Sequences, FiniteSets

CONSTANTS
    DayLength,   \* minutes of a day
    ZoneOffset,  \* the owner's zone: minutes ahead of UTC
    MaxTime,     \* bound: minutes
    None         \* no deadline, no digest

Time == 0..MaxTime
LocalDate(t) == (t + ZoneOffset) \div DayLength
Date == 0..LocalDate(MaxTime)

ASSUME ClockAssumption ==
    /\ DayLength \in Nat \ {0}
    /\ {ZoneOffset, MaxTime} \subseteq Nat
    /\ None \notin Time \cup Date

RisksShown == 3
OpenShown == 10

Finished == {"DONE", "CANCELLED"}

\* A loaded task; its place in the sequence of tasks is its identity.
Task == [status : {"NEW", "UNKNOWN_PARTY", "DONE", "CANCELLED"},
         type : {"MY_TASK", "DELEGATED", "AWAITING"},
         priority : {"P1", "P3"},
         due_at : Time \cup {None},
         due_date : Date \cup {None}]

-----------------------------------------------------------------------------
\* Deadlines.

\* Variant: the day of the instant in UTC.
LocalDueDateUTC(task) ==
    CASE task.due_date # None -> task.due_date
      [] task.due_date = None /\ task.due_at # None -> task.due_at \div DayLength
      [] OTHER -> None
LocalDueDate(task) ==
    CASE task.due_date # None -> task.due_date
      [] task.due_date = None /\ task.due_at # None -> LocalDate(task.due_at)
      [] OTHER -> None

IsOverdue(task, now) ==
    \/ task.due_at # None /\ task.due_at < now
    \/ LocalDueDate(task) # None /\ LocalDueDate(task) < LocalDate(now)

IsDueToday(task, now) == LocalDueDate(task) = LocalDate(now)

Open(tasks) == {i \in DOMAIN tasks : tasks[i].status \notin Finished}

\* The first n of a set of tasks, in the order they were loaded.
FirstOf(n, set) == {i \in set : Cardinality({j \in set : j < i}) < n}

-----------------------------------------------------------------------------
\* The digests: each section is a set of tasks.

IsRisk(task, now) ==
    task.priority = "P1" \/ IsOverdue(task, now) \/ task.status = "UNKNOWN_PARTY"

Risks(tasks, now) ==
    FirstOf(RisksShown, {i \in Open(tasks) : IsRisk(tasks[i], now)})

\* Variant: a risk is left out of the later sections, shown or not.
RestOfUncut(tasks, now) == {i \in Open(tasks) : ~ IsRisk(tasks[i], now)}
RestOf(tasks, now) == Open(tasks) \ Risks(tasks, now)

MorningDigest(tasks, now) ==
    LET rest == RestOf(tasks, now) IN
    [risks |-> Risks(tasks, now),
     today |-> {i \in rest : IsDueToday(tasks[i], now)},
     delegated |-> {i \in rest : tasks[i].type = "DELEGATED"},
     waiting |-> {i \in rest : tasks[i].type = "AWAITING"}]

\* With nothing due and nothing awaited, the review lists the first open tasks.
EveningReview(tasks, now) ==
    LET overdue == {i \in Open(tasks) : IsOverdue(tasks[i], now)}
        today == {i \in Open(tasks) : IsDueToday(tasks[i], now)} \ overdue
        waiting == {i \in Open(tasks) : tasks[i].type = "AWAITING"}
                   \ (overdue \cup today)
        listed == overdue \cup today \cup waiting
    IN  [overdue |-> overdue, today |-> today, waiting |-> waiting,
         open |-> IF listed = {} THEN FirstOf(OpenShown, Open(tasks)) ELSE {}]

\* The list behind the button under a digest, TaskService.list_overdue: it
\* knows no due_date.
OverdueButton(tasks, now) ==
    {i \in Open(tasks) : tasks[i].due_at # None /\ tasks[i].due_at < now}

-----------------------------------------------------------------------------
\* What the owner relies on, for every task and at every instant.

\* The last minute of each deadline of a task.
Deadlines(task) ==
    ({task.due_at} \ {None})
    \cup {(d + 1) * DayLength - ZoneOffset - 1 : d \in {task.due_date} \ {None}}

AgreeingDeadlines(task) ==
    None \in {task.due_at, task.due_date} \/ LocalDate(task.due_at) = task.due_date

\* The rule of DATABASE_SCHEMA.md (section 11) for an unfinished task.
PastDue(task, now) == task.due_at # None /\ task.due_at < now

\* The deadlines about which code and rule agree: not a day alone that has
\* passed, which the code calls overdue and the rule does not, nor an instant
\* that contradicts the day beside it.
Undisputed(task, now) ==
    /\ AgreeingDeadlines(task)
    /\ task.due_at = None /\ task.due_date # None => task.due_date >= LocalDate(now)

\* The evening review lists an open task in one section when it is the only
\* one, and nothing finished.  Where its deadlines are undisputed, it is listed
\* as overdue exactly by the documented rule, and otherwise as due today exactly
\* when a deadline falls on this day of the owner's zone.  The button under
\* the digest shows as overdue only what the review does.
EveningListsWhatIsDue ==
    \A task \in Task, now \in Time :
        LET review == EveningReview(<<task>>, now)
            sections == {s \in DOMAIN review : 1 \in review[s]}
            dueToday == \E d \in Deadlines(task) : LocalDate(d) = LocalDate(now)
        IN  IF task.status \in Finished THEN sections = {}
            ELSE /\ Cardinality(sections) = 1
                 /\ Undisputed(task, now) =>
                        /\ "overdue" \in sections <=> PastDue(task, now)
                        /\ "today" \in sections <=> dueToday /\ ~ PastDue(task, now)
                 /\ OverdueButton(<<task>>, now) \subseteq review.overdue

\* The morning digest shows three risks at most, and that limit hides no task
\* which is due today, delegated or awaited: however many risks are listed
\* before it, such a task is in one of the sections.
Urgent == [status |-> "NEW", type |-> "MY_TASK", priority |-> "P1",
           due_at |-> None, due_date |-> None]
MorningShowsWhatIsDue ==
    \A task \in Task, now \in Time, before \in 0..(RisksShown + 1) :
        LET tasks == Append([i \in 1..before |-> Urgent], task)
            digest == MorningDigest(tasks, now)
            shown == UNION {digest[s] : s \in DOMAIN digest}
        IN  /\ Cardinality(digest.risks) <= RisksShown
            /\ task.status \in Finished => before + 1 \notin shown
            /\ /\ task.status \notin Finished
               /\ \/ task.type # "MY_TASK"
                  \/ \E d \in Deadlines(task) : LocalDate(d) = LocalDate(now)
               /\ AgreeingDeadlines(task)
               => before + 1 \in shown
=============================================================================
