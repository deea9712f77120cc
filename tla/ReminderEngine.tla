--------------------------- MODULE ReminderEngine ---------------------------
(***************************************************************************)
(* The Reminder Engine (app/jobs/reminders.py): the worker's loop that     *)
(* plans the reminders of a task and delivers the due ones to Telegram,    *)
(* next to the bot and the API, which edit, finish and snooze the task.    *)
(*                                                                         *)
(* The module follows one task: the planner treats tasks independently,    *)
(* and the reminders of one task are enough to make a batch.  A loop       *)
(* iteration is two transactions.  Planning reads the task, then its       *)
(* reminders, and commits what it changed.  Delivery reads the due         *)
(* reminders, sends them one by one, and commits all outcomes at the end.  *)
(* A commit writes only the columns that differ from the loaded ones (the  *)
(* ORM's UPDATE), so what other sessions committed in between is partly    *)
(* overwritten.                                                            *)
(*                                                                         *)
(* Time advances in ticks longer than the engine's one-minute grace and no *)
(* longer than its shortest retry delay; Day, Hours2 ... give the code's   *)
(* durations in ticks.                                                     *)
(***************************************************************************)
EXTENDS Integers, Sequences, FiniteSets

CONSTANTS
    Day, Hours3, Hours2, Hour, \* timedelta(days=1), (hours=3), 2 and 1
    RETRY_DELAYS,        \* ticks until the second, third ... attempt
    Grace,               \* timedelta(minutes=1)
    QuietStart, QuietEnd, \* quiet hours, in ticks after local midnight
    BatchLimit,          \* send_due_reminders' limit
    Versions,            \* the contents the task may get: due, priority, type
    SnoozeDelays,        \* how far a user snoozes
    Callbacks,           \* presses of "remind me tomorrow" on a follow-up
    MaxTime,             \* bound: ticks
    Budgets,             \* bounds: how often each kind of outside event happens
                         \* in a behaviour
    Punctual,            \* those under which the loop (30 s) ends an iteration
                         \* in every tick
    None                 \* no row, no task loaded, no session

MAX_ATTEMPTS == 3
Never == -1   \* before the first tick

Time == 0..MaxTime
Priority == {"P1", "P2", "P3", "P4"}
Version == [due : Time \cup {None}, priority : Priority, awaiting : BOOLEAN]
Events == {"edit", "snooze", "manual", "failure", "fault"}

ASSUME ConstantsAssumption ==
    /\ {Day, Hours3, Hours2, Hour} \subseteq Nat \ {0}
    /\ RETRY_DELAYS \in Seq(Nat \ {0}) /\ RETRY_DELAYS # <<>>
    /\ {QuietStart, QuietEnd} \subseteq 0..(Day - 1)
    /\ {Grace, BatchLimit, MaxTime} \subseteq Nat /\ BatchLimit > 0
    /\ SnoozeDelays \subseteq Nat
    /\ Versions \subseteq Version
    /\ Budgets \subseteq [Events -> Nat] /\ Punctual \subseteq Budgets

-----------------------------------------------------------------------------
\* Reminder policy.

\* A dedupe key: policy reminders are keyed by type, daily ones by date too,
\* manual ones by their time, repeated follow-ups by the callback's id.
PolicyType == {"PRE_DEADLINE_3D", "PRE_DEADLINE_1D", "PRE_DEADLINE_3H",
               "DEADLINE", "OVERDUE_2H", "OVERDUE", "OVERDUE_1D",
               "AWAITING_FOLLOW_UP"}
DateOf(t) == t \div Day
PolicyKey == (PolicyType \X {0}) \cup ({"OVERDUE_DAILY"} \X (0..DateOf(MaxTime)))
Key == PolicyKey \cup ({"STATUS_CHECK"} \X (0..(MaxTime + Hour)))
                 \cup ({"FOLLOW_UP_AGAIN"} \X Callbacks)

Offset(type) ==
    CASE type = "PRE_DEADLINE_3D" -> -(3 * Day)
      [] type = "PRE_DEADLINE_1D" -> -Day
      [] type = "PRE_DEADLINE_3H" -> -Hours3
      [] type = "DEADLINE" -> 0
      [] type \in {"OVERDUE_2H", "OVERDUE"} -> Hours2
      [] OTHER -> Day    \* OVERDUE_1D, AWAITING_FOLLOW_UP

PolicyTypes(priority) ==
    CASE priority = "P1" -> {"PRE_DEADLINE_3D", "PRE_DEADLINE_1D",
                             "PRE_DEADLINE_3H", "DEADLINE", "OVERDUE_2H"}
      [] priority = "P2" -> {"PRE_DEADLINE_1D", "DEADLINE", "OVERDUE"}
      [] priority = "P3" -> {"DEADLINE", "OVERDUE_1D"}
      [] OTHER -> {}

Later(a, b) == IF a > b THEN a ELSE b

\* Types that stay wanted when their time has passed.  (Variant: only P2's.)
LastingP2 == {"OVERDUE"}
Lasting == {"OVERDUE", "OVERDUE_1D"}

\* The reminders a task should have at cur, with their times.
ReminderSpecs(t, cur) ==
    IF ~t.active \/ t.due = None \/ t.priority = "P4" THEN {}
    ELSE {[key |-> <<type, 0>>, at |-> Later(t.due + Offset(type), cur)] :
            type \in {x \in PolicyTypes(t.priority) :
                        t.due + Offset(x) >= cur - Grace \/ x \in Lasting}}
      \cup {[key |-> <<"OVERDUE_DAILY", DateOf(cur)>>, at |-> cur] :
              x \in {y \in {t.priority} :
                       DateOf(cur) > DateOf(t.due) + (IF y = "P3" THEN 1 ELSE 0)}}
      \cup {[key |-> <<"AWAITING_FOLLOW_UP", 0>>, at |-> Later(t.due + Day, cur)] :
              x \in {y \in {t.awaiting} : y}}

Wanted(t, cur) == {spec.key : spec \in ReminderSpecs(t, cur)}
SpecTime(t, cur, k) ==
    (CHOOSE spec \in ReminderSpecs(t, cur) : spec.key = k).at

\* Quiet hours, which may span midnight.
Quiet(t) ==
    LET local == t % Day
    IN  IF QuietStart < QuietEnd THEN QuietStart <= local /\ local < QuietEnd
        ELSE local >= QuietStart \/ local < QuietEnd
QuietUntil(t) ==
    LET target == Day * DateOf(t) + QuietEnd
    IN  IF target <= t THEN target + Day ELSE target

-----------------------------------------------------------------------------
\* State.

Task == [active : BOOLEAN, due : Time \cup {None}, priority : Priority,
         awaiting : BOOLEAN]
Row == [status : {"PENDING", "RETRY", "SENT", "FAILED", "CANCELLED"},
        at : Nat, attempts : Nat]
Open(r) == r # None /\ r.status \in {"PENDING", "RETRY"}

ASSUME NoneAssumption == None \notin Row

VARIABLES
    now,       \* the clock
    task,      \* tasks: the committed row
    rem,       \* reminders: the committed row of each dedupe key
    pc,        \* worker: the next step of the loop
    cur,       \* worker: the `now` the current half of the iteration took
    loadedTask, \* worker: the task its session has loaded
    loaded,    \* worker: the reminders as its session loaded them
    mem,       \* worker: the same reminders, with its uncommitted changes
    batch,     \* worker: reminders it still has to send
    snoozer,   \* a session that snoozes: the rows it loaded and its `until`
    budget,    \* the behaviour's bounds on outside events, what is left of them
    delivered, \* history: messages the user received for each reminder
    snoozed,   \* history: the time of the reminder's last snooze, unless a worker
               \* transaction overlapped it
    finished   \* history: the task was finished when the batch was selected

worker == <<pc, cur, loadedTask, loaded, mem, batch>>
history == <<delivered, snoozed, finished>>
vars == <<now, task, rem, pc, cur, loadedTask, loaded, mem, batch, snoozer,
          budget, delivered, snoozed, finished>>

NoRows == [k \in Key |-> None]

Init ==
    /\ now = 0
    /\ \E v \in Versions : task = [active |-> TRUE, due |-> v.due,
                                   priority |-> v.priority, awaiting |-> v.awaiting]
    /\ rem = NoRows
    /\ pc = "plan"
    /\ cur = Never
    /\ loadedTask = None
    /\ loaded = NoRows
    /\ mem = NoRows
    /\ batch = {}
    /\ snoozer = None
    /\ budget \in {[limit |-> b, left |-> b] : b \in Budgets}
    /\ delivered = [k \in Key |-> 0]
    /\ snoozed = [k \in Key |-> 0]
    /\ finished = FALSE

Spend(event) ==
    /\ budget.left[event] > 0
    /\ budget' = [budget EXCEPT !.left[event] = @ - 1]
Used(event) == budget.limit[event] - budget.left[event]
Unedited == Used("edit") = 0
Unsnoozed == Used("snooze") = 0

\* The UPDATE of a session that loaded `old` and holds `new`, on `current`.
Flush(current, old, new) ==
    IF old = None THEN current
    ELSE [status |-> IF new.status = old.status THEN current.status ELSE new.status,
          at |-> IF new.at = old.at THEN current.at ELSE new.at,
          attempts |-> IF new.attempts = old.attempts THEN current.attempts
                       ELSE new.attempts]

\* (Variant: the default status of a task, not of a reminder.)
NewRowAsTask(at) == [status |-> "NEW", at |-> at, attempts |-> 0]
NewRow(at) == [status |-> "PENDING", at |-> at, attempts |-> 0]

-----------------------------------------------------------------------------
\* plan_reminders.

PlanTask ==
    /\ pc = "plan"
    /\ pc' = "planRows"
    /\ cur' = now
    /\ loadedTask' = task
    /\ UNCHANGED <<now, task, rem, loaded, mem, batch, snoozer, budget, history>>

PlanRows ==
    /\ pc = "planRows"
    /\ pc' = "planCommit"
    /\ loaded' = rem
    /\ UNCHANGED <<now, task, rem, cur, loadedTask, mem, batch, snoozer, budget,
                   history>>

\* Rows that are cancelled when they are not wanted.  (Variant: retries stay.)
OpenPending(old) == old.status = "PENDING"
Cancellable(old) == old.status \in {"PENDING", "RETRY"}

\* Rows that are reopened when they are wanted.  (Variant: every finished row.)
Finished(old) == old.status \in {"CANCELLED", "SENT", "FAILED"}
Revivable(old) == old.status = "CANCELLED"

\* Rows that get the policy's time.  (Variant: not only the earlier ones.)
Elsewhere(old, at) == old.status = "PENDING" /\ old.at # at
TooEarly(old, at) == old.status = "PENDING" /\ old.at < at

\* What planning makes of one loaded row.
Planned(k, old) ==
    LET wanted == k \in Wanted(loadedTask, cur)
        at == SpecTime(loadedTask, cur, k)
    IN  IF k \in PolicyKey /\ ~wanted /\ Cancellable(old)
        THEN [old EXCEPT !.status = "CANCELLED"]
        ELSE IF wanted /\ Revivable(old)
        THEN [old EXCEPT !.status = "PENDING", !.at = at]
        ELSE IF wanted /\ TooEarly(old, at)
        THEN [old EXCEPT !.at = at]
        ELSE old

\* Missing rows are inserted ON CONFLICT DO NOTHING.
PlanCommit ==
    /\ pc = "planCommit"
    /\ rem' = [k \in Key |->
           IF loaded[k] # None THEN Flush(rem[k], loaded[k], Planned(k, loaded[k]))
           ELSE IF rem[k] = None /\ k \in Wanted(loadedTask, cur)
           THEN NewRow(SpecTime(loadedTask, cur, k))
           ELSE rem[k]]
    /\ pc' = "select"
    /\ loaded' = NoRows
    /\ UNCHANGED <<now, task, cur, loadedTask, mem, batch, snoozer, budget, history>>

-----------------------------------------------------------------------------
\* send_due_reminders.

\* (Variant: retries are forgotten.)
PendingDue(t) == {k \in Key : rem[k] # None /\ rem[k].status = "PENDING" /\ rem[k].at <= t}
Due(t) == {k \in Key : Open(rem[k]) /\ rem[k].at <= t}

\* The open reminders that are due, the earliest first, up to the limit.
DueBatches(t) ==
    LET due == Due(t)
    IN  {b \in SUBSET due :
            /\ Cardinality(b) = IF Cardinality(due) < BatchLimit
                                THEN Cardinality(due) ELSE BatchLimit
            /\ \A k \in b, l \in due \ b : rem[k].at <= rem[l].at}

Select ==
    /\ pc = "select"
    /\ pc' = "send"
    /\ cur' = now
    /\ loadedTask' = None
    /\ \E b \in DueBatches(now) :
           /\ batch' = b
           /\ loaded' = [k \in Key |-> IF k \in b THEN rem[k] ELSE None]
           /\ mem' = loaded'
    /\ finished' = ~task.active
    /\ UNCHANGED <<now, task, rem, snoozer, budget, delivered, snoozed>>

NextInBatch(k) == k \in batch /\ \A l \in batch : loaded[k].at <= loaded[l].at

Handled(k, new) ==
    /\ mem' = [mem EXCEPT ![k] = new]
    /\ batch' = batch \ {k}
    /\ UNCHANGED <<now, task, rem, pc, cur, loaded, snoozer, snoozed, finished>>

\* The task as session.get returns it: loaded once per session.
SessionTask == IF loadedTask = None THEN task ELSE loadedTask

Defer(k) ==
    /\ pc = "send" /\ NextInBatch(k)
    /\ Quiet(cur)
    /\ Handled(k, [mem[k] EXCEPT !.at = QuietUntil(cur), !.status = "PENDING"])
    /\ UNCHANGED <<loadedTask, budget, delivered>>

Drop(k) ==
    /\ pc = "send" /\ NextInBatch(k)
    /\ ~Quiet(cur)
    /\ ~SessionTask.active
    /\ loadedTask' = SessionTask
    /\ Handled(k, [mem[k] EXCEPT !.status = "CANCELLED"])
    /\ UNCHANGED <<budget, delivered>>

\* (Variant: the task's status is not looked at.)
SendsAnyway(k) ==
    /\ pc = "send" /\ NextInBatch(k)
    /\ ~Quiet(cur)
    /\ loadedTask' = SessionTask
Sends(k) ==
    /\ pc = "send" /\ NextInBatch(k)
    /\ ~Quiet(cur)
    /\ SessionTask.active
    /\ loadedTask' = SessionTask

Send(k) ==
    /\ Sends(k)
    /\ Handled(k, [mem[k] EXCEPT !.status = "SENT", !.attempts = @ + 1])
    /\ delivered' = [delivered EXCEPT ![k] = @ + 1]
    /\ UNCHANGED budget

\* (Variant: one attempt too many.)
GivesUpLate(n) == n > MAX_ATTEMPTS
GivesUp(n) == n >= MAX_ATTEMPTS

AfterFailure(r) ==
    LET n == r.attempts + 1
        delay == IF n <= Len(RETRY_DELAYS) THEN n ELSE Len(RETRY_DELAYS)
    IN  IF GivesUp(n) THEN [r EXCEPT !.status = "FAILED", !.attempts = n]
        ELSE [status |-> "RETRY", at |-> cur + RETRY_DELAYS[delay], attempts |-> n]

\* Telegram refuses the message or is not reachable.
SendFails(k) ==
    /\ Sends(k)
    /\ Spend("failure")
    /\ Handled(k, AfterFailure(mem[k]))
    /\ UNCHANGED delivered

\* The message arrives and the call fails all the same (a lost answer).
SendAnswerLost(k) ==
    /\ Sends(k)
    /\ Spend("fault")
    /\ Handled(k, AfterFailure(mem[k]))
    /\ delivered' = [delivered EXCEPT ![k] = @ + 1]

\* One commit for the whole batch; then the loop sleeps.
SendCommit ==
    /\ pc = "send" /\ batch = {}
    /\ rem' = [k \in Key |-> Flush(rem[k], loaded[k], mem[k])]
    /\ pc' = "plan"
    /\ loadedTask' = None
    /\ loaded' = NoRows
    /\ mem' = NoRows
    /\ UNCHANGED <<now, task, cur, batch, snoozer, budget, history>>

\* The worker dies or its transaction fails: nothing of it is committed.
WorkerFault ==
    /\ pc # "plan"
    /\ Spend("fault")
    /\ pc' = "plan"
    /\ cur' = Never
    /\ loadedTask' = None
    /\ loaded' = NoRows
    /\ mem' = NoRows
    /\ batch' = {}
    /\ UNCHANGED <<now, task, rem, snoozer, history>>

-----------------------------------------------------------------------------
\* The bot and the API.

\* PATCH, postpone, the bot's edits: another due date, priority or type.
Edit(v) ==
    /\ task.active
    /\ Spend("edit")
    /\ task' = [active |-> TRUE, due |-> v.due, priority |-> v.priority,
                awaiting |-> v.awaiting]
    /\ UNCHANGED <<now, rem, worker, snoozer, history>>

\* DONE or CANCELLED.
Finish ==
    /\ task.active
    /\ Spend("edit")
    /\ task' = [task EXCEPT !.active = FALSE]
    /\ UNCHANGED <<now, rem, worker, snoozer, history>>

\* snooze_task_reminders: the read ...
SnoozeRead(delay) ==
    /\ snoozer = None
    /\ Spend("snooze")
    /\ snoozer' = [until |-> now + delay, rows |->
           [k \in Key |-> IF Open(rem[k]) THEN rem[k] ELSE None]]
    /\ UNCHANGED <<now, task, rem, worker, history>>

\* ... and the commit.
SnoozeCommit ==
    /\ snoozer # None
    /\ rem' = [k \in Key |->
           Flush(rem[k], snoozer.rows[k],
                 [snoozer.rows[k] EXCEPT !.at = snoozer.until, !.status = "PENDING"])]
    /\ snoozed' = [k \in Key |->
           IF snoozer.rows[k] = None THEN snoozed[k]
           ELSE IF /\ pc \in {"plan", "planRows", "select"}
                   /\ snoozer.rows[k] = rem[k]
           THEN snoozer.until ELSE 0]
    /\ snoozer' = None
    /\ UNCHANGED <<now, task, worker, budget, delivered, finished>>

\* create_manual_reminder: the "remind" button.
CreateManual ==
    /\ Spend("manual")
    /\ LET k == <<"STATUS_CHECK", now + Hour>>
       IN  rem' = IF rem[k] # None THEN rem
                  ELSE [rem EXCEPT ![k] = NewRow(now + Hour)]
    /\ UNCHANGED <<now, task, worker, snoozer, history>>

\* create_follow_up_reminder: "remind me tomorrow" on a delivered follow-up.
FollowUpAgain(c) ==
    /\ delivered[<<"AWAITING_FOLLOW_UP", 0>>] > 0
    /\ task.awaiting
    /\ Spend("manual")
    /\ LET k == <<"FOLLOW_UP_AGAIN", c>>
       IN  rem' = IF rem[k] # None THEN rem
                  ELSE [rem EXCEPT ![k] = NewRow(now + Day)]
    /\ UNCHANGED <<now, task, worker, snoozer, history>>

Tick ==
    /\ now < MaxTime
    /\ budget.limit \in Punctual => pc = "plan" /\ cur = now
    /\ now' = now + 1
    /\ UNCHANGED <<task, rem, worker, snoozer, budget, history>>

-----------------------------------------------------------------------------
Deliver(k) == Defer(k) \/ Drop(k) \/ Send(k) \/ SendFails(k) \/ SendAnswerLost(k)

Work == \/ PlanTask \/ PlanRows \/ PlanCommit \/ Select \/ SendCommit
        \/ \E k \in Key : Deliver(k)

Outside ==
    \/ \E v \in Versions : Edit(v)
    \/ Finish
    \/ \E d \in SnoozeDelays : SnoozeRead(d)
    \/ CreateManual
    \/ \E c \in Callbacks : FollowUpAgain(c)

Next == Work \/ SnoozeCommit \/ WorkerFault \/ Tick \/ Outside

Spec == Init /\ [][Next]_vars

\* The loop runs forever, a session's commit is executed, and time passes;
\* users, Telegram and crashes owe nothing.
Fairness == WF_vars(Work) /\ WF_vars(SnoozeCommit) /\ WF_vars(Tick)
FairSpec == Spec /\ Fairness
-----------------------------------------------------------------------------
\* Properties.

\* Every variable has its type.
TypeOK ==
    /\ now \in Time
    /\ task \in Task
    /\ rem \in [Key -> Row \cup {None}]
    /\ pc \in {"plan", "planRows", "planCommit", "select", "send"}
    /\ cur \in Time \cup {Never}
    /\ loadedTask \in Task \cup {None}
    /\ loaded \in [Key -> Row \cup {None}]
    /\ mem \in [Key -> Row \cup {None}]
    /\ batch \subseteq Key
    /\ snoozer \in {None} \cup [until : Nat, rows : [Key -> Row \cup {None}]]
    /\ budget \in [limit : Budgets, left : [Events -> Nat]]
    /\ delivered \in [Key -> Nat]
    /\ snoozed \in [Key -> Nat]
    /\ finished \in BOOLEAN

\* README "deduplicated": the user gets a reminder once more only for a crash
\* before the batch's commit or a lost answer; SENT means the user got it; and
\* no reminder is tried more than three times, FAILED exactly after the third.
\* (Without snoozes: one may reopen what is being delivered.)
DeliveryAccounted ==
    Unsnoozed => \A k \in Key :
        /\ delivered[k] <= 1 + Used("fault")
        /\ rem[k] # None =>
               /\ rem[k].status = "SENT" => delivered[k] > 0
               /\ rem[k].attempts <= MAX_ATTEMPTS
               /\ rem[k].status = "FAILED" <=>
                      rem[k].attempts = MAX_ATTEMPTS /\ rem[k].status # "SENT"
               /\ rem[k].status = "RETRY" => rem[k].attempts > 0

\* IMPLEMENTATION_PLAN "the right reminders are created": whenever planning has
\* committed and the task was not edited meanwhile, the open policy reminders
\* are wanted ones, none is set before its time (a retry may be), and every
\* wanted reminder is there: open, sent or given up.  (Without snoozes: one
\* sets later reminders to an earlier time, until the next planning.)
PlanMatchesTask ==
    Unsnoozed /\ pc = "select" /\ loadedTask = task =>
        /\ \A k \in PolicyKey : Open(rem[k]) => k \in Wanted(task, cur)
        /\ \A k \in Wanted(task, cur) :
               /\ rem[k] # None /\ rem[k].status # "CANCELLED"
               /\ rem[k].status = "PENDING" => rem[k].at >= SpecTime(task, cur, k)

\* SENT and FAILED are final: planning again, editing the task or a crash never
\* reopens such a reminder.  (Without snoozes.)
OutcomeIsFinal ==
    [][Unsnoozed =>
           \A k \in Key : rem[k] # None /\ rem[k].status \in {"SENT", "FAILED"} =>
               rem'[k] = rem[k]]_vars

\* No batch that was selected after the task was finished sends anything.
SilenceAfterFinish == [][delivered' # delivered => ~finished]_vars

\* The code's comment "Keep a user snooze": once a snooze no worker transaction
\* overlapped is committed, the reminder is in no batch before that time,
\* unless it is snoozed again.  (While nobody edits the task: an edit gives it
\* other reminders.)
SnoozeHolds ==
    [][Unedited /\ pc = "select" /\ pc' = "send" =>
           \A k \in batch' : snoozed[k] <= cur']_vars

\* No reminder stays due: again and again the worker has handled all of them,
\* by delivering, giving up, cancelling or setting a later time, whatever the
\* batch limit and finitely many faults.
DueIsHandled == []<>(\A k \in Key : ~(Open(rem[k]) /\ rem[k].at <= now))

\* The lasting overdue reminder and the follow-up of an AWAITING task nobody
\* edits reach the user or use up their attempts, across quiet hours, retries
\* and outages.  Only a failed attempt may leave one waiting past the model's
\* last tick, never a deferral.
LastingReachUser ==
    <>(\A type \in {"AWAITING_FOLLOW_UP"} \cup
                  ({"OVERDUE", "OVERDUE_1D"} \cap PolicyTypes(task.priority)) :
         LET r == rem[<<type, 0>>]
         IN  /\ r # None
             /\ r.status \in {"SENT", "FAILED"} \/ (r.status = "RETRY" /\ r.at > MaxTime))

-----------------------------------------------------------------------------
\* What the documentation says and the code does not do.

\* README: reminders are "deferred during quiet hours": while nobody edits the
\* task, one that waits for the end of quiet hours is not cancelled before it.
DeferredIsKept ==
    [][\A k \in Key :
           Unedited /\ Open(rem[k]) /\ rem[k].at = QuietUntil(rem[k].at - 1)
               /\ now < rem[k].at
           => rem'[k].status # "CANCELLED"]_vars
=============================================================================
