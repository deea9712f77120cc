--------------------------- MODULE ReminderProofs ---------------------------
(***************************************************************************)
(* Theorems about ReminderEngine, for any policy offsets, quiet hours,     *)
(* retry delays and batch limit, any length of the run and any number of   *)
(* outside events.                                                         *)
(***************************************************************************)
EXTENDS ReminderEngine, Division, TLAPS

-----------------------------------------------------------------------------
\* The invariants.

\* What the worker's session holds at each step of its loop.
SessionFits ==
    /\ pc = "plan" => loadedTask = None
    /\ pc # "plan" => cur \in Time /\ cur <= now
    /\ pc \in {"planRows", "planCommit", "select"} => loadedTask \in Task
    /\ pc \notin {"planCommit", "send"} => loaded = NoRows
    /\ pc # "send" => batch = {} /\ mem = NoRows
    /\ \A k \in batch : loaded[k] # None
    /\ pc = "send" => \A k \in Key : loaded[k] # None => mem[k] \in Row
    /\ \A k \in Key : loaded[k] # None => rem[k] # None
    /\ snoozer # None => \A k \in Key : snoozer.rows[k] # None => rem[k] # None
    /\ \A e \in Events : budget.left[e] <= budget.limit[e]

TypeInv == TypeOK /\ SessionFits

\* Once the batch of a finished task is selected, the session knows no other task.
SilenceInv ==
    finished => ~task.active /\ (pc = "send" /\ loadedTask # None => ~loadedTask.active)

\* Without snoozes only the worker changes existing rows.
Alone ==
    Unsnoozed =>
        /\ snoozer = None
        /\ \A k \in Key : loaded[k] # None => rem[k] = loaded[k]
        /\ pc = "planCommit" => \A k \in PolicyKey : rem[k] = loaded[k]
        /\ pc = "send" => \A k \in Key : loaded[k] # None => Open(loaded[k])
        /\ \A k \in batch : mem[k] = loaded[k]

\* A row's status and attempts.
Tried(r) ==
    /\ r.attempts <= MAX_ATTEMPTS
    /\ r.status = "FAILED" <=> r.attempts = MAX_ATTEMPTS /\ r.status # "SENT"
    /\ r.status = "RETRY" => r.attempts > 0

\* The worker counts a message as sent, on record or in its transaction.
Counted(k) ==
    \/ rem[k] # None /\ rem[k].status = "SENT"
    \/ pc = "send" /\ loaded[k] # None /\ mem[k].status = "SENT"

AccountInv ==
    Unsnoozed => \A k \in Key :
        /\ delivered[k] <= Used("fault") + (IF Counted(k) THEN 1 ELSE 0)
        /\ Counted(k) => delivered[k] > 0
        /\ rem[k] # None => Tried(rem[k])
        /\ pc = "send" /\ loaded[k] # None => Tried(mem[k])

\* What planning has committed, about the task it has read.
PlanInv ==
    Unsnoozed /\ pc = "select" =>
        /\ \A k \in PolicyKey : Open(rem[k]) => k \in Wanted(loadedTask, cur)
        /\ \A k \in Wanted(loadedTask, cur) :
               /\ rem[k] # None /\ rem[k].status # "CANCELLED"
               /\ rem[k].status = "PENDING" => rem[k].at >= SpecTime(loadedTask, cur, k)

\* A key planning cancels for good: it will not be wanted again.
Gone(k, from) == \A t \in Time : t >= from => k \notin Wanted(task, t)
\* A daily key is of a day that has begun.
Begun(k, t) == k[1] = "OVERDUE_DAILY" => k[2] <= DateOf(t)
Planning == pc \in {"planRows", "planCommit"}

\* The session plans and sends for the task as it is.
TaskHeld ==
    /\ task.active
    /\ Planning => loadedTask = task
    /\ pc = "send" /\ loadedTask # None => loadedTask = task
\* Only planning cancels reminders, and only those that are no longer wanted.
CancelledIsGone(k) ==
    /\ rem[k] # None => Begun(k, now) /\ (Planning => Begun(k, cur))
    /\ rem[k] # None /\ rem[k].status = "CANCELLED" =>
           Gone(k, now) /\ (Planning => Gone(k, cur))
    /\ pc = "send" /\ loaded[k] # None =>
           loaded[k].status # "CANCELLED" /\ mem[k].status # "CANCELLED"
    /\ k \in batch => mem[k] = loaded[k] /\ Open(loaded[k]) /\ loaded[k].at <= cur
\* A snoozed reminder is not open for an earlier time, nor will it be when the
\* worker commits.
KeptLate(k) ==
    snoozed[k] # 0 =>
        /\ rem[k] # None
        /\ loaded[k] # None => rem[k] = loaded[k]
        /\ pc = "planCommit" => rem[k] = loaded[k]
        /\ Open(rem[k]) => rem[k].at >= snoozed[k]
        /\ pc = "send" /\ loaded[k] # None /\ Open(mem[k]) => mem[k].at >= snoozed[k]

HoldInv ==
    Unedited => TaskHeld /\ \A k \in Key : CancelledIsGone(k) /\ KeptLate(k)

-----------------------------------------------------------------------------
\* Reminder policy.

LEMMA ConstantTypes ==
    /\ Day \in Nat \ {0} /\ Hours3 \in Nat /\ Hours2 \in Nat /\ Hour \in Nat
    /\ Grace \in Nat /\ MaxTime \in Nat /\ QuietEnd \in 0..(Day - 1)
    /\ \A t \in Time : t \in Nat /\ t <= MaxTime
    BY ConstantsAssumption DEF Time

LEMMA DateOfType ==
    ASSUME NEW a \in Nat, NEW b \in Nat, a <= b
    PROVE  DateOf(a) \in Nat /\ DateOf(b) \in Nat /\ DateOf(a) <= DateOf(b)
    BY ConstantTypes, DivisionFacts, DivisionIsMonotonic DEF DateOf

\* A deadline and an offset make a time, which is the later of it and now.
LEMMA LaterType ==
    ASSUME NEW a \in Int, NEW b \in Nat
    PROVE  Later(a, b) \in Nat /\ Later(a, b) >= b
    BY DEF Later

LEMMA OffsetType ==
    ASSUME NEW type \in PolicyType
    PROVE  Offset(type) \in Int
    BY ConstantTypes DEF PolicyType, Offset

\* A wanted reminder is one the policy knows, at a time that is not over.
LEMMA SpecsType ==
    ASSUME NEW t \in Task, NEW c \in Time, NEW spec \in ReminderSpecs(t, c)
    PROVE  spec.key \in PolicyKey /\ spec.at \in Nat
<1>1. t.due \in Nat /\ t.due # None /\ c \in Nat /\ c <= MaxTime /\ t.priority \in Priority
    BY ConstantTypes DEF ReminderSpecs, Task
<1>2. CASE \E type \in PolicyTypes(t.priority) :
               spec = [key |-> <<type, 0>>, at |-> Later(t.due + Offset(type), c)]
  <2>1. PICK type \in PolicyTypes(t.priority) :
            spec = [key |-> <<type, 0>>, at |-> Later(t.due + Offset(type), c)]
      BY <1>2
  <2>2. type \in PolicyType
      BY <1>1 DEF PolicyTypes, PolicyType, Priority
  <2>3. t.due + Offset(type) \in Int
      BY <1>1, <2>2, OffsetType
  <2>. QED  BY <1>1, <2>1, <2>2, <2>3, LaterType DEF PolicyKey
<1>3. CASE spec = [key |-> <<"OVERDUE_DAILY", DateOf(c)>>, at |-> c]
  <2>1. DateOf(c) \in 0..DateOf(MaxTime)
      BY <1>1, ConstantTypes, DateOfType
  <2>. QED  BY <1>1, <1>3, <2>1 DEF PolicyKey
<1>4. CASE spec = [key |-> <<"AWAITING_FOLLOW_UP", 0>>, at |-> Later(t.due + Day, c)]
  <2>1. t.due + Day \in Int
      BY <1>1, ConstantTypes
  <2>2. "AWAITING_FOLLOW_UP" \in PolicyType
      BY DEF PolicyType
  <2>. QED  BY <1>1, <1>4, <2>1, <2>2, LaterType DEF PolicyKey
<1>. QED  BY <1>2, <1>3, <1>4 DEF ReminderSpecs

LEMMA WantedType ==
    ASSUME NEW t \in Task, NEW c \in Time, NEW k \in Wanted(t, c)
    PROVE  k \in PolicyKey /\ SpecTime(t, c, k) \in Nat
<1>1. PICK spec \in ReminderSpecs(t, c) : spec.key = k
    BY DEF Wanted
<1>. DEFINE chosen == CHOOSE x \in ReminderSpecs(t, c) : x.key = k
<1>2. chosen \in ReminderSpecs(t, c) /\ chosen.key = k
    BY <1>1
<1>. QED  BY <1>2, SpecsType DEF SpecTime

\* The end of the quiet hours lies ahead.
LEMMA QuietUntilType ==
    ASSUME NEW t \in Nat
    PROVE  QuietUntil(t) \in Nat /\ QuietUntil(t) > t
<1>. DEFINE d == DateOf(t)
            target == Day * d + QuietEnd
<1>1. Day \in Nat \ {0} /\ QuietEnd \in Nat
    BY ConstantTypes
<1>2. d = t \div Day
    BY DEF DateOf
<1>3. d \in Nat /\ t % Day \in 0..(Day - 1) /\ t = Day * d + (t % Day)
    BY <1>1, <1>2, DivisionFacts
<1>. HIDE DEF d
<1>4. target \in Nat /\ target + Day > t
    BY <1>1, <1>3
<1>. QED  BY <1>1, <1>4 DEF QuietUntil, d

-----------------------------------------------------------------------------
\* Rows.

LEMMA NewRowType ==
    ASSUME NEW at \in Nat
    PROVE  NewRow(at) \in Row
    BY DEF NewRow, Row

LEMMA FlushType ==
    ASSUME NEW current \in Row \cup {None}, NEW old \in Row \cup {None},
           NEW new, old # None => current \in Row /\ new \in Row
    PROVE  /\ Flush(current, old, new) \in Row \cup {None}
           /\ current # None => Flush(current, old, new) # None
<1>1. old # None => Flush(current, old, new) \in Row
    BY DEF Flush, Row
<1>. QED  BY <1>1, NoneAssumption DEF Flush

\* The UPDATE of a row nobody else has changed writes it.
LEMMA FlushOfCurrent ==
    ASSUME NEW old \in Row, NEW new \in Row, old # None
    PROVE  Flush(old, old, new) = new
    BY DEF Flush, Row

LEMMA PlannedType ==
    ASSUME TypeInv, pc = "planCommit", NEW k \in Key, NEW old \in Row
    PROVE  Planned(k, old) \in Row
<1>1. loadedTask \in Task /\ cur \in Time
    BY DEF TypeInv, SessionFits
<1>2. k \in Wanted(loadedTask, cur) => SpecTime(loadedTask, cur, k) \in Nat
    BY <1>1, WantedType
<1>3. old.at \in Nat
    BY DEF Row
<1>. QED  BY <1>2 DEF Planned, Row

LEMMA AfterFailureType ==
    ASSUME TypeInv, pc = "send", NEW r \in Row
    PROVE  AfterFailure(r) \in Row
<1>. DEFINE n == r.attempts + 1
            delay == IF n <= Len(RETRY_DELAYS) THEN n ELSE Len(RETRY_DELAYS)
<1>1. n \in Nat \ {0} /\ cur \in Nat
    BY ConstantTypes DEF Row, TypeInv, SessionFits
<1>2. RETRY_DELAYS \in Seq(Nat \ {0}) /\ Len(RETRY_DELAYS) \in Nat \ {0}
    BY ConstantsAssumption
<1>3. delay \in 1..Len(RETRY_DELAYS)
    BY <1>1, <1>2
<1>4. RETRY_DELAYS[delay] \in Nat
    BY <1>2, <1>3
<1>. HIDE DEF n, delay
<1>5. cur + RETRY_DELAYS[delay] \in Nat
    BY <1>1, <1>4
<1>. QED  BY <1>1, <1>5 DEF AfterFailure, Row, n, delay

-----------------------------------------------------------------------------
\* Types.

LEMMA NoRowsType == NoRows \in [Key -> Row \cup {None}]
    BY DEF NoRows

LEMMA SpendFacts ==
    ASSUME TypeInv, NEW e \in Events, Spend(e)
    PROVE  /\ budget' \in [limit : Budgets, left : [Events -> Nat]]
           /\ budget'.limit = budget.limit
           /\ \A f \in Events : budget'.left[f] <= budget'.limit[f]
           /\ Used(e)' = Used(e) + 1
           /\ \A f \in Events \ {e} : Used(f)' = Used(f)
<1>1. /\ budget \in [limit : Budgets, left : [Events -> Nat]]
      /\ \A f \in Events : budget.limit[f] \in Nat /\ budget.left[f] <= budget.limit[f]
      /\ budget.left[e] > 0 /\ budget' = [budget EXCEPT !.left[e] = @ - 1]
    BY ConstantsAssumption DEF TypeInv, TypeOK, SessionFits, Spend
<1>2. /\ budget'.limit = budget.limit
      /\ budget'.left = [budget.left EXCEPT ![e] = @ - 1]
      /\ budget' \in [limit : Budgets, left : [Events -> Int]]
    BY <1>1
<1>3. /\ budget'.left[e] = budget.left[e] - 1 /\ budget.left[e] \in Nat
      /\ \A f \in Events \ {e} : budget'.left[f] = budget.left[f] /\ budget.left[f] \in Nat
    BY <1>1, <1>2
<1>4. budget'.left \in [Events -> Nat]
    BY <1>1, <1>2, <1>3
<1>. QED  BY <1>1, <1>2, <1>3, <1>4 DEF Used

LEMMA UsedType ==
    ASSUME TypeInv
    PROVE  \A e \in Events : Used(e) \in Nat
<1>1. \A e \in Events : budget.limit[e] \in Nat /\ budget.left[e] \in Nat
                        /\ budget.left[e] <= budget.limit[e]
    BY ConstantsAssumption DEF TypeInv, TypeOK, SessionFits
<1>. QED  BY <1>1 DEF Used

LEMMA UsedTypeAfter ==
    ASSUME TypeInv'
    PROVE  \A e \in Events : Used(e)' \in Nat
<1>1. \A e \in Events : budget'.limit[e] \in Nat /\ budget'.left[e] \in Nat
                        /\ budget'.left[e] <= budget'.limit[e]
    BY ConstantsAssumption DEF TypeInv, TypeOK, SessionFits
<1>. QED  BY <1>1 DEF Used

LEMMA TypeInit == Init => TypeInv
<1>. SUFFICES ASSUME Init PROVE TypeInv
    OBVIOUS
<1>1. 0 \in Time
    BY ConstantTypes DEF Time
<1>2. task \in Task
    BY ConstantsAssumption DEF Init, Task, Version
<1>3. /\ budget \in [limit : Budgets, left : [Events -> Nat]]
      /\ \A e \in Events : budget.left[e] <= budget.limit[e]
    BY ConstantsAssumption DEF Init
<1>4. TypeOK
    BY <1>1, <1>2, <1>3, NoRowsType DEF Init, TypeOK
<1>5. SessionFits
    BY <1>3 DEF Init, SessionFits
<1>. QED  BY <1>4, <1>5 DEF TypeInv

\* A step of the users, which leaves the worker alone.
LEMMA OutsideType ==
    ASSUME TypeInv, UNCHANGED <<now, worker>>,
           task' \in Task, rem' \in [Key -> Row \cup {None}],
           snoozer' \in {None} \cup [until : Nat, rows : [Key -> Row \cup {None}]],
           budget' \in [limit : Budgets, left : [Events -> Nat]],
           \A e \in Events : budget'.left[e] <= budget'.limit[e],
           \A k \in Key : rem[k] # None => rem'[k] # None,
           snoozer' # None =>
               \A k \in Key : snoozer'.rows[k] # None => rem[k] # None,
           snoozed' \in [Key -> Nat], UNCHANGED <<delivered, finished>>
    PROVE  TypeInv'
<1>1. TypeOK'
    BY DEF TypeInv, TypeOK, worker
<1>2. SessionFits'
  <2>1. \A k \in Key : loaded'[k] # None => rem'[k] # None
      BY DEF TypeInv, SessionFits, worker
  <2>2. snoozer' # None => \A k \in Key : snoozer'.rows[k] # None => rem'[k] # None
      OBVIOUS
  <2>. QED  BY <2>1, <2>2 DEF TypeInv, SessionFits, worker
<1>. QED  BY <1>1, <1>2 DEF TypeInv

LEMMA OutsideTypeNext ==
    ASSUME TypeInv, Outside \/ SnoozeCommit
    PROVE  TypeInv'
<1>1. "edit" \in Events /\ "snooze" \in Events /\ "manual" \in Events
    BY DEF Events
<1>2. now \in Nat /\ Day \in Nat /\ Hour \in Nat /\ now <= MaxTime /\ MaxTime \in Nat
    BY ConstantTypes DEF TypeInv, TypeOK
<1>3. /\ \A e \in Events : budget.left[e] <= budget.limit[e]
      /\ rem \in [Key -> Row \cup {None}] /\ task \in Task
      /\ snoozer \in {None} \cup [until : Nat, rows : [Key -> Row \cup {None}]]
      /\ budget \in [limit : Budgets, left : [Events -> Nat]]
      /\ snoozed \in [Key -> Nat]
      /\ snoozer # None => \A k \in Key : snoozer.rows[k] # None => rem[k] # None
    BY DEF TypeInv, TypeOK, SessionFits
<1>4. CASE \E v \in Versions : Edit(v)
  <2>1. PICK v \in Versions : Edit(v)
      BY <1>4
  <2>2. task' \in Task
      BY <2>1, ConstantsAssumption DEF Edit, Task, Version
  <2>. QED
      BY <1>1, <1>3, <2>1, <2>2, SpendFacts, OutsideType DEF Edit, history
<1>5. CASE Finish
  <2>1. task' \in Task
      BY <1>3, <1>5 DEF Finish, Task
  <2>. QED
      BY <1>1, <1>3, <1>5, <2>1, SpendFacts, OutsideType DEF Finish, history
<1>6. CASE \E d \in SnoozeDelays : SnoozeRead(d)
  <2>1. PICK d \in SnoozeDelays : SnoozeRead(d)
      BY <1>6
  <2>2. now + d \in Nat
      BY <1>2, ConstantsAssumption
  <2>3. [k \in Key |-> IF Open(rem[k]) THEN rem[k] ELSE None] \in [Key -> Row \cup {None}]
      BY <1>3
  <2>4. /\ snoozer' \in {None} \cup [until : Nat, rows : [Key -> Row \cup {None}]]
        /\ \A k \in Key : snoozer'.rows[k] # None => rem[k] # None
      BY <2>1, <2>2, <2>3 DEF SnoozeRead
  <2>. QED
      BY <1>1, <1>3, <2>1, <2>4, SpendFacts, OutsideType DEF SnoozeRead, history
<1>7. CASE CreateManual
  <2>1. NewRow(now + Hour) \in Row
      BY <1>2, NewRowType
  <2>2. rem' \in [Key -> Row \cup {None}]
        /\ \A k \in Key : rem[k] # None => rem'[k] # None
      BY <1>3, <1>7, <2>1 DEF CreateManual
  <2>. QED
      BY <1>1, <1>3, <1>7, <2>2, SpendFacts, OutsideType DEF CreateManual, history
<1>8. CASE \E c \in Callbacks : FollowUpAgain(c)
  <2>1. PICK c \in Callbacks : FollowUpAgain(c)
      BY <1>8
  <2>2. NewRow(now + Day) \in Row
      BY <1>2, NewRowType
  <2>3. rem' \in [Key -> Row \cup {None}]
        /\ \A k \in Key : rem[k] # None => rem'[k] # None
      BY <1>3, <2>1, <2>2 DEF FollowUpAgain
  <2>. QED
      BY <1>1, <1>3, <2>1, <2>3, SpendFacts, OutsideType DEF FollowUpAgain, history
<1>9. CASE SnoozeCommit
  <2>1. /\ snoozer.until \in Nat /\ snoozer.rows \in [Key -> Row \cup {None}]
        /\ snoozer' = None
      BY <1>3, <1>9 DEF SnoozeCommit
  <2>2. rem' \in [Key -> Row \cup {None}]
        /\ \A k \in Key : rem[k] # None => rem'[k] # None
    <3>. DEFINE new(k) == [snoozer.rows[k] EXCEPT !.at = snoozer.until, !.status = "PENDING"]
    <3>1. ASSUME NEW k \in Key
          PROVE  /\ Flush(rem[k], snoozer.rows[k], new(k)) \in Row \cup {None}
                 /\ rem[k] # None => Flush(rem[k], snoozer.rows[k], new(k)) # None
      <4>1. snoozer.rows[k] # None => new(k) \in Row
          BY <2>1 DEF Row
      <4>2. snoozer.rows[k] # None => rem[k] \in Row
          BY <1>3, <1>9 DEF SnoozeCommit
      <4>3. snoozer.rows[k] \in Row \cup {None} /\ rem[k] \in Row \cup {None}
          BY <1>3, <2>1
      <4>. HIDE DEF new
      <4>. QED  BY <4>1, <4>2, <4>3, FlushType
    <3>. QED  BY <1>9, <3>1 DEF SnoozeCommit
  <2>3. snoozed' \in [Key -> Nat]
      BY <1>3, <1>9, <2>1 DEF SnoozeCommit
  <2>. QED
      BY <1>3, <1>9, <2>1, <2>2, <2>3, OutsideType DEF SnoozeCommit
<1>. QED  BY <1>4, <1>5, <1>6, <1>7, <1>8, <1>9 DEF Outside

\* The reminder the worker handles next, as it was loaded and as it is.
LEMMA BatchRow ==
    ASSUME TypeInv, NEW k \in Key, pc = "send", k \in batch
    PROVE  loaded[k] \in Row /\ loaded[k] # None /\ mem[k] \in Row
           /\ cur \in Nat /\ cur <= now
    BY ConstantTypes DEF TypeInv, TypeOK, SessionFits

\* What a delivery makes of a row.
LEMMA HandledType ==
    ASSUME TypeInv, NEW k \in Key, pc = "send", k \in batch, NEW new \in Row,
           Handled(k, new), loadedTask' \in Task \cup {None},
           budget' \in [limit : Budgets, left : [Events -> Nat]],
           \A e \in Events : budget'.left[e] <= budget'.limit[e],
           delivered' \in [Key -> Nat]
    PROVE  TypeInv'
<1>1. mem' \in [Key -> Row \cup {None}] /\ mem'[k] = new
      /\ \A l \in Key \ {k} : mem'[l] = mem[l]
    BY DEF Handled, TypeInv, TypeOK
<1>2. TypeOK'
    BY <1>1 DEF Handled, TypeInv, TypeOK
<1>3. SessionFits'
    BY <1>1 DEF Handled, TypeInv, SessionFits
<1>. QED  BY <1>2, <1>3 DEF TypeInv

LEMMA DeliverType ==
    ASSUME TypeInv, NEW k \in Key, Deliver(k)
    PROVE  TypeInv'
<1>1. /\ pc = "send" /\ k \in batch
    BY DEF Deliver, Defer, Drop, Send, SendFails, SendAnswerLost, Sends, NextInBatch
<1>2. mem[k] \in Row /\ cur \in Nat
    BY <1>1, BatchRow
<1>3. /\ SessionTask \in Task /\ loadedTask \in Task \cup {None}
      /\ budget \in [limit : Budgets, left : [Events -> Nat]]
      /\ \A e \in Events : budget.left[e] <= budget.limit[e]
      /\ delivered \in [Key -> Nat]
    BY DEF TypeInv, TypeOK, SessionFits, SessionTask
<1>4. "failure" \in Events /\ "fault" \in Events
    BY DEF Events
<1>5. CASE Defer(k)
  <2>1. [mem[k] EXCEPT !.at = QuietUntil(cur), !.status = "PENDING"] \in Row
      BY <1>2, QuietUntilType DEF Row
  <2>. QED  BY <1>1, <1>3, <1>5, <2>1, HandledType DEF Defer
<1>6. CASE Drop(k)
  <2>1. [mem[k] EXCEPT !.status = "CANCELLED"] \in Row
      BY <1>2 DEF Row
  <2>. QED  BY <1>1, <1>3, <1>6, <2>1, HandledType DEF Drop
<1>7. CASE Send(k)
  <2>1. [mem[k] EXCEPT !.status = "SENT", !.attempts = @ + 1] \in Row
    <3>1. mem[k].attempts + 1 \in Nat
        BY <1>2 DEF Row
    <3>. QED  BY <1>2, <3>1 DEF Row
  <2>2. delivered' \in [Key -> Nat]
      BY <1>3, <1>7 DEF Send
  <2>. QED  BY <1>1, <1>3, <1>7, <2>1, <2>2, HandledType DEF Send, Sends
<1>8. CASE SendFails(k)
  <2>1. AfterFailure(mem[k]) \in Row
      BY <1>1, <1>2, AfterFailureType
  <2>. QED
      BY <1>1, <1>3, <1>4, <1>8, <2>1, SpendFacts, HandledType DEF SendFails, Sends
<1>9. CASE SendAnswerLost(k)
  <2>1. AfterFailure(mem[k]) \in Row
      BY <1>1, <1>2, AfterFailureType
  <2>2. delivered' \in [Key -> Nat]
      BY <1>3, <1>9 DEF SendAnswerLost
  <2>. QED
      BY <1>1, <1>3, <1>4, <1>9, <2>1, <2>2, SpendFacts, HandledType
      DEF SendAnswerLost, Sends
<1>. QED  BY <1>5, <1>6, <1>7, <1>8, <1>9 DEF Deliver

\* The two commits of the worker.
LEMMA PlanCommitRows ==
    ASSUME TypeInv, PlanCommit
    PROVE  /\ rem' \in [Key -> Row \cup {None}]
           /\ \A k \in Key : rem[k] # None => rem'[k] # None
           /\ \A k \in Key : loaded[k] # None =>
                  rem'[k] = Flush(rem[k], loaded[k], Planned(k, loaded[k]))
           /\ \A k \in Key : loaded[k] = None =>
                  \/ rem'[k] = rem[k] /\ (rem[k] # None \/ k \notin Wanted(loadedTask, cur))
                  \/ /\ rem[k] = None /\ k \in Wanted(loadedTask, cur)
                     /\ rem'[k] = NewRow(SpecTime(loadedTask, cur, k))
                     /\ rem'[k] \in Row
<1>1. pc = "planCommit" /\ loadedTask \in Task /\ cur \in Time
      /\ rem \in [Key -> Row \cup {None}] /\ loaded \in [Key -> Row \cup {None}]
    BY DEF PlanCommit, TypeInv, TypeOK, SessionFits
<1>2. \A k \in Key : rem'[k] = IF loaded[k] # None
                               THEN Flush(rem[k], loaded[k], Planned(k, loaded[k]))
                               ELSE IF rem[k] = None /\ k \in Wanted(loadedTask, cur)
                               THEN NewRow(SpecTime(loadedTask, cur, k))
                               ELSE rem[k]
    BY DEF PlanCommit
<1>3. ASSUME NEW k \in Key
      PROVE  /\ rem'[k] \in Row \cup {None}
             /\ rem[k] # None => rem'[k] # None
             /\ loaded[k] = None /\ rem[k] = None /\ k \in Wanted(loadedTask, cur) =>
                    rem'[k] \in Row
  <2>1. CASE loaded[k] # None
    <3>1. loaded[k] \in Row /\ rem[k] \in Row
        BY <1>1, <2>1 DEF TypeInv, SessionFits
    <3>2. Planned(k, loaded[k]) \in Row
        BY <1>1, <3>1, PlannedType
    <3>. QED  BY <1>2, <2>1, <3>1, <3>2, FlushType
  <2>2. CASE loaded[k] = None /\ rem[k] = None /\ k \in Wanted(loadedTask, cur)
    <3>1. NewRow(SpecTime(loadedTask, cur, k)) \in Row
        BY <1>1, <2>2, WantedType, NewRowType
    <3>. QED  BY <1>2, <2>2, <3>1
  <2>. QED  BY <1>1, <1>2, <2>1, <2>2
<1>4. rem' \in [Key -> Row \cup {None}]
  <2>1. rem' = [k \in Key |-> rem'[k]]
      BY DEF PlanCommit
  <2>. QED  BY <1>3, <2>1
<1>. QED  BY <1>2, <1>3, <1>4

LEMMA SendCommitRows ==
    ASSUME TypeInv, SendCommit
    PROVE  /\ rem' \in [Key -> Row \cup {None}]
           /\ \A k \in Key : rem[k] # None => rem'[k] # None
           /\ \A k \in Key : rem'[k] = Flush(rem[k], loaded[k], mem[k])
<1>1. pc = "send" /\ rem \in [Key -> Row \cup {None}]
      /\ loaded \in [Key -> Row \cup {None}]
    BY DEF SendCommit, TypeInv, TypeOK
<1>2. rem' = [k \in Key |-> Flush(rem[k], loaded[k], mem[k])]
    BY DEF SendCommit
<1>3. ASSUME NEW k \in Key
      PROVE  /\ Flush(rem[k], loaded[k], mem[k]) \in Row \cup {None}
             /\ rem[k] # None => Flush(rem[k], loaded[k], mem[k]) # None
  <2>1. loaded[k] # None => rem[k] \in Row /\ mem[k] \in Row
      BY <1>1 DEF TypeInv, SessionFits
  <2>. QED  BY <1>1, <2>1, FlushType
<1>. QED  BY <1>2, <1>3

LEMMA WorkerTypeNext ==
    ASSUME TypeInv,
           PlanTask \/ PlanRows \/ PlanCommit \/ Select \/ SendCommit \/ WorkerFault
    PROVE  TypeInv'
<1>1. /\ now \in Time /\ now \in Nat /\ rem \in [Key -> Row \cup {None}]
    BY ConstantTypes DEF TypeInv, TypeOK
<1>2. CASE PlanTask
  <2>1. TypeOK'
      BY <1>2 DEF PlanTask, history, TypeInv, TypeOK
  <2>2. SessionFits'
      BY <1>1, <1>2 DEF PlanTask, TypeInv, TypeOK, SessionFits
  <2>. QED  BY <2>1, <2>2 DEF TypeInv
<1>3. CASE PlanRows
  <2>1. TypeOK'
      BY <1>3 DEF PlanRows, history, TypeInv, TypeOK
  <2>2. SessionFits'
      BY <1>3 DEF PlanRows, TypeInv, SessionFits
  <2>. QED  BY <2>1, <2>2 DEF TypeInv
<1>4. CASE PlanCommit
  <2>1. TypeOK'
      BY <1>4, PlanCommitRows, NoRowsType DEF PlanCommit, history, TypeInv, TypeOK
  <2>2. \A k \in Key : rem[k] # None => rem'[k] # None
      BY <1>4, PlanCommitRows
  <2>3. SessionFits'
      BY <1>4, <2>2 DEF PlanCommit, TypeInv, SessionFits, NoRows
  <2>. QED  BY <2>1, <2>3 DEF TypeInv
<1>5. CASE Select
  <2>1. PICK b \in DueBatches(now) :
            /\ batch' = b /\ mem' = loaded'
            /\ loaded' = [k \in Key |-> IF k \in b THEN rem[k] ELSE None]
      BY <1>5 DEF Select
  <2>2. b \subseteq Key /\ \A k \in b : rem[k] # None
      BY <2>1 DEF DueBatches, Due, Open
  <2>3. loaded' \in [Key -> Row \cup {None}] /\ finished' \in BOOLEAN
      BY <1>1, <1>5, <2>1 DEF Select, TypeInv, TypeOK, Task
  <2>4. TypeOK'
      BY <1>5, <2>1, <2>2, <2>3 DEF Select, TypeInv, TypeOK
  <2>5. SessionFits'
      BY <1>1, <1>5, <2>1, <2>2, <2>3 DEF Select, TypeInv, SessionFits
  <2>. QED  BY <2>4, <2>5 DEF TypeInv
<1>6. CASE SendCommit
  <2>1. TypeOK'
      BY <1>6, SendCommitRows, NoRowsType DEF SendCommit, history, TypeInv, TypeOK
  <2>2. \A k \in Key : rem[k] # None => rem'[k] # None
      BY <1>6, SendCommitRows
  <2>3. SessionFits'
      BY <1>6, <2>2 DEF SendCommit, TypeInv, SessionFits, NoRows
  <2>. QED  BY <2>1, <2>3 DEF TypeInv
<1>7. CASE WorkerFault
  <2>1. "fault" \in Events
      BY DEF Events
  <2>2. TypeOK'
      BY <1>7, <2>1, SpendFacts, NoRowsType DEF WorkerFault, history, TypeInv, TypeOK
  <2>3. SessionFits'
      BY <1>7, <2>1, SpendFacts DEF WorkerFault, TypeInv, SessionFits, NoRows
  <2>. QED  BY <2>2, <2>3 DEF TypeInv
<1>. QED  BY <1>2, <1>3, <1>4, <1>5, <1>6, <1>7

LEMMA TypeNext == TypeInv /\ [Next]_vars => TypeInv'
<1>. SUFFICES ASSUME TypeInv, [Next]_vars PROVE TypeInv'
    OBVIOUS
<1>1. CASE UNCHANGED vars
    BY <1>1 DEF TypeInv, TypeOK, SessionFits, vars
<1>2. CASE Tick
  <2>1. now' \in Time /\ now <= now'
      BY <1>2, ConstantTypes DEF Tick, TypeInv, TypeOK, Time
  <2>2. TypeOK'
      BY <1>2, <2>1 DEF Tick, worker, history, TypeInv, TypeOK
  <2>3. \A c \in Time : c <= now => c <= now'
      BY <2>1, ConstantTypes DEF TypeInv, TypeOK
  <2>4. SessionFits'
      BY <1>2, <2>3 DEF Tick, worker, TypeInv, SessionFits
  <2>. QED  BY <2>2, <2>4 DEF TypeInv
<1>. QED
    BY <1>1, <1>2, OutsideTypeNext, DeliverType, WorkerTypeNext DEF Next, Work

\* Every variable keeps its type, and the worker's session holds rows of the
\* database whenever it is about to use them.
THEOREM TypeCorrect == Spec => []TypeOK
<1>. QED  BY TypeInit, TypeNext, PTL DEF Spec, TypeInv

-----------------------------------------------------------------------------
\* Silence after the end.

LEMMA SilenceNext == TypeInv /\ SilenceInv /\ [Next]_vars => SilenceInv'
<1>. SUFFICES ASSUME TypeInv, SilenceInv, [Next]_vars PROVE SilenceInv'
    OBVIOUS
<1>1. CASE Select
    BY <1>1 DEF Select, SilenceInv
<1>2. CASE \E k \in Key : Deliver(k)
  <2>1. /\ UNCHANGED <<finished, task, pc>>
        /\ loadedTask' = loadedTask \/ loadedTask' = SessionTask
      BY <1>2 DEF Deliver, Defer, Drop, Send, SendFails, SendAnswerLost, Sends, Handled
  <2>. QED  BY <2>1 DEF SessionTask, SilenceInv
<1>3. CASE PlanTask \/ PlanRows \/ PlanCommit \/ SendCommit \/ WorkerFault \/ Tick
    BY <1>3 DEF PlanTask, PlanRows, PlanCommit, SendCommit, WorkerFault, Tick, worker,
       history, SilenceInv
<1>4. CASE \E v \in Versions : Edit(v)
    BY <1>4 DEF Edit, worker, history, SilenceInv
<1>5. CASE Finish
    BY <1>5 DEF Finish, worker, history, SilenceInv, TypeInv, TypeOK, Task
<1>6. CASE \/ \E d \in SnoozeDelays : SnoozeRead(d)
           \/ CreateManual \/ SnoozeCommit \/ \E c \in Callbacks : FollowUpAgain(c)
    BY <1>6 DEF SnoozeRead, CreateManual, FollowUpAgain, SnoozeCommit, worker, history,
       SilenceInv
<1>7. CASE UNCHANGED vars
    BY <1>7 DEF vars, SilenceInv
<1>8. CASE Work
    BY <1>1, <1>2, <1>3, <1>8 DEF Work
<1>9. CASE Outside
    BY <1>4, <1>5, <1>6, <1>9 DEF Outside
<1>. QED  BY <1>3, <1>6, <1>7, <1>8, <1>9 DEF Next

\* A message goes out only for a task that is active in the session's eyes.
LEMMA DeliveryMeansActive ==
    ASSUME [Next]_vars, delivered' # delivered
    PROVE  pc = "send" /\ SessionTask.active
<1>1. CASE \E k \in Key : Deliver(k)
    BY <1>1 DEF Deliver, Defer, Drop, Send, SendFails, SendAnswerLost, Sends, Handled
<1>2. CASE \/ PlanTask \/ PlanRows \/ PlanCommit \/ Select \/ SendCommit \/ WorkerFault
           \/ Tick \/ SnoozeCommit \/ UNCHANGED vars
    BY <1>2 DEF PlanTask, PlanRows, PlanCommit, Select, SendCommit, WorkerFault, Tick,
       SnoozeCommit, history, vars
<1>3. CASE Outside
    BY <1>3 DEF Outside, Edit, Finish, SnoozeRead, CreateManual, FollowUpAgain, history
<1>. QED  BY <1>1, <1>2, <1>3 DEF Next, Work

\* Nothing is sent from a batch that was selected after the task was finished,
\* although the worker looks at the task only once per batch.
THEOREM FinishedIsSilent == Spec => SilenceAfterFinish
<1>1. Init => SilenceInv
    BY DEF Init, SilenceInv
<1>2. TypeInv /\ SilenceInv /\ [Next]_vars => [delivered' # delivered => ~finished]_vars
    BY DeliveryMeansActive DEF SilenceInv, SessionTask
<1>. QED
    BY <1>1, <1>2, TypeInit, TypeNext, SilenceNext, PTL DEF Spec, SilenceAfterFinish

-----------------------------------------------------------------------------
\* The worker alone changes rows.

\* Outside events are only ever counted up.
LEMMA UsedGrows ==
    ASSUME TypeInv, [Next]_vars
    PROVE  \A e \in Events : Used(e)' >= Used(e)
<1>1. budget' = budget \/ \E e \in Events : Spend(e)
  <2>1. {"edit", "snooze", "manual", "failure", "fault"} \subseteq Events
      BY DEF Events
  <2>2. CASE \E k \in Key : Deliver(k)
      BY <2>1, <2>2 DEF Deliver, Defer, Drop, Send, SendFails, SendAnswerLost
  <2>3. CASE \/ PlanTask \/ PlanRows \/ PlanCommit \/ Select \/ SendCommit \/ WorkerFault
             \/ Tick \/ SnoozeCommit \/ UNCHANGED vars
      BY <2>1, <2>3 DEF PlanTask, PlanRows, PlanCommit, Select, SendCommit, WorkerFault,
         Tick, SnoozeCommit, vars
  <2>4. CASE Outside
      BY <2>1, <2>4 DEF Outside, Edit, Finish, SnoozeRead, CreateManual, FollowUpAgain
  <2>. QED  BY <2>2, <2>3, <2>4 DEF Next, Work
<1>2. CASE budget' = budget
    BY <1>2, UsedType DEF Used
<1>3. CASE \E e \in Events : Spend(e)
    BY <1>3, SpendFacts, UsedType
<1>. QED  BY <1>1, <1>2, <1>3

\* The buttons insert a row where there is none, and none of the policy's.
Insert(k, at) ==
    /\ k \in Key \ PolicyKey /\ at \in Nat /\ k[1] # "OVERDUE_DAILY"
    /\ rem' = IF rem[k] # None THEN rem ELSE [rem EXCEPT ![k] = NewRow(at)]
    /\ UNCHANGED <<now, task, worker, snoozer, history>>

LEMMA InsertStep ==
    ASSUME TypeInv, CreateManual \/ \E c \in Callbacks : FollowUpAgain(c)
    PROVE  \E k, at : Insert(k, at)
<1>1. now \in Nat /\ now <= MaxTime /\ Day \in Nat /\ Hour \in Nat /\ MaxTime \in Nat
    BY ConstantTypes DEF TypeInv, TypeOK
<1>2. CASE CreateManual
  <2>. DEFINE k == <<"STATUS_CHECK", now + Hour>>
  <2>1. now + Hour \in 0..(MaxTime + Hour)
      BY <1>1
  <2>2. k \in {"STATUS_CHECK"} \X (0..(MaxTime + Hour)) /\ k[1] # "OVERDUE_DAILY"
      BY <2>1
  <2>3. k \in Key
      BY <2>2 DEF Key
  <2>4. k \notin PolicyKey
      BY DEF PolicyKey, PolicyType
  <2>5. now + Hour \in Nat
      BY <1>1
  <2>6. Insert(k, now + Hour)
      BY <1>2, <2>2, <2>3, <2>4, <2>5 DEF CreateManual, Insert
  <2>. QED  BY <2>6
<1>3. ASSUME NEW c \in Callbacks, FollowUpAgain(c)
      PROVE  \E k, at : Insert(k, at)
  <2>. DEFINE k == <<"FOLLOW_UP_AGAIN", c>>
  <2>1. k \in Key /\ k[1] # "OVERDUE_DAILY"
      BY DEF Key
  <2>2. k \notin PolicyKey
      BY DEF PolicyKey, PolicyType
  <2>3. now + Day \in Nat
      BY <1>1
  <2>4. Insert(k, now + Day)
      BY <1>3, <2>1, <2>2, <2>3 DEF FollowUpAgain, Insert
  <2>. QED  BY <2>4
<1>. QED  BY <1>2, <1>3

LEMMA InsertFacts ==
    ASSUME TypeInv, CreateManual \/ \E c \in Callbacks : FollowUpAgain(c), NEW k \in Key
    PROVE  /\ \/ rem'[k] = rem[k]
              \/ /\ rem[k] = None /\ k \notin PolicyKey /\ k[1] # "OVERDUE_DAILY"
                 /\ \E at \in Nat : rem'[k] = NewRow(at)
           /\ UNCHANGED <<now, task, worker, snoozer, history>>
<1>1. PICK l, at : Insert(l, at)
    BY InsertStep
<1>2. rem \in [Key -> Row \cup {None}]
    BY DEF TypeInv, TypeOK
<1>. QED  BY <1>1, <1>2 DEF Insert

LEMMA PolicyKeys == PolicyKey \subseteq Key
    BY DEF Key

LEMMA AloneNext == TypeInv /\ Alone /\ [Next]_vars => Alone'
<1>. SUFFICES ASSUME TypeInv, Alone, [Next]_vars, Unsnoozed' PROVE Alone'
    BY DEF Alone
<1>1. Unsnoozed
  <2>1. Used("snooze")' >= Used("snooze") /\ Used("snooze") \in Nat
      BY UsedGrows, UsedType DEF Events
  <2>. QED  BY <2>1 DEF Unsnoozed
<1>2. /\ snoozer = None
      /\ \A k \in Key : loaded[k] # None => rem[k] = loaded[k]
      /\ pc = "planCommit" => \A k \in PolicyKey : rem[k] = loaded[k]
      /\ pc = "send" => \A k \in Key : loaded[k] # None => Open(loaded[k])
      /\ \A k \in batch : mem[k] = loaded[k]
    BY <1>1 DEF Alone
<1>3. /\ pc \notin {"planCommit", "send"} => loaded = NoRows
      /\ pc # "send" => batch = {} /\ mem = NoRows
      /\ \A k \in Key : loaded[k] # None => rem[k] # None
      /\ batch \subseteq Key /\ mem \in [Key -> Row \cup {None}]
    BY DEF TypeInv, TypeOK, SessionFits
<1>4. \A k \in Key : NoRows[k] = None
    BY DEF NoRows
<1>5. CASE PlanTask
    BY <1>2, <1>3, <1>4, <1>5 DEF PlanTask, Alone
<1>6. CASE PlanRows
    BY <1>2, <1>3, <1>6, PolicyKeys DEF PlanRows, Alone
<1>7. CASE PlanCommit
    BY <1>2, <1>3, <1>4, <1>7 DEF PlanCommit, Alone
<1>8. CASE Select
  <2>1. PICK b \in DueBatches(now) :
            /\ batch' = b /\ mem' = loaded'
            /\ loaded' = [k \in Key |-> IF k \in b THEN rem[k] ELSE None]
      BY <1>8 DEF Select
  <2>2. \A k \in b : Open(rem[k])
      BY <2>1 DEF DueBatches, Due
  <2>3. pc' = "send" /\ UNCHANGED <<rem, snoozer>>
      BY <1>8 DEF Select
  <2>. QED  BY <1>2, <2>1, <2>2, <2>3 DEF Alone
<1>9. ASSUME NEW k \in Key, Deliver(k) PROVE Alone'
  <2>1. PICK new : Handled(k, new)
      BY <1>9 DEF Deliver, Defer, Drop, Send, SendFails, SendAnswerLost
  <2>2. \A l \in batch' : mem'[l] = mem[l]
      BY <1>3, <2>1 DEF Handled
  <2>. QED  BY <1>2, <2>1, <2>2 DEF Handled, Alone
<1>10. CASE SendCommit \/ WorkerFault
    BY <1>2, <1>3, <1>4, <1>10 DEF SendCommit, WorkerFault, Alone
<1>11. CASE \/ Tick \/ Finish \/ UNCHANGED vars \/ \E v \in Versions : Edit(v)
    BY <1>2, <1>11 DEF Tick, Finish, Edit, worker, vars, Alone
<1>12. CASE CreateManual \/ \E c \in Callbacks : FollowUpAgain(c)
  <2>1. UNCHANGED <<worker, snoozer>>
      BY <1>12, InsertStep DEF Insert
  <2>2. \A k \in Key : rem[k] # None => rem'[k] = rem[k]
      BY <1>12, InsertFacts
  <2>3. \A k \in PolicyKey : rem'[k] = rem[k]
      BY <1>12, InsertFacts, PolicyKeys
  <2>. QED  BY <1>2, <1>3, <2>1, <2>2, <2>3 DEF worker, Alone
<1>13. ASSUME NEW d \in SnoozeDelays, SnoozeRead(d) PROVE FALSE
  <2>1. Used("snooze")' = Used("snooze") + 1 /\ Used("snooze") \in Nat
      BY <1>13, SpendFacts, UsedType DEF SnoozeRead, Events
  <2>. QED  BY <2>1 DEF Unsnoozed
<1>14. CASE SnoozeCommit
    BY <1>2, <1>14 DEF SnoozeCommit
<1>15. CASE Work
    BY <1>5, <1>6, <1>7, <1>8, <1>9, <1>10, <1>15 DEF Work
<1>16. CASE Outside
    BY <1>11, <1>12, <1>13, <1>16 DEF Outside
<1>. QED  BY <1>10, <1>11, <1>14, <1>15, <1>16 DEF Next

\* How a row may change while nobody snoozes.
RowStep(k) ==
    \/ rem'[k] = rem[k]
    \/ rem[k] = None /\ \E at \in Nat : rem'[k] = NewRow(at)
    \/ rem[k] \in Row /\ rem[k] # None /\ pc = "planCommit"
           /\ rem'[k] = Planned(k, rem[k])
    \/ SendCommit /\ loaded[k] # None /\ rem'[k] = mem[k]

LEMMA RowSteps ==
    ASSUME TypeInv, Alone, [Next]_vars, Unsnoozed, NEW k \in Key
    PROVE  RowStep(k)
<1>1. CASE PlanCommit
  <2>1. pc = "planCommit" /\ rem[k] \in Row \cup {None} /\ loaded[k] \in Row \cup {None}
        /\ loadedTask \in Task /\ cur \in Time
      BY <1>1 DEF PlanCommit, TypeInv, TypeOK, SessionFits
  <2>2. CASE loaded[k] # None
    <3>1. rem[k] = loaded[k] /\ rem[k] \in Row /\ rem[k] # None
        BY <2>1, <2>2 DEF Alone
    <3>2. Planned(k, loaded[k]) \in Row
        BY <2>1, <3>1, PlannedType
    <3>3. rem'[k] = Flush(rem[k], loaded[k], Planned(k, loaded[k]))
        BY <1>1, <2>2, PlanCommitRows
    <3>4. rem'[k] = Planned(k, rem[k])
        BY <3>1, <3>2, <3>3, FlushOfCurrent
    <3>. QED  BY <2>1, <3>1, <3>4 DEF RowStep
  <2>3. CASE loaded[k] = None
    <3>1. k \in Wanted(loadedTask, cur) => SpecTime(loadedTask, cur, k) \in Nat
        BY <2>1, WantedType
    <3>. QED  BY <1>1, <2>3, <3>1, PlanCommitRows DEF RowStep
  <2>. QED  BY <2>2, <2>3
<1>2. CASE SendCommit
  <2>1. pc = "send" /\ batch = {} /\ rem[k] \in Row \cup {None}
        /\ rem'[k] = Flush(rem[k], loaded[k], mem[k])
      BY <1>2, SendCommitRows DEF SendCommit, TypeInv, TypeOK
  <2>2. CASE loaded[k] # None
    <3>1. rem[k] = loaded[k] /\ rem[k] \in Row /\ rem[k] # None /\ mem[k] \in Row
        BY <2>1, <2>2 DEF Alone, TypeInv, SessionFits
    <3>2. rem'[k] = mem[k]
        BY <2>1, <3>1, FlushOfCurrent
    <3>. QED  BY <1>2, <2>2, <3>2 DEF RowStep
  <2>3. CASE loaded[k] = None
    <3>1. rem'[k] = rem[k]
        BY <2>1, <2>3 DEF Flush
    <3>. QED  BY <3>1 DEF RowStep
  <2>. QED  BY <2>2, <2>3
<1>3. CASE CreateManual \/ \E c \in Callbacks : FollowUpAgain(c)
    BY <1>3, InsertFacts DEF RowStep
<1>4. CASE SnoozeCommit
    BY <1>4 DEF SnoozeCommit, Alone
<1>5. ASSUME NEW l \in Key, Deliver(l) PROVE rem' = rem
    BY <1>5 DEF Deliver, Defer, Drop, Send, SendFails, SendAnswerLost, Handled
<1>6. CASE \/ PlanTask \/ PlanRows \/ Select \/ WorkerFault \/ Tick \/ Finish
           \/ UNCHANGED vars
           \/ (\E v \in Versions : Edit(v)) \/ \E d \in SnoozeDelays : SnoozeRead(d)
  <2>1. rem' = rem
      BY <1>6 DEF PlanTask, PlanRows, Select, WorkerFault, Tick, Finish, Edit, SnoozeRead,
         vars
  <2>. QED  BY <2>1 DEF RowStep
<1>7. CASE Work
    BY <1>1, <1>2, <1>5, <1>6, <1>7 DEF Work, RowStep
<1>8. CASE Outside
    BY <1>3, <1>6, <1>8 DEF Outside
<1>. QED  BY <1>4, <1>6, <1>7, <1>8 DEF Next

LEMMA AloneInit == Init => Alone
    BY DEF Init, Alone, NoRows

\* A sent reminder and one that was given up stay so, whatever is planned,
\* edited or cut off in between.
THEOREM FinalOutcomes == Spec => OutcomeIsFinal
<1>1. ASSUME TypeInv, Alone, [Next]_vars, Unsnoozed,
             NEW k \in Key, rem[k] # None, rem[k].status \in {"SENT", "FAILED"}
      PROVE  rem'[k] = rem[k]
  <2>1. loaded[k] # None /\ pc = "send" => FALSE
      BY <1>1 DEF Alone, Open
  <2>2. Planned(k, rem[k]) = rem[k]
      BY <1>1 DEF Planned, Cancellable, Revivable, TooEarly
  <2>. QED  BY <1>1, <2>1, <2>2, RowSteps DEF RowStep, SendCommit
<1>2. TypeInv /\ Alone /\ [Next]_vars =>
          [Unsnoozed => \A k \in Key : rem[k] # None /\ rem[k].status \in {"SENT", "FAILED"} =>
               rem'[k] = rem[k]]_vars
    BY <1>1
<1>. QED
    BY <1>2, TypeInit, TypeNext, AloneInit, AloneNext, PTL DEF Spec, OutcomeIsFinal

-----------------------------------------------------------------------------
\* Every message is accounted for.

LEMMA TriedNewRow ==
    ASSUME NEW at \in Nat
    PROVE  Tried(NewRow(at)) /\ NewRow(at).status = "PENDING"
    BY DEF Tried, NewRow, MAX_ATTEMPTS

LEMMA TriedPlanned ==
    ASSUME NEW k, NEW r \in Row, Tried(r)
    PROVE  Tried(Planned(k, r)) /\ (Planned(k, r).status = "SENT" <=> r.status = "SENT")
<1>. DEFINE p == Planned(k, r)
<1>1. p = r \/ /\ p.attempts = r.attempts
               /\ r.status \in {"PENDING", "RETRY", "CANCELLED"}
               /\ p.status \in {"PENDING", "CANCELLED"}
    BY DEF Planned, Cancellable, Revivable, TooEarly, Row
<1>. HIDE DEF p
<1>2. Tried(p) /\ (p.status = "SENT" <=> r.status = "SENT")
    BY <1>1 DEF Tried
<1>. QED  BY <1>2 DEF p

\* An open row has attempts left.
LEMMA OpenTried ==
    ASSUME NEW r \in Row, Open(r), Tried(r)
    PROVE  r.attempts \in Nat /\ r.attempts + 1 <= MAX_ATTEMPTS
    BY DEF Open, Tried, Row, MAX_ATTEMPTS

LEMMA TriedAfterFailure ==
    ASSUME NEW r \in Row, Open(r), Tried(r)
    PROVE  Tried(AfterFailure(r)) /\ AfterFailure(r).status # "SENT"
<1>. DEFINE n == r.attempts + 1
            p == AfterFailure(r)
<1>1. n \in Nat \ {0} /\ n <= MAX_ATTEMPTS
    BY OpenTried
<1>2. p.attempts = n /\ p.status = IF GivesUp(n) THEN "FAILED" ELSE "RETRY"
    BY DEF AfterFailure, Row
<1>. HIDE DEF n, p
<1>3. Tried(p) /\ p.status # "SENT"
    BY <1>1, <1>2 DEF Tried, GivesUp, MAX_ATTEMPTS
<1>. QED  BY <1>3 DEF p

\* The reminder the worker handles next is an open one nobody has counted.
LEMMA NextUncounted ==
    ASSUME TypeInv, Alone, AccountInv, Unsnoozed, NEW k \in Key, pc = "send", k \in batch
    PROVE  /\ mem[k] \in Row /\ Open(mem[k]) /\ Tried(mem[k])
           /\ loaded[k] # None /\ rem[k] = mem[k] /\ ~Counted(k)
<1>1. loaded[k] # None /\ mem[k] \in Row
    BY BatchRow
<1>2. mem[k] = loaded[k] /\ rem[k] = loaded[k] /\ Open(loaded[k])
    BY <1>1 DEF Alone
<1>3. ~Counted(k)
    BY <1>2 DEF Counted, Open
<1>. QED  BY <1>1, <1>2, <1>3 DEF AccountInv

\* The account of one reminder.
Account(k) ==
    /\ delivered[k] <= Used("fault") + (IF Counted(k) THEN 1 ELSE 0)
    /\ Counted(k) => delivered[k] > 0
    /\ rem[k] # None => Tried(rem[k])
    /\ pc = "send" /\ loaded[k] # None => Tried(mem[k])

\* Steps that neither deliver anything nor count otherwise keep the account.
LEMMA AccountKept ==
    ASSUME TypeInv, NEW k \in Key, Account(k), delivered'[k] = delivered[k],
           Used("fault")' >= Used("fault"), Counted(k)' <=> Counted(k),
           Used("fault")' \in Nat,
           rem'[k] # None => Tried(rem'[k]),
           pc' = "send" /\ loaded'[k] # None => Tried(mem'[k])
    PROVE  Account(k)'
<1>1. Used("fault") \in Nat /\ delivered[k] \in Nat
    BY UsedType DEF TypeInv, TypeOK, Events
<1>. DEFINE c == IF Counted(k) THEN 1 ELSE 0
<1>2. c \in Nat /\ delivered[k] <= Used("fault") + c
    BY DEF Account
<1>3. (IF Counted(k)' THEN 1 ELSE 0) = c
    OBVIOUS
<1>. HIDE DEF c
<1>4. delivered'[k] <= Used("fault")' + c
    BY <1>1, <1>2
<1>. QED  BY <1>3, <1>4 DEF Account

LEMMA DeliverAccount ==
    ASSUME TypeInv, Alone, AccountInv, Unsnoozed, NEW k \in Key, NEW l \in Key,
           Deliver(l), Used("fault")' \in Nat, Used("fault")' >= Used("fault")
    PROVE  Account(k)'
<1>1. Account(k) /\ Used("fault") \in Nat /\ delivered[k] \in Nat
      /\ delivered \in [Key -> Nat] /\ mem \in [Key -> Row \cup {None}]
    BY UsedType DEF AccountInv, Account, TypeInv, TypeOK, Events
<1>2. pc = "send" /\ l \in batch
    BY DEF Deliver, Defer, Drop, Send, SendFails, SendAnswerLost, Sends, NextInBatch
<1>3. /\ mem[l] \in Row /\ Open(mem[l]) /\ Tried(mem[l])
      /\ loaded[l] # None /\ rem[l] = mem[l] /\ ~Counted(l)
    BY <1>2, NextUncounted
<1>4. PICK new : Handled(l, new)
    BY DEF Deliver, Defer, Drop, Send, SendFails, SendAnswerLost
<1>5. /\ UNCHANGED <<rem, pc, loaded>> /\ mem' = [mem EXCEPT ![l] = new]
    BY <1>4 DEF Handled
<1>6. CASE k # l
  <2>1. mem'[k] = mem[k] /\ delivered'[k] = delivered[k]
      BY <1>1, <1>5, <1>6
      DEF Deliver, Defer, Drop, Send, SendFails, SendAnswerLost
  <2>2. Counted(k)' <=> Counted(k)
      BY <1>5, <2>1 DEF Counted
  <2>. QED  BY <1>1, <1>5, <2>1, <2>2, AccountKept DEF Account
<1>7. CASE k = l
  <2>1. mem'[k] = new /\ delivered[k] <= Used("fault") /\ rem[k].status # "SENT"
      BY <1>1, <1>3, <1>5, <1>7 DEF Account, Open
  <2>2. Counted(k)' <=> new.status = "SENT"
      BY <1>2, <1>3, <1>5, <1>7, <2>1 DEF Counted
  <2>3. CASE Defer(k) \/ Drop(k)
    <3>1. /\ delivered' = delivered /\ new.attempts = mem[k].attempts
          /\ new.status \in {"PENDING", "CANCELLED"}
      <4>1. \/ new = [mem[k] EXCEPT !.at = QuietUntil(cur), !.status = "PENDING"]
            \/ new = [mem[k] EXCEPT !.status = "CANCELLED"]
          BY <1>1, <1>7, <2>1, <2>3 DEF Defer, Drop, Handled
      <4>2. delivered' = delivered
          BY <2>3 DEF Defer, Drop
      <4>. QED  BY <1>3, <1>7, <4>1, <4>2 DEF Row
    <3>2. Tried(new)
        BY <1>3, <1>7, <3>1 DEF Tried, Open
    <3>. QED  BY <1>1, <1>3, <1>5, <1>7, <2>1, <2>2, <3>1, <3>2, AccountKept DEF Account
  <2>4. CASE Send(k)
    <3>1. new.status = "SENT" /\ new.attempts = mem[k].attempts + 1
        BY <1>1, <1>3, <1>7, <2>1, <2>4 DEF Send, Handled, Row
    <3>2. Tried(new)
        BY <1>3, <1>7, <3>1, OpenTried DEF Tried
    <3>3. delivered'[k] = delivered[k] + 1 /\ Used("fault")' = Used("fault")
        BY <1>1, <2>4 DEF Send, Used
    <3>. QED  BY <1>1, <1>3, <1>5, <1>7, <2>1, <2>2, <3>1, <3>2, <3>3 DEF Account
  <2>5. CASE SendFails(k)
    <3>1. new = AfterFailure(mem[k]) /\ delivered' = delivered
        BY <1>1, <1>7, <2>1, <2>5 DEF SendFails, Handled
    <3>2. Tried(new) /\ new.status # "SENT"
        BY <1>3, <1>7, <3>1, TriedAfterFailure
    <3>. QED  BY <1>1, <1>3, <1>5, <1>7, <2>1, <2>2, <3>1, <3>2, AccountKept DEF Account
  <2>6. CASE SendAnswerLost(k)
    <3>1. new = AfterFailure(mem[k]) /\ delivered'[k] = delivered[k] + 1
        BY <1>1, <1>7, <2>1, <2>6 DEF SendAnswerLost, Handled
    <3>2. Tried(new) /\ new.status # "SENT"
        BY <1>3, <1>7, <3>1, TriedAfterFailure
    <3>3. Used("fault")' = Used("fault") + 1
        BY <2>6, SpendFacts DEF SendAnswerLost, Events
    <3>. QED  BY <1>1, <1>3, <1>5, <1>7, <2>1, <2>2, <3>1, <3>2, <3>3 DEF Account
  <2>. QED  BY <1>7, <2>3, <2>4, <2>5, <2>6 DEF Deliver
<1>. QED  BY <1>6, <1>7

LEMMA AccountNext ==
    TypeInv /\ Alone /\ AccountInv /\ [Next]_vars => AccountInv'
<1>. SUFFICES ASSUME TypeInv, Alone, AccountInv, [Next]_vars, Unsnoozed', NEW k \in Key
              PROVE  Account(k)'
    BY DEF AccountInv, Account
<1>1. /\ \A e \in Events : Used(e)' \in Nat /\ Used(e)' >= Used(e) /\ Used(e) \in Nat
      /\ "fault" \in Events /\ "snooze" \in Events
  <2>1. TypeInv'
      BY TypeNext
  <2>. QED  BY <2>1, UsedType, UsedTypeAfter, UsedGrows DEF Events
<1>2. Unsnoozed
    BY <1>1 DEF Unsnoozed
<1>3. Account(k) /\ delivered[k] \in Nat
    BY <1>2 DEF AccountInv, Account, TypeInv, TypeOK
<1>4. CASE \E l \in Key : Deliver(l)
    BY <1>1, <1>2, <1>4, DeliverAccount
<1>5. CASE SendCommit
  <2>1. /\ pc = "send" /\ pc' = "plan" /\ delivered' = delivered
        /\ rem'[k] = Flush(rem[k], loaded[k], mem[k])
      BY <1>5, SendCommitRows DEF SendCommit, history
  <2>2. CASE loaded[k] = None
    <3>1. rem'[k] = rem[k]
        BY <2>1, <2>2 DEF Flush
    <3>2. Counted(k)' <=> Counted(k)
        BY <2>1, <2>2, <3>1 DEF Counted
    <3>. QED  BY <1>1, <1>3, <2>1, <3>1, <3>2, AccountKept DEF Account
  <2>3. CASE loaded[k] # None
    <3>1. rem[k] = loaded[k] /\ Open(loaded[k]) /\ mem[k] \in Row /\ rem[k] \in Row
        BY <1>2, <2>1, <2>3 DEF Alone, TypeInv, TypeOK, SessionFits
    <3>2. rem'[k] = mem[k] /\ mem[k] # None
        BY <2>1, <2>3, <3>1, FlushOfCurrent, NoneAssumption
    <3>3. Counted(k)' <=> Counted(k)
        BY <2>1, <2>3, <3>1, <3>2 DEF Counted, Open
    <3>. QED  BY <1>1, <1>3, <2>1, <2>3, <3>2, <3>3, AccountKept DEF Account
  <2>. QED  BY <2>2, <2>3
<1>6. CASE WorkerFault
  <2>1. /\ pc' = "plan" /\ UNCHANGED <<rem, delivered>>
        /\ Used("fault")' = Used("fault") + 1
      BY <1>1, <1>6, SpendFacts DEF WorkerFault, history
  <2>2. Counted(k)' => Counted(k)
      BY <2>1 DEF Counted
  <2>. QED  BY <1>1, <1>3, <2>1, <2>2 DEF Account
<1>7. CASE Select
  <2>1. PICK b \in DueBatches(now) :
            /\ mem' = loaded'
            /\ loaded' = [l \in Key |-> IF l \in b THEN rem[l] ELSE None]
      BY <1>7 DEF Select
  <2>2. k \in b => Open(rem[k])
      BY <2>1 DEF DueBatches, Due
  <2>3. pc = "select" /\ pc' = "send" /\ UNCHANGED <<rem, delivered>>
      BY <1>7 DEF Select
  <2>4. Counted(k)' <=> Counted(k)
      BY <2>1, <2>2, <2>3 DEF Counted, Open
  <2>5. loaded'[k] # None => mem'[k] = rem[k] /\ rem[k] # None
      BY <2>1
  <2>. QED  BY <1>1, <1>3, <2>3, <2>4, <2>5, AccountKept DEF Account
<1>8. CASE \/ PlanTask \/ PlanRows \/ PlanCommit \/ Tick \/ UNCHANGED vars \/ SnoozeCommit
           \/ Outside
  <2>1. /\ delivered' = delivered
        /\ \/ pc \in {"plan", "planRows", "planCommit"} /\ pc' # "send"
           \/ UNCHANGED <<pc, loaded, mem>> /\ ~PlanCommit
        /\ ~SendCommit
      BY <1>8 DEF PlanTask, PlanRows, PlanCommit, Tick, SnoozeCommit, SendCommit, Outside,
         Edit, Finish, SnoozeRead, CreateManual, FollowUpAgain, worker, history, vars
  <2>2. RowStep(k)
      BY <1>2, RowSteps
  <2>3. CASE rem'[k] = rem[k]
    <3>1. Counted(k)' <=> Counted(k)
        BY <2>1, <2>3 DEF Counted
    <3>. QED  BY <1>1, <1>3, <2>1, <2>3, <3>1, AccountKept DEF Account
  <2>4. CASE rem[k] = None /\ \E at \in Nat : rem'[k] = NewRow(at)
    <3>1. rem'[k].status = "PENDING" /\ Tried(rem'[k])
        BY <2>4, TriedNewRow
    <3>2. loaded[k] = None
        BY <2>4 DEF TypeInv, SessionFits
    <3>3. Counted(k)' <=> Counted(k)
        BY <2>1, <2>4, <3>1, <3>2 DEF Counted
    <3>. QED  BY <1>1, <1>3, <2>1, <3>1, <3>3, AccountKept DEF Account
  <2>5. CASE /\ rem[k] \in Row /\ rem[k] # None /\ pc = "planCommit"
             /\ rem'[k] = Planned(k, rem[k])
    <3>1. Tried(rem'[k]) /\ (rem'[k].status = "SENT" <=> rem[k].status = "SENT")
        BY <1>3, <2>5, TriedPlanned DEF Account
    <3>2. rem'[k] # None
        BY <2>5, PlannedType, NoneAssumption
    <3>3. pc' # "send"
        BY <2>1, <2>5
    <3>4. Counted(k)' <=> Counted(k)
        BY <2>5, <3>1, <3>2, <3>3 DEF Counted
    <3>. QED  BY <1>1, <1>3, <2>1, <3>1, <3>3, <3>4, AccountKept DEF Account
  <2>. QED  BY <2>1, <2>2, <2>3, <2>4, <2>5 DEF RowStep
<1>9. CASE Work
    BY <1>4, <1>5, <1>7, <1>8, <1>9 DEF Work
<1>. QED  BY <1>6, <1>8, <1>9 DEF Next

LEMMA AccountInit == Init => AccountInv
<1>. SUFFICES ASSUME Init, NEW k \in Key PROVE Account(k)
    BY DEF AccountInv, Account
<1>1. ~Counted(k) /\ rem[k] = None /\ delivered[k] = 0 /\ pc = "plan"
    BY DEF Init, Counted, NoRows
<1>2. Used("fault") \in Nat
    BY TypeInit, UsedType DEF Events
<1>. QED  BY <1>1, <1>2 DEF Account

\* A reminder reaches the user once, and once more only for a crash before the
\* commit of its batch or a lost answer; a row on record as sent was sent; and
\* three attempts are all a reminder gets.
THEOREM MessagesAccounted == Spec => []DeliveryAccounted
<1>1. ASSUME TypeInv, AccountInv PROVE DeliveryAccounted
  <2>. SUFFICES ASSUME Unsnoozed, NEW k \in Key
                PROVE  /\ delivered[k] <= 1 + Used("fault")
                       /\ rem[k] # None =>
                           /\ rem[k].status = "SENT" => delivered[k] > 0
                           /\ rem[k].attempts <= MAX_ATTEMPTS
                           /\ rem[k].status = "FAILED" <=>
                                  rem[k].attempts = MAX_ATTEMPTS /\ rem[k].status # "SENT"
                           /\ rem[k].status = "RETRY" => rem[k].attempts > 0
      BY DEF DeliveryAccounted
  <2>1. Account(k) /\ Used("fault") \in Nat /\ delivered[k] \in Nat
      BY <1>1, UsedType DEF AccountInv, Account, TypeInv, TypeOK, Events
  <2>2. rem[k] # None /\ rem[k].status = "SENT" => Counted(k)
      BY DEF Counted
  <2>. QED  BY <2>1, <2>2 DEF Account, Tried
<1>. QED
    BY <1>1, TypeInit, TypeNext, AloneInit, AloneNext, AccountInit, AccountNext, PTL DEF Spec

-----------------------------------------------------------------------------
\* Planning makes the reminders match the task.

LEMMA PlannedMatches ==
    ASSUME NEW k \in PolicyKey, NEW r \in Row
    PROVE  /\ Open(Planned(k, r)) => k \in Wanted(loadedTask, cur)
           /\ k \in Wanted(loadedTask, cur) /\ SpecTime(loadedTask, cur, k) \in Nat =>
                  /\ Planned(k, r).status # "CANCELLED"
                  /\ Planned(k, r).status = "PENDING" =>
                         Planned(k, r).at >= SpecTime(loadedTask, cur, k)
<1>. DEFINE w == k \in Wanted(loadedTask, cur)
            at == SpecTime(loadedTask, cur, k)
            p == Planned(k, r)
<1>1. p = IF ~w /\ Cancellable(r) THEN [r EXCEPT !.status = "CANCELLED"]
          ELSE IF w /\ Revivable(r) THEN [r EXCEPT !.status = "PENDING", !.at = at]
          ELSE IF w /\ TooEarly(r, at) THEN [r EXCEPT !.at = at]
          ELSE r
    BY DEF Planned
<1>. HIDE DEF w, at, p
<1>2. Open(p) => w
    BY <1>1 DEF Open, Cancellable, Row
<1>3. w /\ at \in Nat => p.status # "CANCELLED" /\ (p.status = "PENDING" => p.at >= at)
    BY <1>1 DEF Revivable, TooEarly, Row
<1>. QED  BY <1>2, <1>3 DEF w, at, p

LEMMA PlanNext == TypeInv /\ Alone /\ PlanInv /\ [Next]_vars => PlanInv'
<1>. SUFFICES ASSUME TypeInv, Alone, PlanInv, [Next]_vars, Unsnoozed', pc' = "select"
              PROVE  PlanInv'
    BY DEF PlanInv
<1>1. Unsnoozed
  <2>1. Used("snooze")' >= Used("snooze") /\ Used("snooze") \in Nat
      BY UsedGrows, UsedType DEF Events
  <2>. QED  BY <2>1 DEF Unsnoozed
<1>2. CASE PlanCommit
  <2>1. /\ loadedTask \in Task /\ cur \in Time /\ pc = "planCommit"
        /\ loadedTask' = loadedTask /\ cur' = cur
        /\ loaded \in [Key -> Row \cup {None}]
      BY <1>2 DEF PlanCommit, TypeInv, TypeOK, SessionFits
  <2>2. ASSUME NEW k \in PolicyKey
        PROVE  /\ Open(rem'[k]) => k \in Wanted(loadedTask, cur)
               /\ k \in Wanted(loadedTask, cur) =>
                      /\ rem'[k] # None /\ rem'[k].status # "CANCELLED"
                      /\ rem'[k].status = "PENDING" =>
                             rem'[k].at >= SpecTime(loadedTask, cur, k)
    <3>1. k \in Key /\ rem[k] = loaded[k] /\ loaded[k] \in Row \cup {None}
        BY <1>1, <2>1, PolicyKeys DEF Alone
    <3>2. k \in Wanted(loadedTask, cur) => SpecTime(loadedTask, cur, k) \in Nat
        BY <2>1, WantedType
    <3>3. CASE loaded[k] # None
      <4>1. loaded[k] \in Row /\ Planned(k, loaded[k]) \in Row
          BY <2>1, <3>1, <3>3, PlannedType
      <4>2. rem'[k] = Planned(k, loaded[k]) /\ rem'[k] # None
          BY <1>2, <3>1, <3>3, <4>1, PlanCommitRows, FlushOfCurrent, NoneAssumption
      <4>. QED  BY <3>2, <4>1, <4>2, PlannedMatches
    <3>4. CASE loaded[k] = None /\ k \notin Wanted(loadedTask, cur)
      <4>1. rem'[k] = None
          BY <1>2, <3>1, <3>4, PlanCommitRows
      <4>. QED  BY <3>4, <4>1 DEF Open
    <3>5. CASE loaded[k] = None /\ k \in Wanted(loadedTask, cur)
      <4>1. rem'[k] = NewRow(SpecTime(loadedTask, cur, k)) /\ rem'[k] # None
          BY <1>2, <3>1, <3>5, PlanCommitRows, NoneAssumption
      <4>. QED  BY <3>2, <3>5, <4>1 DEF NewRow
    <3>. QED  BY <3>3, <3>4, <3>5
  <2>3. Wanted(loadedTask, cur) \subseteq PolicyKey
      BY <2>1, WantedType
  <2>4. Wanted(loadedTask, cur)' = Wanted(loadedTask, cur)
      BY <2>1
  <2>5. \A k : SpecTime(loadedTask', cur', k) = SpecTime(loadedTask, cur, k)
      BY <2>1
  <2>. QED  BY <2>2, <2>3, <2>4, <2>5 DEF PlanInv
<1>3. CASE ~PlanCommit
  <2>1. pc = "select" /\ UNCHANGED <<loadedTask, cur>>
    <3>1. CASE Work
      <4>1. ~(\E k \in Key : Deliver(k))
          BY DEF Deliver, Defer, Drop, Send, SendFails, SendAnswerLost, Sends, Handled
      <4>2. ~PlanTask /\ ~PlanRows /\ ~Select /\ ~SendCommit
          BY DEF PlanTask, PlanRows, Select, SendCommit
      <4>. QED  BY <1>3, <3>1, <4>1, <4>2 DEF Work
    <3>2. CASE SnoozeCommit \/ WorkerFault \/ Tick \/ Outside \/ UNCHANGED vars
        BY <3>2 DEF SnoozeCommit, WorkerFault, Tick, Outside, Edit, Finish, SnoozeRead,
           CreateManual, FollowUpAgain, worker, vars
    <3>. QED  BY <3>1, <3>2 DEF Next
  <2>2. \A k \in PolicyKey : rem'[k] = rem[k]
    <3>1. CASE CreateManual \/ \E c \in Callbacks : FollowUpAgain(c)
        BY <3>1, InsertFacts, PolicyKeys
    <3>2. CASE ~(CreateManual \/ \E c \in Callbacks : FollowUpAgain(c))
      <4>1. ~SnoozeCommit
          BY <1>1 DEF SnoozeCommit, Alone
      <4>2. ~Work /\ ~WorkerFault
          BY <1>3, <2>1 DEF Work, PlanTask, PlanRows, Select, SendCommit, Deliver, Defer,
             Drop, Send, SendFails, SendAnswerLost, Sends, WorkerFault
      <4>. QED
          BY <3>2, <4>1, <4>2 DEF Next, Tick, Outside, Edit, Finish, SnoozeRead, vars
    <3>. QED  BY <3>1, <3>2
  <2>3. loadedTask \in Task /\ cur \in Time
      BY <2>1 DEF TypeInv, SessionFits
  <2>4. Wanted(loadedTask, cur) \subseteq PolicyKey
      BY <2>3, WantedType
  <2>5. /\ Wanted(loadedTask', cur') = Wanted(loadedTask, cur)
        /\ \A k : SpecTime(loadedTask', cur', k) = SpecTime(loadedTask, cur, k)
      BY <2>1
  <2>. QED  BY <1>1, <2>1, <2>2, <2>4, <2>5 DEF PlanInv
<1>. QED  BY <1>2, <1>3

\* Whenever planning has committed about the task as it still is, the task has
\* exactly the reminders the policy wants, none of them set too early.
THEOREM PlanningMatches == Spec => []PlanMatchesTask
<1>1. Init => PlanInv
    BY DEF Init, PlanInv
<1>2. PlanInv => PlanMatchesTask
    BY DEF PlanInv, PlanMatchesTask
<1>. QED
    BY <1>1, <1>2, TypeInit, TypeNext, AloneInit, AloneNext, PlanNext, PTL DEF Spec

-----------------------------------------------------------------------------
\* A snooze is kept.

\* What the policy wants at a time has begun by then.
LEMMA WantedBegun ==
    ASSUME NEW t \in Task, NEW c \in Time, NEW k \in Wanted(t, c)
    PROVE  Begun(k, c)
<1>1. PICK spec \in ReminderSpecs(t, c) : spec.key = k
    BY DEF Wanted
<1>2. DateOf(c) \in Nat
    BY ConstantTypes, DateOfType
<1>3. t.priority \in Priority
    BY DEF Task
<1>4. "OVERDUE_DAILY" \notin PolicyTypes(t.priority)
    BY <1>3 DEF PolicyTypes, Priority
<1>. QED  BY <1>1, <1>2, <1>4 DEF ReminderSpecs, Begun

\* A reminder that has begun and is no longer wanted will not be wanted again.
LEMMA Lapses ==
    ASSUME NEW t \in Task, NEW c \in Time, NEW d \in Time, c <= d, NEW k,
           Begun(k, c), k \in Wanted(t, d)
    PROVE  k \in Wanted(t, c)
<1>1. PICK spec \in ReminderSpecs(t, d) : spec.key = k
    BY DEF Wanted
<1>2. /\ t.active /\ t.due # None /\ t.priority # "P4" /\ t.due \in Nat
      /\ c \in Nat /\ d \in Nat /\ t.priority \in Priority /\ Grace \in Nat
    BY <1>1, ConstantTypes DEF ReminderSpecs, Task
<1>3. ASSUME NEW type \in PolicyTypes(t.priority),
             t.due + Offset(type) >= d - Grace \/ type \in Lasting, k = <<type, 0>>
      PROVE  k \in Wanted(t, c)
  <2>1. type \in PolicyType
      BY <1>2 DEF PolicyTypes, PolicyType, Priority
  <2>2. t.due + Offset(type) \in Int
      BY <1>2, <2>1, OffsetType
  <2>3. t.due + Offset(type) >= c - Grace \/ type \in Lasting
      BY <1>2, <1>3, <2>2
  <2>4. [key |-> <<type, 0>>, at |-> Later(t.due + Offset(type), c)] \in ReminderSpecs(t, c)
      BY <1>2, <2>3 DEF ReminderSpecs
  <2>. QED  BY <1>3, <2>4 DEF Wanted
<1>4. ASSUME NEW x \in {y \in {t.priority} :
                          DateOf(d) > DateOf(t.due) + (IF y = "P3" THEN 1 ELSE 0)},
             k = <<"OVERDUE_DAILY", DateOf(d)>>
      PROVE  k \in Wanted(t, c)
  <2>1. DateOf(d) = DateOf(c)
    <3>1. DateOf(c) \in Nat /\ DateOf(d) \in Nat /\ DateOf(c) <= DateOf(d)
        BY <1>2, DateOfType
    <3>2. DateOf(d) <= DateOf(c)
        BY <1>4 DEF Begun
    <3>. QED  BY <3>1, <3>2
  <2>2. [key |-> <<"OVERDUE_DAILY", DateOf(c)>>, at |-> c] \in ReminderSpecs(t, c)
      BY <1>2, <1>4, <2>1 DEF ReminderSpecs
  <2>. QED  BY <1>4, <2>1, <2>2 DEF Wanted
<1>5. ASSUME t.awaiting, k = <<"AWAITING_FOLLOW_UP", 0>>
      PROVE  k \in Wanted(t, c)
  <2>1. [key |-> <<"AWAITING_FOLLOW_UP", 0>>, at |-> Later(t.due + Day, c)]
            \in ReminderSpecs(t, c)
      BY <1>2, <1>5 DEF ReminderSpecs
  <2>. QED  BY <1>5, <2>1 DEF Wanted
<1>. QED  BY <1>1, <1>2, <1>3, <1>4, <1>5 DEF ReminderSpecs

\* Later on, what has begun has begun, and what is gone stays gone.
LEMMA BegunLater ==
    ASSUME NEW a \in Time, NEW b \in Time, a <= b, NEW k \in Key, Begun(k, a)
    PROVE  Begun(k, b)
<1>1. a \in Nat /\ b \in Nat
    BY ConstantTypes
<1>2. DateOf(a) \in Nat /\ DateOf(b) \in Nat /\ DateOf(a) <= DateOf(b)
    BY <1>1, DateOfType
<1>3. k[1] = "OVERDUE_DAILY" => k[2] \in Nat
  <2>1. DateOf(MaxTime) \in Nat
      BY ConstantTypes, DateOfType
  <2>. QED  BY <2>1 DEF Key, PolicyKey, PolicyType
<1>. QED  BY <1>2, <1>3 DEF Begun

LEMMA GoneLater ==
    ASSUME NEW a \in Time, NEW b \in Time, a <= b, NEW k \in Key, Gone(k, a)
    PROVE  Gone(k, b)
<1>1. a \in Nat /\ b \in Nat /\ \A t \in Time : t \in Nat
    BY ConstantTypes
<1>. QED  BY <1>1 DEF Gone

\* Without edits the task stays as it is.
LEMMA TaskStays ==
    ASSUME TypeInv, HoldInv, [Next]_vars, Unedited'
    PROVE  /\ Unedited /\ UNCHANGED task /\ TaskHeld /\ now' \in Time /\ now <= now'
           /\ \A k \in Key : CancelledIsGone(k) /\ KeptLate(k)
<1>1. /\ Used("edit")' >= Used("edit") /\ Used("edit") \in Nat /\ "edit" \in Events
      /\ "snooze" \in Events /\ "manual" \in Events
    BY UsedGrows, UsedType DEF Events
<1>2. Unedited
    BY <1>1 DEF Unedited
<1>3. ASSUME Work PROVE UNCHANGED task
    BY <1>3 DEF Work, PlanTask, PlanRows, PlanCommit, Select, SendCommit, Deliver, Defer,
       Drop, Send, SendFails, SendAnswerLost, Handled
<1>4. ASSUME Outside PROVE UNCHANGED task
  <2>1. ~(\E v \in Versions : Edit(v)) /\ ~Finish
      BY <1>1, <1>2, SpendFacts DEF Edit, Finish, Unedited
  <2>. QED  BY <1>4, <2>1 DEF Outside, SnoozeRead, CreateManual, FollowUpAgain
<1>5. UNCHANGED task
    BY <1>3, <1>4 DEF Next, SnoozeCommit, WorkerFault, Tick, vars
<1>6. now' \in Time /\ now <= now'
  <2>1. now \in Nat /\ now \in Time /\ MaxTime \in Nat
      BY ConstantTypes DEF TypeInv, TypeOK
  <2>2. now' = now \/ (now < MaxTime /\ now' = now + 1)
    <3>1. CASE Work
        BY <3>1 DEF Work, PlanTask, PlanRows, PlanCommit, Select, SendCommit, Deliver,
           Defer, Drop, Send, SendFails, SendAnswerLost, Handled
    <3>2. CASE Outside
        BY <3>2 DEF Outside, Edit, Finish, SnoozeRead, CreateManual, FollowUpAgain
    <3>. QED  BY <3>1, <3>2 DEF Next, SnoozeCommit, WorkerFault, Tick, vars
  <2>. QED  BY <2>1, <2>2 DEF Time
<1>. QED  BY <1>2, <1>5, <1>6 DEF HoldInv

LEMMA TaskHeldNext ==
    ASSUME TypeInv, HoldInv, [Next]_vars, Unedited'
    PROVE  TaskHeld'
<1>1. UNCHANGED task /\ TaskHeld
    BY TaskStays
<1>2. ASSUME NEW k \in Key, Deliver(k) PROVE TaskHeld'
  <2>1. /\ pc = "send" /\ UNCHANGED pc
        /\ loadedTask' = loadedTask \/ loadedTask' = SessionTask
      BY <1>2 DEF Deliver, Defer, Drop, Send, SendFails, SendAnswerLost, Sends, Handled
  <2>. QED  BY <1>1, <2>1 DEF TaskHeld, Planning, SessionTask
<1>3. CASE PlanTask \/ PlanRows \/ PlanCommit \/ Select \/ SendCommit \/ WorkerFault
    BY <1>1, <1>3 DEF PlanTask, PlanRows, PlanCommit, Select, SendCommit, WorkerFault,
       TaskHeld, Planning
<1>4. CASE Tick \/ SnoozeCommit \/ Outside \/ UNCHANGED vars
  <2>1. UNCHANGED <<pc, loadedTask>>
      BY <1>4 DEF Tick, SnoozeCommit, Outside, Edit, Finish, SnoozeRead, CreateManual,
         FollowUpAgain, worker, vars
  <2>. QED  BY <1>1, <2>1 DEF TaskHeld, Planning
<1>. QED  BY <1>2, <1>3, <1>4 DEF Next, Work

\* What a delivery makes of an open row of an active task.
LEMMA DeliverFacts ==
    ASSUME TypeInv, HoldInv, Unedited, NEW l \in Key, Deliver(l)
    PROVE  /\ pc = "send" /\ l \in batch /\ batch' = batch \ {l}
           /\ UNCHANGED <<now, task, rem, pc, cur, loaded, snoozer, snoozed>>
           /\ mem'[l] \in Row /\ mem'[l].status # "CANCELLED"
           /\ Open(mem'[l]) => mem'[l].at >= cur
           /\ \A k \in Key \ {l} : mem'[k] = mem[k]
           /\ cur \in Nat
<1>1. /\ pc = "send" /\ l \in batch
    BY DEF Deliver, Defer, Drop, Send, SendFails, SendAnswerLost, Sends, NextInBatch
<1>2. PICK new : Handled(l, new)
    BY DEF Deliver, Defer, Drop, Send, SendFails, SendAnswerLost
<1>3. mem[l] \in Row /\ cur \in Nat /\ mem \in [Key -> Row \cup {None}]
    BY <1>1, BatchRow DEF TypeInv, TypeOK
<1>4. mem'[l] = new /\ \A k \in Key \ {l} : mem'[k] = mem[k]
    BY <1>2, <1>3 DEF Handled
<1>5. SessionTask.active
    BY <1>1 DEF HoldInv, TaskHeld, SessionTask
<1>6. new \in Row
  <2>1. TypeInv'
      BY DeliverType
  <2>2. loaded'[l] # None /\ pc' = "send"
      BY <1>1, <1>2, BatchRow DEF Handled
  <2>. QED  BY <1>4, <2>1, <2>2 DEF TypeInv, SessionFits
<1>7. new.status # "CANCELLED" /\ (Open(new) => new.at >= cur)
  <2>1. CASE Defer(l)
    <3>1. new = [mem[l] EXCEPT !.at = QuietUntil(cur), !.status = "PENDING"]
        BY <1>3, <1>4, <2>1 DEF Defer, Handled
    <3>. QED  BY <1>3, <3>1, QuietUntilType DEF Row
  <2>2. CASE Send(l)
    <3>1. new = [mem[l] EXCEPT !.status = "SENT", !.attempts = @ + 1]
        BY <1>3, <1>4, <2>2 DEF Send, Handled
    <3>. QED  BY <1>3, <3>1 DEF Row, Open
  <2>3. CASE SendFails(l) \/ SendAnswerLost(l)
    <3>. DEFINE n == mem[l].attempts + 1
                delay == IF n <= Len(RETRY_DELAYS) THEN n ELSE Len(RETRY_DELAYS)
    <3>1. new = AfterFailure(mem[l])
        BY <1>3, <1>4, <2>3 DEF SendFails, SendAnswerLost, Handled
    <3>2. n \in Nat \ {0} /\ RETRY_DELAYS \in Seq(Nat \ {0})
          /\ Len(RETRY_DELAYS) \in Nat \ {0}
        BY <1>3, ConstantsAssumption DEF Row
    <3>3. RETRY_DELAYS[delay] \in Nat
        BY <3>2
    <3>4. new = IF GivesUp(n) THEN [mem[l] EXCEPT !.status = "FAILED", !.attempts = n]
                ELSE [status |-> "RETRY", at |-> cur + RETRY_DELAYS[delay], attempts |-> n]
        BY <3>1 DEF AfterFailure
    <3>. HIDE DEF n, delay
    <3>5. cur + RETRY_DELAYS[delay] >= cur
        BY <1>3, <3>3
    <3>. QED  BY <1>3, <3>4, <3>5 DEF Row, Open
  <2>4. ~Drop(l)
      BY <1>5 DEF Drop
  <2>. QED  BY <2>1, <2>2, <2>3, <2>4 DEF Deliver
<1>. QED
    BY <1>1, <1>2, <1>3, <1>4, <1>6, <1>7 DEF Handled

\* A commit of a snooze writes its time, or leaves the row alone.
LEMMA SnoozeFacts ==
    ASSUME TypeInv, SnoozeCommit, NEW k \in Key
    PROVE  /\ UNCHANGED <<now, task, worker>>
           /\ rem'[k] # None => rem[k] # None
           /\ \/ rem'[k] = rem[k] /\ snoozed'[k] = snoozed[k]
              \/ rem'[k] \in Row /\ (rem'[k].status = "CANCELLED" => rem[k].status = "CANCELLED")
           /\ \/ rem'[k] = rem[k] /\ snoozed'[k] = snoozed[k]
              \/ snoozed'[k] = 0
              \/ /\ pc \in {"plan", "planRows", "select"}
                 /\ rem'[k] # None /\ rem'[k].at = snoozed'[k]
<1>1. /\ snoozer.until \in Nat /\ snoozer.rows \in [Key -> Row \cup {None}]
      /\ rem[k] \in Row \cup {None} /\ snoozer.rows[k] \in Row \cup {None}
      /\ snoozer.rows[k] # None => rem[k] # None
      /\ UNCHANGED <<now, task, worker>>
    BY DEF SnoozeCommit, TypeInv, TypeOK, SessionFits
<1>. DEFINE old == snoozer.rows[k]
            new == [old EXCEPT !.at = snoozer.until, !.status = "PENDING"]
<1>2. /\ rem'[k] = Flush(rem[k], old, new)
      /\ snoozed'[k] = IF old = None THEN snoozed[k]
                       ELSE IF pc \in {"plan", "planRows", "select"} /\ old = rem[k]
                       THEN snoozer.until ELSE 0
    BY DEF SnoozeCommit
<1>3. CASE old = None
    BY <1>1, <1>2, <1>3 DEF Flush
<1>4. CASE old # None
  <2>1. old \in Row /\ rem[k] \in Row /\ rem[k] # None
      BY <1>1, <1>4
  <2>2. new \in Row /\ new.status = "PENDING" /\ new.at = snoozer.until
      BY <1>1, <2>1 DEF Row
  <2>. HIDE DEF old, new
  <2>3. rem'[k] \in Row /\ (rem'[k].status = "CANCELLED" => rem[k].status = "CANCELLED")
      BY <1>2, <1>4, <2>1, <2>2 DEF Flush, Row
  <2>4. old = rem[k] => rem'[k] = new
      BY <1>2, <2>1, <2>2, FlushOfCurrent
  <2>. QED  BY <1>1, <1>2, <1>4, <2>1, <2>2, <2>3, <2>4, NoneAssumption
<1>. QED  BY <1>3, <1>4

\* Planning cancels what is not wanted, at this and at any later time.
LEMMA PlanCommitCancels ==
    ASSUME TypeInv, HoldInv, [Next]_vars, PlanCommit, Unedited', NEW k \in Key
    PROVE  /\ rem'[k] # None => Begun(k, now)
           /\ rem'[k] # None /\ rem'[k].status = "CANCELLED" => Gone(k, now)
<1>1. /\ pc = "planCommit" /\ loadedTask = task /\ task \in Task /\ cur \in Time
      /\ cur <= now /\ now \in Time /\ Planning
      /\ rem[k] \in Row \cup {None} /\ loaded[k] \in Row \cup {None}
      /\ CancelledIsGone(k)
    BY TaskStays DEF PlanCommit, TypeInv, TypeOK, SessionFits, TaskHeld, Planning
<1>2. ASSUME k \notin Wanted(task, cur), Begun(k, cur) PROVE Gone(k, now)
  <2>1. cur \in Nat /\ now \in Nat /\ \A t \in Time : t \in Nat
      BY <1>1, ConstantTypes
  <2>2. \A t \in Time : t >= now => t >= cur
      BY <1>1, <2>1
  <2>3. \A t \in Time : cur <= t => k \notin Wanted(task, t)
      BY <1>1, <1>2, Lapses
  <2>. QED  BY <2>1, <2>2, <2>3 DEF Gone
<1>3. CASE loaded[k] # None
  <2>1. loaded[k] \in Row /\ rem[k] \in Row /\ rem[k] # None
      BY <1>1, <1>3 DEF TypeInv, SessionFits
  <2>2. Begun(k, now) /\ Begun(k, cur)
        /\ (rem[k].status = "CANCELLED" => Gone(k, now))
      BY <1>1, <2>1 DEF CancelledIsGone
  <2>3. rem'[k] = Flush(rem[k], loaded[k], Planned(k, loaded[k]))
      BY <1>3, PlanCommitRows
  <2>4. CASE Planned(k, loaded[k]).status = loaded[k].status
    <3>1. rem'[k].status = rem[k].status
        BY <1>3, <2>3, <2>4 DEF Flush
    <3>. QED  BY <2>2, <3>1
  <2>5. CASE Planned(k, loaded[k]).status # loaded[k].status
    <3>1. rem'[k].status = Planned(k, loaded[k]).status
        BY <1>3, <2>3, <2>5 DEF Flush
    <3>2. k \in Wanted(loadedTask, cur) => Planned(k, loaded[k]).status # "CANCELLED"
        BY <2>1, <2>5 DEF Planned, Revivable, TooEarly, Row
    <3>. QED  BY <1>1, <1>2, <2>2, <3>1, <3>2
  <2>. QED  BY <2>4, <2>5
<1>4. CASE loaded[k] = None
  <2>1. CASE rem'[k] = rem[k]
      BY <1>1, <2>1 DEF CancelledIsGone
  <2>2. CASE /\ rem[k] = None /\ k \in Wanted(loadedTask, cur)
             /\ rem'[k] = NewRow(SpecTime(loadedTask, cur, k))
    <3>1. Begun(k, cur) /\ rem'[k].status = "PENDING"
        BY <1>1, <2>2, WantedBegun DEF NewRow
    <3>2. Begun(k, now)
        BY <1>1, <3>1, BegunLater
    <3>. QED  BY <3>1, <3>2
  <2>. QED  BY <1>4, <2>1, <2>2, PlanCommitRows
<1>. QED  BY <1>3, <1>4

\* A row that is not newly cancelled, whose key had begun, is fine later on.
LEMMA CancelledLater ==
    ASSUME TypeInv, HoldInv, [Next]_vars, Unedited', NEW k \in Key,
           rem'[k] # None => rem[k] # None,
           rem'[k] # None /\ rem'[k].status = "CANCELLED" => rem[k].status = "CANCELLED"
    PROVE  /\ rem'[k] # None => Begun(k, now')
           /\ rem'[k] # None /\ rem'[k].status = "CANCELLED" => Gone(k, now)'
<1>1. /\ UNCHANGED task /\ now \in Time /\ now' \in Time /\ now <= now'
      /\ CancelledIsGone(k)
    BY TaskStays DEF TypeInv, TypeOK
<1>2. Gone(k, now') => Gone(k, now)'
    BY <1>1 DEF Gone
<1>. QED  BY <1>1, <1>2, BegunLater, GoneLater DEF CancelledIsGone

LEMMA CancelledNext ==
    ASSUME TypeInv, HoldInv, [Next]_vars, Unedited', NEW k \in Key
    PROVE  CancelledIsGone(k)'
<1>1. /\ Unedited /\ UNCHANGED task /\ CancelledIsGone(k)
      /\ now \in Time /\ now' \in Time /\ now <= now'
      /\ pc \notin {"planCommit", "send"} => loaded = NoRows
      /\ pc # "send" => batch = {} /\ mem = NoRows
    BY TaskStays DEF TypeInv, TypeOK, SessionFits
<1>2. NoRows[k] = None
    BY DEF NoRows
<1>3. CASE PlanTask
  <2>1. /\ rem' = rem /\ now' = now /\ cur' = now /\ pc' = "planRows" /\ batch' = batch
      BY <1>3 DEF PlanTask
  <2>. QED
      BY <1>1, <1>3, <2>1, CancelledLater DEF PlanTask, CancelledIsGone, Planning, Gone
<1>4. CASE PlanRows
  <2>1. /\ rem' = rem /\ now' = now /\ cur' = cur /\ pc = "planRows" /\ pc' = "planCommit"
        /\ batch' = batch
      BY <1>4 DEF PlanRows
  <2>. QED  BY <1>1, <2>1 DEF CancelledIsGone, Planning, Gone
<1>5. CASE PlanCommit
  <2>1. pc' = "select" /\ batch' = {} /\ now' = now
      BY <1>1, <1>5 DEF PlanCommit
  <2>2. Gone(k, now) => Gone(k, now)'
      BY <1>1, <2>1 DEF Gone
  <2>. QED
      BY <1>5, <2>1, <2>2, PlanCommitCancels DEF CancelledIsGone, Planning
<1>6. CASE Select
  <2>1. PICK b \in DueBatches(now) :
            /\ batch' = b /\ mem' = loaded'
            /\ loaded' = [l \in Key |-> IF l \in b THEN rem[l] ELSE None]
      BY <1>6 DEF Select
  <2>2. k \in b => Open(rem[k]) /\ rem[k].at <= now
      BY <2>1 DEF DueBatches, Due
  <2>3. /\ rem' = rem /\ now' = now /\ cur' = now /\ pc' = "send"
      BY <1>6 DEF Select
  <2>4. Gone(k, now) => Gone(k, now)'
      BY <1>1, <2>3 DEF Gone
  <2>. QED
      BY <1>1, <2>1, <2>2, <2>3, <2>4 DEF CancelledIsGone, Planning, Open
<1>7. ASSUME NEW l \in Key, Deliver(l) PROVE CancelledIsGone(k)'
  <2>1. /\ pc = "send" /\ l \in batch /\ batch' = batch \ {l}
        /\ UNCHANGED <<now, task, rem, pc, cur, loaded>>
        /\ mem'[l].status # "CANCELLED"
        /\ k # l => mem'[k] = mem[k]
      BY <1>1, <1>7, DeliverFacts
  <2>2. Gone(k, now) => Gone(k, now)'
      BY <1>1, <2>1 DEF Gone
  <2>. QED  BY <1>1, <2>1, <2>2 DEF CancelledIsGone, Planning
<1>8. CASE SendCommit
  <2>1. /\ now' = now /\ pc = "send" /\ pc' = "plan" /\ batch' = {}
        /\ rem'[k] = Flush(rem[k], loaded[k], mem[k])
      BY <1>8, SendCommitRows DEF SendCommit
  <2>2. rem'[k] # None => rem[k] # None
      BY <2>1 DEF Flush, TypeInv, SessionFits
  <2>3. rem'[k] # None /\ rem'[k].status = "CANCELLED" => rem[k].status = "CANCELLED"
      BY <1>1, <2>1 DEF Flush, CancelledIsGone
  <2>. QED  BY <2>1, <2>2, <2>3, CancelledLater DEF CancelledIsGone, Planning
<1>9. CASE WorkerFault
  <2>1. rem' = rem /\ pc' = "plan" /\ batch' = {}
      BY <1>9 DEF WorkerFault
  <2>. QED  BY <2>1, CancelledLater DEF CancelledIsGone, Planning
<1>10. ASSUME UNCHANGED <<pc, cur, loaded, mem, batch>>,
              rem'[k] # None => rem[k] # None \/ k[1] # "OVERDUE_DAILY",
              rem'[k] # None /\ rem'[k].status = "CANCELLED" =>
                  rem[k] # None /\ rem[k].status = "CANCELLED"
       PROVE  CancelledIsGone(k)'
  <2>1. Planning' = Planning
      BY <1>10 DEF Planning
  <2>2. rem'[k] # None => Begun(k, now')
    <3>1. CASE rem[k] # None
        BY <1>1, <3>1, BegunLater DEF CancelledIsGone
    <3>2. CASE rem[k] = None
        BY <1>10, <3>2 DEF Begun
    <3>. QED  BY <3>1, <3>2
  <2>3. rem'[k] # None /\ Planning => Begun(k, cur')
    <3>1. CASE rem[k] # None
        BY <1>1, <1>10, <3>1 DEF CancelledIsGone
    <3>2. CASE rem[k] = None
        BY <1>10, <3>2 DEF Begun
    <3>. QED  BY <3>1, <3>2
  <2>4. Gone(k, now) => Gone(k, now)'
    <3>1. Gone(k, now) => Gone(k, now')
        BY <1>1, GoneLater
    <3>. QED  BY <1>1, <3>1 DEF Gone
  <2>5. Gone(k, cur) => Gone(k, cur)'
      BY <1>1, <1>10 DEF Gone
  <2>. QED  BY <1>1, <1>10, <2>1, <2>2, <2>3, <2>4, <2>5 DEF CancelledIsGone
<1>11. CASE CreateManual \/ \E c \in Callbacks : FollowUpAgain(c)
  <2>1. /\ \/ rem'[k] = rem[k]
           \/ k[1] # "OVERDUE_DAILY" /\ rem'[k].status = "PENDING"
      BY <1>11, InsertFacts, TriedNewRow
  <2>2. UNCHANGED worker
      BY <1>11, InsertStep DEF Insert
  <2>. QED  BY <1>10, <2>1, <2>2 DEF worker
<1>12. CASE SnoozeCommit
  <2>1. /\ UNCHANGED worker
        /\ rem'[k] # None => rem[k] # None
        /\ \/ rem'[k] = rem[k]
           \/ rem'[k].status = "CANCELLED" => rem[k].status = "CANCELLED"
      BY <1>12, SnoozeFacts
  <2>. QED  BY <1>10, <2>1 DEF worker
<1>13. CASE Tick \/ Finish \/ UNCHANGED vars \/ (\E v \in Versions : Edit(v))
            \/ \E d \in SnoozeDelays : SnoozeRead(d)
  <2>1. rem' = rem /\ UNCHANGED <<pc, cur, loaded, mem, batch>>
      BY <1>13 DEF Tick, Finish, Edit, SnoozeRead, worker, vars
  <2>. QED  BY <1>10, <2>1
<1>14. CASE Work
    BY <1>3, <1>4, <1>5, <1>6, <1>7, <1>8, <1>14 DEF Work
<1>15. CASE Outside
    BY <1>11, <1>13, <1>15 DEF Outside
<1>. QED  BY <1>9, <1>12, <1>13, <1>14, <1>15 DEF Next

LEMMA KeptNext ==
    ASSUME TypeInv, HoldInv, [Next]_vars, Unedited', NEW k \in Key
    PROVE  KeptLate(k)'
<1>. SUFFICES ASSUME snoozed'[k] # 0 PROVE KeptLate(k)'
    BY DEF KeptLate
<1>1. /\ Unedited /\ UNCHANGED task /\ TaskHeld /\ CancelledIsGone(k) /\ KeptLate(k)
      /\ pc \notin {"planCommit", "send"} => loaded = NoRows
      /\ rem[k] \in Row \cup {None} /\ loaded[k] \in Row \cup {None}
      /\ loaded[k] # None => rem[k] # None
      /\ snoozed[k] \in Nat
    BY TaskStays DEF TypeInv, TypeOK, SessionFits
<1>2. NoRows[k] = None
    BY DEF NoRows
<1>3. CASE SnoozeCommit
  <2>1. /\ UNCHANGED <<pc, loaded, mem>>
        /\ \/ rem'[k] = rem[k] /\ snoozed'[k] = snoozed[k]
           \/ /\ pc \in {"plan", "planRows", "select"}
              /\ rem'[k] # None /\ rem'[k].at = snoozed'[k]
        /\ snoozed'[k] \in Nat
    <3>1. TypeInv'
        BY TypeNext
    <3>. QED  BY <1>3, <3>1, SnoozeFacts DEF worker, TypeInv, TypeOK
  <2>. QED  BY <1>1, <1>2, <2>1 DEF KeptLate
<1>4. CASE ~SnoozeCommit
  <2>1. snoozed' = snoozed
    <3>1. CASE Work
        BY <3>1 DEF Work, PlanTask, PlanRows, PlanCommit, Select, SendCommit, Deliver,
           Defer, Drop, Send, SendFails, SendAnswerLost, Handled, history
    <3>2. CASE Outside
        BY <3>2 DEF Outside, Edit, Finish, SnoozeRead, CreateManual, FollowUpAgain, history
    <3>. QED  BY <1>4, <3>1, <3>2 DEF Next, WorkerFault, Tick, history, vars
  <2>2. /\ rem[k] # None /\ rem[k] \in Row
        /\ loaded[k] # None => rem[k] = loaded[k]
        /\ pc = "planCommit" => rem[k] = loaded[k]
        /\ Open(rem[k]) => rem[k].at >= snoozed[k]
        /\ pc = "send" /\ loaded[k] # None /\ Open(mem[k]) => mem[k].at >= snoozed[k]
      BY <1>1, <2>1 DEF KeptLate
  <2>3. CASE PlanTask \/ WorkerFault
      BY <1>1, <1>2, <2>1, <2>2, <2>3 DEF PlanTask, WorkerFault, KeptLate
  <2>4. CASE PlanRows
      BY <2>1, <2>2, <2>4 DEF PlanRows, KeptLate
  <2>5. CASE PlanCommit
    <3>1. pc = "planCommit" /\ pc' = "select" /\ loaded' = NoRows /\ Planning
          /\ loadedTask = task /\ cur \in Time /\ loaded[k] = rem[k]
          /\ task \in Task
        BY <1>1, <2>2, <2>5 DEF PlanCommit, TaskHeld, Planning, TypeInv, TypeOK, SessionFits
    <3>2. Planned(k, rem[k]) \in Row
        BY <2>2, <3>1, PlannedType
    <3>3. rem'[k] = Planned(k, rem[k])
        BY <2>2, <2>5, <3>1, <3>2, PlanCommitRows, FlushOfCurrent
    <3>4. rem[k].status = "CANCELLED" => k \notin Wanted(loadedTask, cur)
      <4>1. cur \in Nat /\ cur >= cur
          BY <3>1, ConstantTypes
      <4>. QED  BY <1>1, <2>2, <3>1, <4>1 DEF CancelledIsGone, Gone
    <3>5. Open(rem'[k]) => rem'[k].at >= snoozed[k]
      <4>1. k \in Wanted(loadedTask, cur) => SpecTime(loadedTask, cur, k) \in Nat
          BY <3>1, WantedType
      <4>2. Open(Planned(k, rem[k])) =>
                Open(rem[k]) /\ Planned(k, rem[k]).at >= rem[k].at
          BY <2>2, <3>4, <4>1 DEF Planned, Open, Cancellable, Revivable, TooEarly, Row
      <4>. QED  BY <1>1, <2>2, <3>2, <3>3, <4>2 DEF Row
    <3>6. rem'[k] # None
        BY <3>2, <3>3, NoneAssumption
    <3>. QED  BY <1>2, <2>1, <3>1, <3>5, <3>6 DEF KeptLate
  <2>6. CASE Select
    <3>1. PICK b \in DueBatches(now) :
              /\ batch' = b /\ mem' = loaded'
              /\ loaded' = [l \in Key |-> IF l \in b THEN rem[l] ELSE None]
        BY <2>6 DEF Select
    <3>2. rem' = rem /\ pc' = "send"
        BY <2>6 DEF Select
    <3>. QED  BY <2>1, <2>2, <3>1, <3>2 DEF KeptLate
  <2>7. ASSUME NEW l \in Key, Deliver(l) PROVE KeptLate(k)'
    <3>1. /\ pc = "send" /\ l \in batch
          /\ UNCHANGED <<rem, pc, loaded, snoozed>>
          /\ mem'[l] \in Row /\ (Open(mem'[l]) => mem'[l].at >= cur) /\ cur \in Nat
          /\ k # l => mem'[k] = mem[k]
        BY <1>1, <2>7, DeliverFacts
    <3>2. CASE k # l
        BY <2>1, <2>2, <3>1, <3>2 DEF KeptLate
    <3>3. CASE k = l
      <4>1. loaded[k] # None /\ Open(loaded[k]) /\ loaded[k].at <= cur
          BY <1>1, <3>1, <3>3, BatchRow DEF CancelledIsGone
      <4>2. snoozed[k] <= cur
          BY <1>1, <2>2, <3>1, <4>1 DEF Row
      <4>3. mem'[k].at \in Nat
          BY <3>1, <3>3 DEF Row
      <4>4. Open(mem'[k]) => mem'[k].at >= snoozed[k]
          BY <1>1, <3>1, <3>3, <4>2, <4>3
      <4>. QED  BY <2>1, <2>2, <3>1, <4>4 DEF KeptLate
    <3>. QED  BY <3>2, <3>3
  <2>8. CASE SendCommit
    <3>1. /\ pc = "send" /\ pc' = "plan" /\ loaded' = NoRows
          /\ rem'[k] = Flush(rem[k], loaded[k], mem[k]) /\ rem'[k] # None
        BY <2>2, <2>8, SendCommitRows DEF SendCommit
    <3>2. CASE loaded[k] = None
      <4>1. rem'[k] = rem[k]
          BY <3>1, <3>2 DEF Flush
      <4>. QED  BY <1>2, <2>1, <2>2, <3>1, <4>1 DEF KeptLate
    <3>3. CASE loaded[k] # None
      <4>1. mem[k] \in Row
          BY <3>1, <3>3 DEF TypeInv, SessionFits
      <4>2. rem'[k] = mem[k]
          BY <2>2, <3>1, <3>3, <4>1, FlushOfCurrent
      <4>. QED  BY <1>2, <2>1, <2>2, <3>1, <3>3, <4>2 DEF KeptLate
    <3>. QED  BY <3>2, <3>3
  <2>9. CASE CreateManual \/ \E c \in Callbacks : FollowUpAgain(c)
    <3>1. rem'[k] = rem[k] /\ UNCHANGED worker
        BY <2>2, <2>9, InsertFacts
    <3>. QED  BY <2>1, <2>2, <3>1 DEF worker, KeptLate
  <2>10. CASE Tick \/ Finish \/ UNCHANGED vars \/ (\E v \in Versions : Edit(v))
              \/ \E d \in SnoozeDelays : SnoozeRead(d)
    <3>1. rem' = rem /\ UNCHANGED <<pc, loaded, mem>>
        BY <2>10 DEF Tick, Finish, Edit, SnoozeRead, worker, vars
    <3>. QED  BY <2>1, <2>2, <3>1 DEF KeptLate
  <2>11. CASE Work
      BY <2>3, <2>4, <2>5, <2>6, <2>7, <2>8, <2>11 DEF Work
  <2>12. CASE Outside
      BY <2>9, <2>10, <2>12 DEF Outside
  <2>. QED  BY <1>4, <2>3, <2>10, <2>11, <2>12 DEF Next
<1>. QED  BY <1>3, <1>4

LEMMA HoldInit == Init => HoldInv
<1>. SUFFICES ASSUME Init PROVE HoldInv
    OBVIOUS
<1>1. TaskHeld
    BY DEF Init, TaskHeld, Planning
<1>2. \A k \in Key : CancelledIsGone(k) /\ KeptLate(k)
    BY DEF Init, NoRows, CancelledIsGone, KeptLate
<1>. QED  BY <1>1, <1>2 DEF HoldInv

LEMMA HoldNext == TypeInv /\ HoldInv /\ [Next]_vars => HoldInv'
    BY TaskHeldNext, CancelledNext, KeptNext DEF HoldInv

\* A committed snooze that no worker transaction overlapped is kept: however
\* often planning, failing sends, quiet hours and crashes come in between, no
\* batch before its time has the reminder.
THEOREM SnoozesHold == Spec => SnoozeHolds
<1>1. ASSUME TypeInv, HoldInv, [Next]_vars, Unedited, pc = "select", pc' = "send",
             NEW k \in batch'
      PROVE  snoozed[k] <= cur'
  <2>1. Select
    <3>1. CASE Work
        BY <1>1, <3>1 DEF Work, PlanTask, PlanRows, PlanCommit, SendCommit, Deliver, Defer,
           Drop, Send, SendFails, SendAnswerLost, Sends
    <3>2. ~Outside
        BY <1>1 DEF Outside, Edit, Finish, SnoozeRead, CreateManual, FollowUpAgain, worker
    <3>3. ~SnoozeCommit /\ ~WorkerFault /\ ~Tick /\ ~UNCHANGED vars
        BY <1>1 DEF SnoozeCommit, WorkerFault, Tick, worker, vars
    <3>. QED  BY <1>1, <3>1, <3>2, <3>3 DEF Next
  <2>2. k \in Key /\ Open(rem[k]) /\ rem[k].at <= now /\ cur' = now
      BY <2>1 DEF Select, DueBatches, Due
  <2>3. KeptLate(k)
      BY <1>1, <2>2 DEF HoldInv
  <2>4. snoozed[k] \in Nat /\ now \in Time /\ rem[k] \in Row
      BY <1>1, <2>2 DEF TypeInv, TypeOK, Open
  <2>5. now \in Nat
      BY <2>4, ConstantTypes
  <2>. QED  BY <2>2, <2>3, <2>4, <2>5 DEF KeptLate, Row
<1>2. TypeInv /\ HoldInv /\ [Next]_vars =>
          [Unedited /\ pc = "select" /\ pc' = "send" =>
               \A k \in batch' : snoozed[k] <= cur']_vars
    BY <1>1
<1>. QED  BY <1>2, TypeInit, TypeNext, HoldInit, HoldNext, PTL DEF Spec, SnoozeHolds
=============================================================================
