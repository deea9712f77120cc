--------------------------- MODULE DigestDelivery ---------------------------
(***************************************************************************)
(* Digests (app/jobs/digest.py): the worker's loop that sends the morning  *)
(* digest, the evening review and the weekly review, each within the       *)
(* minute of its configured time, and keeps one digest_deliveries row per  *)
(* type and date so that a later iteration does not send it again.         *)
(*                                                                         *)
(* A digest is one transaction: the row is flushed, the message is sent,   *)
(* and only then is the row committed.  An exception ends the iteration:   *)
(* the digests after the failed one wait for the next iteration.           *)
(*                                                                         *)
(* Time is counted in minutes, the width of the window.  Several workers   *)
(* stand for a container that is replaced while the old one still runs,    *)
(* the case in which the table's unique key, not the loop, keeps a digest  *)
(* from being sent twice.                                                  *)
(***************************************************************************)
EXTENDS DigestContent

CONSTANTS
    Worker,        \* worker processes
    WeekLength,    \* days of a week
    MorningTime, EveningTime, WeeklyDay, \* user_settings
    MaxFaults      \* bound: failed sends, lost answers and crashes

DigestType == {"MORNING", "EVENING", "WEEKLY"}
Key == [type : DigestType, date : Date]   \* uq_digest_delivery

ASSUME ConstantsAssumption ==
    /\ WeekLength \in Nat \ {0}
    /\ {MorningTime, EveningTime} \subseteq 0..(DayLength - 1)
    /\ WeeklyDay \in 1..WeekLength
    /\ MaxFaults \in Nat
    /\ None \notin Key

VARIABLES
    now,      \* the current minute
    rows,     \* committed digest_deliveries rows
    pc,       \* what each worker does next
    todo,     \* the digests left in each worker's iteration
    job,      \* the digest each worker's session is about
    begun,    \* the workers whose iteration began in the current minute
    prompt,   \* an iteration began and ended in the current minute
    sent,     \* messages the user got, per digest
    doubtful, \* of those, the ones whose outcome the worker never learnt
    spoilt,   \* minutes in which something failed or no whole iteration ran
    faults    \* bound: failures so far
vars == <<now, rows, pc, todo, job, begun, prompt, sent, doubtful, spoilt, faults>>

Init ==
    /\ now = 0
    /\ rows = {}
    /\ pc = [w \in Worker |-> "sleep"]
    /\ todo = [w \in Worker |-> <<>>]
    /\ job = [w \in Worker |-> None]
    /\ begun = {}
    /\ prompt = FALSE
    /\ sent = [k \in Key |-> 0]
    /\ doubtful = [k \in Key |-> 0]
    /\ spoilt = {}
    /\ faults = 0

-----------------------------------------------------------------------------
Today == LocalDate(now)
Minute == (now + ZoneOffset) % DayLength
DigestTime(type) == IF type = "MORNING" THEN MorningTime ELSE EveningTime
IsoWeekday == (Today % WeekLength) + 1
IsDigestWindow(type) == Minute = DigestTime(type)

Due(type) ==
    /\ type = "WEEKLY" => IsoWeekday = WeeklyDay
    /\ IsDigestWindow(type)

\* Variant: any earlier digest of the type counts.
ExistingOfType(key) == \E row \in rows : row.type = key.type
Existing(key) == key \in rows
\* Rows another worker's transaction has inserted but not committed.
Held(w) == {job[v] : v \in {u \in Worker \ {w} : pc[u] \in {"send", "commit"}}}

Wake(w) ==
    /\ pc[w] = "sleep"
    /\ pc' = [pc EXCEPT ![w] = "next"]
    /\ todo' = [todo EXCEPT ![w] = <<"MORNING", "EVENING", "WEEKLY">>]
    /\ begun' = begun \cup {w}
    /\ UNCHANGED <<now, rows, job, prompt, sent, doubtful, spoilt, faults>>

\* send_digest_if_due up to the flush: the day, the window, an existing row.
Skip(w) ==
    /\ pc[w] = "next" /\ todo[w] # <<>>
    /\ ~ Due(Head(todo[w])) \/ Existing([type |-> Head(todo[w]), date |-> Today])
    /\ todo' = [todo EXCEPT ![w] = Tail(@)]
    /\ UNCHANGED <<now, rows, pc, job, begun, prompt, sent, doubtful, spoilt, faults>>

Begin(w) ==
    LET key == [type |-> Head(todo[w]), date |-> Today] IN
    /\ pc[w] = "next" /\ todo[w] # <<>>
    /\ Due(key.type) /\ ~ Existing(key)
    /\ pc' = [pc EXCEPT ![w] = "flush"]
    /\ job' = [job EXCEPT ![w] = key]
    /\ todo' = [todo EXCEPT ![w] = Tail(@)]
    /\ UNCHANGED <<now, rows, begun, prompt, sent, doubtful, spoilt, faults>>

\* Variant: only the SELECT looks for an existing row.
NeverViolates(w) == FALSE
UniqueViolation(w) == job[w] \in rows

\* Variant: the row is committed before the message is sent.
RowsAfterFlushed(w) == rows \cup {job[w]}
RowsAfterFlush(w) == rows

Flush(w) ==
    /\ pc[w] = "flush"
    /\ job[w] \notin Held(w)   \* the INSERT waits for a like one
    /\ IF UniqueViolation(w)   \* IntegrityError: roll back, return False
       THEN /\ pc' = [pc EXCEPT ![w] = "next"]
            /\ job' = [job EXCEPT ![w] = None]
            /\ UNCHANGED rows
       ELSE /\ pc' = [pc EXCEPT ![w] = "send"]
            /\ rows' = RowsAfterFlush(w)
            /\ UNCHANGED job
    /\ UNCHANGED <<now, todo, begun, prompt, sent, doubtful, spoilt, faults>>

Send(w) ==
    /\ pc[w] = "send"
    /\ sent' = [sent EXCEPT ![job[w]] = @ + 1]
    /\ pc' = [pc EXCEPT ![w] = "commit"]
    /\ UNCHANGED <<now, rows, todo, job, begun, prompt, doubtful, spoilt, faults>>

Commit(w) ==
    /\ pc[w] = "commit"
    /\ rows' = rows \cup {job[w]}
    /\ pc' = [pc EXCEPT ![w] = "next"]
    /\ job' = [job EXCEPT ![w] = None]
    /\ UNCHANGED <<now, todo, begun, prompt, sent, doubtful, spoilt, faults>>

-----------------------------------------------------------------------------
\* Variant: the next session still sees what the last one was about.
EndIterationOnly(w) ==
    /\ pc' = [pc EXCEPT ![w] = "sleep"]
    /\ todo' = [todo EXCEPT ![w] = <<>>]
    /\ begun' = begun \ {w}
    /\ UNCHANGED job

\* The iteration is over, complete or cut off; the session's row is gone.
EndIteration(w) ==
    /\ pc' = [pc EXCEPT ![w] = "sleep"]
    /\ job' = [job EXCEPT ![w] = None]
    /\ todo' = [todo EXCEPT ![w] = <<>>]
    /\ begun' = begun \ {w}

CountFault ==
    /\ faults < MaxFaults
    /\ faults' = faults + 1
    /\ spoilt' = spoilt \cup {now}

Sleep(w) ==
    /\ pc[w] = "next" /\ todo[w] = <<>>
    /\ EndIteration(w)
    /\ prompt' = (prompt \/ w \in begun)
    /\ UNCHANGED <<now, rows, sent, doubtful, spoilt, faults>>

\* The send raises: the message did not arrive, or its answer was lost.
SendFails(w) ==
    /\ pc[w] = "send"
    /\ CountFault
    /\ \E arrived \in {0, 1} :
          /\ sent' = [sent EXCEPT ![job[w]] = @ + arrived]
          /\ doubtful' = [doubtful EXCEPT ![job[w]] = @ + arrived]
    /\ EndIteration(w)
    /\ prompt' = (prompt \/ w \in begun)
    /\ UNCHANGED <<now, rows>>

\* A crash, or a database error at any step; the container is restarted.
Crash(w) ==
    /\ pc[w] # "sleep"
    /\ CountFault
    /\ doubtful' = IF pc[w] = "commit"
                   THEN [doubtful EXCEPT ![job[w]] = @ + 1] ELSE doubtful
    /\ EndIteration(w)
    /\ UNCHANGED <<now, rows, prompt, sent>>

Tick ==
    /\ now < MaxTime
    /\ spoilt' = IF prompt THEN spoilt ELSE spoilt \cup {now}
    /\ now' = now + 1
    /\ prompt' = FALSE
    /\ begun' = {}
    /\ UNCHANGED <<rows, pc, todo, job, sent, doubtful, faults>>

RunDigestLoop(w) ==
    \/ Wake(w) \/ Skip(w) \/ Begin(w) \/ Flush(w) \/ Send(w) \/ Commit(w)
    \/ Sleep(w) \/ SendFails(w) \/ Crash(w)

Next == Tick \/ \E w \in Worker : RunDigestLoop(w)

Spec == Init /\ [][Next]_vars

-----------------------------------------------------------------------------
\* Every variable has its type, and a session is about a digest exactly
\* while it handles one.
TypeOK ==
    /\ now \in 0..MaxTime
    /\ rows \subseteq Key
    /\ pc \in [Worker -> {"sleep", "next", "flush", "send", "commit"}]
    /\ todo \in [Worker -> Seq(DigestType)]
    /\ job \in [Worker -> Key \cup {None}]
    /\ \A w \in Worker : job[w] = None <=> pc[w] \in {"sleep", "next"}
    /\ begun \subseteq Worker
    /\ prompt \in BOOLEAN
    /\ sent \in [Key -> Nat] /\ doubtful \in [Key -> Nat]
    /\ spoilt \subseteq 0..MaxTime /\ faults \in 0..MaxFaults

\* The user gets a digest once per date, whichever workers race for it: only
\* a message whose outcome the worker never learnt is ever sent again.
SentOncePerDate ==
    \A key \in Key : sent[key] <= 1 + doubtful[key]

\* A digest on record is one the user got: a failed send leaves no row that
\* would keep the next iteration from trying again.
RecordedWasSent == \A key \in rows : sent[key] > 0

\* The one minute of a digest is enough: if one iteration of the loop ran
\* in it from its beginning to its end and nothing failed in it, the digest
\* was sent and recorded, however many digests fall into the minute and
\* whatever happened before.
Window(key) == key.date * DayLength + DigestTime(key.type) - ZoneOffset
OnItsDay(key) ==
    key.type = "WEEKLY" => (key.date % WeekLength) + 1 = WeeklyDay
WindowDelivers ==
    \A key \in Key :
        /\ Window(key) \in 0..(now - 1)
        /\ OnItsDay(key)
        /\ Window(key) \notin spoilt
        => key \in rows

\* What a digest says is a function of the tasks and the time, whatever was
\* delivered before: it is looked at once, before anything is.
Untouched == now = 0 /\ rows = {} /\ begun = {} /\ faults = 0

\* DigestContent: in the evening review, an open task is overdue or due today
\* exactly as the documented rule and the owner's zone say, for every instant
\* and every task whose deadlines leave no doubt, and nothing is left out.
EveningTellsWhatIsDue == Untouched => EveningListsWhatIsDue

\* DigestContent: the morning digest's limit of three risks hides no task that
\* is due today, delegated or awaited.
MorningHidesNothingDue == Untouched => MorningShowsWhatIsDue
=============================================================================
