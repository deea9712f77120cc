# AI Secretary: TLA+ models and proofs

This directory holds a TLA+ development of the AI Secretary: the program in
`app/` that keeps one owner's tasks in PostgreSQL, talks to the owner through a
Telegram bot, reads Gmail, writes to Google Calendar, and sends reminders and
digests. Every definition is translated from the source; PROJECT.json says
which lines it stands for. Six parts are modelled and proved about, and the
plan at the end says what comes next.

- [1. The system](#1-the-system)
- [2. Modules and how they correspond to the code](#2-modules-and-how-they-correspond-to-the-code)
- [3. Runs: what is checked, with which bounds](#3-runs-what-is-checked-with-which-bounds)
- [4. Fairness](#4-fairness)
- [5. Where the code and its documentation disagree](#5-where-the-code-and-its-documentation-disagree)
- [6. What is proved](#6-what-is-proved)
- [7. What is only model-checked, and what is left out](#7-what-is-only-model-checked-and-what-is-left-out)
- [8. Plan](#8-plan)
- [9. Running it](#9-running-it)

## 1. The system

`docker-compose.yml` starts an `api` container (FastAPI), a `worker` container
and PostgreSQL. The API process serves the HTTP routes, one database session
per request. The worker is one asyncio process that runs the bot's long polling
and three loops, each of which sleeps 30 seconds between iterations: digests,
reminders and, when enabled, Gmail. All share state only through the database
(READ COMMITTED), through SQLAlchemy sessions that load rows, keep them as
objects and write the changed columns at a flush. Telegram, Gmail, the LLM
provider and Google Calendar are called in the middle of such sessions.

| Component | State | Operations | Talks to | What makes it correct |
|---|---|---|---|---|
| **Task core** (`app/tasks/service.py`, `api/routes/tasks.py`) | `users`, `tasks`, `task_events`, `task_sources` | create, update (also the status, complete and postpone routes), cancel | called by the API and the bot | an operation key takes effect once; a task and its audit event are committed together; no update reopens a finished task |
| **Reminder engine** (`app/jobs/reminders.py`) | `reminders` | plan, deliver, retry, defer, snooze, manual reminder, follow-up again | reads `tasks`; sends to Telegram | no duplicate but for a crash; the plan follows the task; nothing due is forgotten; SENT and FAILED are final |
| **Digests** (`app/jobs/digest.py`) | `digest_deliveries` | send the morning digest, evening review, weekly review in their minute | reads `tasks`; sends to Telegram | once per type and date; recorded only if sent; the one minute suffices |
| **Gmail polling** (`app/jobs/gmail.py`, `app/integrations/gmail/`) | `integration_accounts`, `source_messages`, `task_candidates` | poll from the loop or by hand, classify, show candidates, mark the account | Gmail, LLM, Telegram | every mail is stored and decided about; a candidate is shown once |
| **Candidates and decisions** (`app/integrations/telegram/bot.py`, `service.py`) | `task_candidates`, `source_messages.extra` | confirm, edit, ignore | task core | a source message leads to at most one task; a task and the decision that created it name each other |
| **Telegram bot** (`bot.py`, `client.py`) | update offset, pending edits in `extra` | commands, free text, callbacks | task core, reminders, LLM | no update is lost or blocks others; a button or `/new` takes effect once, a text once more only for a crash |
| **Calendar** (`app/integrations/calendar/`, end of the task routes) | `tasks.calendar_*`, Google events | create, update or delete a task's event | Google | one event per task; an event that lags behind is told of |
| **LLM service** (`app/llm/`) | none | classify, extract, repair once | the provider | answers fit the schema |
| **Worker process** (`app/jobs/worker.py`) | the loops | start, stop | all loops | one failing loop does not stop the others |
| **Dashboard** (`app/dashboard/`) | `user_settings.extra` | aggregates, stores Gmail rules | database | read-only figures |
| OAuth state, encryption, configuration, health | none | stateless checks | | |
| Migrations, backup, deployment | schema | run by an operator | | |

The hard behaviours of this code, with their lines, are the `hazards` of
PROJECT.json. They are of five sorts:

- *Interleaving sessions.* A request reads, decides and commits in separate
  statements, while another one does the same with the same rows. What orders
  them is a unique index here, a row lock there, and in some places nothing.
- *External effects inside a transaction.* A message is sent first and its
  outcome committed later (reminders: a whole batch later; Gmail: at the next
  mail). A crash, an exception or a lost answer in between repeats the effect.
- *Objects older than the rows.* The ORM writes the columns that differ from
  the *loaded* object, so a stale session overwrites part of a row.
- *Time.* Windows of one minute, quiet hours over midnight, a grace of one
  minute, cool-downs, retries, all in loops that can be late.
- *Partial failure.* One failing call ends an iteration, a poll or a batch
  with part of its work done.

## 2. Modules and how they correspond to the code

| Module | Models | Checked through |
|---|---|---|
| `TaskCore` | the task core | `MCTaskCore`, `MCTaskWork` |
| `TaskSerial` | the task core when clients wait for each other's answers | `MCTaskWork` |
| `TaskLedger` | what the task core promises (abstract) | |
| `TaskCoreLedger` | the refinement mapping from `TaskCore` to `TaskLedger` | `MCTaskWork` |
| `TaskCoreProofs`, `TaskLedgerProofs` | theorems about `TaskCore`, `TaskSerial` and the refinement | |
| `ReminderEngine` | the reminder engine next to the bot and the API | `MCReminderEngine` |
| `ReminderProofs` | theorems about `ReminderEngine` | |
| `DigestContent` | the sections of the digests, as functions of tasks and time | `MCDigestDelivery` |
| `DigestDelivery` | the digest loop, with more than one worker | `MCDigestDelivery` |
| `DigestProofs` | theorems about `DigestDelivery` and `DigestContent` | |
| `Division` | lemmas about days and the time of day, for both | |
| `GmailSync` | polls of one mailbox | `MCGmailSync` |
| `GmailProofs` | theorems about `GmailSync` | |
| `TelegramBot` | the bot's polling, candidates and pending edits | `MCTelegramBot` |
| `TelegramProofs` | theorems about `TelegramBot` | |
| `CalendarSync` | the Google event of one task | `MCCalendarSync` |
| `CalendarProofs` | theorems about `CalendarSync` | |

The modules meet at their interfaces. `TaskLedger` is the task core as its
clients see it. `TelegramBot` calls the task service by the keys whose
discipline `TaskCore` has in detail, and races the open transaction of one mail,
of which `GmailSync` has the details. `ReminderEngine`, `DigestDelivery` and
`CalendarSync` see the task core as committed changes of a task.

A component's variables come in three groups, in the order of their
declaration: committed rows, the memory of sessions and processes, and
histories that the properties refer to. An action is what happens between two
points at which another actor may step in: an SQL statement, an external call,
a commit. Definitions whose comment begins with *Variant* are not part of any
specification; they are plausible wrong versions of the definition that
follows, and each property is known to fail when one of them takes its place.

### TaskCore

A request holds one of `Sessions`; `pc[s]` is its next statement.

| Action | Code |
|---|---|
| `Submit` | a client sends an operation, with its key, for the first time or again |
| `FindOwner`, `AddOwner` | `ensure_user`: SELECT, then INSERT, which waits for another session's uncommitted owner and on a violation goes on with the committed one |
| `LookupTask`, `InsertTask` | `create`: SELECT by key; the flushed INSERT, which waits for an uncommitted task of the same key |
| `FinishCreate` | source link, TASK_CREATED event, commit; "invalid" for an unknown source message |
| `Load`, `Check`, `Commit` | `update` / `cancel`: `get`; replay by key, version and transition checks; UPDATE, event, COMMIT |
| `Abort` | client, connection or process goes away; the session rolls back |

`Flush` is what makes the model honest about concurrency: the UPDATE writes
only columns that differ from the loaded object and compares no version.
`pending[s]` and `addsOwner[s]` are uncommitted rows, on which other INSERTs
wait. `reply` and `sent` record what clients asked and were told, so that
"confirmed" can be related to the audit log.

Left out: columns no rule of the service reads (titles, texts, priority,
contacts); contacts. The calendar call at the end of two routes is in
`CalendarSync`.

`TaskSerial` adds a workload: requests that overlap, or requests of which at most
one is under way at a time (`OneAtATime`), each of which may still be cut off
and sent again. Some of what one expects of a task holds of the second only: two
stale UPDATEs end in one version number, or mix the columns of two changes.

### TaskLedger and TaskCoreLedger

`TaskLedger` knows no sessions. Its state is each task's status, the audit
entries, what was asked under each key and what was confirmed; `Create`,
`Change` and `Repeat` carry an operation out, or confirm it again, in one step.
The mapping of `TaskCoreLedger` takes the committed rows, the audit log
(without statuses and versions), `sent` and the confirmations; the commit of a
session is the instant at which its operation is carried out, and all other
steps of a session are invisible. One freedom of the ledger is owed to the ORM:
a stale UPDATE may leave out a status that equals the loaded one, so a change
that overlaps others may leave the status as it finds it.

### ReminderEngine

One task and its reminders; the planner treats tasks independently. An
iteration of the loop is `PlanTask`, `PlanRows`, `PlanCommit`
(`plan_reminders`: reads the task, reads its reminders, commits), then
`Select`, one of `Defer` / `Drop` / `Send` / `SendFails` / `SendAnswerLost` per
reminder of the batch, and `SendCommit` (`send_due_reminders`: one commit for
all outcomes). `loaded` and `mem` are the rows as the worker's session loaded
and as it holds them. Outside: `Edit` and `Finish` (the task changes),
`SnoozeRead` and `SnoozeCommit` (`snooze_task_reminders`), `CreateManual`,
`FollowUpAgain`, `WorkerFault`, `Tick`.

`ReminderSpecs` is `reminder_specs`: which reminders a task should have, and
when. A reminder's identity is its dedupe key; times inside dedupe keys of
daily reminders are dates. Time is counted in ticks longer than the one-minute
grace and no longer than the shortest retry delay; `Day`, `Hours3` ... give the
code's durations in ticks.

### DigestDelivery

`Wake`, then for each of the three digests `Skip` or `Begin`, `Flush`, `Send`,
`Commit`, then `Sleep`. `Flush` inserts the row under the unique key and waits
for another worker's like row (`Held`); the message goes out before the commit.
`SendFails` and `Crash` end the iteration (`run_digest_loop` catches around all
three digests). One tick is one minute, the width of the window. Several
workers stand for a container that is replaced while the old one still runs:
with one worker the loop alone would prevent doubles, with two it is the
unique key. The owner and settings rows exist. The clock counts UTC; windows
and dates are the owner's zone's, `ZoneOffset` ahead of it.

`DigestContent` holds the texts' logic without their wording: `LocalDueDate`,
`IsOverdue`, and for the morning digest and the evening review the set of tasks
in each section. Deadlines are instants, days of the owner's zone, or both
(`postpone` sets the one and leaves the other). The weekly review's sections are
left out, and so is the limit of 500 newest tasks the loop loads.

### GmailSync

A poll is one session: `StartPoll`, `GetToken`, `ListMessages`, then per mail
`NextMessage`, `CreateSource`, `InsertSource`, and `Classify` or `Extract` and
`Notify`, then `EndSync`, which moves `last_polled_at`. Storing a mail commits;
what is decided about it is open until the next commit. `poll[p].src` and
`cand` are the uncommitted statuses and candidates, `locks` the rows they lock,
`shown` what the owner has been shown of them. Failures: `CallFails` (any
exception that leaves `sync_account`), `NotifyFails` (recorded and committed,
then raised), `NotifyGarbled` and `SkipGarbled` (an answer that is no JSON
raises a ValueError, which the loop over mails takes for a parsing error),
`InsertDuplicate` with `ExpiredFails` (after the rollback of a lost race the
session's objects are expired, and loading them outside an awaited call
raises), `Crash`. `bound` is the mail whose row the local variable `source` is
bound to when that handler uses it.

A mail is a number in the order of arrival, and Gmail lists the newest first.
What rules and LLM make of a mail is chosen anew in every attempt. Sender lists
and IGNORE rules are one set, `Filtered`. Poll-run rows, counters, several
accounts and `GMAIL_START_AT` are left out.

### TelegramBot

`queue` is what the owner has sent, `cards` the messages with buttons. The bot
is one process: `GetUpdates` (`getUpdates` with the offset, which also tells
Telegram what to forget) and `NextUpdate` (the offset is advanced, then
`handle_update` is called). The steps of a handler end at each commit and each
call to Telegram or the LLM.

| Actions | Code |
|---|---|
| `ReadText`, `ClearAwaiting`, `Answer` | `_handle_natural_language` for a task whose card asked for a new value: the change, the commit that clears `awaiting_edit`, the answer |
| `ParseMessage`, `StoreText`, `SaveCandidate`, `ShowCandidate`, `MarkNotified` | a free text becomes a source message and a candidate, or the candidate of a source that awaits a new text; the preview; NOTIFIED |
| `NewTask` | `/new` |
| `LoadCandidate`, `Ignore`, `AwaitNewText`, `CreateFromCandidate`, `Confirm`, `AnswerCallback`, `Redraw` | the candidate's buttons; creating the task and confirming the candidate are two commits |
| `PressTask` | the task card's done and edit buttons |
| `CallFails`, `Crash` | an exception ends the update; the process restarts with offset 0 |
| `ShowMail`, `CommitMail`, `RollBackMail` | a mail of the Gmail loop: shown, its rows still locked, then committed or not |

A text is its position in `queue`, a candidate the text it was read from, so
"the task is what the owner confirmed" can be stated. `record` and `source` are
loaded into `hand` and written back from there, as the handlers do with the JSON
columns. What the parser makes of a reply to an edit (`Readings`) is a choice.

Left out: the card's other buttons (waiting, postpone, cancel, remind, snooze,
follow-up), which call operations of `TaskCore` and `ReminderEngine`; lists,
search, `/edit`, status messages, digest buttons; the limit of 20 rows in
`get_pending_candidate`; a 401 from Telegram, which ends the polling like a
crash.

### CalendarSync

A request of the calendar routes (`RequestCreate`, `RequestUpdate`,
`RequestDelete`) loads the row, resolves the window and calls Google; `Save`
and `MarkError` commit what came of it. `RequestChange` is the commit of PATCH
or postpone, followed by `SyncLinked` (`_sync_linked_calendar`). Google keeps
`events` by id. A call succeeds, is refused (`CallRefused`), takes effect with
an unusable answer (`CallGarbled`), or raises what no handler records
(`CallBroken`: no token, no connection); a request may be cut off between any
two steps (`CutOff`). `BotChange` is a change by the bot, which never calls the
calendar. `title` counts changes of title and description.

Left out: OAuth and tokens, the switches that disable the integration.

## 3. Runs: what is checked, with which bounds

| Run | Instance | Distinct states | Shows |
|---|---|---|---|
| `TaskCore` | 2 sessions, 3 keys, 2 identities; racing creations with keys reused for other operations, or overlapping changes of one task, each key sent twice, or all statuses one request after the other | 318 k | `TypeOK`; `TaskHasItsCreation`: one task per key, committed with its event and owner; `ConfirmedOnce`, `AuditCoversVersion`, `AuditTrail`, `ImplementsLedger`; `EveryRequestEnds`: no cycle of waits; without overlap `SerialVersionCounts`, `SerialAuditReplays`, `SerialCompletion`, `UpdatesKeepFinished` |
| `ReminderEngine` | day of 5 ticks, 7 ticks; 1 edit, 3 failed sends, 1 crash or lost answer; or 1 snooze, 1 manual reminder or repeated follow-up, 1 failure | 1.4 M | `TypeOK`, `DeliveryAccounted`, `PlanMatchesTask`, `OutcomeIsFinal`, `SilenceAfterFinish`, `SnoozeHolds` |
| `ReminderLive` | day of 5 ticks, 7 ticks, batch limit 1, 1 failure, 1 fault | 145 k | `DueIsHandled`, `LastingReachUser` |
| `DigestDelivery` | 2 workers, 2 days of 2 minutes in a zone 1 minute ahead of UTC, 2 faults; symmetric | 2.4 M | `TypeOK`, `SentOncePerDate`, `RecordedWasSent`, `WindowDelivers`; for every task and instant `MorningHidesNothingDue`, and `EveningTellsWhatIsDue` where the deadlines are undisputed |
| `GmailSync` | 2 mails (1 filtered), loop and one manual poll, 1 fault, 1 reconnection | 245 k | `TypeOK`, `CandidateShownOrFlagged`, `ShownOnce`, `NothingLeftBehind`, `EveryPollEnds`, `MailIsHandled` |
| `TelegramBot` | 3 updates, two of: a crash, a failing call, a mail | 612 k | `TypeOK`, `OnlyFailedIsLost`, `OneTaskPerOrigin`, `CandidateLinked`, `EffectsAccounted`, `EveryUpdateEnds` |
| `CalendarSync` | 2 sessions; 4 requests and 2 faults, or 3 requests, 1 fault and 1 change by the bot; symmetric | 779 k | `TypeOK`, `EventsAccounted`, `DivergenceIsTold` |
| `TaskCoreLock`, `ReminderDeferred`, `TelegramEdited`, `TelegramRedelivered`, `CalendarPostponed` | as above, or smaller | | one disagreement each, section 5 |

Why these bounds reach the interesting cases:

- *Task core.* Two sessions are enough for every race here: each wait and each
  unique index relates one session to one other. Two identities and two keys
  allow two tasks of one key, were they possible. Three keys make a create and
  two competing changes; sending each twice makes the retry that overlaps its
  first attempt. `MaxAttempts` bounds requests, and with them the audit log.
  `MCTaskWork` names the workloads. Sessions and keys are interchangeable; a
  check of liveness allows no symmetry set, so the module orders them instead
  (`SecondOverlaps`, `Ranked`): it leaves out behaviours that differ from others
  by a renaming only.
- *Task core, one request after the other.* What the `Serial` properties state
  does not survive overlapping requests (two stale UPDATEs end in one version
  number), so it is stated for the behaviours whose requests do not overlap,
  over all ten statuses.
- *Reminders.* A day of five ticks with quiet hours 3, 4 and 0 crosses
  midnight; seven ticks reach the next day's overdue reminder and end outside
  quiet hours, so that `LastingReachUser` cannot be met by a deferral: what is
  deferred comes due again before the last tick, and only a failed attempt may
  leave a reminder waiting beyond it. Three failures
  are exactly `MAX_ATTEMPTS`. A behaviour has one of the `Budgets`, which
  bound each kind of outside event. `Punctual` names the budgets under which the
  loop finishes an iteration in every tick, as a 30-second loop does in ticks of
  several minutes (the one with a snooze, and `ReminderDeferred`); elsewhere the
  loop may be late by any number of ticks.
- *Digests.* Evening and weekly review share a minute, so one iteration sends
  two digests and a failure of the first affects the second. A minute counts as
  `spoilt` when something failed in it or no iteration ran within it from
  beginning to end; `WindowDelivers` speaks of the others. The zone's offset of
  one minute of a two-minute day makes the day of UTC and the owner's differ
  half of the time. `EveningTellsWhatIsDue` and `MorningHidesNothingDue` range
  over all combinations of status, type, priority, due instant and due day.
- *Gmail.* Two mails are enough for "an earlier mail of the same poll", on
  which all commit and rollback effects turn; a second poller for overlap.
  Cool-down and clock make polls overlap, follow one another, and start in the
  tick in which a mail arrives (`after:` is inclusive).
- *Telegram.* Three updates are a text, its button, and one more press, text or
  redelivery; they may come in one batch, in which the second's handling is
  interrupted with the third still behind it. With a mail in the budget a
  candidate exists before any text. Two troubles at a time let a failure follow
  a crash. The owner of `TelegramEdited` needs six updates and is patient: the
  disagreement needs no race. `TelegramRedelivered` has a patient owner too, three
  updates and one crash.
- *Calendar.* Four requests are create, change, delete and create again; two of
  them may overlap. Three due dates, one of them none, make windows that
  stretch, that are impossible, and that come from the stored one.

Deadlock checking is off throughout: the bounds let every model come to rest
(all attempts used, clock at its end). That requests, polls and updates do not
wait for each other in a cycle is stated as liveness instead
(`EveryRequestEnds`, `EveryPollEnds`, `EveryUpdateEnds`).

## 4. Fairness

- `TaskCore`: weak fairness of `Serve(s)` for each session. asyncio resumes a
  request whose statement has returned, and PostgreSQL grants a row to a
  waiter. `Submit` and `Abort` are not fair: clients and failures owe nothing.
- `ReminderEngine`: weak fairness of the loop's steps, of a snooze's commit and
  of the clock. Users, Telegram's failures and crashes are not fair, and the
  number of faults is bounded: a provider that is down forever is not claimed
  to deliver.
- `GmailSync`: weak fairness of the clock, of the loop's next poll and of a
  poll under way. Nothing makes the owner reconnect an account, send a manual
  poll, or a mail arrive, which is why `MailIsHandled` excuses an account in
  ERROR.
- `TelegramBot`: weak fairness of polling and handling together, and of the
  commit of a mail's transaction. The owner, failures and crashes owe nothing.
- `CalendarSync` claims no liveness: nothing retries a failed synchronization.
- `DigestDelivery` claims no liveness: its promise is about one minute, and
  `WindowDelivers` states it as an invariant.

## 5. Where the code and its documentation disagree

Each has a run that must find the counterexample.

1. **`tasks.version` is no optimistic lock under concurrency**
   (`OptimisticLock`, `service.py:543`). The check compares the loaded object;
   the UPDATE does not compare again. Two requests that state the same version
   are both confirmed.
2. **Deferred reminders are cancelled** (`DeferredIsKept`, `reminders.py:176`).
   A reminder that quiet hours moved to their end is no longer a wanted one
   once its policy time has passed, and the next planning cancels it. Only
   `OVERDUE`, `OVERDUE_1D` and the follow-up survive (`LastingReachUser`).
3. **A candidate sent back for editing takes every later text**
   (`ConfirmedBecomesTask`, `bot.py:833`). `awaiting_edit` of a source message
   is never removed, so each later free text becomes the candidate of the same
   source. The create button under an earlier preview creates the task of the
   newest text, and a second create gets the first one's task back, while the
   owner reads that the task was created.
4. **A redelivered text is applied again** (`EditAppliedOnce`, `bot.py:257`).
   The key of an edit names the version of the task, and the commit that ends the
   waiting for the text (line 278) comes after the commit of the edit. After a
   crash between the two Telegram delivers the text again, which finds a higher
   version and so a fresh key: the edit is carried out and audited twice, against
   MASTER_PROMPT.md:108. `EffectsAccounted` says how far this goes: one effect
   more per crash, and for texts only.
5. **A linked event does not follow the bot** (`LinkedFollowsDue`,
   `bot.py:620`). Only the routes PATCH and postpone update a linked event; the
   bot's postpone and its edits of the due date do not.

Met while modelling and not given a run:

- `cancel` validates no transition (`service.py:333`), so that a DONE task can be
  cancelled and keeps `completed_at`, whereas DATABASE_SCHEMA.md:418 has "any
  active -> CANCELLED". No property states that DONE is final:
  `UpdatesKeepFinished` is about updates only, and a property about this line
  would repeat it.
- A poll that is repeated can show a candidate twice: it is shown before it is
  committed, and an exception or a crash at a later mail of the same poll rolls
  it back (`gmail/service.py:273`). `ShownOnce` excuses it.
- The ValueError of an answer that is no JSON is handled as a parsing error of
  the mail, with `source` still bound to the mail before it
  (`gmail/service.py:289`): the poll ends as a success and lists from after the
  mail next time, and the mail before it is marked FAILED.
- Only CONNECTED accounts are polled and any failure sets ERROR, so "Gmail
  unavailable" is not retried until the owner authorizes again; a mail marked
  FAILED is listed again only if it came in the second the last poll began;
  overlapping polls may show a candidate twice or leave a mail NEW, which is why
  `ShownOnce` and `NothingLeftBehind` are stated for polls that do not overlap.
- The digests call a task overdue when the day of its deadline has passed, with or
  without an instant (`digest.py:61-65`), whereas DATABASE_SCHEMA.md:423-431 and
  MASTER_PROMPT.md:275 define overdue by `due_at` alone, as the lists behind the
  digest's buttons do (`OverdueButton`). `postpone` sets `due_at` and leaves
  `due_date` (`service.py:311`), so that a task whose deadline was a day stays
  overdue by that day after it was postponed. `EveningTellsWhatIsDue` holds the
  review to the documented rule, and leaves out the deadlines on which code and
  rule differ: a day alone that has passed, an instant that contradicts the day
  beside it (`Undisputed`).
- A candidate may be rejected after it was confirmed and confirmed after it was
  rejected (`bot.py:825`): the last press decides, whatever the task.
- Stale changes of a task end in one version number or set the version back
  (`service.py:272`); without an overlap the version counts
  (`SerialVersionCounts`).
- The stored window of an event outlives the deadline it came from
  (`calendar/service.py:188-201`): postponing stretches the event from its old
  start, and moving the deadline before that start is refused with 502 after
  the change was committed.
- ARCHITECTURE.md:199-200 has "`calendar_sync_status=FAILED`, retry job"; the code
  writes "ERROR" and nothing retries. Completing or cancelling a task leaves its
  event alone.
- A button pressed while a mail's transaction is open waits for the row and then
  overwrites `extra` with what it had loaded, which loses the mail's candidate.

## 6. What is proved

The theorems hold for every value of the constants that meets the named
assumptions of the modules: any number of sessions, workers, mails and
requests, any times and offsets, any number of faults. Each module's
`ConstantsAssumption` types its constants. The others say that `None` is no
value of a row (`NoneAssumption`), that a day has at least one tick
(`ClockAssumption`), that mails are numbered `1..n` in the order of arrival,
that the calendar's `Budgets` have a largest number of requests, so that
Google's event ids are a finite set, and that `None` is no instant or date. TLC evaluates all of them on the runs'
instances. All inductive invariants below were first checked by TLC on
instances like those of the runs.

`TaskCoreProofs` proves, with TLAPS, for any sets of sessions, keys, tasks, due
dates and requests:

| Theorem | Says |
|---|---|
| `TypeCorrect` | `Spec => []TypeOK` |
| `OneTaskPerKey` | `Spec => []TaskHasItsCreation` |
| `ConfirmedExactlyOnce` | `Spec => []ConfirmedOnce` |
| `EveryChangeAudited` | `Spec => AuditTrail` |
| `NoVersionIsInvented` | `Spec => []AuditCoversVersion` |
| `VersionsCount` | `WorkSpec => []SerialVersionCounts` |
| `AuditReplays` | `WorkSpec => []SerialAuditReplays` |
| `CompletionAgrees` | `WorkSpec => []SerialCompletion` |
| `FinishedIsKept` | `WorkSpec => UpdatesKeepFinished` |

`WorkSpec` is `TaskSerial`'s. `ConstantsAssumption` of `TaskCore` says that requests are requests, `None` is
none of the other values, the flag is a Boolean and the bound a number. Nothing
is assumed of the number of sessions or the behaviour
of clients: they may reuse keys for other operations, and requests may be cut
off anywhere.

The argument:

- **`TypeInv`** is `TypeOK` and `SessionConsistent`. Typing alone is not
  inductive: `Commit` applies `Changed` to `read[s]`, which is a row only
  because a session at `check` or `commit` has loaded one. `SessionFits`
  says what a session holds at each statement: its operation was sent under its
  key, creates and changes are at their own statements, a session at `event`
  and no other has inserted a task. The database only grows, so other sessions
  stay consistent (`OthersConsistent`).
- **`CreateInv`** adds `PendingApart` and `OwnerFirst` to `TaskHasItsCreation`.
  That one key makes one task depends on uncommitted rows: a task that is
  inserted and not committed has an identity and a key no committed or other
  uncommitted task has, which `InsertTask` establishes by waiting and
  re-reading. That a task has an owner depends on each session past
  `ensure_user` seeing a committed owner or its own.
- **`ConfirmInv`** adds `Audited` to `ConfirmedOnce`: every event is the record
  of an operation sent under its key, on the task that operation names. This is
  what makes the replays right (`FoundIsRecorded`, `ReplayIsRecorded`): a
  request that finds its key used, or a task of its key, answers from it.
  Uniqueness of keys in the log is the unique index (`UniqueViolation`).
- **`AuditTrail`** is an action property and follows from `TypeInv`: two of the
  ten kinds of step write, each appends one event about the task it writes.
- **`CoverInv`** adds `LoadedCovered` to `AuditCoversVersion`. A commit writes
  the loaded version plus one, whatever the row has become since, so what the
  log covers must be known of the version a session loaded; it stays covered
  because the log only grows. `ChangesGrow` is the counting.
- **`SerialInv`** is for requests that do not overlap. `SeesTask`: the one under
  way has loaded the row as it is, and what it is about to write is allowed from
  there, so the columns that `Flush` leaves out are equal anyway. The
  replay of the log is `LoggedStatus`, the status of the last record that sets
  one. It needs no induction over the log: that there is a last one
  (`LastIsThere`) is kept by every append. `FinishedIsKept` holds because
  `ALLOWED_TRANSITIONS` leads nowhere from DONE and CANCELLED and the row an
  update was checked against is the row it changes. Cancellations are excepted
  (section 5).

`TaskLedgerProofs` proves `ImplementsTheLedger`, `Spec => ImplementsLedger`,
from the same assumption: the initial state maps to the ledger's, and every
step, from a state in `CreateInv`, to a step of the ledger or a stutter
(`LedgerNext`). `FinishCreate` and `Commit` are `Create` and `Change`; that the
key is fresh is the unique index, that the task does not exist yet is
`PendingApart`. A replay is a `Repeat` (`ReplayIsRepeat`, `FoundIsEntered`),
`Submit` an `Ask`, and refusals, `Load`, waits and `Abort` are stutters. Which
statuses a stale UPDATE can leave is `FlushOutcome`.

`DigestProofs` proves, for any number of workers, any lengths of day and week,
any times of digests and any zone ahead of UTC:

| Theorem | Says |
|---|---|
| `TypeCorrect` | `Spec => []TypeOK` |
| `OncePerDate` | `Spec => []SentOncePerDate` |
| `RecordMeansSent` | `Spec => []RecordedWasSent` |
| `OneMinuteIsEnough` | `Spec => []WindowDelivers` |
| `ReviewTellsWhatIsDue` | `Spec => []EveningTellsWhatIsDue` |
| `MorningTellsWhatIsDue` | `Spec => []MorningHidesNothingDue` |
| `EveningIsComplete` | what an evening review of any list of tasks says |
| `MorningIsComplete` | what a morning digest of any list of tasks says |

- **`OnceInv`** adds `Apart` (a key that is flushed and not committed is one
  worker's, and not on record) and `Balanced` (how often a digest went out is
  accounted for by its row, by the worker holding it after its send, or by a
  doubtful outcome). What was sent and what is on record are two variables that
  different workers move, so neither property is inductive without the other.
- **`DeliverInv`** adds `Covered` (while nothing has failed in this minute, a
  worker whose iteration began in it has each due digest before it, in hand, or
  on record) and `Prompted` (after a whole iteration each due digest is on
  record) to `WindowDelivers`. When the clock ticks, what `Prompted` says of the
  minute becomes what `WindowDelivers` says of the past; that the minute of a
  digest determines its date is arithmetic on days, proved from the division
  axioms (`DivisionIsUnique`, `WindowIsNow`).
- The last four are about what a digest says, a function of tasks and time, and
  use no invariant. The runs evaluate it for one task, in the morning with up to
  four urgent ones before it; `EveningIsComplete` and `MorningIsComplete` speak
  of any list: no task is in two sections of a review, a review of open tasks is
  never empty, the ten tasks it falls back to are open, and no task that is due
  today, delegated or awaited is lost behind the three risks, however many
  urgent tasks there are. `DeadlinesOf` is the arithmetic: a comparison of days of the
  owner's zone agrees with one of minutes about every undisputed deadline, because
  an earlier day means an earlier minute (`DaysOfInstants`) and the last minute of
  a day falls on that day (`LastMinuteOfDay`). `FirstOfIsShort` bounds the lists that are cut.

`ReminderProofs` proves, for any policy offsets, quiet hours, retry delays,
batch limit and number of outside events:

| Theorem | Says |
|---|---|
| `TypeCorrect` | `Spec => []TypeOK` |
| `FinishedIsSilent` | `Spec => SilenceAfterFinish` |
| `FinalOutcomes` | `Spec => OutcomeIsFinal` |
| `MessagesAccounted` | `Spec => []DeliveryAccounted` |
| `PlanningMatches` | `Spec => []PlanMatchesTask` |
| `SnoozesHold` | `Spec => SnoozeHolds` |

- **`TypeInv`** is `TypeOK` and `SessionFits`: at each step of the loop the
  session holds rows exactly where the step is about to use them, and a row
  once loaded stays in the table.
- **`Alone`** says that without snoozes only the worker changes existing rows, so
  that what it loaded is what is on record when it commits. `OutcomeIsFinal`
  follows, and **`AccountInv`**: what the user received is counted by a row on
  record as sent, a row the open batch holds as sent, or a fault; the three
  attempts are the shape of a row (`Tried`), which each step preserves.
- **`PlanInv`** is about the moment after planning's commit; that a wanted
  reminder is not set too early rests on the order of the policy's times
  (`Division` and the lemmas on `SpecTime`).
- **`HoldInv`** relates a snoozed row to the session that loaded it before or
  after the snooze (`KeptLate`), and needs that planning, for a task nobody
  edits, cancels only what will never be wanted again (`CancelledIsGone`).
  Otherwise it could revive a snoozed row at the policy's time. That a key does
  not come back is monotony of the policy in time, proved for each type of
  reminder.

`CalendarProofs` proves, for any number of sessions, dates, windows and requests:

| Theorem | Says |
|---|---|
| `TypeCorrect` | `Spec => []TypeOK` |
| `EveryEventAccounted` | `Spec => []EventsAccounted` |
| `DivergencesAreTold` | `Spec => []DivergenceIsTold` |

- **`TypeInv`** bounds Google's events: those made and those whose creation is at
  its call are no more than the requests used.
- **`AccountInv`** bounds orphans by counting. The set that
  `EventsAccounted` measures can grow by a step that is nobody's fault: the
  second of two overlapping creations replaces the first one's link at its
  commit. `MayDisplace` counts such replacements in advance, when the second
  creation begins, and `Waste` holds events that no row and no creation tells
  of. `Waste` and `MayDisplace` together never exceed faults and overlapping
  creations. `Known` is why an event is counted once: a made event is known to
  its request only, and one request has deleted a deleted one.
- **`ToldInv`** is about requests that did not overlap: the one that is open has
  loaded the row as it is and will save what it sent, and with none open and no
  error told the linked event shows the task (`InSync`).

`GmailProofs` proves, for any number of mails and pollers:

| Theorem | Says |
|---|---|
| `TypeCorrect` | `Spec => []TypeOK` |
| `CandidatesShownOrFlagged` | `Spec => []CandidateShownOrFlagged` |
| `CandidatesShownOnce` | `Spec => []ShownOnce` |
| `NoMailIsLeftBehind` | `Spec => []NothingLeftBehind` |

- **`TypeInv`** adds to `TypeOK`, whose locks are exclusive, that a poll goes
  through each mail once and has locked what it has written (`Fits`), and that
  what it has decided concerns stored mails (`Stored`).
- **`SeenInv`** carries `CandidateShownOrFlagged` into the open sessions: a
  candidate about to be committed was shown, has its error recorded, or is at its
  notification.
- **`RecordedInv`** and **`SoloInv`** are for `ShownOnce`. While polls do not
  overlap, the open poll is alone (`Alone`), decides about the rows as they are
  (`CurrentAll`), and each showing of a mail is lost, on record, or in the open
  transaction (`CountInv`).
- **`LeftInv`**, part of `SoloInv`, follows a listing through its poll: a mail
  from before the time the poll will leave behind is settled, still to come, in
  hand, or decided in the open transaction (`Covers`). It holds with a
  garbled answer only for mails outside `skipped`.

`TelegramProofs` proves, for any queue of updates, any mails, and any number of
crashes, failing calls and deliveries:

| Theorem | Says |
|---|---|
| `TypeCorrect` | `Spec => []TypeOK` |
| `NoUpdateIsLost` | `Spec => []OnlyFailedIsLost` |
| `OriginsHaveOneTask` | `Spec => []OneTaskPerOrigin` |
| `CandidatesAreLinked` | `Spec => []CandidateLinked` |
| `EffectsAreAccounted` | `Spec => []EffectsAccounted` |

- **`TypeInv`** adds to `TypeOK` what the handler holds at each of its steps
  (`HandFits`), where the offset and the batch stand (`PollFits`), that cards and
  presses show rows that exist (`CardsExist`), that every row has its place in
  the orders "newest first" (`RowsOrdered`), and that nobody decides about a mail
  before its candidate is committed (`MailFits`).
- **`KeyInv`**: each task's key is that of an update in the queue, and no two
  tasks have the same, so there are no more tasks than updates
  (`TasksBounded`), which the type of keys needs in turn.
- **`PassedInv`**: what the offset has passed was handled, but for the update in
  hand; a crash moves the offset back to what Telegram has forgotten.
- **`LinkInv`** is for the two commits of a press. A task that its record does
  not name belongs to a press that has not been passed, has failed, or stands at
  its decision; and since one handler runs at a time, the record it has loaded
  stays the record until then.
- **`UsesInv`** counts effects against the keys in use and, for texts, which have
  none, against crashes.

In these modules a step of an invariance proof is one lemma per group of
actions. What an action does to the session and to the rows is stated once
(the lemmas named `...Moves`), and each part of an invariant has lemmas for the
kinds of step (commit, rollback, failure, a step of one session that leaves the
rows alone) that the actions are instances of.

## 7. What is only model-checked, and what is left out

Only model-checked, on the instances above, is liveness (`EveryRequestEnds`,
`DueIsHandled`, `LastingReachUser`, `EveryPollEnds`, `MailIsHandled`,
`EveryUpdateEnds`), which is beyond the prover together with `ENABLED`.

Every other property that the passing runs check is a theorem.

Abstractions common to the models:

- A flush and its commit are one step where no external call lies between them.
- Row locks are modelled where sessions hold them across a statement another
  session competes for (owner and task INSERTs, digest rows, source messages).
- A crash and a database error have the same effect, a rollback.
- A lost answer is an external call that had its effect and raised.
- Clocks of the worker and the database agree.

Not modelled, and why:

- *The LLM service and prompts*: stateless; every answer it can give is a
  choice in `GmailSync` and `TelegramBot`.
- *Wording of digests and messages, and the weekly review's sections*:
  formatting; the weekly review lists by the same predicates as the others.
- *Dashboard*: read-only aggregates and one settings form. Its time series
  count UTC days within a period of the owner's zone.
- *Signatures, encryption, OAuth, configuration, health, migrations,
  deployment*: stateless or run by an operator.
- *The limit of 500 tasks* per planning and per digest: the models follow a few
  tasks; the limit is in the list of hazards without a property.
- *Contacts*: rows that are looked up by name or inserted, which no rule of the
  task core reads.

## 8. Plan

All modules of the plan are written, and every safety property the runs check is
proved. What is left, in this order:

1. An abstract specification of a candidate's life (shown, decided, task
   created and linked), with `TelegramBot` shown to implement it.
2. The same for a reminder (open, sent, given up, cancelled) and
   `ReminderEngine`.

## 9. Running it

    tlc -workers 2 -config TaskCore.cfg MCTaskWork
    tlc -workers 2 -config ReminderEngine.cfg MCReminderEngine
    tlc -workers 2 -config DigestDelivery.cfg MCDigestDelivery
    tlc -workers 2 -config GmailSync.cfg MCGmailSync
    tlc -workers 2 -config TelegramBot.cfg MCTelegramBot
    tlc -workers 2 -config CalendarSync.cfg MCCalendarSync
    tlapm TaskCoreProofs.tla
    tlapm TaskLedgerProofs.tla
    tlapm DigestProofs.tla
    tlapm ReminderProofs.tla
    tlapm CalendarProofs.tla
    tlapm GmailProofs.tla
    tlapm TelegramProofs.tla

Each run takes about three minutes or less; the longest proofs take some ten
minutes. PROJECT.json lists all runs with their
modules and configurations, the properties with the variants that break them,
the hazards, and the lines of the source each definition stands for.
