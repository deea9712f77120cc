---------------------------- MODULE TelegramBot ----------------------------
(***************************************************************************)
(* The Telegram bot (app/integrations/telegram/bot.py): long polling, and  *)
(* what the owner's messages and buttons do to candidates and tasks.       *)
(*                                                                         *)
(* Telegram keeps every update until a getUpdates call names a later       *)
(* offset.  The bot handles one update after the other; its offset lives   *)
(* in memory and is advanced before the update is handled.  A handler is a *)
(* chain of commits and of calls to Telegram and the LLM: an exception     *)
(* between two of them ends the update, a crash ends the process, and what *)
(* was committed or shown until then remains.                              *)
(*                                                                         *)
(* A free text is reduced to its position among the updates, a candidate   *)
(* to the text it was extracted from.  The task service is called as one   *)
(* step per operation, keyed as in TaskCore.  One mail of the Gmail loop,  *)
(* whose card is shown before its rows are committed, is the bot's only    *)
(* competitor for rows.                                                    *)
(***************************************************************************)
EXTENDS Naturals, Sequences, SequencesExt

CONSTANTS
    MaxUpdates,  \* bound: how many updates the owner sends
    Messages,    \* the kinds of message the owner types
    CandidateActions, TaskActions, \* the buttons the owner presses
    Patient,     \* the owner waits until the bot has handled what was sent
    Mail,        \* the source message of a mail
    Budgets,     \* bounds: how often each outside event happens in a behaviour
    None         \* no row, no task, no candidate

Position == 1..MaxUpdates
Source == Position \cup {Mail}   \* a text's source is named by its position
Outside == {"crash", "failure", "mail"}

\* Fields a task button may ask a new value for.
EditField == {"title", "due", "status", "assignee"}

ASSUME ConstantsAssumption ==
    /\ MaxUpdates \in Nat
    /\ Messages \subseteq {"text", "new"}
    /\ CandidateActions \subseteq {"create", "edit", "ignore"}
    /\ TaskActions \subseteq EditField \cup {"done"}
    /\ Patient \in BOOLEAN
    /\ Mail \notin Nat \cup {None} /\ None \notin Nat
    /\ Budgets \subseteq [Outside -> Nat]

-----------------------------------------------------------------------------
\* State.

\* Messages with buttons in the chat: a candidate's, a task's.
CandidateCard == [source : Source, shows : Source]
TaskCard == [task : Nat, version : Nat]
Card == CandidateCard \cup TaskCard

Update == [kind : {"text", "new"}]
     \cup [kind : {"candidate"}, action : CandidateActions, card : CandidateCard]
     \cup [kind : {"task"}, action : TaskActions, card : TaskCard]

\* Columns of source_messages, task_candidates and tasks.
SourceRow == [status : {"NEW", "PROCESSED", "IGNORED"},
              candidate : Source \cup {None}, awaiting : BOOLEAN]
Record == [status : {"PENDING", "NOTIFIED", "CONFIRMED", "REJECTED"},
           task : Nat]
NoTask == 0
OperationKey == ({"candidate"} \X Source) \cup ({"new", "callback"} \X Position)
         \cup ({"edit-pending"} \X (1..MaxUpdates) \X Nat \X Position)
TaskRow == [key : OperationKey, source : Source \cup {None},
            content : Source, status : {"NEW", "DONE", "CANCELLED"},
            version : Nat, awaiting : EditField \cup {None}]

ASSUME NoneAssumption == None \notin SourceRow \cup Record

VARIABLES
    queue,     \* Telegram: all updates the owner has sent, in order
    forgotten, \* Telegram: the updates up to here are not delivered any more
    cards,     \* Telegram: the messages with buttons in the chat
    source,    \* source_messages: the committed row of each message
    created,   \* source_messages: newest first (created_at)
    record,    \* task_candidates: the committed record of each source
    task,      \* tasks, in order of creation
    touched,   \* tasks: most recently updated first (updated_at)
    used,      \* task_events: the operation keys in the audit log
    pc,        \* bot: the next step
    offset,    \* bot: the offset of the next getUpdates call (0: none)
    at, upto,  \* bot: the update in hand and the last one of its batch
    hand,      \* bot: what the handler holds of the update in hand
    mail,      \* Gmail loop: the mail's transaction
    budget,    \* the behaviour's bounds, and what is left of each
    ended,     \* history: updates handled to the end
    failed,    \* history: updates an exception ended
    uses,      \* history: how often an update took effect
    told       \* history: candidates the owner was told became a task

telegram == <<queue, forgotten, cards>>
db == <<source, created, record, task, touched, used>>
poll == <<offset, at, upto>>
history == <<ended, failed, uses, told>>
vars == <<queue, forgotten, cards, source, created, record, task, touched, used,
          pc, offset, at, upto, hand, mail, budget, ended, failed, uses, told>>

\* source: the source message it works on, with its row and record as loaded;
\* task: the task it works on; redraw: the pressed message will be redrawn.
NoHand == [source |-> None, row |-> None, record |-> None, task |-> NoTask,
           redraw |-> FALSE]
Hand == [source : Source \cup {None}, row : SourceRow \cup {None},
         record : Record \cup {None}, task : Nat, redraw : BOOLEAN]

PC == {"poll", "next", "text", "clear", "parse", "store", "save", "show",
       "notify", "new", "answer", "candidate", "create", "confirm", "edit",
       "ignore", "task", "ack", "redraw"}

Init ==
    /\ queue = <<>>
    /\ forgotten = 0
    /\ cards = {}
    /\ source = [s \in Source |-> None]
    /\ created = <<>>
    /\ record = [s \in Source |-> None]
    /\ task = <<>>
    /\ touched = <<>>
    /\ used = {}
    /\ pc = "poll"
    /\ offset = 0
    /\ at = 0
    /\ upto = 0
    /\ hand = NoHand
    /\ mail = "none"
    /\ budget \in {[limit |-> b, left |-> b] : b \in Budgets}
    /\ ended = {}
    /\ failed = {}
    /\ uses = [p \in Position |-> 0]
    /\ told = {}

-----------------------------------------------------------------------------
\* Helpers.

Spend(event) ==
    /\ budget.left[event] > 0
    /\ budget' = [budget EXCEPT !.left[event] = @ - 1]
Used(event) == budget.limit[event] - budget.left[event]

Goto(step) == pc' = step
TakesEffect == uses' = [uses EXCEPT ![at] = @ + 1]

LeaveBatch == Goto("poll") /\ at' = 0 /\ upto' = 0

\* The handler returns; its exception leaves handle_update.
Finish ==
    /\ Goto("next")
    /\ hand' = NoHand
    /\ ended' = ended \cup {at}
    /\ UNCHANGED <<poll, failed>>
Raise ==
    /\ LeaveBatch
    /\ hand' = NoHand
    /\ failed' = failed \cup {at}
    /\ UNCHANGED <<offset, ended>>

Newest(order, S) == order[CHOOSE i \in 1..Len(order) :
                              order[i] \in S /\ \A j \in 1..(i - 1) : order[j] \notin S]
ToFront(order, x) ==
    <<x>> \o RemoveAt(order, CHOOSE i \in 1..Len(order) : order[i] = x)

\* TaskService.create: the task of this key, or a new one.
TaskOf(k) == IF \E t \in 1..Len(task) : task[t].key = k
             THEN CHOOSE t \in 1..Len(task) : task[t].key = k
             ELSE Len(task) + 1
CreateTask(k, from, content) ==
    /\ hand' = [hand EXCEPT !.task = TaskOf(k)]
    /\ IF TaskOf(k) <= Len(task)
       THEN UNCHANGED <<task, touched, used, uses>>
       ELSE /\ task' = Append(task, [key |-> k, source |-> from, content |-> content,
                                     status |-> "NEW", version |-> 1,
                                     awaiting |-> None])
            /\ touched' = <<Len(task) + 1>> \o touched
            /\ used' = used \cup {k}
            /\ TakesEffect

\* TaskService.update, complete and cancel: an operation in the audit log is
\* not carried out again.  (ValidTransition of TaskCore on these statuses;
\* cancel validates no transition.)
Transition(from, to) == to = from \/ from = "NEW" \/ to = "CANCELLED"
ChangeTask(k, t, status) ==
    /\ hand' = [hand EXCEPT !.task = t, !.redraw = TRUE]
    /\ IF k \in used THEN UNCHANGED <<task, touched, used, uses>>
       ELSE /\ task' = [task EXCEPT ![t].status = status, ![t].version = @ + 1]
            /\ touched' = ToFront(touched, t)
            /\ used' = used \cup {k}
            /\ TakesEffect

-----------------------------------------------------------------------------
\* run_polling.

\* getUpdates: what the offset passes is forgotten, the rest is delivered.
GetUpdates ==
    /\ pc = "poll"
    /\ forgotten' = IF offset > forgotten THEN offset - 1 ELSE forgotten
    /\ forgotten' < Len(queue) \/ forgotten' # forgotten
    /\ at' = forgotten'
    /\ upto' = Len(queue)
    /\ Goto("next")
    /\ UNCHANGED <<queue, cards, db, offset, hand, mail, budget, history>>

\* The offset while update p of a batch that ends with `last` is handled.
\* (Variants: the whole batch is acknowledged at once; the offset is that of
\* the update itself.)
OffsetOfBatch(p, last) == last + 1
OffsetOfUpdate(p, last) == p
OffsetAfter(p, last) == p + 1

Handler(u) == u.kind

NextUpdate ==
    /\ pc = "next"
    /\ \/ /\ at = upto
          /\ LeaveBatch
          /\ UNCHANGED offset
       \/ /\ at < upto
          /\ at' = at + 1
          /\ offset' = OffsetAfter(at + 1, upto)
          /\ Goto(Handler(queue[at + 1]))
          /\ UNCHANGED upto
    /\ UNCHANGED <<telegram, db, hand, mail, budget, history>>

\* A call to Telegram or the database raises, at any step of a handler;
\* handled further out, by a pause and the next getUpdates.
CallFails ==
    /\ pc \notin {"poll", "next"}
    /\ Spend("failure")
    /\ Raise
    /\ UNCHANGED <<telegram, db, mail, uses, told>>

\* The process ends and is started again: the offset is gone.
Crash ==
    /\ pc # "poll" \/ offset > 0
    /\ Spend("crash")
    /\ LeaveBatch
    /\ offset' = 0
    /\ hand' = NoHand
    /\ UNCHANGED <<telegram, db, mail, history>>

-----------------------------------------------------------------------------
\* _handle_natural_language, first session: the text is the value a task's
\* button asked for.

AwaitingTasks == {t \in 1..Len(task) : task[t].awaiting # None}

\* What the text is read as for the asked field: a new status, Same for any
\* other change, Unreadable.
Same == "SAME"
Unreadable == "UNREADABLE"
Readings(field) ==
    CASE field = "title" -> {Same}
      [] field = "due" -> {Same, Unreadable}
      [] field = "assignee" -> {Same}
      [] OTHER -> {"NEW", "DONE", "CANCELLED", Unreadable}

ReadText ==
    /\ pc = "text"
    /\ \/ /\ AwaitingTasks = {}
          /\ Goto("parse")
          /\ UNCHANGED <<db, poll, hand, history>>
       \/ /\ AwaitingTasks # {}
          /\ LET t == Newest(touched, AwaitingTasks)
                 k == <<"edit-pending", t, task[t].version, at>>
             IN  \E reading \in Readings(task[t].awaiting) :
                    LET status == IF reading = Same THEN task[t].status ELSE reading
                    IN  \/ /\ reading = Unreadable     \* the field stays asked for
                           /\ Goto("answer")
                           /\ UNCHANGED <<db, poll, hand, history>>
                        \/ /\ reading # Unreadable
                           /\ ~Transition(task[t].status, status)
                           /\ Raise
                           /\ UNCHANGED <<db, uses, told>>
                        \/ /\ reading # Unreadable
                           /\ Transition(task[t].status, status)
                           /\ Goto("clear")
                           /\ ChangeTask(k, t, status)
                           /\ UNCHANGED <<source, created, record, poll, ended,
                                         failed, told>>
    /\ UNCHANGED <<telegram, mail, budget>>

\* Second commit: the field is no longer asked for.
ClearAwaiting ==
    /\ pc = "clear"
    /\ Goto("answer")
    /\ task' = [task EXCEPT ![hand.task].awaiting = None]
    /\ touched' = ToFront(touched, hand.task)
    /\ UNCHANGED <<telegram, source, created, record, used, poll, hand, mail,
                   budget, history>>

-----------------------------------------------------------------------------
\* _handle_natural_language, otherwise: the LLM may find a candidate.

ParseMessage ==
    /\ pc = "parse"
    /\ Goto("store") \/ Goto("answer")
    /\ UNCHANGED <<telegram, db, poll, hand, mail, budget, history>>

\* get_pending_candidate: the newest processed source being edited.
PendingSources == {s \in Source : /\ source[s] # None
                                  /\ source[s].status = "PROCESSED"
                                  /\ source[s].awaiting}

\* Second session: such a source takes the text; otherwise the text becomes a
\* source message, unless it is one already (DuplicateSourceError).
StoreText ==
    /\ pc = "store"
    /\ \/ /\ PendingSources # {}
          /\ Goto("save")
          /\ hand' = [hand EXCEPT !.source = Newest(created, PendingSources)]
          /\ UNCHANGED <<db, poll, ended, failed>>
       \/ /\ PendingSources = {} /\ source[at] = None
          /\ Goto("save")
          /\ hand' = [hand EXCEPT !.source = at]
          /\ source' = [source EXCEPT ![at] =
                 [status |-> "NEW", candidate |-> None, awaiting |-> FALSE]]
          /\ created' = <<at>> \o created
          /\ UNCHANGED <<record, task, touched, used, poll, ended, failed>>
       \/ /\ PendingSources = {} /\ source[at] # None
          /\ Raise
          /\ UNCHANGED db
    /\ UNCHANGED <<telegram, mail, budget, uses, told>>

\* save_source_candidate.
SaveCandidate ==
    /\ pc = "save"
    /\ Goto("show")
    /\ LET s == hand.source
       IN  /\ source' = [source EXCEPT ![s].status = "PROCESSED", ![s].candidate = at]
           /\ record' = [record EXCEPT ![s] =
                  IF @ = None THEN [status |-> "PENDING", task |-> NoTask] ELSE @]
    /\ UNCHANGED <<telegram, created, task, touched, used, poll, hand, mail, budget,
                   history>>

ShowCandidate ==
    /\ pc = "show"
    /\ cards' = cards \cup {[source |-> hand.source, shows |-> at]}
    /\ TakesEffect
    /\ \/ /\ Goto("notify")
          /\ UNCHANGED <<poll, hand, budget, ended, failed>>
       \/ /\ Spend("failure")    \* the message arrives, its answer does not
          /\ Raise
    /\ UNCHANGED <<queue, forgotten, db, mail, told>>

\* Third session: whatever the record's status was.
MarkNotified ==
    /\ pc = "notify"
    /\ record' = [record EXCEPT ![hand.source].status = "NOTIFIED"]
    /\ Finish
    /\ UNCHANGED <<telegram, source, created, task, touched, used, mail, budget,
                   uses, told>>

-----------------------------------------------------------------------------
\* /new, and the answers that end the handling of a message.

NewTask ==
    /\ pc = "new"
    /\ Goto("answer")
    /\ CreateTask(<<"new", at>>, None, at)
    /\ UNCHANGED <<telegram, source, created, record, poll, mail, budget, ended,
                   failed, told>>

TaskCardOf(t) == [task |-> t, version |-> task[t].version]

Answer ==
    /\ pc = "answer"
    /\ cards' = IF hand.task = NoTask THEN cards ELSE cards \cup {TaskCardOf(hand.task)}
    /\ Finish
    /\ UNCHANGED <<queue, forgotten, db, mail, budget, uses, told>>

-----------------------------------------------------------------------------
\* _handle_candidate_callback.

Press == queue[at]

\* Source and record are loaded.  Creating needs the candidate's data.
LoadCandidate ==
    /\ pc = "candidate"
    /\ LET s == Press.card.source
       IN  \/ /\ Press.action = "create" /\ source[s].candidate = None
              /\ Goto("ack")
              /\ UNCHANGED hand
           \/ /\ Press.action = "create" => source[s].candidate # None
              /\ Goto(Press.action)
              /\ hand' = [hand EXCEPT !.source = s, !.row = source[s],
                                      !.record = record[s], !.redraw = TRUE]
    /\ UNCHANGED <<telegram, db, poll, mail, budget, history>>

\* Rows of a mail whose transaction is open are locked.
Unlocked(s) == ~(s = Mail /\ mail = "open")

\* The UPDATE of the loaded record, if one was found.  (Variant: it gets the
\* status of the source message.)
DecideAsSource(s, decision, t) ==
    record' = IF hand.record = None THEN record
              ELSE [record EXCEPT ![s] = [status |-> IF t = NoTask THEN "IGNORED"
                                                     ELSE decision,
                                          task |-> IF t = NoTask THEN @.task ELSE t]]
Decide(s, decision, t) ==
    record' = IF hand.record = None THEN record
              ELSE [record EXCEPT ![s] = [status |-> decision,
                                          task |-> IF t = NoTask THEN @.task ELSE t]]

Ignore ==
    /\ pc = "ignore"
    /\ LET s == hand.source
       IN  /\ Unlocked(s)
           /\ source' = [source EXCEPT ![s].status = "IGNORED"]
           /\ Decide(s, "REJECTED", NoTask)
    /\ Goto("ack")
    /\ UNCHANGED <<telegram, created, task, touched, used, poll, hand, mail, budget,
                   history>>

\* The column `extra`, written as a whole: the loaded one and one entry more.
AwaitNewText ==
    /\ pc = "edit"
    /\ LET s == hand.source
       IN  /\ Unlocked(s)
           /\ source' = [source EXCEPT ![s].candidate = hand.row.candidate,
                                       ![s].awaiting = TRUE]
    /\ Goto("ack")
    /\ UNCHANGED <<telegram, created, record, task, touched, used, poll, hand, mail,
                   budget, history>>

\* The operation key of a creation.  (Variant: that of the press.)
CreateKeyOfPress(s) == <<"callback", at>>
CreateKey(s) == <<"candidate", s>>

\* First commit: the task.  (Variant: where it exists, no decision is left.)
CreateOrAnswer ==
    /\ pc = "create"
    /\ CreateTask(CreateKey(hand.source), hand.source, hand.row.candidate)
    /\ Goto(IF task' = task THEN "ack" ELSE "confirm")
    /\ UNCHANGED <<telegram, source, created, record, poll, mail, budget, ended,
                   failed, told>>
CreateFromCandidate ==
    /\ pc = "create"
    /\ CreateTask(CreateKey(hand.source), hand.source, hand.row.candidate)
    /\ Goto("confirm")
    /\ UNCHANGED <<telegram, source, created, record, poll, mail, budget, ended,
                   failed, told>>

\* Second commit: the decision.
Confirm ==
    /\ pc = "confirm"
    /\ LET s == hand.source
       IN  /\ Unlocked(s)
           /\ source' = [source EXCEPT ![s].candidate = hand.row.candidate,
                                       ![s].awaiting = hand.row.awaiting]
           /\ Decide(s, "CONFIRMED", hand.task)
    /\ Goto("ack")
    /\ UNCHANGED <<telegram, created, task, touched, used, poll, hand, mail, budget,
                   history>>

-----------------------------------------------------------------------------
\* _handle_callback: a task's button, keyed by the callback; a version that is
\* not the task's or a forbidden transition is answered with an error.

PressTask ==
    /\ pc = "task"
    /\ Goto("ack")
    /\ LET t == Press.card.task
           k == <<"callback", at>>
       IN  \/ /\ Press.action = "done"
              /\ k \in used \/ (task[t].version = Press.card.version
                                /\ Transition(task[t].status, "DONE"))
              /\ ChangeTask(k, t, "DONE")
           \/ /\ Press.action = "done" /\ k \notin used
              /\ ~(task[t].version = Press.card.version
                   /\ Transition(task[t].status, "DONE"))
              /\ UNCHANGED <<task, touched, used, hand, uses>>
           \/ /\ Press.action \in EditField
              /\ task' = [task EXCEPT ![t].awaiting = Press.action]
              /\ touched' = ToFront(touched, t)
              /\ hand' = [hand EXCEPT !.redraw = TRUE]
              /\ UNCHANGED <<used, uses>>
    /\ UNCHANGED <<telegram, source, created, record, poll, mail, budget, ended,
                   failed, told>>

\* answer_callback_query, with "task created" or another notice.
AnswerCallback ==
    /\ pc = "ack"
    /\ told' = IF Press.kind = "candidate" /\ hand.task # NoTask
               THEN told \cup {Press.card.shows} ELSE told
    /\ IF hand.redraw THEN Goto("redraw") /\ UNCHANGED <<poll, hand, ended, failed>>
       ELSE Finish
    /\ UNCHANGED <<telegram, db, mail, budget, uses>>

\* edit_message_text: the pressed message loses its buttons or becomes the
\* task's card.
Redraw ==
    /\ pc = "redraw"
    /\ cards' = (cards \ {Press.card}) \cup
                (IF hand.task = NoTask THEN {} ELSE {TaskCardOf(hand.task)})
    /\ Finish
    /\ UNCHANGED <<queue, forgotten, db, mail, budget, uses, told>>

-----------------------------------------------------------------------------
\* The Gmail loop, as GmailSync has it: the card is sent before the commit.

ShowMail ==
    /\ mail = "none"
    /\ Spend("mail")
    /\ mail' = "open"
    /\ source' = [source EXCEPT ![Mail] =
           [status |-> "NEW", candidate |-> None, awaiting |-> FALSE]]
    /\ created' = <<Mail>> \o created
    /\ cards' = cards \cup {[source |-> Mail, shows |-> Mail]}
    /\ UNCHANGED <<queue, forgotten, record, task, touched, used, pc, poll, hand, history>>

CommitMail ==
    /\ mail = "open"
    /\ mail' = "over"
    /\ source' = [source EXCEPT ![Mail].status = "PROCESSED", ![Mail].candidate = Mail]
    /\ record' = [record EXCEPT ![Mail] = [status |-> "NOTIFIED", task |-> NoTask]]
    /\ UNCHANGED <<telegram, created, task, touched, used, pc, poll, hand, budget,
                   history>>

RollBackMail ==
    /\ mail = "open"
    /\ Spend("failure")
    /\ mail' = "over"
    /\ UNCHANGED <<telegram, db, pc, poll, hand, history>>

-----------------------------------------------------------------------------
\* The owner.

Send(u) ==
    /\ Len(queue) < MaxUpdates
    /\ Patient => pc = "poll" /\ offset = Len(queue) + (IF queue = <<>> THEN 0 ELSE 1)
    /\ queue' = Append(queue, u)
    /\ UNCHANGED <<forgotten, cards, db, pc, poll, hand, mail, budget, history>>

Type == \E m \in Messages : Send([kind |-> m])
PressButton ==
    \E c \in cards :
        \/ /\ c \in CandidateCard
           /\ \E a \in CandidateActions : Send([kind |-> "candidate", action |-> a, card |-> c])
        \/ /\ c \notin CandidateCard
           /\ \E a \in TaskActions : Send([kind |-> "task", action |-> a, card |-> c])

Handle ==
    \/ NextUpdate
    \/ ReadText \/ ClearAwaiting \/ ParseMessage \/ StoreText \/ SaveCandidate
    \/ ShowCandidate \/ MarkNotified \/ NewTask \/ Answer
    \/ LoadCandidate \/ Ignore \/ AwaitNewText \/ CreateFromCandidate \/ Confirm
    \/ PressTask \/ AnswerCallback \/ Redraw

Next == GetUpdates \/ Handle \/ CallFails \/ Crash \/ ShowMail \/ CommitMail
        \/ RollBackMail \/ Type \/ PressButton

Spec == Init /\ [][Next]_vars

\* The bot polls and handles, and a mail's transaction ends; the owner,
\* failures and crashes owe nothing.
Fairness == WF_vars(GetUpdates \/ Handle) /\ WF_vars(CommitMail)
FairSpec == Spec /\ Fairness
-----------------------------------------------------------------------------
\* Properties.

\* Every variable has its type.
TypeOK ==
    /\ queue \in Seq(Update) /\ Len(queue) <= MaxUpdates
    /\ forgotten \in 0..Len(queue)
    /\ cards \subseteq Card
    /\ source \in [Source -> SourceRow \cup {None}]
    /\ created \in Seq(Source)
    /\ record \in [Source -> Record \cup {None}]
    /\ task \in Seq(TaskRow)
    /\ touched \in Seq(1..Len(task))
    /\ used \subseteq OperationKey
    /\ pc \in PC
    /\ {offset, at, upto} \subseteq 0..(MaxUpdates + 1)
    /\ hand \in Hand
    /\ mail \in {"none", "open", "over"}
    /\ budget \in [limit : Budgets, left : [Outside -> Nat]]
    /\ ended \subseteq Position
    /\ failed \subseteq Position
    /\ uses \in [Position -> Nat]
    /\ told \subseteq Source

\* run_polling advances the offset first: Telegram forgets an update only when
\* its handling has ended, normally or by its own exception.  Neither a crash
\* nor the exception of another update of the batch loses it.
OnlyFailedIsLost == \A p \in 1..forgotten : p \in ended \cup failed

\* The keys derived from source messages and updates: however often a candidate
\* is pressed, edited and pressed again, and whatever is delivered again, one
\* source message leads to one task and one /new message to one.
OneTaskPerOrigin ==
    \A t, u \in 1..Len(task) :
        \/ task[t].key = task[u].key
        \/ task[t].source # None /\ task[t].source = task[u].source
        => t = u

\* Creating the task and recording the decision are two commits: a task whose
\* candidate does not name it is the work of a press that Telegram will deliver
\* again or whose handling failed; and a record names no other source's task.
CandidateLinked ==
    /\ \A s \in Source : record[s] # None /\ record[s].task # NoTask =>
           task[record[s].task].source = s
    /\ \A t \in 1..Len(task) : task[t].source # None =>
           LET s == task[t].source
           IN  \/ record[s].task = t
               \/ \E p \in 1..Len(queue) :
                      /\ queue[p].kind = "candidate" /\ queue[p].action = "create"
                      /\ queue[p].card.source = s
                      /\ p > forgotten \/ p \in failed

\* The operation keys: a button or a /new takes effect once, however often it
\* is delivered.  A text has no key of its own (the key of an edit names the
\* version it found), so it may take effect once more for each crash, which has
\* Telegram deliver it again; failed calls and other updates add nothing.
EffectsAccounted ==
    \A p \in 1..Len(queue) :
        uses[p] <= IF queue[p].kind = "text" THEN 1 + Used("crash") ELSE 1

\* Every update is handled to its end, or until its own exception: none blocks
\* those behind it, and the bot does not wait forever for a mail's rows.
EveryUpdateEnds ==
    \A p \in Position : p <= Len(queue) ~> p \in ended \cup failed

-----------------------------------------------------------------------------
\* What the documentation says and the code does not do.

\* API.md "create a task from the candidate after confirmation": a candidate
\* whose creation was confirmed to the owner is the content of a task.
ConfirmedBecomesTask ==
    \A c \in told : \E t \in 1..Len(task) : task[t].content = c

\* MASTER_PROMPT.md Rule F "handling a Telegram update again must not create
\* duplicates": one text is logged at most once as the value a task's button
\* asked for.
EditAppliedOnce ==
    \A k, l \in used :
        k[1] = "edit-pending" /\ l[1] = "edit-pending" /\ k[4] = l[4] => k = l
=============================================================================
