------------------------------ MODULE TaskCore ------------------------------
(***************************************************************************)
(* The Task Core: TaskService over PostgreSQL (READ COMMITTED), called by  *)
(* the API and by the Telegram worker, one database session per request.   *)
(*                                                                         *)
(* A request carries an operation key (Idempotency-Key header, or a key    *)
(* the bot derives from the Telegram update).  It runs as separate SQL     *)
(* statements, so requests interleave between the statements, and it ends  *)
(* in one commit that writes the task and its audit event together.  A     *)
(* request may be cut off between any two statements; its client may send  *)
(* it again with the same key.                                             *)
(*                                                                         *)
(* A task row is reduced to the columns the rules of the service read or   *)
(* write: status, due_at, completed_at (set or not), version and           *)
(* idempotency_key.                                                        *)
(***************************************************************************)
EXTENDS Naturals, Sequences, FiniteSets

CONSTANTS
    Sessions,    \* database sessions that may be open at the same time
    Keys,        \* operation keys that clients choose
    Tasks,       \* identities a new task may get (uuid4)
    Dues,        \* values of due_at
    Requests,    \* the operations clients may ask for
    OneKeyOneOperation, \* clients never send another operation under a used key
    MaxAttempts, \* bound: how often operations are sent under one key
    None         \* no row, no task, no key, no operation

-----------------------------------------------------------------------------
\* The status machine.

TaskStatus == {"NEW", "UNKNOWN_PARTY", "PLANNED", "IN_PROGRESS", "WAITING",
               "DONE", "OVERDUE", "POSTPONED", "ON_HOLD", "CANCELLED"}

ALLOWED_TRANSITIONS ==
    [st \in TaskStatus |->
        CASE st = "NEW" -> {"UNKNOWN_PARTY", "PLANNED", "IN_PROGRESS",
                            "WAITING", "DONE", "POSTPONED"}
          [] st = "UNKNOWN_PARTY" -> {"NEW", "PLANNED", "IN_PROGRESS",
                            "WAITING", "DONE", "POSTPONED", "ON_HOLD"}
          [] st = "PLANNED" -> {"UNKNOWN_PARTY", "IN_PROGRESS", "WAITING",
                            "DONE", "POSTPONED"}
          [] st = "IN_PROGRESS" -> {"UNKNOWN_PARTY", "WAITING", "DONE",
                            "POSTPONED", "ON_HOLD"}
          [] st = "WAITING" -> {"UNKNOWN_PARTY", "IN_PROGRESS", "DONE",
                            "POSTPONED"}
          [] st \in {"POSTPONED", "ON_HOLD"} -> {"UNKNOWN_PARTY", "PLANNED",
                            "IN_PROGRESS", "DONE"}
          [] st = "OVERDUE" -> {"UNKNOWN_PARTY", "DONE", "POSTPONED",
                            "IN_PROGRESS"}
          [] OTHER -> {}]

\* Variant: a finished task may be taken up again.
ValidTransitionReopens(current, new) ==
    \/ new = "CANCELLED" /\ current \notin {"DONE", "CANCELLED"}
    \/ new = current
    \/ new \in ALLOWED_TRANSITIONS[current] \cup {"IN_PROGRESS"}

ValidTransition(current, new) ==
    \/ new = "CANCELLED" /\ current \notin {"DONE", "CANCELLED"}
    \/ new = current
    \/ new \in ALLOWED_TRANSITIONS[current]

-----------------------------------------------------------------------------
\* What clients ask for, and what the tables hold.

Keep == "KEEP"    \* a field the request leaves unset
NoVersion == 0    \* no version in the request (versions start at 1)

CreateRequest == [op : {"create"}, status : TaskStatus, due : Dues \cup {None},
                  source : {"none", "known", "unknown"}]
\* PATCH, /status, /complete and /postpone, and the bot's buttons
UpdateRequest == [op : {"update"}, task : Tasks, status : TaskStatus \cup {Keep},
                  due : Dues \cup {Keep, None}, version : Nat]
CancelRequest == [op : {"cancel"}, task : Tasks, version : Nat]
Request == CreateRequest \cup UpdateRequest \cup CancelRequest

Row == [status : TaskStatus, due : Dues \cup {None}, completed : BOOLEAN,
        version : Nat \ {0}, key : Keys]
Event == [task : Tasks, key : Keys, kind : {"created", "changed", "cancelled"},
          status : TaskStatus \cup {Keep}]
\* What a request is answered with, and the task the answer is about.
Reply == [code : {"ok", "notfound", "conflict", "invalid", "error"},
          task : Tasks \cup {None}]

PC == {"idle", "owner", "addOwner", "lookup", "insert", "event",
       "load", "check", "commit"}

ASSUME ConstantsAssumption ==
    /\ Requests \subseteq Request
    /\ None \notin Row \cup Tasks \cup Keys \cup Requests \cup TaskStatus
    /\ OneKeyOneOperation \in BOOLEAN
    /\ MaxAttempts \in Nat

VARIABLES
    owner,     \* users: the owner's row is committed
    row,       \* tasks: the committed row of each identity
    events,    \* task_events, in commit order
    links,     \* task_sources: tasks linked to the message they came from
    pc,        \* per session: the next statement of its request
    op,        \* per session: the operation it serves
    key,       \* per session: the operation's key
    read,      \* per session: the task as SELECTed (the ORM's loaded state)
    pending,   \* per session: the task it INSERTed and has not committed
    addsOwner, \* per session: it INSERTed the owner and has not committed
    sent,      \* history: the operations sent under each key
    attempts,  \* how often each key was sent
    reply      \* history: the answers given under each key

db == <<owner, row, events, links>>
client == <<sent, attempts, reply>>
vars == <<owner, row, events, links, pc, op, key, read, pending, addsOwner,
          sent, attempts, reply>>

Init ==
    /\ owner = FALSE
    /\ row = [t \in Tasks |-> None]
    /\ events = <<>>
    /\ links = {}
    /\ pc = [s \in Sessions |-> "idle"]
    /\ op = [s \in Sessions |-> None]
    /\ key = [s \in Sessions |-> None]
    /\ read = [s \in Sessions |-> None]
    /\ pending = [s \in Sessions |-> None]
    /\ addsOwner = [s \in Sessions |-> FALSE]
    /\ sent = [k \in Keys |-> {}]
    /\ attempts = [k \in Keys |-> 0]
    /\ reply = [k \in Keys |-> {}]

-----------------------------------------------------------------------------
\* Helpers.

UsedKeys == {events[i].key : i \in 1..Len(events)}

TasksWithKey(k) == {t \in Tasks : row[t] # None /\ row[t].key = k}

Goto(s, where) == pc' = [pc EXCEPT ![s] = where]

\* The request ends: its session closes and rolls back what is not committed.
Close(s) ==
    /\ Goto(s, "idle")
    /\ op' = [op EXCEPT ![s] = None]
    /\ key' = [key EXCEPT ![s] = None]
    /\ read' = [read EXCEPT ![s] = None]
    /\ pending' = [pending EXCEPT ![s] = None]
    /\ addsOwner' = [addsOwner EXCEPT ![s] = FALSE]

Answer(s, c, t) ==
    /\ Close(s)
    /\ reply' = [reply EXCEPT ![key[s]] = @ \cup {[code |-> c, task |-> t]}]
    /\ UNCHANGED <<sent, attempts>>

\* The row create inserts.  (Variant: the version column has no default of 1.)
NewTaskUnversioned(r, k) == [status |-> r.status, due |-> r.due, completed |-> FALSE,
                             version |-> 0, key |-> k]
NewTask(r, k) == [status |-> r.status, due |-> r.due, completed |-> FALSE,
                  version |-> 1, key |-> k]

\* The audit record a committed operation leaves.  (Variant: it says that an
\* update happened, not which status it set.)
EventOfWithoutStatus(k, r, t) ==
    [task |-> t, key |-> k,
     kind |-> CASE r.op = "create" -> "created" [] r.op = "update" -> "changed"
                [] OTHER -> "cancelled",
     status |-> Keep]
EventOf(k, r, t) ==
    [task |-> t, key |-> k,
     kind |-> CASE r.op = "create" -> "created" [] r.op = "update" -> "changed"
                [] OTHER -> "cancelled",
     status |-> CASE r.op = "update" -> r.status [] OTHER -> Keep]

\* The log with that record.  (Variant: a new due date alone is not audited.)
LoggedUnlessDueOnly(k, r, t) ==
    IF r.op = "update" /\ r.status = Keep THEN events
    ELSE Append(events, EventOf(k, r, t))
Logged(k, r, t) == Append(events, EventOf(k, r, t))

\* COMMIT fails on the unique index task_events.idempotency_key.  (Variant: no
\* index, only the lookup before.)
NoUniqueIndex(k) == FALSE
UniqueViolation(k) == k \in UsedKeys

\* update / cancel: completed_at after the assignments.  (Variant: only a
\* "complete" operation would set it.)
CompletedByNobody(r, old) == old.completed
CompletedAfter(r, old) ==
    IF r.op = "cancel" \/ r.status \in {Keep, old.status} THEN old.completed
    ELSE r.status = "DONE"

\* update / cancel: the version after the assignments.  (Variants: postponing
\* counts once more than the update it calls; cancelling does not count.)
VersionPostponedTwice(r, old) ==
    IF r.op = "update" /\ r.status = "POSTPONED" THEN old.version + 2
    ELSE old.version + 1
VersionUncancelled(r, old) ==
    IF r.op = "cancel" THEN old.version ELSE old.version + 1
VersionAfter(r, old) == old.version + 1

\* update / cancel: the loaded task after the assignments.
Changed(r, old) ==
    [old EXCEPT !.status = IF r.op = "cancel" THEN "CANCELLED"
                           ELSE IF r.status = Keep THEN @ ELSE r.status,
                !.due = IF r.op = "cancel" THEN @
                        ELSE IF r.due = Keep THEN @ ELSE r.due,
                !.completed = CompletedAfter(r, old),
                !.version = VersionAfter(r, old)]

\* The UPDATE the ORM emits: only the columns whose value differs from the
\* loaded one, WHERE id = ...; nothing compares the version.
Flush(current, loaded, new) ==
    [status |-> IF new.status = loaded.status THEN current.status ELSE new.status,
     due |-> IF new.due = loaded.due THEN current.due ELSE new.due,
     completed |-> IF new.completed = loaded.completed THEN current.completed
                   ELSE new.completed,
     version |-> new.version,
     key |-> current.key]

-----------------------------------------------------------------------------
\* Requests.

\* A client sends an operation, for the first time or again, to a free session.
Submit(s, k, r) ==
    /\ pc[s] = "idle"
    /\ OneKeyOneOperation => sent[k] \subseteq {r}
    /\ attempts[k] < MaxAttempts
    /\ Goto(s, IF r.op = "create" THEN "owner" ELSE "load")
    /\ op' = [op EXCEPT ![s] = r]
    /\ key' = [key EXCEPT ![s] = k]
    /\ sent' = [sent EXCEPT ![k] = @ \cup {r}]
    /\ attempts' = [attempts EXCEPT ![k] = @ + 1]
    /\ UNCHANGED <<db, read, pending, addsOwner, reply>>

\* The process, the connection or the client goes away in mid-request.
Abort(s) ==
    /\ pc[s] # "idle"
    /\ Close(s)
    /\ UNCHANGED <<db, client>>

\* create: ensure_user reads the owner.
FindOwner(s) ==
    /\ pc[s] = "owner"
    /\ Goto(s, IF owner THEN "lookup" ELSE "addOwner")
    /\ UNCHANGED <<db, op, key, read, pending, addsOwner, client>>

\* create: ensure_user inserts the owner.  The INSERT waits for another
\* session's uncommitted owner; when that one is committed the unique
\* violation rolls this session back and the committed owner is used.
\* (Variants: the INSERT does not wait but trusts the other session's row; the
\* rolled back session inserts again.)
AddOwnerUnwaiting(s) ==
    /\ pc[s] = "addOwner"
    /\ addsOwner' = [addsOwner EXCEPT ![s] =
           ~owner /\ \A other \in Sessions \ {s} : ~addsOwner[other]]
    /\ Goto(s, "lookup")
    /\ UNCHANGED <<db, op, key, read, pending, client>>
AddOwnerAgain(s) ==
    /\ pc[s] = "addOwner"
    /\ \A other \in Sessions \ {s} : ~addsOwner[other]
    /\ addsOwner' = [addsOwner EXCEPT ![s] = ~owner]
    /\ Goto(s, IF owner THEN "addOwner" ELSE "lookup")
    /\ UNCHANGED <<db, op, key, read, pending, client>>
AddOwner(s) ==
    /\ pc[s] = "addOwner"
    /\ \A other \in Sessions \ {s} : ~addsOwner[other]
    /\ addsOwner' = [addsOwner EXCEPT ![s] = ~owner]
    /\ Goto(s, "lookup")
    /\ UNCHANGED <<db, op, key, read, pending, client>>

\* create: a task with this key answers the request.
LookupTask(s) ==
    /\ pc[s] = "lookup"
    /\ \/ /\ TasksWithKey(key[s]) = {}
          /\ Goto(s, "insert")
          /\ UNCHANGED <<op, key, read, pending, addsOwner, client>>
       \/ \E t \in TasksWithKey(key[s]) : Answer(s, "ok", t)
    /\ UNCHANGED db

\* create: the INSERT waits for an uncommitted task with the same key, and
\* fails when one is committed; the rollback then leads to the committed task.
InsertTask(s) ==
    /\ pc[s] = "insert"
    /\ \A other \in Sessions \ {s} :
           pending[other] # None => key[other] # key[s]
    /\ \/ /\ TasksWithKey(key[s]) = {}
          /\ \E t \in Tasks :
                 /\ row[t] = None
                 /\ \A other \in Sessions : pending[other] # t
                 /\ pending' = [pending EXCEPT ![s] = t]
          /\ Goto(s, "event")
          /\ UNCHANGED <<op, key, read, addsOwner, client>>
       \/ \E t \in TasksWithKey(key[s]) : Answer(s, "ok", t)
    /\ UNCHANGED db

\* create: the source link, the TASK_CREATED event and the commit.
FinishCreate(s) ==
    /\ pc[s] = "event"
    /\ LET r == op[s]
           t == pending[s]
       IN  \/ /\ r.source = "unknown"
              /\ Answer(s, "invalid", None)
              /\ UNCHANGED db
           \/ /\ r.source # "unknown"
              /\ UniqueViolation(key[s])
              /\ Answer(s, "error", None)
              /\ UNCHANGED db
           \/ /\ r.source # "unknown"
              /\ ~UniqueViolation(key[s])
              /\ owner' = (owner \/ addsOwner[s])
              /\ row' = [row EXCEPT ![t] = NewTask(r, key[s])]
              /\ links' = IF r.source = "known" THEN links \cup {t} ELSE links
              /\ events' = Logged(key[s], r, t)
              /\ Answer(s, "ok", t)

\* update / cancel: get.
Load(s) ==
    /\ pc[s] = "load"
    /\ LET t == op[s].task
       IN  \/ /\ row[t] = None
              /\ Answer(s, "notfound", None)
           \/ /\ row[t] # None
              /\ read' = [read EXCEPT ![s] = row[t]]
              /\ Goto(s, "check")
              /\ UNCHANGED <<op, key, pending, addsOwner, client>>
    /\ UNCHANGED db

VersionMatches(r, t) == r.version = NoVersion \/ r.version = t.version

\* cancel validates no transition.
TransitionAllowed(r, t) ==
    r.op = "update" /\ r.status # Keep => ValidTransition(t.status, r.status)

\* update / cancel: an operation that is already in the audit log is
\* answered with the task; otherwise version and transition are checked
\* against the loaded task.
Check(s) ==
    /\ pc[s] = "check"
    /\ LET r == op[s]
       IN  \/ /\ key[s] \in UsedKeys
              /\ Answer(s, "ok", r.task)
           \/ /\ key[s] \notin UsedKeys
              /\ ~(VersionMatches(r, read[s]) /\ TransitionAllowed(r, read[s]))
              /\ Answer(s, "conflict", None)
           \/ /\ key[s] \notin UsedKeys
              /\ VersionMatches(r, read[s])
              /\ TransitionAllowed(r, read[s])
              /\ Goto(s, "commit")
              /\ UNCHANGED <<op, key, read, pending, addsOwner, client>>
    /\ UNCHANGED db

\* update / cancel: UPDATE tasks, INSERT the event, COMMIT.
Commit(s) ==
    /\ pc[s] = "commit"
    /\ LET r == op[s]
           t == r.task
       IN  \/ /\ UniqueViolation(key[s])    \* all rolled back
              /\ Answer(s, "error", None)
              /\ UNCHANGED db
           \/ /\ ~UniqueViolation(key[s])
              /\ row' = [row EXCEPT ![t] = Flush(@, read[s], Changed(r, read[s]))]
              /\ events' = Logged(key[s], r, t)
              /\ Answer(s, "ok", t)
              /\ UNCHANGED <<owner, links>>

Serve(s) ==
    \/ FindOwner(s) \/ AddOwner(s) \/ LookupTask(s) \/ InsertTask(s)
    \/ FinishCreate(s) \/ Load(s) \/ Check(s) \/ Commit(s)

Next ==
    \E s \in Sessions :
        \/ Serve(s)
        \/ Abort(s)
        \/ \E k \in Keys, r \in Requests : Submit(s, k, r)

Spec == Init /\ [][Next]_vars

\* The event loop resumes a request whose statement has returned, and the
\* database grants a waited-for row to a waiter: each request that is not
\* cut off runs to its end.  Clients and failures are not fair.
Fairness == \A s \in Sessions : WF_vars(Serve(s))
FairSpec == Spec /\ Fairness
-----------------------------------------------------------------------------
\* Properties.

\* Every variable has its type.
TypeOK ==
    /\ owner \in BOOLEAN
    /\ row \in [Tasks -> Row \cup {None}]
    /\ events \in Seq(Event)
    /\ links \in SUBSET Tasks
    /\ pc \in [Sessions -> PC]
    /\ op \in [Sessions -> Requests \cup {None}]
    /\ key \in [Sessions -> Keys \cup {None}]
    /\ read \in [Sessions -> Row \cup {None}]
    /\ pending \in [Sessions -> Tasks \cup {None}]
    /\ addsOwner \in [Sessions -> BOOLEAN]
    /\ sent \in [Keys -> SUBSET Requests]
    /\ attempts \in [Keys -> 0..MaxAttempts]
    /\ reply \in [Keys -> SUBSET Reply]

\* The tasks an operation was confirmed for.
Confirmed(k) == {t \in Tasks : [code |-> "ok", task |-> t] \in reply[k]}

\* README "Create operations are idempotent by idempotency_key" and "append an
\* audit event in the same transaction": however requests interleave, are cut
\* off and are sent again, the audit log holds at most one event per key, and a
\* confirmed key has one; when the client sent one operation under it, that
\* event records this operation on the task the confirmation was about.
ConfirmedOnce ==
    /\ \A i, j \in 1..Len(events) : events[i].key = events[j].key => i = j
    /\ \A k \in Keys : \A t \in Confirmed(k) :
           /\ k \in UsedKeys
           /\ \A r \in Requests : sent[k] = {r} =>
                  \E i \in 1..Len(events) : events[i] = EventOf(k, r, t)

\* create: one key never makes two tasks, and a task is committed exactly when
\* its TASK_CREATED event is, by one transaction that also created the owner.
TaskHasItsCreation ==
    /\ \A t, u \in Tasks :
           row[t] # None /\ row[u] # None /\ row[t].key = row[u].key => t = u
    /\ \A t \in Tasks : row[t] # None <=>
           \E i \in 1..Len(events) :
               events[i].kind = "created" /\ events[i].task = t
    /\ \A t \in Tasks : row[t] # None =>
           /\ owner
           /\ \E i \in 1..Len(events) :
                  /\ events[i].kind = "created"
                  /\ events[i].task = t
                  /\ events[i].key = row[t].key

\* update / cancel: an event for a task follows the event of its creation, and
\* the version never counts more changes than the audit log holds: stale
\* requests may lose a version, none invents one.
ChangesOf(t) ==
    {i \in 1..Len(events) : events[i].task = t /\ events[i].kind # "created"}
AuditCoversVersion ==
    \A t \in Tasks :
        IF row[t] = None THEN ChangesOf(t) = {}
        ELSE row[t].version <= 1 + Cardinality(ChangesOf(t))

\* The audit log is append-only, and a task row changes only in the step that
\* logs an operation on that very task.
AuditTrail ==
    [][/\ Len(events') <= Len(events) + 1
       /\ SubSeq(events', 1, Len(events)) = events
       /\ \A t \in Tasks : row'[t] # row[t] =>
              /\ Len(events') = Len(events) + 1
              /\ events'[Len(events')].task = t
       /\ links' # links => Len(events') = Len(events) + 1]_vars

\* ensure_user and create wait for each other's uncommitted rows; no cycle of
\* waits forms: every request that is not cut off is answered.
EveryRequestEnds == \A s \in Sessions : pc[s] # "idle" ~> pc[s] = "idle"

-----------------------------------------------------------------------------
\* What the documentation says and the code does not do.

\* DATABASE_SCHEMA.md: tasks.version is an optimistic lock on updates, so of
\* two operations that state the same version at most one is carried out.
OptimisticLock ==
    \A k, l \in Keys : \A x \in sent[k], y \in sent[l] :
        /\ k # l
        /\ x.op # "create" /\ y.op # "create"
        /\ x.version # NoVersion /\ y.version # NoVersion
        /\ x.task = y.task /\ x.task \in Confirmed(k) \cap Confirmed(l)
        => x.version # y.version
=============================================================================
