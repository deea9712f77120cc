---------------------------- MODULE CalendarSync ----------------------------
(***************************************************************************)
(* The Google Calendar event of one task (app/integrations/calendar/       *)
(* service.py, the calendar routes and the two task routes that update a   *)
(* linked event).                                                          *)
(*                                                                         *)
(* The event and the task row live in two systems without a common         *)
(* transaction.  A request loads the row, calls Google, and commits what   *)
(* Google answered: the link, the state of the synchronization and the     *)
(* event's window.  A call may take effect and its answer be an error or   *)
(* never come; only a CalendarAPIError is recorded (state ERROR), a broken *)
(* connection is not.  A commit writes the columns that differ from the    *)
(* loaded row (the ORM's UPDATE).                                          *)
(*                                                                         *)
(* The task service's own commit is one step here (TaskCore has its        *)
(* steps).  The bot changes tasks too, and never calls the calendar.       *)
(***************************************************************************)
EXTENDS Integers, FiniteSets

CONSTANTS
    Sessions,  \* database sessions that may be open at the same time
    Dues,      \* values due_at may get
    Starts,    \* values start_at may have (no request here changes it)
    Windows,   \* windows a client asks for, NoWindow among them
    Half,      \* timedelta(minutes=30)
    Budgets,   \* bounds: how often each outside event happens in a behaviour
    None       \* no value

Outside == {"request", "bot", "fault"}
\* start_at and end_at, of a request or of extra["calendar"].
Window == [from : Int \cup {None}, to : Int \cup {None}]
NoWindow == [from |-> None, to |-> None]

ASSUME ConstantsAssumption ==
    /\ Dues \subseteq Int \cup {None} /\ Starts \subseteq Int \cup {None}
    /\ Windows \subseteq Window
    /\ Half \in Nat \ {0}
    /\ Budgets \subseteq [Outside -> Nat]
    /\ \E b \in Budgets : \A c \in Budgets : c["request"] <= b["request"]
    /\ None \notin Int

-----------------------------------------------------------------------------
\* State.

MaxRequests == CHOOSE n \in {b["request"] : b \in Budgets} :
                   \A b \in Budgets : b["request"] <= n
EventId == 1..MaxRequests

\* The columns of the task the calendar is concerned with; `title` counts the
\* changes of title and description.
Row == [title : Nat, due : Dues, start : Starts, linked : EventId \cup {None},
        status : {None, "SYNCED", "ERROR", "UNLINKED"}, window : Window]

\* An event at Google.  `due` is the due date its window was computed from.
Event == [title : Nat, due : Dues, window : Window]

Op == {"create", "update", "delete", "change"}
Session == [op : Op, pc : {"refresh", "call", "save", "mark"}, row : Row,
            window : Window, event : EventId \cup {None}]

ASSUME NoneAssumption == None \notin Event \cup Session

VARIABLES
    row,       \* tasks: the committed row
    events,    \* Google: the event of each id, or None
    made,      \* Google: how many events it has created
    session,   \* the request each session serves, with the row it loaded
    budget,    \* the behaviour's bounds, and what is left of each
    warned,    \* history: a request has failed since the last one that synced
    overlapped, \* history: two requests have been open at the same time
    races      \* history: creations begun while another one was open

history == <<warned, overlapped, races>>
vars == <<row, events, made, session, budget, warned, overlapped, races>>

Init ==
    /\ \E due \in Dues, start \in Starts :
           row = [title |-> 1, due |-> due, start |-> start, linked |-> None,
                  status |-> None, window |-> NoWindow]
    /\ events = [e \in EventId |-> None]
    /\ made = 0
    /\ session = [s \in Sessions |-> None]
    /\ budget \in {[limit |-> b, left |-> b] : b \in Budgets}
    /\ warned = FALSE
    /\ overlapped = FALSE
    /\ races = 0

-----------------------------------------------------------------------------
\* resolve_event_window.

Either(a, b) == IF a # None THEN a ELSE b

\* A request's window comes first, then the task's dates, then the stored one.
ResolvedWindow(r, asked) ==
    LET to == Either(asked.to, Either(r.due, r.window.to))
        from == Either(asked.from, Either(r.start, r.window.from))
    IN  [from |-> IF from = None /\ to # None THEN to - Half ELSE from, to |-> to]

Usable(w) == w.from # None /\ w.to # None /\ w.from < w.to

-----------------------------------------------------------------------------
\* Requests.

Spend(event) ==
    /\ budget.left[event] > 0
    /\ budget' = [budget EXCEPT !.left[event] = @ - 1]
Used(event) == budget.limit[event] - budget.left[event]

Open == {s \in Sessions : session[s] # None}
Creating == {s \in Open : session[s].op = "create"}

Opens(s) ==
    /\ session[s] = None
    /\ Spend("request")
    /\ overlapped' = (overlapped \/ Open # {})

\* The session `s` waits for the call that `op` makes of the row it holds.
Calls(s, op, r, w) ==
    session' = [session EXCEPT ![s] =
        [op |-> op, pc |-> "call", row |-> r, window |-> w, event |-> None]]
Close(s) == session' = [session EXCEPT ![s] = None]

\* POST /calendar.  An event that is linked already is the answer.  (Variant:
\* the link is not looked at.)
ReusesNothing(r) == FALSE
Reuses(r) == r.linked # None

RequestCreate(s, asked) ==
    /\ Opens(s)
    /\ LET w == ResolvedWindow(row, asked)
       IN  \/ /\ ~Usable(w)
              /\ warned' = TRUE
              /\ UNCHANGED <<session, races>>
           \/ /\ Usable(w) /\ Reuses(row)
              /\ UNCHANGED <<session, warned, races>>
           \/ /\ Usable(w) /\ ~Reuses(row)
              /\ Calls(s, "create", row, w)
              /\ races' = races + (IF Creating = {} THEN 0 ELSE 1)
              /\ UNCHANGED warned
    /\ UNCHANGED <<row, events, made>>

\* PATCH /calendar.
RequestUpdate(s, asked) ==
    /\ Opens(s)
    /\ LET w == ResolvedWindow(row, asked)
       IN  \/ /\ ~Usable(w) \/ row.linked = None
              /\ warned' = TRUE
              /\ UNCHANGED session
           \/ /\ Usable(w) /\ row.linked # None
              /\ Calls(s, "update", row, w)
              /\ UNCHANGED warned
    /\ UNCHANGED <<row, events, made, races>>

\* DELETE /calendar.
RequestDelete(s) ==
    /\ Opens(s)
    /\ IF row.linked = None THEN UNCHANGED session
       ELSE Calls(s, "delete", row, NoWindow)
    /\ UNCHANGED <<row, events, made, warned, races>>

\* PATCH and postpone: the task service commits the change, then refreshes.
RequestChange(s, title, due) ==
    /\ Opens(s)
    /\ row' = [row EXCEPT !.title = title, !.due = due]
    /\ session' = [session EXCEPT ![s] =
           [op |-> "change", pc |-> "refresh", row |-> row', window |-> NoWindow,
            event |-> None]]
    /\ UNCHANGED <<events, made, warned, races>>

\* _sync_linked_calendar.  (Variant: a window that cannot be is passed over.)
SyncLinkedIfUsable(s) ==
    /\ session[s] # None /\ session[s].pc = "refresh"
    /\ LET w == ResolvedWindow(row, NoWindow)
       IN  IF row.linked # None /\ Usable(w) THEN Calls(s, "update", row, w) ELSE Close(s)
    /\ UNCHANGED <<row, events, made, budget, history>>
SyncLinked(s) ==
    /\ session[s] # None /\ session[s].pc = "refresh"
    /\ LET w == ResolvedWindow(row, NoWindow)
       IN  \/ /\ row.linked = None
              /\ Close(s)
              /\ UNCHANGED warned
           \/ /\ row.linked # None /\ ~Usable(w)
              /\ Close(s)
              /\ warned' = TRUE
           \/ /\ row.linked # None /\ Usable(w)
              /\ Calls(s, "update", row, w)
              /\ UNCHANGED warned
    /\ UNCHANGED <<row, events, made, budget, overlapped, races>>

-----------------------------------------------------------------------------
\* The call, and what is made of its answer.

Target(s) == IF session[s].op = "create" THEN made + 1 ELSE session[s].row.linked
Possible(s) == session[s].op = "create" \/ events[Target(s)] # None

TakesEffect(s) ==
    LET r == session[s].row
        written == [title |-> r.title, due |-> r.due, window |-> session[s].window]
    IN  /\ events' = [events EXCEPT ![Target(s)] =
               IF session[s].op = "delete" THEN None ELSE written]
        /\ made' = IF session[s].op = "create" THEN made + 1 ELSE made

CallSucceeds(s) ==
    /\ session[s] # None /\ session[s].pc = "call"
    /\ Possible(s)
    /\ TakesEffect(s)
    /\ session' = [session EXCEPT ![s].pc = "save", ![s].event = Target(s)]
    /\ UNCHANGED <<row, budget, history>>

\* An event that does not exist (any more) is an error like any other.
CallRefused(s) ==
    /\ session[s] # None /\ session[s].pc = "call"
    /\ IF Possible(s) THEN Spend("fault") ELSE UNCHANGED budget
    /\ session' = [session EXCEPT ![s].pc = "mark"]
    /\ UNCHANGED <<row, events, made, history>>

\* The call takes effect, the answer is an error or has no event id.
CallGarbled(s) ==
    /\ session[s] # None /\ session[s].pc = "call"
    /\ Possible(s)
    /\ Spend("fault")
    /\ TakesEffect(s)
    /\ session' = [session EXCEPT ![s].pc = "mark"]
    /\ UNCHANGED <<row, history>>

\* No access token, or no answer: an exception that records nothing.
CallBroken(s) ==
    /\ session[s] # None /\ session[s].pc = "call"
    /\ Spend("fault")
    /\ Close(s)
    /\ \/ UNCHANGED <<events, made>>
       \/ Possible(s) /\ TakesEffect(s)
    /\ warned' = TRUE
    /\ UNCHANGED <<row, overlapped, races>>

\* The request ends between two steps: its client or the process went away.
CutOff(s) ==
    /\ session[s] # None
    /\ Spend("fault")
    /\ Close(s)
    /\ warned' = TRUE
    /\ UNCHANGED <<row, events, made, overlapped, races>>

Flush(old, new) ==
    row' = [c \in DOMAIN row |-> IF new[c] = old[c] THEN row[c] ELSE new[c]]

\* What the task becomes when the call was answered.
Saved(op, old, event, w) ==
    IF op = "delete" THEN [old EXCEPT !.linked = None, !.status = "UNLINKED"]
    ELSE [old EXCEPT !.linked = event, !.status = "SYNCED", !.window = w]

Save(s) ==
    /\ session[s] # None /\ session[s].pc = "save"
    /\ LET old == session[s].row
       IN  Flush(old, Saved(session[s].op, old, session[s].event, session[s].window))
    /\ Close(s)
    /\ warned' = FALSE
    /\ UNCHANGED <<events, made, budget, overlapped, races>>

\* (Variant: the state has the name the architecture document gives it.)
MarkFailed(s) ==
    /\ session[s] # None /\ session[s].pc = "mark"
    /\ Flush(session[s].row, [session[s].row EXCEPT !.status = "FAILED"])
    /\ Close(s)
    /\ warned' = TRUE
    /\ UNCHANGED <<events, made, budget, overlapped, races>>
MarkError(s) ==
    /\ session[s] # None /\ session[s].pc = "mark"
    /\ Flush(session[s].row, [session[s].row EXCEPT !.status = "ERROR"])
    /\ Close(s)
    /\ warned' = TRUE
    /\ UNCHANGED <<events, made, budget, overlapped, races>>

-----------------------------------------------------------------------------
\* The bot's buttons and edits, and /complete, /status and /cancel, which do
\* not touch the title or the due date: no calendar call.
BotChange(title, due) ==
    /\ Spend("bot")
    /\ row' = [row EXCEPT !.title = title, !.due = due]
    /\ UNCHANGED <<events, made, session, history>>

Changes == {<<row.title + 1, row.due>>} \cup ({row.title} \X Dues)

Serve(s) == SyncLinked(s) \/ CallSucceeds(s) \/ Save(s) \/ MarkError(s)
Fail(s) == CallRefused(s) \/ CallGarbled(s) \/ CallBroken(s) \/ CutOff(s)
Request(s) ==
    \/ \E w \in Windows : RequestCreate(s, w) \/ RequestUpdate(s, w)
    \/ RequestDelete(s)
    \/ \E c \in Changes : RequestChange(s, c[1], c[2])

Next == \/ \E s \in Sessions : Serve(s) \/ Fail(s) \/ Request(s)
        \/ \E c \in Changes : BotChange(c[1], c[2])

Spec == Init /\ [][Next]_vars
-----------------------------------------------------------------------------
\* Properties.

\* Every variable has its type.
TypeOK ==
    /\ row \in Row
    /\ events \in [EventId -> Event \cup {None}]
    /\ made \in 0..MaxRequests
    /\ session \in [Sessions -> Session \cup {None}]
    /\ budget \in [limit : Budgets, left : [Outside -> Nat]]
    /\ {warned, overlapped} \subseteq BOOLEAN
    /\ races \in Nat

Existing == {e \in EventId : events[e] # None}
Held == {session[s].event : s \in Open}

\* The event is made before its id is committed, and deleted before the link
\* is: an event no task knows of needs a lost answer, a request cut off or
\* two creations that overlap, one each; and a link to an event that is gone
\* needs a fault, but for the time of the deletion itself.  In particular a
\* creation repeated after its answer never makes a second event.
EventsAccounted ==
    /\ Cardinality(Existing \ ({row.linked} \cup Held)) <= Used("fault") + races
    /\ row.linked # None /\ row.linked \notin Existing =>
           \/ Used("fault") > 0
           \/ \E s \in Open : session[s].op = "delete" /\ session[s].event = row.linked

\* The change of a task is committed before the calendar is called: whenever
\* no request is open and the event does not show the task's title and due
\* date, the last request that tried has been answered with an error, however
\* failures, refused windows, links and unlinks follow each other.  (For
\* requests that did not overlap; the bot does not call the calendar.)
DivergenceIsTold ==
    Open = {} /\ ~overlapped /\ Used("bot") = 0 /\ row.linked # None /\ ~warned =>
        /\ events[row.linked] # None
        /\ events[row.linked].title = row.title
        /\ events[row.linked].due = row.due
        /\ row.status = "SYNCED" /\ events[row.linked].window = row.window

-----------------------------------------------------------------------------
\* What the documentation says and the code does not do.

\* README: "Linked events are updated when a task is postponed or its deadline
\* changes": between requests, a linked event ends at the task's due date.
LinkedFollowsDue ==
    Open = {} /\ row.linked # None /\ row.due # None =>
        events[row.linked].window.to = row.due
=============================================================================
