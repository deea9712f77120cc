----------------------------- MODULE TaskLedger -----------------------------
(***************************************************************************)
(* What the Task Core promises its clients, with no sessions, statements   *)
(* or transactions in sight: an operation is carried out at one instant,   *)
(* at most once per key, and that instant creates the task or changes its  *)
(* status, makes the audit entry and confirms the operation, together.  A  *)
(* key that was used is confirmed again without doing anything.  Whatever  *)
(* else happens, refusals and broken connections included, shows nowhere.  *)
(*                                                                         *)
(* One thing is left open: of operations that overlap, the one that is     *)
(* carried out later may leave the status as it finds it.                  *)
(***************************************************************************)
CONSTANTS Keys, Tasks, Requests, Keep, None

VARIABLES
    status,   \* each task's status, or None
    entries,  \* the audit entries
    asked,    \* the operations clients asked for under each key
    told      \* the tasks each key was confirmed for
ledger == <<status, entries, asked, told>>

Init ==
    /\ status = [t \in Tasks |-> None]
    /\ entries = {}
    /\ asked = [k \in Keys |-> {}]
    /\ told = [k \in Keys |-> {}]

Kind(r) == CASE r.op = "create" -> "created" [] r.op = "update" -> "changed"
             [] OTHER -> "cancelled"
Entry(k, r, t) == [key |-> k, task |-> t, kind |-> Kind(r)]
Fresh(k) == \A entry \in entries : entry.key # k

\* The statuses an operation may leave a task in.
Outcomes(r, current) ==
    CASE r.op = "cancel" -> {current, "CANCELLED"}
      [] r.op = "update" /\ r.status # Keep -> {current, r.status}
      [] OTHER -> {current}

Ask(k, r) ==
    /\ asked' = [asked EXCEPT ![k] = @ \cup {r}]
    /\ UNCHANGED <<status, entries, told>>

CarryOut(k, r, t) ==
    /\ r \in asked[k] /\ Fresh(k)
    /\ entries' = entries \cup {Entry(k, r, t)}
    /\ told' = [told EXCEPT ![k] = @ \cup {t}]
    /\ UNCHANGED asked

Create(k, r, t) ==
    /\ r.op = "create" /\ status[t] = None
    /\ status' = [status EXCEPT ![t] = r.status]
    /\ CarryOut(k, r, t)

Change(k, r, t) ==
    /\ r.op # "create" /\ r.task = t /\ status[t] # None
    /\ \E st \in Outcomes(r, status[t]) : status' = [status EXCEPT ![t] = st]
    /\ CarryOut(k, r, t)

\* The confirmation names the task of the entry, or the one the repeated
\* operation names.
Repeat(k, t) ==
    /\ ~ Fresh(k)
    /\ \/ \E entry \in entries : entry.key = k /\ entry.task = t
       \/ \E r \in asked[k] : r.op # "create" /\ r.task = t
    /\ told' = [told EXCEPT ![k] = @ \cup {t}]
    /\ UNCHANGED <<status, entries, asked>>

Next ==
    \E k \in Keys :
        \/ \E r \in Requests : Ask(k, r)
        \/ \E r \in Requests, t \in Tasks : Create(k, r, t) \/ Change(k, r, t)
        \/ \E t \in Tasks : Repeat(k, t)

Spec == Init /\ [][Next]_ledger
=============================================================================
