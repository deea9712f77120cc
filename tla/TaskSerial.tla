----------------------------- MODULE TaskSerial -----------------------------
(***************************************************************************)
(* TaskCore for clients that overlap or for clients that do not.  Two      *)
(* stale updates of one task may end in one version number or mix their    *)
(* columns; what this module states holds for a workload whose requests    *)
(* come one after the other, each of which may still be cut off.           *)
(***************************************************************************)
EXTENDS TaskCore

VARIABLE workload   \* "overlapping" or "serial"

\* At most one request is under way.
OneAtATime ==
    \A s, x \in Sessions : pc[s] # "idle" /\ pc[x] # "idle" => s = x

WorkInit == Init /\ workload \in {"overlapping", "serial"}
WorkNext == Next /\ (workload = "serial" => OneAtATime') /\ UNCHANGED workload
WorkSpec == WorkInit /\ [][WorkNext]_<<vars, workload>>

-----------------------------------------------------------------------------
\* The version of a task counts its logged changes.
VersionCountsChanges ==
    \A t \in Tasks :
        row[t] # None => row[t].version = 1 + Cardinality(ChangesOf(t))

\* Replaying the audit log of a task gives its status: the status of the last
\* event that sets one.
InitialStatus(t) == {r.status : r \in {x \in sent[row[t].key] : x.op = "create"}}
StatusChanges(t) ==
    {i \in ChangesOf(t) : events[i].kind = "cancelled" \/ events[i].status # Keep}
LoggedStatus(t) ==
    LET last == CHOOSE i \in StatusChanges(t) : \A j \in StatusChanges(t) : j <= i
    IN  IF StatusChanges(t) = {} THEN InitialStatus(t)
        ELSE IF events[last].kind = "cancelled" THEN {"CANCELLED"}
        ELSE {events[last].status}
AuditReplaysStatus ==
    \A t \in Tasks : row[t] # None => row[t].status \in LoggedStatus(t)

\* completed_at is set only on a task that is DONE, or was DONE when it was
\* cancelled; a task created open is DONE only with completed_at set.
CompletionRecorded ==
    \A t \in Tasks : row[t] # None =>
        /\ row[t].completed => row[t].status \in {"DONE", "CANCELLED"}
        /\ row[t].status = "DONE" /\ "DONE" \notin InitialStatus(t)
               => row[t].completed

\* A step that changes a finished task, unless it logs a cancellation, leaves
\* the task's status.
KeepsFinished(t) ==
    /\ row[t] # None /\ row[t].status \in {"DONE", "CANCELLED"}
    /\ row'[t] # row[t] /\ events'[Len(events')].kind # "cancelled"
    => row'[t].status = row[t].status

-----------------------------------------------------------------------------
\* TaskService.update and cancel: the version of a task counts its logged
\* changes, while requests do not overlap.
SerialVersionCounts == workload = "serial" => VersionCountsChanges

\* The audit log: replaying it gives the status of a task, while requests do
\* not overlap.
SerialAuditReplays == workload = "serial" => AuditReplaysStatus

\* TaskService.update: completed_at agrees with the status, while requests do
\* not overlap.
SerialCompletion == workload = "serial" => CompletionRecorded

\* ALLOWED_TRANSITIONS: no update, whatever operations came before, gives a
\* finished task another status, while requests do not overlap.  Cancelling,
\* which validates no transition, is not an update: nothing is said of it.
UpdatesKeepFinished ==
    [][workload = "serial" => \A t \in Tasks : KeepsFinished(t)]_<<vars, workload>>
=============================================================================
