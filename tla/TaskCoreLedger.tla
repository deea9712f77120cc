--------------------------- MODULE TaskCoreLedger ---------------------------
(***************************************************************************)
(* TaskCore implements TaskLedger: the committed rows, the audit log and   *)
(* the answers, seen without the sessions that make them.                  *)
(***************************************************************************)
EXTENDS TaskCore

StatusNow == [t \in Tasks |-> IF row[t] = None THEN None ELSE row[t].status]
EntryOf(event) == [key |-> event.key, task |-> event.task, kind |-> event.kind]
EntriesNow == {EntryOf(events[i]) : i \in 1..Len(events)}
ToldNow == [k \in Keys |-> Confirmed(k)]

Ledger == INSTANCE TaskLedger WITH
    status <- StatusNow, entries <- EntriesNow, asked <- sent, told <- ToldNow

\* Every operation is carried out at one instant, its commit, once per key,
\* together with its audit entry and its confirmation, however the requests
\* that race for one task or one key interleave and wherever they break off.
ImplementsLedger == Ledger!Spec
=============================================================================
