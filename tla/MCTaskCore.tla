----------------------------- MODULE MCTaskCore -----------------------------
(***************************************************************************)
(* TaskCore on small instances: a create operation, and changes that state *)
(* no version or the version clients saw first.                            *)
(***************************************************************************)
EXTENDS TaskCoreLedger, TLC

CONSTANTS t1, t2, s1, s2, k1, k2, k3, d1

Create(st, src) == [op |-> "create", status |-> st, due |-> None, source |-> src]
Update(t, st, d, v) == [op |-> "update", task |-> t, status |-> st, due |-> d,
                        version |-> v]
Cancel(t, v) == [op |-> "cancel", task |-> t, version |-> v]

\* Creating: two operations race for the owner, the key and the task, and a
\* key may be sent again with another operation.
CreateRequests == {Create("NEW", "known"), Create("NEW", "unknown"),
                   Update(t1, "DONE", Keep, 0), Cancel(t2, 1)}

\* Changing: one task, every kind of change.
ChangeRequests ==
    {Create("NEW", "none")}
    \cup {Update(t1, "DONE", Keep, 0), Update(t1, "WAITING", Keep, 1),
          Update(t1, "POSTPONED", d1, 1), Update(t1, Keep, d1, 0),
          Cancel(t1, 0), Cancel(t1, 2)}

\* One session at a time: every status of the machine.
SerialRequests ==
    {Create("NEW", "none"), Create("OVERDUE", "none"), Create("DONE", "none")}
    \cup {Update(t1, st, Keep, 0) : st \in TaskStatus}
    \cup {Update(t1, "POSTPONED", d1, 2), Update(t1, Keep, d1, 1),
          Cancel(t1, 0), Cancel(t1, 2)}

Interchangeable == Permutations(Sessions) \cup Permutations(Keys)
=============================================================================
