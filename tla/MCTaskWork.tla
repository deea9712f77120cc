----------------------------- MODULE MCTaskWork -----------------------------
(***************************************************************************)
(* TaskCore under three workloads in one run: creations that race for the  *)
(* owner, a key and a task; changes of one task that overlap; and requests *)
(* one after the other, through every status.  The check of liveness       *)
(* excludes TLC's symmetry sets, so what is interchangeable is put in      *)
(* order here: sessions, keys and, where nothing names it, the second task.*)
(***************************************************************************)
EXTENDS MCTaskCore, TaskSerial

AllRequests == CreateRequests \cup ChangeRequests \cup SerialRequests

Asked(k) == sent'[k] # {}
Asks(requests) == \A k \in Keys : sent'[k] \subseteq requests
OneOperationPerKey == \A k \in Keys : Cardinality(sent'[k]) <= 1

\* One task: only k1 creates.
OnlyFirstTask ==
    /\ \A s \in Sessions : pending'[s] # t2
    /\ \A k \in Keys \ {k1} : \A r \in sent'[k] : r.op # "create"

\* An order of the changes, for the keys k2 and k3 of overlapping ones.
Rank(r) ==
    CASE r.op = "create" -> 0
      [] r.op = "cancel" -> 1 + r.version
      [] r.op = "update" /\ r.status = Keep -> 4
      [] r.op = "update" /\ r.status = "DONE" -> 5
      [] r.op = "update" /\ r.status = "WAITING" -> 6
      [] OTHER -> 7
Ranked == \A r \in sent'[k2], x \in sent'[k3] : Rank(r) <= Rank(x)

\* The second session serves only what overlaps with the first.
SecondOverlaps == pc[s2] = "idle" /\ pc'[s2] # "idle" => pc[s1] # "idle"

Creating ==
    /\ Asks(CreateRequests)
    /\ Asked(k2) => Asked(k1)
    /\ ~Asked(k3)
Changing ==
    /\ Asks(ChangeRequests)
    /\ OneOperationPerKey /\ OnlyFirstTask /\ Ranked
OneByOne ==
    /\ Asks(SerialRequests)
    /\ OneOperationPerKey /\ OnlyFirstTask
    /\ Asked(k2) => Asked(k1)
    /\ Asked(k3) => Asked(k2)
    /\ \A k \in Keys : attempts'[k] <= 1

Admitted ==
    /\ SecondOverlaps
    /\ IF workload = "overlapping" THEN Creating \/ Changing ELSE OneByOne

WorkloadSpec ==
    WorkInit /\ [][WorkNext /\ Admitted]_<<vars, workload>> /\ Fairness
=============================================================================
