-------------------------- MODULE TaskLedgerProofs --------------------------
(***************************************************************************)
(* TaskCore implements TaskLedger, for any number of sessions, keys, tasks *)
(* and operations: initial states map to initial states and every step to  *)
(* a step of the ledger or to none.                                        *)
(***************************************************************************)
EXTENDS TaskCoreLedger, TaskCoreProofs

-----------------------------------------------------------------------------
\* The mapped variables.

LEMMA LedgerInit == Init => Ledger!Init
<1>. SUFFICES ASSUME Init PROVE Ledger!Init
    OBVIOUS
<1>1. StatusNow = [t \in Tasks |-> None]
    BY DEF Init, StatusNow
<1>2. EntriesNow = {}
    BY DEF Init, EntriesNow
<1>3. ToldNow = [k \in Keys |-> {}]
    BY DEF Init, ToldNow, Confirmed
<1>. QED  BY <1>1, <1>2, <1>3 DEF Init, Ledger!Init

\* A key is fresh in the ledger exactly when no event carries it.
LEMMA FreshIsUnused ==
    ASSUME NEW k
    PROVE  Ledger!Fresh(k) <=> k \notin UsedKeys
<1>1. \A i \in 1..Len(events) : EntryOf(events[i]).key = events[i].key
    BY DEF EntryOf
<1>. QED  BY <1>1 DEF Ledger!Fresh, EntriesNow, UsedKeys

\* One more event is one more entry.
LEMMA EntriesGrow ==
    ASSUME events \in Seq(Event), NEW e \in Event, events' = Append(events, e)
    PROVE  EntriesNow' = EntriesNow \cup {EntryOf(e)}
<1>. DEFINE n == Len(events)
<1>1. /\ n \in Nat /\ Len(events') = n + 1
      /\ \A i \in 1..n : events'[i] = events[i]
      /\ events'[n + 1] = e
    BY AppendFacts
<1>2. 1..Len(events') = 1..n \cup {n + 1}
    BY <1>1
<1>. QED  BY <1>1, <1>2 DEF EntriesNow, EntryOf

\* The entry of an operation is its event, seen without the status.
LEMMA EntryOfEvent ==
    ASSUME NEW k, NEW r, NEW t
    PROVE  EntryOf(EventOf(k, r, t)) = Ledger!Entry(k, r, t)
    BY DEF EntryOf, EventOf, Ledger!Entry, Ledger!Kind

\* An answer tells the ledger's client of a confirmed task, or nothing.
LEMMA AnswerTells ==
    ASSUME TypeInv, NEW s \in Sessions, pc[s] # "idle",
           NEW c, NEW t, c = "ok" => t \in Tasks, Answer(s, c, t)
    PROVE  /\ sent' = sent
           /\ ToldNow' = IF c = "ok"
                         THEN [ToldNow EXCEPT ![key[s]] = @ \cup {t}] ELSE ToldNow
<1>1. key[s] \in Keys /\ sent' = sent
    BY Serving DEF Answer
<1>2. reply' = [reply EXCEPT ![key[s]] = @ \cup {[code |-> c, task |-> t]}]
    BY DEF Answer
<1>3. \A k \in Keys :
          reply'[k] = IF k = key[s] THEN reply[k] \cup {[code |-> c, task |-> t]}
                      ELSE reply[k]
    BY <1>1, <1>2 DEF TypeInv, TypeOK
<1>4. \A k \in Keys :
          Confirmed(k)' = IF c = "ok" /\ k = key[s] THEN Confirmed(k) \cup {t}
                          ELSE Confirmed(k)
  <2>. TAKE k \in Keys
  <2>1. \A x \in Tasks : [code |-> "ok", task |-> x] \in reply'[k] <=>
            \/ [code |-> "ok", task |-> x] \in reply[k]
            \/ c = "ok" /\ k = key[s] /\ x = t
    <3>. TAKE x \in Tasks
    <3>1. [code |-> "ok", task |-> x] = [code |-> c, task |-> t] <=> c = "ok" /\ x = t
        OBVIOUS
    <3>. QED  BY <1>3, <3>1, Zenon
  <2>. QED  BY <2>1 DEF Confirmed
<1>. QED  BY <1>1, <1>4 DEF ToldNow

-----------------------------------------------------------------------------
\* The steps that carry an operation out.

LEMMA CreatesIsCreate ==
    ASSUME CreateInv, NEW s \in Sessions, Creates(s)
    PROVE  Ledger!Create(key[s], op[s], pending[s])
<1>. DEFINE k == key[s]
            r == op[s]
            t == pending[s]
<1>1. /\ t \in Tasks /\ k \in Keys /\ r \in CreateRequest /\ r \in sent[k]
      /\ pc[s] # "idle"
    BY CreatesRow DEF CreateInv, Creates, TypeInv, SessionConsistent, SessionFits
<1>2. row[t] = None
    BY DEF CreateInv, PendingApart, Creates, TypeInv, SessionConsistent, SessionFits
<1>3. row' = [row EXCEPT ![t] = NewTask(r, k)]
    BY DEF Creates
<1>4. NewTask(r, k) # None /\ NewTask(r, k).status = r.status
  <2>1. NewTask(r, k) \in Row
      BY <1>1 DEF NewTask, Row, CreateRequest
  <2>. QED  BY <2>1, ConstantsAssumption DEF NewTask
<1>5. StatusNow' = [StatusNow EXCEPT ![t] = r.status]
  <2>1. \A u \in Tasks : row'[u] = IF u = t THEN NewTask(r, k) ELSE row[u]
      BY <1>1, <1>3 DEF CreateInv, TypeInv, TypeOK
  <2>. QED  BY <1>1, <1>4, <2>1 DEF StatusNow
<1>6. StatusNow[t] = None
    BY <1>1, <1>2 DEF StatusNow
<1>7. EntriesNow' = EntriesNow \cup {Ledger!Entry(k, r, t)}
  <2>1. EventOf(k, r, t) \in Event /\ events' = Append(events, EventOf(k, r, t))
      BY CreatesRow DEF Creates, CreateInv
  <2>. QED  BY <2>1, EntriesGrow, EntryOfEvent DEF CreateInv, TypeInv, TypeOK
<1>8. Ledger!Fresh(k)
    BY FreshIsUnused DEF Creates, UniqueViolation
<1>9. ToldNow' = [ToldNow EXCEPT ![k] = @ \cup {t}] /\ sent' = sent
    BY <1>1, AnswerTells DEF Creates, CreateInv
<1>. QED
    BY <1>1, <1>5, <1>6, <1>7, <1>8, <1>9
    DEF Ledger!Create, Ledger!CarryOut, CreateRequest

\* A commit leaves the status the operation asked for, or the one it finds.
LEMMA FlushOutcome ==
    ASSUME NEW r \in UpdateRequest \cup CancelRequest,
           NEW current \in Row, NEW loaded \in Row
    PROVE  Flush(current, loaded, Changed(r, loaded)).status
               \in Ledger!Outcomes(r, current.status)
<1>. SUFFICES ASSUME NEW new, new = Changed(r, loaded)
               PROVE  Flush(current, loaded, new).status
                          \in Ledger!Outcomes(r, current.status)
    OBVIOUS
<1>1. new.status = IF r.op = "cancel" THEN "CANCELLED"
                   ELSE IF r.status = Keep THEN loaded.status ELSE r.status
    BY DEF Changed, Row
<1>2. Flush(current, loaded, new).status =
          IF new.status = loaded.status THEN current.status ELSE new.status
    BY DEF Flush
<1>3. r.op \in {"update", "cancel"}
    BY DEF UpdateRequest, CancelRequest
<1>4. CASE r.op = "cancel"
  <2>1. Ledger!Outcomes(r, current.status) = {current.status, "CANCELLED"}
      BY <1>4 DEF Ledger!Outcomes
  <2>. QED  BY <1>1, <1>2, <1>4, <2>1
<1>5. CASE r.op = "update" /\ r.status = Keep
  <2>1. Ledger!Outcomes(r, current.status) = {current.status}
      BY <1>5 DEF Ledger!Outcomes
  <2>. QED  BY <1>1, <1>2, <1>5, <2>1
<1>6. CASE r.op = "update" /\ r.status # Keep
  <2>1. Ledger!Outcomes(r, current.status) = {current.status, r.status}
      BY <1>6 DEF Ledger!Outcomes
  <2>. QED  BY <1>1, <1>2, <1>6, <2>1
<1>. QED  BY <1>3, <1>4, <1>5, <1>6

LEMMA ChangesIsChange ==
    ASSUME CreateInv, NEW s \in Sessions, Changes(s)
    PROVE  Ledger!Change(key[s], op[s], op[s].task)
<1>. DEFINE k == key[s]
            r == op[s]
            t == op[s].task
            new == Flush(row[t], read[s], Changed(r, read[s]))
<1>1. /\ t \in Tasks /\ k \in Keys /\ r \in UpdateRequest \cup CancelRequest
      /\ r \in sent[k] /\ pc[s] # "idle" /\ row[t] \in Row /\ row'[t] \in Row
      /\ \A u \in Tasks \ {t} : row'[u] = row[u]
    BY ChangesRow DEF CreateInv, Changes, TypeInv, SessionConsistent, SessionFits
<1>2. read[s] \in Row
    BY DEF CreateInv, Changes, TypeInv, TypeOK, SessionConsistent, SessionFits
<1>3. row'[t] = new
    BY <1>1 DEF Changes, CreateInv, TypeInv, TypeOK
<1>4. row'[t].status \in Ledger!Outcomes(r, row[t].status)
    BY <1>1, <1>2, <1>3, FlushOutcome
<1>. HIDE DEF new
<1>5. row[t] # None /\ row'[t] # None
    BY <1>1, ConstantsAssumption
<1>6. StatusNow[t] = row[t].status /\ StatusNow[t] # None
  <2>1. row[t].status \in TaskStatus
      BY <1>1 DEF Row
  <2>2. None \notin TaskStatus
      BY ConstantsAssumption
  <2>. QED  BY <1>1, <1>5, <2>1, <2>2 DEF StatusNow
<1>7. StatusNow' = [StatusNow EXCEPT ![t] = row'[t].status]
    BY <1>1, <1>5 DEF StatusNow
<1>8. EntriesNow' = EntriesNow \cup {Ledger!Entry(k, r, t)}
  <2>1. EventOf(k, r, t) \in Event /\ events' = Append(events, EventOf(k, r, t))
      BY ChangesRow DEF Changes, CreateInv
  <2>. QED  BY <2>1, EntriesGrow, EntryOfEvent DEF CreateInv, TypeInv, TypeOK
<1>9. Ledger!Fresh(k)
    BY FreshIsUnused DEF Changes, UniqueViolation
<1>10. ToldNow' = [ToldNow EXCEPT ![k] = @ \cup {t}] /\ sent' = sent
    BY <1>1, AnswerTells DEF Changes, CreateInv
<1>11. r.op # "create"
    BY <1>1 DEF UpdateRequest, CancelRequest
<1>. QED
    BY <1>1, <1>4, <1>6, <1>7, <1>8, <1>9, <1>10, <1>11
    DEF Ledger!Change, Ledger!CarryOut

-----------------------------------------------------------------------------
\* The steps that answer without carrying anything out.

LEMMA RefusalStutters ==
    ASSUME CreateInv, NEW s \in Sessions, pc[s] # "idle", UNCHANGED db,
           NEW c, c # "ok", Answer(s, c, None)
    PROVE  UNCHANGED Ledger!ledger
<1>1. sent' = sent /\ ToldNow' = ToldNow
    BY AnswerTells DEF CreateInv
<1>2. StatusNow' = StatusNow /\ EntriesNow' = EntriesNow
    BY DEF StatusNow, EntriesNow, db
<1>. QED  BY <1>1, <1>2 DEF Ledger!ledger

LEMMA ReplayIsRepeat ==
    ASSUME CreateInv, NEW s \in Sessions, pc[s] # "idle", UNCHANGED db,
           NEW t \in Tasks, Answer(s, "ok", t), key[s] \in UsedKeys,
           \/ op[s].op # "create" /\ op[s].task = t
           \/ \E i \in 1..Len(events) : events[i].key = key[s] /\ events[i].task = t
    PROVE  Ledger!Repeat(key[s], t)
<1>1. sent' = sent /\ ToldNow' = [ToldNow EXCEPT ![key[s]] = @ \cup {t}]
    BY AnswerTells DEF CreateInv
<1>2. StatusNow' = StatusNow /\ EntriesNow' = EntriesNow
    BY DEF StatusNow, EntriesNow, db
<1>3. ~ Ledger!Fresh(key[s])
    BY FreshIsUnused
<1>4. op[s] \in sent[key[s]]
    BY Serving DEF CreateInv
<1>5. \/ \E entry \in EntriesNow : entry.key = key[s] /\ entry.task = t
      \/ \E r \in sent[key[s]] : r.op # "create" /\ r.task = t
  <2>1. CASE op[s].op # "create" /\ op[s].task = t
      BY <1>4, <2>1
  <2>2. ASSUME NEW i \in 1..Len(events), events[i].key = key[s], events[i].task = t
        PROVE  \E entry \in EntriesNow : entry.key = key[s] /\ entry.task = t
    <3>1. EntryOf(events[i]) \in EntriesNow
        BY DEF EntriesNow
    <3>2. EntryOf(events[i]).key = key[s] /\ EntryOf(events[i]).task = t
        BY <2>2 DEF EntryOf
    <3>. QED  BY <3>1, <3>2
  <2>. QED  BY <2>1, <2>2
<1>. QED  BY <1>1, <1>2, <1>3, <1>5 DEF Ledger!Repeat

\* A task found under a key was recorded under it.
LEMMA FoundIsEntered ==
    ASSUME CreateInv, NEW k \in Keys, NEW t \in TasksWithKey(k)
    PROVE  /\ t \in Tasks /\ k \in UsedKeys
           /\ \E i \in 1..Len(events) : events[i].key = k /\ events[i].task = t
<1>1. t \in Tasks /\ row[t] # None /\ row[t].key = k
    BY DEF TasksWithKey
<1>2. PICK i \in 1..Len(events) : events[i].task = t /\ events[i].key = k
    BY <1>1 DEF CreateInv, TaskHasItsCreation
<1>. QED  BY <1>1, <1>2 DEF UsedKeys

\* Steps that neither commit, answer nor send show nowhere.
LEMMA SilentStutters ==
    ASSUME UNCHANGED db, UNCHANGED client
    PROVE  UNCHANGED Ledger!ledger
<1>1. StatusNow' = StatusNow /\ EntriesNow' = EntriesNow
    BY DEF StatusNow, EntriesNow, db
<1>2. sent' = sent /\ ToldNow' = ToldNow
    BY DEF ToldNow, Confirmed, client
<1>. QED  BY <1>1, <1>2 DEF Ledger!ledger

LEMMA SubmitIsAsk ==
    ASSUME NEW s \in Sessions, NEW k \in Keys, NEW r \in Requests, Submit(s, k, r)
    PROVE  Ledger!Ask(k, r)
<1>1. StatusNow' = StatusNow /\ EntriesNow' = EntriesNow
    BY DEF Submit, StatusNow, EntriesNow, db
<1>2. ToldNow' = ToldNow
    BY DEF Submit, ToldNow, Confirmed
<1>. QED  BY <1>1, <1>2 DEF Submit, Ledger!Ask

-----------------------------------------------------------------------------
\* Every step.

LEMMA LookupStep ==
    ASSUME CreateInv, NEW s \in Sessions, LookupTask(s) \/ InsertTask(s)
    PROVE  UNCHANGED Ledger!ledger \/ \E t \in Tasks : Ledger!Repeat(key[s], t)
<1>1. UNCHANGED db /\ pc[s] # "idle"
    BY DEF LookupTask, InsertTask
<1>2. key[s] \in Keys
    BY <1>1, Serving DEF CreateInv
<1>3. UNCHANGED client \/ \E t \in TasksWithKey(key[s]) : Answer(s, "ok", t)
    BY DEF LookupTask, InsertTask
<1>4. ASSUME NEW t \in TasksWithKey(key[s]), Answer(s, "ok", t)
      PROVE  \E x \in Tasks : Ledger!Repeat(key[s], x)
    BY <1>1, <1>2, <1>4, FoundIsEntered, ReplayIsRepeat
<1>. QED  BY <1>1, <1>3, <1>4, SilentStutters

LEMMA CheckStep ==
    ASSUME CreateInv, NEW s \in Sessions, Check(s)
    PROVE  UNCHANGED Ledger!ledger \/ \E t \in Tasks : Ledger!Repeat(key[s], t)
<1>1. UNCHANGED db /\ pc[s] # "idle"
    BY DEF Check
<1>2. op[s].op # "create" /\ op[s].task \in Tasks
    BY Serving DEF Check, CreateInv, TypeInv, SessionConsistent, SessionFits, Changing
<1>3. CASE key[s] \in UsedKeys /\ Answer(s, "ok", op[s].task)
    BY <1>1, <1>2, <1>3, ReplayIsRepeat
<1>4. CASE Answer(s, "conflict", None)
    BY <1>1, <1>4, RefusalStutters
<1>5. CASE UNCHANGED client
    BY <1>1, <1>5, SilentStutters
<1>. QED  BY <1>3, <1>4, <1>5 DEF Check

LEMMA LoadStep ==
    ASSUME CreateInv, NEW s \in Sessions, Load(s)
    PROVE  UNCHANGED Ledger!ledger
<1>1. UNCHANGED db /\ pc[s] # "idle"
    BY DEF Load
<1>2. Answer(s, "notfound", None) \/ UNCHANGED client
    BY DEF Load
<1>. QED  BY <1>1, <1>2, RefusalStutters, SilentStutters

LEMMA WriteStep ==
    ASSUME CreateInv, NEW s \in Sessions, FinishCreate(s) \/ Commit(s)
    PROVE  \/ UNCHANGED Ledger!ledger
           \/ \E t \in Tasks : Ledger!Create(key[s], op[s], t) \/ Ledger!Change(key[s], op[s], t)
<1>1. pc[s] # "idle"
    BY DEF FinishCreate, Commit
<1>2. CASE Creates(s)
  <2>1. pending[s] \in Tasks
      BY <1>2, CreatesRow DEF CreateInv
  <2>. QED  BY <1>2, <2>1, CreatesIsCreate
<1>3. CASE Changes(s)
  <2>1. op[s].task \in Tasks
      BY <1>3, ChangesRow DEF CreateInv
  <2>. QED  BY <1>3, <2>1, ChangesIsChange
<1>4. ASSUME NEW c \in {"invalid", "error"}, Answer(s, c, None), UNCHANGED db
      PROVE  UNCHANGED Ledger!ledger
    BY <1>1, <1>4, RefusalStutters
<1>. QED  BY <1>2, <1>3, <1>4, FinishCreateCases, CommitCases

LEMMA LedgerNext == CreateInv /\ [Next]_vars => [Ledger!Next]_(Ledger!ledger)
<1>. SUFFICES ASSUME CreateInv, [Next]_vars PROVE [Ledger!Next]_(Ledger!ledger)
    OBVIOUS
<1>1. CASE UNCHANGED vars
    BY <1>1, SilentStutters DEF vars, db, client
<1>2. ASSUME NEW s \in Sessions, FindOwner(s) \/ AddOwner(s) \/ Abort(s)
      PROVE  UNCHANGED Ledger!ledger
    BY <1>2, SilentStutters DEF FindOwner, AddOwner, Abort
<1>3. ASSUME NEW s \in Sessions, pc[s] # "idle"
      PROVE  key[s] \in Keys /\ op[s] \in Requests
    BY <1>3, Serving DEF CreateInv
<1>4. ASSUME NEW s \in Sessions, LookupTask(s) \/ InsertTask(s) \/ Check(s)
      PROVE  [Ledger!Next]_(Ledger!ledger)
  <2>1. key[s] \in Keys
      BY <1>3, <1>4 DEF LookupTask, InsertTask, Check
  <2>. QED  BY <1>4, <2>1, LookupStep, CheckStep DEF Ledger!Next
<1>5. ASSUME NEW s \in Sessions, FinishCreate(s) \/ Commit(s)
      PROVE  [Ledger!Next]_(Ledger!ledger)
  <2>1. key[s] \in Keys /\ op[s] \in Requests
      BY <1>3, <1>5 DEF FinishCreate, Commit
  <2>. QED  BY <1>5, <2>1, WriteStep DEF Ledger!Next
<1>6. ASSUME NEW s \in Sessions, NEW k \in Keys, NEW r \in Requests, Submit(s, k, r)
      PROVE  Ledger!Next
    BY <1>6, SubmitIsAsk DEF Ledger!Next
<1>. QED  BY <1>1, <1>2, <1>4, <1>5, <1>6, LoadStep DEF Next, Serve

\* The Task Core keeps the ledger's promise to its clients.
THEOREM ImplementsTheLedger == Spec => ImplementsLedger
<1>. QED
    BY LedgerInit, LedgerNext, CreateInit, CreateNext, PTL
    DEF Spec, ImplementsLedger, Ledger!Spec
=============================================================================
