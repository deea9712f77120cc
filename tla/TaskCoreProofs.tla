--------------------------- MODULE TaskCoreProofs ---------------------------
(***************************************************************************)
(* Theorems about TaskCore, and about requests that do not overlap         *)
(* (TaskSerial), for any number of sessions, keys, tasks and               *)
(* operations.                                                             *)
(***************************************************************************)
EXTENDS TaskSerial, SequenceTheorems, FiniteSetTheorems, TLAPS

-----------------------------------------------------------------------------
\* Operators of the model have their types.

\* A longer log: the old entries and the new one.
LEMMA AppendFacts ==
    ASSUME NEW S, NEW q \in Seq(S), NEW e \in S
    PROVE  /\ Append(q, e) \in Seq(S)
           /\ Len(Append(q, e)) = Len(q) + 1
           /\ \A i \in 1..Len(q) : Append(q, e)[i] = q[i]
           /\ Append(q, e)[Len(q) + 1] = e
    OBVIOUS

\* The audit record of an operation is an event.
LEMMA EventOfType ==
    ASSUME NEW k \in Keys, NEW r \in Request, NEW t \in Tasks
    PROVE  EventOf(k, r, t) \in Event
<1>1. CASE r \in CreateRequest
    BY <1>1 DEF EventOf, Event, CreateRequest
<1>2. CASE r \in UpdateRequest
    BY <1>2 DEF EventOf, Event, UpdateRequest
<1>3. CASE r \in CancelRequest
    BY <1>3 DEF EventOf, Event, CancelRequest
<1>. QED  BY <1>1, <1>2, <1>3 DEF Request

\* An operation on a row makes a row.
LEMMA ChangedType ==
    ASSUME NEW r \in UpdateRequest \cup CancelRequest, NEW old \in Row
    PROVE  Changed(r, old) \in Row
<1>1. CompletedAfter(r, old) \in BOOLEAN
    BY DEF CompletedAfter, Row, UpdateRequest, CancelRequest
<1>2. VersionAfter(r, old) \in Nat \ {0}
    BY DEF VersionAfter, Row
<1>3. CASE r \in UpdateRequest
    BY <1>1, <1>2, <1>3 DEF Changed, Row, UpdateRequest
<1>4. CASE r \in CancelRequest
    BY <1>1, <1>2, <1>4 DEF Changed, Row, CancelRequest, TaskStatus
<1>. QED  BY <1>3, <1>4

\* An UPDATE of a row leaves a row with the same key.
LEMMA FlushType ==
    ASSUME NEW current \in Row, NEW loaded \in Row, NEW new \in Row
    PROVE  /\ Flush(current, loaded, new) \in Row
           /\ Flush(current, loaded, new).key = current.key
    BY DEF Flush, Row

\* Closing a session keeps the types of what the session holds.
SessionType ==
    /\ pc \in [Sessions -> PC]
    /\ op \in [Sessions -> Requests \cup {None}]
    /\ key \in [Sessions -> Keys \cup {None}]
    /\ read \in [Sessions -> Row \cup {None}]
    /\ pending \in [Sessions -> Tasks \cup {None}]
    /\ addsOwner \in [Sessions -> BOOLEAN]

LEMMA CloseType ==
    ASSUME SessionType, NEW s \in Sessions, Close(s)
    PROVE  SessionType'
    BY DEF SessionType, Close, Goto, PC

\* An answer is about a task the request names, or about none.
LEMMA AnswerType ==
    ASSUME SessionType, reply \in [Keys -> SUBSET Reply],
           NEW s \in Sessions,
           NEW c \in {"ok", "notfound", "conflict", "invalid", "error"},
           NEW t \in Tasks \cup {None}, Answer(s, c, t)
    PROVE  SessionType' /\ reply' \in [Keys -> SUBSET Reply]
<1>1. SessionType'
    BY CloseType DEF Answer
<1>2. [code |-> c, task |-> t] \in Reply
    BY DEF Reply
<1>3. reply' \in [Keys -> SUBSET Reply]
    BY <1>2 DEF Answer
<1>. QED  BY <1>1, <1>3

-----------------------------------------------------------------------------
\* What a session holds fits the statement it is at: the strengthening of
\* TypeOK that makes it inductive.

Creating == {"owner", "addOwner", "lookup", "insert", "event"}
Changing == {"load", "check", "commit"}

SessionFits(s) ==
    /\ pc[s] # "idle" => key[s] \in Keys /\ op[s] \in sent[key[s]]
    /\ pc[s] \in Creating => op[s].op = "create"
    /\ pc[s] \in Changing => op[s].op # "create"
    /\ pc[s] \in {"check", "commit"} => read[s] # None /\ row[op[s].task] # None
    /\ pc[s] = "event" <=> pending[s] # None

SessionConsistent == \A s \in Sessions : SessionFits(s)

TypeInv == TypeOK /\ SessionConsistent

LEMMA TypeInit == Init => TypeInv
<1>. SUFFICES ASSUME Init PROVE TypeInv
    OBVIOUS
<1>0. 0 \in 0..MaxAttempts /\ <<>> \in Seq(Event)
    BY ConstantsAssumption
<1>1. TypeOK
    BY <1>0 DEF Init, TypeOK, PC
<1>2. SessionConsistent
    BY DEF Init, SessionConsistent, SessionFits, Creating, Changing
<1>. QED  BY <1>1, <1>2 DEF TypeInv

\* The operation a session serves, in the statements it can be at.
LEMMA Serving ==
    ASSUME TypeInv, NEW s \in Sessions, pc[s] # "idle"
    PROVE  /\ key[s] \in Keys /\ op[s] \in sent[key[s]] /\ op[s] \in Requests
           /\ pc[s] \in Creating => op[s] \in CreateRequest
           /\ pc[s] \in Changing =>
                  op[s] \in UpdateRequest \cup CancelRequest /\ op[s].task \in Tasks
<1>1. key[s] \in Keys /\ op[s] \in sent[key[s]] /\ op[s] \in Requests
    BY DEF TypeInv, TypeOK, SessionConsistent, SessionFits
<1>2. op[s] \in Request
    BY <1>1, ConstantsAssumption
<1>. QED
    BY <1>1, <1>2 DEF TypeInv, SessionConsistent, SessionFits, Request,
       CreateRequest, UpdateRequest, CancelRequest

\* What the database session s does leaves the others consistent.
LEMMA OthersConsistent ==
    ASSUME TypeInv, NEW s \in Sessions, SessionFits(s)',
           \A u \in Sessions \ {s} :
               /\ pc'[u] = pc[u] /\ key'[u] = key[u] /\ op'[u] = op[u]
               /\ read'[u] = read[u] /\ pending'[u] = pending[u],
           \A k \in Keys : sent[k] \subseteq sent'[k],
           \A t \in Tasks : row[t] # None => row'[t] # None
    PROVE  SessionConsistent'
<1>. SUFFICES ASSUME NEW u \in Sessions \ {s} PROVE SessionFits(u)'
    BY DEF SessionConsistent
<1>1. SessionFits(u)
    BY DEF TypeInv, SessionConsistent
<1>2. pc[u] \in {"check", "commit"} => op[u].task \in Tasks
    BY Serving DEF Changing
<1>. QED  BY <1>1, <1>2 DEF SessionFits

\* A request that ends leaves every session consistent.
LEMMA CloseConsistent ==
    ASSUME TypeInv, NEW s \in Sessions, Close(s),
           \A k \in Keys : sent[k] \subseteq sent'[k],
           \A t \in Tasks : row[t] # None => row'[t] # None
    PROVE  SessionConsistent'
<1>1. SessionFits(s)'
    BY DEF TypeInv, TypeOK, Close, Goto, SessionFits, Creating, Changing
<1>2. \A u \in Sessions \ {s} :
          /\ pc'[u] = pc[u] /\ key'[u] = key[u] /\ op'[u] = op[u]
          /\ read'[u] = read[u] /\ pending'[u] = pending[u]
    BY DEF TypeInv, TypeOK, Close, Goto
<1>. QED  BY <1>1, <1>2, OthersConsistent

\* A request that is answered without a write leaves TypeInv.
LEMMA AnswerKeepsTypes ==
    ASSUME TypeInv, NEW s \in Sessions,
           NEW c \in {"ok", "notfound", "conflict", "invalid", "error"},
           NEW t \in Tasks \cup {None}, Answer(s, c, t), UNCHANGED db
    PROVE  TypeInv'
<1>1. SessionType
    BY DEF TypeInv, TypeOK, SessionType
<1>2. SessionType' /\ reply' \in [Keys -> SUBSET Reply]
    BY <1>1, AnswerType DEF TypeInv, TypeOK
<1>3. UNCHANGED <<owner, row, events, links, sent, attempts>> /\ Close(s)
    BY DEF Answer, db
<1>4. SessionConsistent'
    BY <1>3, CloseConsistent
<1>5. TypeOK'
    BY <1>2, <1>3 DEF TypeInv, TypeOK, SessionType
<1>. QED  BY <1>4, <1>5 DEF TypeInv

-----------------------------------------------------------------------------
\* Every step keeps TypeInv.

LEMMA SubmitKeepsTypes ==
    ASSUME TypeInv, NEW s \in Sessions, NEW k \in Keys, NEW r \in Requests,
           Submit(s, k, r)
    PROVE  TypeInv'
<1>1. attempts[k] + 1 \in 0..MaxAttempts
    BY ConstantsAssumption DEF TypeInv, TypeOK, Submit
<1>2. TypeOK'
  <2>1. attempts' \in [Keys -> 0..MaxAttempts]
      BY <1>1 DEF TypeInv, TypeOK, Submit
  <2>2. sent' \in [Keys -> SUBSET Requests]
      BY DEF TypeInv, TypeOK, Submit
  <2>. QED  BY <2>1, <2>2 DEF TypeInv, TypeOK, Submit, Goto, PC, db
<1>3. SessionFits(s)'
    BY ConstantsAssumption DEF TypeInv, TypeOK, SessionConsistent, SessionFits, Submit,
       Goto, Creating, Changing
<1>4. SessionConsistent'
  <2>1. \A l \in Keys : sent[l] \subseteq sent'[l]
      BY DEF TypeInv, TypeOK, Submit
  <2>2. \A u \in Sessions \ {s} :
            /\ pc'[u] = pc[u] /\ key'[u] = key[u] /\ op'[u] = op[u]
            /\ read'[u] = read[u] /\ pending'[u] = pending[u]
      BY DEF TypeInv, TypeOK, Submit, Goto
  <2>3. \A t \in Tasks : row[t] # None => row'[t] # None
      BY DEF Submit, db
  <2>. QED  BY <1>3, <2>1, <2>2, <2>3, OthersConsistent
<1>. QED  BY <1>2, <1>4 DEF TypeInv

LEMMA AbortKeepsTypes ==
    ASSUME TypeInv, NEW s \in Sessions, Abort(s)
    PROVE  TypeInv'
<1>1. SessionType'
    BY CloseType DEF TypeInv, TypeOK, SessionType, Abort
<1>2. TypeOK'
    BY <1>1 DEF TypeInv, TypeOK, SessionType, Abort, db, client
<1>3. SessionConsistent'
    BY CloseConsistent DEF Abort, db, client
<1>. QED  BY <1>2, <1>3 DEF TypeInv

LEMMA OwnerKeepsTypes ==
    ASSUME TypeInv, NEW s \in Sessions, FindOwner(s) \/ AddOwner(s)
    PROVE  TypeInv'
<1>1. /\ pc[s] \in {"owner", "addOwner"}
      /\ \E where \in {"addOwner", "lookup"} : pc' = [pc EXCEPT ![s] = where]
      /\ addsOwner' \in [Sessions -> BOOLEAN]
      /\ UNCHANGED <<owner, row, events, links, op, key, read, pending, sent, attempts, reply>>
    BY DEF TypeInv, TypeOK, FindOwner, AddOwner, Goto, db, client
<1>2. TypeOK'
    BY <1>1 DEF TypeInv, TypeOK, PC
<1>3. SessionFits(s)'
    BY <1>1 DEF TypeInv, TypeOK, SessionConsistent, SessionFits, Creating, Changing
<1>4. SessionConsistent'
    BY <1>1, <1>3, OthersConsistent DEF TypeInv, TypeOK
<1>. QED  BY <1>2, <1>4 DEF TypeInv

LEMMA LookupKeepsTypes ==
    ASSUME TypeInv, NEW s \in Sessions, LookupTask(s)
    PROVE  TypeInv'
<1>1. CASE \E t \in TasksWithKey(key[s]) : Answer(s, "ok", t)
  <2>1. PICK t \in TasksWithKey(key[s]) : Answer(s, "ok", t)
      BY <1>1
  <2>2. t \in Tasks /\ UNCHANGED db
      BY DEF TasksWithKey, LookupTask
  <2>. QED  BY <2>1, <2>2, AnswerKeepsTypes
<1>2. CASE /\ Goto(s, "insert")
           /\ UNCHANGED <<op, key, read, pending, addsOwner, client>>
  <2>1. TypeOK'
      BY <1>2 DEF TypeInv, TypeOK, LookupTask, Goto, PC, db, client
  <2>2. SessionFits(s)'
      BY <1>2 DEF TypeInv, TypeOK, SessionConsistent, SessionFits, Creating, Changing,
         LookupTask, Goto, client
  <2>3. SessionConsistent'
      BY <1>2, <2>2, OthersConsistent DEF TypeInv, TypeOK, LookupTask, Goto, db, client
  <2>. QED  BY <2>1, <2>3 DEF TypeInv
<1>. QED  BY <1>1, <1>2 DEF LookupTask

LEMMA InsertKeepsTypes ==
    ASSUME TypeInv, NEW s \in Sessions, InsertTask(s)
    PROVE  TypeInv'
<1>1. CASE \E t \in TasksWithKey(key[s]) : Answer(s, "ok", t)
  <2>1. PICK t \in TasksWithKey(key[s]) : Answer(s, "ok", t)
      BY <1>1
  <2>2. t \in Tasks /\ UNCHANGED db
      BY DEF TasksWithKey, InsertTask
  <2>. QED  BY <2>1, <2>2, AnswerKeepsTypes
<1>2. CASE /\ \E t \in Tasks : pending' = [pending EXCEPT ![s] = t]
           /\ Goto(s, "event")
           /\ UNCHANGED <<op, key, read, addsOwner, client>>
  <2>1. TypeOK'
      BY <1>2 DEF TypeInv, TypeOK, InsertTask, Goto, PC, db, client
  <2>2. SessionFits(s)'
      BY <1>2, ConstantsAssumption DEF TypeInv, TypeOK, SessionConsistent, SessionFits,
         Creating, Changing, InsertTask, Goto, client
  <2>3. SessionConsistent'
      BY <1>2, <2>2, OthersConsistent DEF TypeInv, TypeOK, InsertTask, Goto, db, client
  <2>. QED  BY <2>1, <2>3 DEF TypeInv
<1>. QED  BY <1>1, <1>2 DEF InsertTask

LEMMA LoadKeepsTypes ==
    ASSUME TypeInv, NEW s \in Sessions, Load(s)
    PROVE  TypeInv'
<1>1. CASE Answer(s, "notfound", None)
    BY <1>1, AnswerKeepsTypes DEF Load
<1>2. CASE /\ row[op[s].task] # None
           /\ read' = [read EXCEPT ![s] = row[op[s].task]]
           /\ Goto(s, "check")
           /\ UNCHANGED <<op, key, pending, addsOwner, client>>
  <2>1. op[s].task \in Tasks
      BY Serving DEF Load, Changing
  <2>2. TypeOK'
      BY <1>2, <2>1 DEF TypeInv, TypeOK, Load, Goto, PC, db, client
  <2>3. SessionFits(s)'
      BY <1>2, <2>1 DEF TypeInv, TypeOK, SessionConsistent, SessionFits, Creating,
         Changing, Load, Goto, client, db
  <2>4. SessionConsistent'
      BY <1>2, <2>3, OthersConsistent DEF TypeInv, TypeOK, Load, Goto, db, client
  <2>. QED  BY <2>2, <2>4 DEF TypeInv
<1>. QED  BY <1>1, <1>2 DEF Load

LEMMA CheckKeepsTypes ==
    ASSUME TypeInv, NEW s \in Sessions, Check(s)
    PROVE  TypeInv'
<1>1. op[s].task \in Tasks
    BY Serving DEF Check, Changing
<1>2. CASE Answer(s, "ok", op[s].task)
    BY <1>1, <1>2, AnswerKeepsTypes DEF Check
<1>3. CASE Answer(s, "conflict", None)
    BY <1>3, AnswerKeepsTypes DEF Check
<1>4. CASE Goto(s, "commit") /\ UNCHANGED <<op, key, read, pending, addsOwner, client>>
  <2>1. TypeOK'
      BY <1>4 DEF TypeInv, TypeOK, Check, Goto, PC, db, client
  <2>2. SessionFits(s)'
      BY <1>4 DEF TypeInv, TypeOK, SessionConsistent, SessionFits, Creating, Changing,
         Check, Goto, client, db
  <2>3. SessionConsistent'
      BY <1>4, <2>2, OthersConsistent DEF TypeInv, TypeOK, Check, Goto, db, client
  <2>. QED  BY <2>1, <2>3 DEF TypeInv
<1>. QED  BY <1>2, <1>3, <1>4 DEF Check

\* What FinishCreate and Commit write when they write.
Creates(s) ==
    /\ pc[s] = "event"
    /\ ~UniqueViolation(key[s])
    /\ owner' = (owner \/ addsOwner[s])
    /\ row' = [row EXCEPT ![pending[s]] = NewTask(op[s], key[s])]
    /\ links' \in {links, links \cup {pending[s]}}
    /\ events' = Append(events, EventOf(key[s], op[s], pending[s]))
    /\ Answer(s, "ok", pending[s])

Changes(s) ==
    LET t == op[s].task
    IN  /\ pc[s] = "commit"
        /\ ~UniqueViolation(key[s])
        /\ row' = [row EXCEPT ![t] = Flush(@, read[s], Changed(op[s], read[s]))]
        /\ events' = Append(events, EventOf(key[s], op[s], t))
        /\ Answer(s, "ok", t)
        /\ UNCHANGED <<owner, links>>

LEMMA FinishCreateCases ==
    ASSUME NEW s \in Sessions, FinishCreate(s)
    PROVE  \/ Creates(s)
           \/ Answer(s, "invalid", None) /\ UNCHANGED db
           \/ Answer(s, "error", None) /\ UNCHANGED db
    BY DEF FinishCreate, Creates, Logged

LEMMA CommitCases ==
    ASSUME NEW s \in Sessions, Commit(s)
    PROVE  Changes(s) \/ (Answer(s, "error", None) /\ UNCHANGED db)
    BY DEF Commit, Changes, Logged

\* A task that is created had no row, its row has the key, the others stay.
LEMMA CreatesRow ==
    ASSUME TypeInv, NEW s \in Sessions, Creates(s)
    PROVE  /\ pending[s] \in Tasks /\ key[s] \in Keys /\ op[s] \in CreateRequest
           /\ row' \in [Tasks -> Row \cup {None}]
           /\ row'[pending[s]] \in Row /\ row'[pending[s]].key = key[s]
           /\ \A t \in Tasks \ {pending[s]} : row'[t] = row[t]
           /\ EventOf(key[s], op[s], pending[s]) \in Event
<1>1. pending[s] \in Tasks
    BY DEF Creates, TypeInv, TypeOK, SessionConsistent, SessionFits
<1>2. key[s] \in Keys /\ op[s] \in CreateRequest
    BY Serving DEF Creates, Creating
<1>3. NewTask(op[s], key[s]) \in Row /\ NewTask(op[s], key[s]).key = key[s]
    BY <1>2 DEF NewTask, Row, CreateRequest
<1>4. EventOf(key[s], op[s], pending[s]) \in Event
    BY <1>1, <1>2, EventOfType DEF Request
<1>. QED  BY <1>1, <1>2, <1>3, <1>4 DEF Creates, TypeInv, TypeOK

\* A task that is changed has a row and keeps its key, the others stay.
LEMMA ChangesRow ==
    ASSUME TypeInv, NEW s \in Sessions, Changes(s)
    PROVE  LET t == op[s].task
           IN  /\ t \in Tasks /\ key[s] \in Keys
               /\ op[s] \in UpdateRequest \cup CancelRequest
               /\ row' \in [Tasks -> Row \cup {None}]
               /\ row[t] \in Row /\ row'[t] \in Row /\ row'[t].key = row[t].key
               /\ \A u \in Tasks \ {t} : row'[u] = row[u]
               /\ EventOf(key[s], op[s], t) \in Event
<1>. DEFINE t == op[s].task
<1>1. /\ t \in Tasks /\ key[s] \in Keys
      /\ op[s] \in UpdateRequest \cup CancelRequest
    BY Serving DEF Changes, Changing
<1>2. row[t] \in Row /\ read[s] \in Row
    BY <1>1 DEF Changes, TypeInv, TypeOK, SessionConsistent, SessionFits
<1>3. Changed(op[s], read[s]) \in Row
    BY <1>1, <1>2, ChangedType
<1>. DEFINE new == Flush(row[t], read[s], Changed(op[s], read[s]))
<1>4. new \in Row /\ new.key = row[t].key
    BY <1>2, <1>3, FlushType
<1>5. row' = [row EXCEPT ![t] = new]
    BY DEF Changes
<1>6. EventOf(key[s], op[s], t) \in Event
    BY <1>1, EventOfType DEF Request
<1>. HIDE DEF new
<1>. QED  BY <1>1, <1>2, <1>4, <1>5, <1>6 DEF TypeInv, TypeOK

LEMMA WriteKeepsTypes ==
    ASSUME TypeInv, NEW s \in Sessions, Creates(s) \/ Changes(s)
    PROVE  TypeInv'
<1>1. PICK t \in Tasks :
          /\ row' \in [Tasks -> Row \cup {None}]
          /\ row'[t] # None
          /\ \A u \in Tasks \ {t} : row'[u] = row[u]
          /\ EventOf(key[s], op[s], t) \in Event
          /\ events' = Append(events, EventOf(key[s], op[s], t))
          /\ Answer(s, "ok", t)
          /\ owner' \in BOOLEAN
          /\ links' \in SUBSET Tasks
  <2>1. CASE Creates(s)
    <3>1. owner' \in BOOLEAN
        BY <2>1 DEF Creates
    <3>2. links' \in SUBSET Tasks
      <4>1. links \in SUBSET Tasks /\ pending[s] \in Tasks
          BY <2>1, CreatesRow DEF TypeInv, TypeOK
      <4>2. links' = links \/ links' = links \cup {pending[s]}
          BY <2>1 DEF Creates
      <4>. QED  BY <4>1, <4>2
    <3>3. /\ events' = Append(events, EventOf(key[s], op[s], pending[s]))
          /\ Answer(s, "ok", pending[s])
        BY <2>1 DEF Creates
    <3>4. row'[pending[s]] # None
        BY <2>1, CreatesRow, ConstantsAssumption
    <3>. QED  BY <2>1, <3>1, <3>2, <3>3, <3>4, CreatesRow
  <2>2. CASE Changes(s)
    <3>1. owner' \in BOOLEAN /\ links' \in SUBSET Tasks
        BY <2>2 DEF Changes, TypeInv, TypeOK
    <3>2. /\ events' = Append(events, EventOf(key[s], op[s], op[s].task))
          /\ Answer(s, "ok", op[s].task)
        BY <2>2 DEF Changes
    <3>3. row'[op[s].task] # None
        BY <2>2, ChangesRow, ConstantsAssumption
    <3>. QED  BY <2>2, <3>1, <3>2, <3>3, ChangesRow
  <2>. QED  BY <2>1, <2>2
<1>2. SessionType
    BY DEF TypeInv, TypeOK, SessionType
<1>3. SessionType' /\ reply' \in [Keys -> SUBSET Reply]
    BY <1>1, <1>2, AnswerType DEF TypeInv, TypeOK
<1>4. events' \in Seq(Event)
    BY <1>1, AppendFacts DEF TypeInv, TypeOK
<1>5. Close(s) /\ UNCHANGED <<sent, attempts>>
    BY <1>1 DEF Answer
<1>6. TypeOK'
    BY <1>1, <1>3, <1>4, <1>5 DEF TypeInv, TypeOK, SessionType
<1>7. \A u \in Tasks : row[u] # None => row'[u] # None
    BY <1>1
<1>8. SessionConsistent'
    BY <1>5, <1>7, CloseConsistent
<1>. QED  BY <1>6, <1>8 DEF TypeInv

LEMMA FinishCreateKeepsTypes ==
    ASSUME TypeInv, NEW s \in Sessions, FinishCreate(s)
    PROVE  TypeInv'
    BY FinishCreateCases, WriteKeepsTypes, AnswerKeepsTypes

LEMMA CommitKeepsTypes ==
    ASSUME TypeInv, NEW s \in Sessions, Commit(s)
    PROVE  TypeInv'
    BY CommitCases, WriteKeepsTypes, AnswerKeepsTypes

LEMMA TypeNext == TypeInv /\ [Next]_vars => TypeInv'
<1>. SUFFICES ASSUME TypeInv, [Next]_vars PROVE TypeInv'
    OBVIOUS
<1>1. CASE UNCHANGED vars
    BY <1>1 DEF TypeInv, TypeOK, SessionConsistent, SessionFits, vars
<1>2. ASSUME NEW s \in Sessions, Serve(s) PROVE TypeInv'
    BY <1>2, OwnerKeepsTypes, LookupKeepsTypes, InsertKeepsTypes, LoadKeepsTypes,
       CheckKeepsTypes, FinishCreateKeepsTypes, CommitKeepsTypes DEF Serve
<1>3. ASSUME NEW s \in Sessions, Abort(s) PROVE TypeInv'
    BY <1>3, AbortKeepsTypes
<1>4. ASSUME NEW s \in Sessions, NEW k \in Keys, NEW r \in Requests, Submit(s, k, r)
      PROVE  TypeInv'
    BY <1>4, SubmitKeepsTypes
<1>. QED  BY <1>1, <1>2, <1>3, <1>4 DEF Next

\* Every variable of TaskCore keeps its type, and what a session holds fits
\* the statement it is at, whatever the number of sessions, keys and tasks.
THEOREM TypeCorrect == Spec => []TypeOK
<1>1. TypeInv => TypeOK
    BY DEF TypeInv
<1>. QED  BY <1>1, TypeInit, TypeNext, PTL DEF Spec

-----------------------------------------------------------------------------
\* One task per key, and no task without its creation event and owner.

\* An uncommitted task has a key of its own and an identity of its own.
PendingApart ==
    /\ \A s \in Sessions : pending[s] # None =>
           /\ row[pending[s]] = None
           /\ \A t \in Tasks : row[t] # None => row[t].key # key[s]
    /\ \A s, u \in Sessions : s # u /\ pending[s] # None /\ pending[u] # None =>
           pending[s] # pending[u] /\ key[s] # key[u]

\* A request past ensure_user sees a committed owner or its own.
Late == {"lookup", "insert", "event"}
OwnerFirst == \A s \in Sessions : pc[s] \in Late => owner \/ addsOwner[s]

CreateInv == TypeInv /\ PendingApart /\ OwnerFirst /\ TaskHasItsCreation

LEMMA CreateInit == Init => CreateInv
<1>. SUFFICES ASSUME Init PROVE CreateInv
    OBVIOUS
<1>1. TypeInv
    BY TypeInit
<1>2. PendingApart /\ OwnerFirst
    BY DEF Init, PendingApart, OwnerFirst, Late
<1>3. TaskHasItsCreation
    BY DEF Init, TaskHasItsCreation
<1>. QED  BY <1>1, <1>2, <1>3 DEF CreateInv

\* Steps that write nothing and insert no task.
LEMMA QuietKeepsCreations ==
    ASSUME CreateInv, TypeInv', UNCHANGED db,
           \A u \in Sessions :
               pending'[u] = None \/ (pending'[u] = pending[u] /\ key'[u] = key[u]),
           \A u \in Sessions : pc'[u] \in Late =>
               owner \/ addsOwner'[u] \/ (pc[u] \in Late /\ addsOwner'[u] = addsOwner[u])
    PROVE  CreateInv'
<1>1. PendingApart'
    BY DEF CreateInv, PendingApart, db
<1>2. OwnerFirst'
    BY DEF CreateInv, OwnerFirst, db
<1>3. TaskHasItsCreation'
    BY DEF CreateInv, TaskHasItsCreation, db
<1>. QED  BY <1>1, <1>2, <1>3 DEF CreateInv

\* What Close leaves in the other sessions.
LEMMA CloseOthers ==
    ASSUME TypeOK, NEW s \in Sessions, Close(s)
    PROVE  /\ pc'[s] = "idle" /\ pending'[s] = None
           /\ \A u \in Sessions \ {s} :
                  /\ pc'[u] = pc[u] /\ key'[u] = key[u]
                  /\ pending'[u] = pending[u] /\ addsOwner'[u] = addsOwner[u]
    BY DEF TypeOK, Close, Goto

LEMMA CloseKeepsCreations ==
    ASSUME CreateInv, TypeInv', UNCHANGED db, NEW s \in Sessions, Close(s)
    PROVE  CreateInv'
    BY CloseOthers, QuietKeepsCreations DEF CreateInv, TypeInv, Late

\* A request that inserts its task.
LEMMA InsertKeepsCreations ==
    ASSUME CreateInv, TypeInv', NEW s \in Sessions, InsertTask(s)
    PROVE  CreateInv'
<1>1. CASE \E t \in TasksWithKey(key[s]) : Answer(s, "ok", t)
    BY <1>1, CloseKeepsCreations DEF InsertTask, Answer
<1>2. CASE /\ TasksWithKey(key[s]) = {}
           /\ \E t \in Tasks :
                  /\ row[t] = None
                  /\ \A other \in Sessions : pending[other] # t
                  /\ pending' = [pending EXCEPT ![s] = t]
           /\ Goto(s, "event")
           /\ UNCHANGED <<op, key, read, addsOwner, client>>
  <2>1. PICK t \in Tasks :
            /\ row[t] = None
            /\ \A other \in Sessions : pending[other] # t
            /\ pending' = [pending EXCEPT ![s] = t]
      BY <1>2
  <2>2. /\ pending'[s] = t
        /\ \A u \in Sessions \ {s} : pending'[u] = pending[u]
        /\ key' = key /\ row' = row /\ events' = events /\ owner' = owner
      BY <1>2, <2>1 DEF CreateInv, TypeInv, TypeOK, InsertTask, db
  <2>3. \A u \in Tasks : row[u] # None => row[u].key # key[s]
      BY <1>2 DEF TasksWithKey
  <2>4. \A u \in Sessions \ {s} : pending[u] # None => key[u] # key[s]
      BY DEF InsertTask
  <2>5. PendingApart'
      BY <2>1, <2>2, <2>3, <2>4 DEF CreateInv, PendingApart
  <2>6. OwnerFirst'
      BY <1>2, <2>2 DEF CreateInv, TypeInv, TypeOK, OwnerFirst, Late, InsertTask, Goto
  <2>7. TaskHasItsCreation'
      BY <2>2 DEF CreateInv, TaskHasItsCreation
  <2>. QED  BY <2>5, <2>6, <2>7 DEF CreateInv
<1>. QED  BY <1>1, <1>2 DEF InsertTask

\* The log after a write: the entries before it, and the new one.
LEMMA LogGrows ==
    ASSUME TypeOK, NEW e \in Event, events' = Append(events, e)
    PROVE  /\ Len(events) \in Nat /\ Len(events') = Len(events) + 1
           /\ \A i \in 1..Len(events) : i \in 1..Len(events') /\ events'[i] = events[i]
           /\ events'[Len(events')] = e /\ Len(events') \in 1..Len(events')
           /\ \A i \in 1..Len(events') : i \in 1..Len(events) \/ i = Len(events')
    BY AppendFacts DEF TypeOK

\* A commit that creates a task.
LEMMA CreatesKeepsCreations ==
    ASSUME CreateInv, TypeInv', NEW s \in Sessions, Creates(s)
    PROVE  CreateInv'
<1>. DEFINE p == pending[s]
            e == EventOf(key[s], op[s], p)
<1>1. /\ p \in Tasks /\ key[s] \in Keys /\ e \in Event
      /\ row'[p] # None /\ row'[p].key = key[s]
      /\ \A t \in Tasks \ {p} : row'[t] = row[t]
    BY CreatesRow, ConstantsAssumption DEF CreateInv
<1>2. e.kind = "created" /\ e.task = p /\ e.key = key[s]
    BY CreatesRow DEF CreateInv, EventOf, CreateRequest
<1>3. /\ pending[s] # None /\ row[p] = None
      /\ \A t \in Tasks : row[t] # None => row[t].key # key[s]
    BY <1>1, ConstantsAssumption DEF CreateInv, PendingApart
<1>4. /\ \A i \in 1..Len(events) : i \in 1..Len(events') /\ events'[i] = events[i]
      /\ events'[Len(events')] = e /\ Len(events') \in 1..Len(events')
      /\ \A i \in 1..Len(events') : i \in 1..Len(events) \/ i = Len(events')
    BY <1>1, LogGrows DEF CreateInv, TypeInv, Creates
<1>5. Close(s)
    BY DEF Creates, Answer
<1>6. owner'
    BY DEF CreateInv, OwnerFirst, Creates, Late
<1>. HIDE DEF e
<1>7. PendingApart'
  <2>1. \A u \in Sessions : pending'[u] # None =>
            u # s /\ pending'[u] = pending[u] /\ key'[u] = key[u]
      BY <1>5, CloseOthers DEF CreateInv, TypeInv
  <2>2. ASSUME NEW u \in Sessions, pending'[u] # None
        PROVE  /\ row'[pending'[u]] = None
               /\ \A t \in Tasks : row'[t] # None => row'[t].key # key'[u]
    <3>1. pending[u] # p /\ key[u] # key[s] /\ pending[u] \in Tasks
        BY <1>3, <2>1, <2>2 DEF CreateInv, PendingApart, TypeInv, TypeOK
    <3>. QED  BY <1>1, <2>1, <2>2, <3>1 DEF CreateInv, PendingApart
  <2>. QED  BY <2>1, <2>2 DEF CreateInv, PendingApart
<1>8. OwnerFirst'
    BY <1>6 DEF OwnerFirst
<1>9. TaskHasItsCreation'
  <2>1. \A t, u \in Tasks :
            row'[t] # None /\ row'[u] # None /\ row'[t].key = row'[u].key => t = u
      BY <1>1, <1>3 DEF CreateInv, TaskHasItsCreation
  <2>2. ASSUME NEW t \in Tasks
        PROVE  row'[t] # None <=>
                   \E i \in 1..Len(events') :
                       events'[i].kind = "created" /\ events'[i].task = t
    <3>1. CASE t = p
        BY <1>1, <1>2, <1>4, <3>1
    <3>2. CASE t # p
        BY <1>1, <1>2, <1>4, <3>2 DEF CreateInv, TaskHasItsCreation
    <3>. QED  BY <3>1, <3>2
  <2>3. ASSUME NEW t \in Tasks, row'[t] # None
        PROVE  /\ owner'
               /\ \E i \in 1..Len(events') :
                      /\ events'[i].kind = "created"
                      /\ events'[i].task = t
                      /\ events'[i].key = row'[t].key
    <3>1. CASE t = p
        BY <1>1, <1>2, <1>4, <1>6, <3>1
    <3>2. CASE t # p
        BY <1>1, <1>4, <1>6, <2>3, <3>2 DEF CreateInv, TaskHasItsCreation
    <3>. QED  BY <3>1, <3>2
  <2>. QED  BY <2>1, <2>2, <2>3 DEF TaskHasItsCreation
<1>. QED  BY <1>7, <1>8, <1>9 DEF CreateInv

\* A commit that changes a task.
LEMMA ChangesKeepsCreations ==
    ASSUME CreateInv, TypeInv', NEW s \in Sessions, Changes(s)
    PROVE  CreateInv'
<1>. DEFINE t == op[s].task
            e == EventOf(key[s], op[s], t)
<1>1. /\ t \in Tasks /\ e \in Event
      /\ row[t] # None /\ row'[t] # None /\ row'[t].key = row[t].key
      /\ \A u \in Tasks \ {t} : row'[u] = row[u]
    BY ChangesRow, ConstantsAssumption DEF CreateInv
<1>2. e.kind # "created"
    BY ChangesRow DEF CreateInv, EventOf, UpdateRequest, CancelRequest
<1>3. /\ \A i \in 1..Len(events) : i \in 1..Len(events') /\ events'[i] = events[i]
      /\ events'[Len(events')] = e
      /\ \A i \in 1..Len(events') : i \in 1..Len(events) \/ i = Len(events')
    BY <1>1, LogGrows DEF CreateInv, TypeInv, Changes
<1>4. Close(s) /\ owner' = owner
    BY DEF Changes, Answer
<1>. HIDE DEF e, t
<1>5. \A u \in Tasks : (row'[u] # None <=> row[u] # None)
                         /\ (row[u] # None => row'[u].key = row[u].key)
    BY <1>1
<1>6. PendingApart'
  <2>1. \A u \in Sessions : pending'[u] # None =>
            /\ pending'[u] = pending[u] /\ key'[u] = key[u] /\ pending[u] \in Tasks
      BY <1>4, CloseOthers DEF CreateInv, TypeInv, TypeOK
  <2>. QED  BY <1>5, <2>1 DEF CreateInv, PendingApart
<1>7. OwnerFirst'
    BY <1>4, CloseOthers DEF CreateInv, TypeInv, OwnerFirst, Late
<1>8. TaskHasItsCreation'
  <2>1. \A u, v \in Tasks :
            row'[u] # None /\ row'[v] # None /\ row'[u].key = row'[v].key => u = v
      BY <1>5 DEF CreateInv, TaskHasItsCreation
  <2>2. ASSUME NEW u \in Tasks
        PROVE  row'[u] # None <=>
                   \E i \in 1..Len(events') :
                       events'[i].kind = "created" /\ events'[i].task = u
      BY <1>2, <1>3, <1>5 DEF CreateInv, TaskHasItsCreation
  <2>3. ASSUME NEW u \in Tasks, row'[u] # None
        PROVE  /\ owner'
               /\ \E i \in 1..Len(events') :
                      /\ events'[i].kind = "created"
                      /\ events'[i].task = u
                      /\ events'[i].key = row'[u].key
      BY <1>3, <1>4, <1>5, <2>3 DEF CreateInv, TaskHasItsCreation
  <2>. QED  BY <2>1, <2>2, <2>3 DEF TaskHasItsCreation
<1>. QED  BY <1>6, <1>7, <1>8 DEF CreateInv

\* The steps of a request before its commit that write and insert nothing.
LEMMA StatementsKeepCreations ==
    ASSUME CreateInv, TypeInv', NEW s \in Sessions,
           FindOwner(s) \/ AddOwner(s) \/ LookupTask(s) \/ Load(s) \/ Check(s)
    PROVE  CreateInv'
<1>1. CASE FindOwner(s)
    BY <1>1, QuietKeepsCreations DEF CreateInv, TypeInv, TypeOK, FindOwner, Goto, Late
<1>2. CASE AddOwner(s)
    BY <1>2, QuietKeepsCreations DEF CreateInv, TypeInv, TypeOK, AddOwner, Goto, Late, db
<1>3. CASE LookupTask(s)
  <2>1. CASE \E t \in TasksWithKey(key[s]) : Answer(s, "ok", t)
      BY <1>3, <2>1, CloseKeepsCreations DEF LookupTask, Answer
  <2>2. CASE Goto(s, "insert") /\ UNCHANGED <<op, key, read, pending, addsOwner, client>>
      BY <1>3, <2>2, QuietKeepsCreations DEF CreateInv, TypeInv, TypeOK, LookupTask,
         Goto, Late
  <2>. QED  BY <1>3, <2>1, <2>2 DEF LookupTask
<1>4. CASE Load(s)
  <2>1. CASE Answer(s, "notfound", None)
      BY <1>4, <2>1, CloseKeepsCreations DEF Load, Answer
  <2>2. CASE Goto(s, "check") /\ UNCHANGED <<op, key, pending, addsOwner, client>>
      BY <1>4, <2>2, QuietKeepsCreations DEF CreateInv, TypeInv, TypeOK, Load, Goto, Late
  <2>. QED  BY <1>4, <2>1, <2>2 DEF Load
<1>5. CASE Check(s)
  <2>1. CASE \/ Answer(s, "ok", op[s].task)
             \/ Answer(s, "conflict", None)
      BY <1>5, <2>1, CloseKeepsCreations DEF Check, Answer
  <2>2. CASE Goto(s, "commit") /\ UNCHANGED <<op, key, read, pending, addsOwner, client>>
      BY <1>5, <2>2, QuietKeepsCreations DEF CreateInv, TypeInv, TypeOK, Check, Goto, Late
  <2>. QED  BY <1>5, <2>1, <2>2 DEF Check
<1>. QED  BY <1>1, <1>2, <1>3, <1>4, <1>5

LEMMA CreateNext == CreateInv /\ [Next]_vars => CreateInv'
<1>. SUFFICES ASSUME CreateInv, [Next]_vars PROVE CreateInv'
    OBVIOUS
<1>0. TypeInv'
    BY TypeNext DEF CreateInv
<1>1. CASE UNCHANGED vars
    BY <1>0, <1>1, QuietKeepsCreations DEF vars, db
<1>2. ASSUME NEW s \in Sessions, Serve(s) PROVE CreateInv'
  <2>1. CASE FinishCreate(s)
      BY <1>0, <2>1, FinishCreateCases, CreatesKeepsCreations, CloseKeepsCreations
         DEF Answer
  <2>2. CASE Commit(s)
      BY <1>0, <2>2, CommitCases, ChangesKeepsCreations, CloseKeepsCreations DEF Answer
  <2>. QED  BY <1>0, <1>2, <2>1, <2>2, StatementsKeepCreations, InsertKeepsCreations
            DEF Serve
<1>3. ASSUME NEW s \in Sessions, Abort(s) PROVE CreateInv'
    BY <1>0, <1>3, CloseKeepsCreations DEF Abort
<1>4. ASSUME NEW s \in Sessions, NEW k \in Keys, NEW r \in Requests, Submit(s, k, r)
      PROVE  CreateInv'
  <2>1. pending[s] = None
      BY <1>4 DEF CreateInv, TypeInv, SessionConsistent, SessionFits, Submit
  <2>. QED  BY <1>0, <1>4, <2>1, QuietKeepsCreations DEF CreateInv, TypeInv, TypeOK,
            Submit, Goto, Late
<1>. QED  BY <1>1, <1>2, <1>3, <1>4 DEF Next

\* However many sessions race, are cut off and repeat operations: one key never
\* makes two tasks, and a task is committed exactly when its TASK_CREATED event
\* and its owner are.
THEOREM OneTaskPerKey == Spec => []TaskHasItsCreation
<1>1. CreateInv => TaskHasItsCreation
    BY DEF CreateInv
<1>. QED  BY <1>1, CreateInit, CreateNext, PTL DEF Spec

-----------------------------------------------------------------------------
\* Each confirmed operation is in the audit log, once.

\* Every event is the record of an operation sent under its key, on the task
\* that operation names.
Audited ==
    \A i \in 1..Len(events) :
        /\ events[i].key \in Keys
        /\ \E r \in sent[events[i].key] :
               /\ events[i] = EventOf(events[i].key, r, events[i].task)
               /\ r.op # "create" => r.task = events[i].task

\* What a confirmation of key k for task t requires.
Recorded(k, t) ==
    /\ k \in UsedKeys
    /\ \A r \in Requests : sent[k] = {r} =>
           \E i \in 1..Len(events) : events[i] = EventOf(k, r, t)

ConfirmInv == CreateInv /\ Audited /\ ConfirmedOnce

LEMMA ConfirmInit == Init => ConfirmInv
<1>. SUFFICES ASSUME Init PROVE ConfirmInv
    OBVIOUS
<1>1. CreateInv
    BY CreateInit
<1>2. Audited /\ ConfirmedOnce
    BY DEF Init, Audited, ConfirmedOnce, Confirmed
<1>. QED  BY <1>1, <1>2 DEF ConfirmInv

\* The task found under a key is the one the operation with that key created.
LEMMA FoundIsRecorded ==
    ASSUME ConfirmInv, NEW k \in Keys, NEW t \in TasksWithKey(k)
    PROVE  Recorded(k, t)
<1>1. t \in Tasks /\ row[t] # None /\ row[t].key = k
    BY DEF TasksWithKey
<1>2. PICK i \in 1..Len(events) : events[i].task = t /\ events[i].key = k
    BY <1>1 DEF ConfirmInv, CreateInv, TaskHasItsCreation
<1>3. \E r \in sent[k] : events[i] = EventOf(k, r, t)
    BY <1>2 DEF ConfirmInv, Audited
<1>4. k \in UsedKeys
    BY <1>2 DEF UsedKeys
<1>. QED  BY <1>3, <1>4 DEF Recorded

\* An operation found in the log was recorded for the task it names.
LEMMA ReplayIsRecorded ==
    ASSUME ConfirmInv, NEW s \in Sessions, pc[s] = "check", key[s] \in UsedKeys
    PROVE  Recorded(key[s], op[s].task)
<1>. DEFINE k == key[s]
<1>1. k \in Keys /\ op[s] \in sent[k] /\ op[s].op # "create"
    BY DEF ConfirmInv, CreateInv, TypeInv, SessionConsistent, SessionFits, Changing
<1>2. PICK i \in 1..Len(events) : events[i].key = k
    BY DEF UsedKeys
<1>3. PICK r \in sent[k] : /\ events[i] = EventOf(k, r, events[i].task)
                           /\ r.op # "create" => r.task = events[i].task
    BY <1>2 DEF ConfirmInv, Audited
<1>4. ASSUME NEW x \in Requests, sent[k] = {x}
      PROVE  events[i] = EventOf(k, x, op[s].task)
    BY <1>1, <1>3, <1>4
<1>. QED  BY <1>4 DEF Recorded

\* Steps that neither log nor send keep the log's part of the invariant, and
\* the confirmations they give must be recorded.
LEMMA QuietKeepsConfirmed ==
    ASSUME ConfirmInv, CreateInv', events' = events, sent' = sent,
           \A k \in Keys : \A t \in Confirmed(k)' : t \in Confirmed(k) \/ Recorded(k, t)
    PROVE  ConfirmInv'
<1>1. Audited'
    BY DEF ConfirmInv, Audited
<1>2. \A i, j \in 1..Len(events') : events'[i].key = events'[j].key => i = j
    BY DEF ConfirmInv, ConfirmedOnce
<1>3. ASSUME NEW k \in Keys, NEW t \in Confirmed(k)'
      PROVE  Recorded(k, t)
    BY <1>3 DEF ConfirmInv, ConfirmedOnce, Recorded
<1>4. ASSUME NEW k \in Keys, NEW t \in Confirmed(k)'
      PROVE  Recorded(k, t)'
    BY <1>3, <1>4 DEF Recorded, UsedKeys
<1>5. ConfirmedOnce'
    BY <1>2, <1>4 DEF ConfirmedOnce, Recorded
<1>. QED  BY <1>1, <1>5 DEF ConfirmInv

\* The confirmations after an answer.
LEMMA AnswerConfirms ==
    ASSUME TypeInv, NEW s \in Sessions, pc[s] # "idle", NEW c, NEW t, Answer(s, c, t)
    PROVE  /\ \A k \in Keys : \A x \in Confirmed(k)' :
                  x \in Confirmed(k) \/ (c = "ok" /\ k = key[s] /\ x = t)
           /\ sent' = sent
<1>1. key[s] \in Keys
    BY Serving
<1>2. reply' = [reply EXCEPT ![key[s]] = @ \cup {[code |-> c, task |-> t]}]
    BY DEF Answer
<1>3. \A k \in Keys :
          reply'[k] \subseteq reply[k] \cup
              (IF k = key[s] THEN {[code |-> c, task |-> t]} ELSE {})
    BY <1>1, <1>2 DEF TypeInv, TypeOK
<1>4. ASSUME NEW k \in Keys, NEW x \in Tasks, [code |-> "ok", task |-> x] \in reply'[k],
             [code |-> "ok", task |-> x] \notin reply[k]
      PROVE  c = "ok" /\ k = key[s] /\ x = t
    BY <1>3, <1>4
<1>. QED  BY <1>4 DEF Confirmed, Answer

LEMMA AnswerKeepsConfirmed ==
    ASSUME ConfirmInv, CreateInv', UNCHANGED db, NEW s \in Sessions, pc[s] # "idle",
           NEW c, NEW t, Answer(s, c, t), c = "ok" => Recorded(key[s], t)
    PROVE  ConfirmInv'
    BY AnswerConfirms, QuietKeepsConfirmed DEF ConfirmInv, CreateInv, db

\* A commit logs its operation and confirms it.
LEMMA WriteKeepsConfirmed ==
    ASSUME ConfirmInv, CreateInv', NEW s \in Sessions, Creates(s) \/ Changes(s)
    PROVE  ConfirmInv'
<1>. DEFINE k == key[s]
<1>1. PICK t \in Tasks :
          /\ EventOf(k, op[s], t) \in Event
          /\ events' = Append(events, EventOf(k, op[s], t))
          /\ Answer(s, "ok", t)
          /\ op[s].op # "create" => op[s].task = t
  <2>1. CASE Creates(s)
      BY <2>1, CreatesRow DEF Creates, ConfirmInv, CreateInv, CreateRequest
  <2>2. CASE Changes(s)
      BY <2>2, ChangesRow DEF Changes, ConfirmInv, CreateInv
  <2>. QED  BY <2>1, <2>2
<1>. DEFINE e == EventOf(k, op[s], t)
<1>2. pc[s] # "idle" /\ k \in Keys /\ op[s] \in sent[k]
    BY Serving DEF Creates, Changes, ConfirmInv, CreateInv
<1>3. k \notin UsedKeys
    BY DEF Creates, Changes, UniqueViolation
<1>4. e.key = k /\ e.task = t
    BY DEF EventOf
<1>5. /\ \A i \in 1..Len(events) : i \in 1..Len(events') /\ events'[i] = events[i]
      /\ events'[Len(events')] = e /\ Len(events') \in 1..Len(events')
      /\ \A i \in 1..Len(events') : i \in 1..Len(events) \/ i = Len(events')
    BY <1>1, LogGrows DEF ConfirmInv, CreateInv, TypeInv
<1>6. /\ sent' = sent
      /\ \A l \in Keys : \A x \in Confirmed(l)' : x \in Confirmed(l) \/ (l = k /\ x = t)
    BY <1>1, <1>2, AnswerConfirms DEF ConfirmInv, CreateInv
<1>7. Audited'
  <2>1. ASSUME NEW i \in 1..Len(events')
        PROVE  /\ events'[i].key \in Keys
               /\ \E r \in sent[events'[i].key] :
                      /\ events'[i] = EventOf(events'[i].key, r, events'[i].task)
                      /\ r.op # "create" => r.task = events'[i].task
    <3>1. CASE i \in 1..Len(events)
        BY <1>5, <3>1 DEF ConfirmInv, Audited
    <3>2. CASE i = Len(events')
        BY <1>1, <1>2, <1>4, <1>5, <3>2
    <3>. QED  BY <1>5, <2>1, <3>1, <3>2
  <2>. QED  BY <1>6, <2>1 DEF Audited
<1>. HIDE DEF e
<1>8. \A i, j \in 1..Len(events') : events'[i].key = events'[j].key => i = j
  <2>1. \A i \in 1..Len(events) : events[i].key # k
      BY <1>3 DEF UsedKeys
  <2>. QED  BY <1>4, <1>5, <2>1 DEF ConfirmInv, ConfirmedOnce
<1>9. ASSUME NEW l \in Keys, NEW x \in Confirmed(l)'
      PROVE  Recorded(l, x)'
  <2>1. CASE x \in Confirmed(l)
    <3>1. Recorded(l, x)
        BY <2>1 DEF ConfirmInv, ConfirmedOnce, Recorded
    <3>. QED  BY <1>5, <1>6, <3>1 DEF Recorded, UsedKeys
  <2>2. CASE l = k /\ x = t
    <3>1. k \in UsedKeys'
        BY <1>4, <1>5 DEF UsedKeys
    <3>2. ASSUME NEW r \in Requests, sent'[k] = {r}
          PROVE  \E i \in 1..Len(events') : events'[i] = EventOf(k, r, t)
        BY <1>2, <1>5, <1>6, <3>2 DEF e
    <3>. QED  BY <2>2, <3>1, <3>2 DEF Recorded
  <2>. QED  BY <1>6, <1>9, <2>1, <2>2
<1>. QED  BY <1>7, <1>8, <1>9 DEF ConfirmInv, ConfirmedOnce, Recorded

\* Sending an operation under a key that was confirmed before makes the key's
\* operations two, or repeats the one.
LEMMA SubmitKeepsConfirmed ==
    ASSUME ConfirmInv, CreateInv', NEW s \in Sessions, NEW k \in Keys, NEW r \in Requests,
           Submit(s, k, r)
    PROVE  ConfirmInv'
<1>1. events' = events /\ reply' = reply
    BY DEF Submit, db
<1>2. \A l \in Keys : sent[l] \subseteq sent'[l] /\ sent'[l] \subseteq sent[l] \cup {r}
    BY DEF ConfirmInv, CreateInv, TypeInv, TypeOK, Submit
<1>3. Audited'
    BY <1>1, <1>2 DEF ConfirmInv, Audited
<1>4. ASSUME NEW l \in Keys, NEW t \in Confirmed(l)
      PROVE  Recorded(l, t)'
  <2>1. l \in UsedKeys /\ Recorded(l, t)
      BY <1>4 DEF ConfirmInv, ConfirmedOnce, Recorded
  <2>2. PICK i \in 1..Len(events) : events[i].key = l
      BY <2>1 DEF UsedKeys
  <2>3. sent[l] # {}
      BY <2>2 DEF ConfirmInv, Audited
  <2>4. \A x \in Requests : sent'[l] = {x} => sent[l] = {x}
      BY <1>2, <2>3
  <2>. QED  BY <1>1, <2>1, <2>4 DEF Recorded, UsedKeys
<1>5. \A l \in Keys : Confirmed(l)' = Confirmed(l)
    BY <1>1 DEF Confirmed
<1>6. ConfirmedOnce'
    BY <1>1, <1>4, <1>5 DEF ConfirmInv, ConfirmedOnce, Recorded
<1>. QED  BY <1>3, <1>6 DEF ConfirmInv

\* Steps that leave the log, the operations sent and the answers alone.
LEMMA SilentKeepsConfirmed ==
    ASSUME ConfirmInv, CreateInv', events' = events, UNCHANGED client
    PROVE  ConfirmInv'
    BY QuietKeepsConfirmed DEF client, Confirmed

LEMMA ServeKeepsConfirmed ==
    ASSUME ConfirmInv, CreateInv', NEW s \in Sessions, Serve(s)
    PROVE  ConfirmInv'
<1>0. pc[s] # "idle" => key[s] \in Keys
    BY DEF ConfirmInv, CreateInv, TypeInv, SessionConsistent, SessionFits
<1>1. CASE FindOwner(s) \/ AddOwner(s)
    BY <1>1, SilentKeepsConfirmed DEF FindOwner, AddOwner, db
<1>2. CASE LookupTask(s) \/ InsertTask(s)
  <2>1. UNCHANGED db /\ pc[s] # "idle"
      BY <1>2 DEF LookupTask, InsertTask
  <2>2. CASE UNCHANGED client
      BY <2>1, <2>2, SilentKeepsConfirmed DEF db
  <2>3. CASE \E t \in TasksWithKey(key[s]) : Answer(s, "ok", t)
    <3>1. PICK t \in TasksWithKey(key[s]) : Answer(s, "ok", t)
        BY <2>3
    <3>2. Recorded(key[s], t)
        BY <1>0, <2>1, FoundIsRecorded
    <3>. QED  BY <2>1, <3>1, <3>2, AnswerKeepsConfirmed
  <2>. QED  BY <1>2, <2>2, <2>3 DEF LookupTask, InsertTask
<1>3. CASE FinishCreate(s)
  <2>1. CASE Creates(s)
      BY <2>1, WriteKeepsConfirmed
  <2>2. CASE (Answer(s, "invalid", None) \/ Answer(s, "error", None)) /\ UNCHANGED db
      BY <1>3, <2>2, AnswerKeepsConfirmed DEF FinishCreate
  <2>. QED  BY <1>3, <2>1, <2>2, FinishCreateCases
<1>4. CASE Load(s)
  <2>1. CASE Answer(s, "notfound", None)
      BY <1>4, <2>1, AnswerKeepsConfirmed DEF Load
  <2>2. CASE UNCHANGED client
      BY <1>4, <2>2, SilentKeepsConfirmed DEF Load, db
  <2>. QED  BY <1>4, <2>1, <2>2 DEF Load
<1>5. CASE Check(s)
  <2>1. CASE key[s] \in UsedKeys /\ Answer(s, "ok", op[s].task)
      BY <1>5, <2>1, ReplayIsRecorded, AnswerKeepsConfirmed DEF Check
  <2>2. CASE Answer(s, "conflict", None)
      BY <1>5, <2>2, AnswerKeepsConfirmed DEF Check
  <2>3. CASE UNCHANGED client
      BY <1>5, <2>3, SilentKeepsConfirmed DEF Check, db
  <2>. QED  BY <1>5, <2>1, <2>2, <2>3 DEF Check
<1>6. CASE Commit(s)
  <2>1. CASE Changes(s)
      BY <2>1, WriteKeepsConfirmed
  <2>2. CASE Answer(s, "error", None) /\ UNCHANGED db
      BY <1>6, <2>2, AnswerKeepsConfirmed DEF Commit
  <2>. QED  BY <1>6, <2>1, <2>2, CommitCases
<1>. QED  BY <1>1, <1>2, <1>3, <1>4, <1>5, <1>6 DEF Serve

LEMMA ConfirmNext == ConfirmInv /\ [Next]_vars => ConfirmInv'
<1>. SUFFICES ASSUME ConfirmInv, [Next]_vars PROVE ConfirmInv'
    OBVIOUS
<1>0. CreateInv'
    BY CreateNext DEF ConfirmInv
<1>1. CASE UNCHANGED vars
    BY <1>0, <1>1, SilentKeepsConfirmed DEF vars, client
<1>2. ASSUME NEW s \in Sessions, Abort(s) PROVE ConfirmInv'
    BY <1>0, <1>2, SilentKeepsConfirmed DEF Abort, db
<1>. QED  BY <1>0, <1>1, <1>2, ServeKeepsConfirmed, SubmitKeepsConfirmed DEF Next

\* However requests interleave, are cut off and repeated: no key is audited
\* twice, and a confirmed operation is in the audit log, on the task that its
\* confirmation was about.
THEOREM ConfirmedExactlyOnce == Spec => []ConfirmedOnce
<1>1. ConfirmInv => ConfirmedOnce
    BY DEF ConfirmInv
<1>. QED  BY <1>1, ConfirmInit, ConfirmNext, PTL DEF Spec

-----------------------------------------------------------------------------
\* The audit log is append-only and covers every change.

AuditStep ==
    /\ Len(events') <= Len(events) + 1
    /\ SubSeq(events', 1, Len(events)) = events
    /\ \A t \in Tasks : row'[t] # row[t] =>
           /\ Len(events') = Len(events) + 1
           /\ events'[Len(events')].task = t
    /\ links' # links => Len(events') = Len(events) + 1

LEMMA SamePrefix ==
    ASSUME NEW S, NEW q \in Seq(S), NEW e \in S
    PROVE  SubSeq(q, 1, Len(q)) = q /\ SubSeq(Append(q, e), 1, Len(q)) = q
    OBVIOUS

LEMMA DbStays == TypeOK /\ UNCHANGED db => AuditStep
<1>. SUFFICES ASSUME TypeOK, UNCHANGED db PROVE AuditStep
    OBVIOUS
<1>1. SubSeq(events, 1, Len(events)) = events /\ Len(events) \in Nat
    BY SamePrefix DEF TypeOK
<1>. QED  BY <1>1 DEF AuditStep, db

LEMMA WriteIsAudited ==
    ASSUME TypeInv, NEW s \in Sessions, Creates(s) \/ Changes(s)
    PROVE  AuditStep
<1>1. PICK t \in Tasks :
          /\ EventOf(key[s], op[s], t) \in Event
          /\ events' = Append(events, EventOf(key[s], op[s], t))
          /\ \A u \in Tasks \ {t} : row'[u] = row[u]
  <2>1. CASE Creates(s)
      BY <2>1, CreatesRow DEF Creates
  <2>2. CASE Changes(s)
      BY <2>2, ChangesRow DEF Changes
  <2>. QED  BY <2>1, <2>2
<1>. DEFINE e == EventOf(key[s], op[s], t)
<1>2. e.task = t
    BY DEF EventOf
<1>3. /\ Len(events) \in Nat /\ Len(events') = Len(events) + 1
      /\ events'[Len(events')] = e
    BY <1>1, LogGrows DEF TypeInv
<1>4. SubSeq(events', 1, Len(events)) = events
    BY <1>1, SamePrefix DEF TypeInv, TypeOK
<1>. QED  BY <1>1, <1>2, <1>3, <1>4 DEF AuditStep

LEMMA NextIsAudited == TypeInv /\ [Next]_vars => AuditStep
<1>. SUFFICES ASSUME TypeInv, [Next]_vars PROVE AuditStep
    OBVIOUS
<1>1. CASE UNCHANGED db
    BY <1>1, DbStays DEF TypeInv
<1>2. ASSUME NEW s \in Sessions, FinishCreate(s) \/ Commit(s) PROVE AuditStep
    BY <1>1, <1>2, FinishCreateCases, CommitCases, WriteIsAudited
<1>3. UNCHANGED db \/ \E s \in Sessions : FinishCreate(s) \/ Commit(s)
    BY DEF Next, Serve, FindOwner, AddOwner, LookupTask, InsertTask, Load, Check, Abort,
       Submit, vars, db
<1>. QED  BY <1>1, <1>2, <1>3

\* The audit log only grows, and no task changes without the event that says so.
THEOREM EveryChangeAudited == Spec => AuditTrail
<1>1. TypeInv /\ [Next]_vars => [AuditStep]_vars
    BY NextIsAudited
<1>. QED  BY <1>1, TypeInit, TypeNext, PTL DEF Spec, AuditTrail, AuditStep

-----------------------------------------------------------------------------
\* No version counts a change that the audit log does not hold.

\* What the log covers of a task's versions.
Covered(t) == 1 + Cardinality(ChangesOf(t))

\* The version a session loaded is covered too: the commit writes one more
\* than the version it loaded, whatever the row has become since.
LoadedCovered ==
    \A s \in Sessions : pc[s] \in {"check", "commit"} =>
        read[s].version <= Covered(op[s].task)

CoverInv == CreateInv /\ AuditCoversVersion /\ LoadedCovered

\* The changes of a task are finitely many.
LEMMA ChangesFinite ==
    ASSUME TypeOK, NEW t \in Tasks
    PROVE  IsFiniteSet(ChangesOf(t)) /\ Cardinality(ChangesOf(t)) \in Nat
<1>1. Len(events) \in Nat
    BY DEF TypeOK
<1>2. IsFiniteSet(1..Len(events))
    BY <1>1, FS_Interval
<1>3. ChangesOf(t) \in SUBSET (1..Len(events))
    BY DEF ChangesOf
<1>4. IsFiniteSet(ChangesOf(t))
    BY <1>2, <1>3, FS_Subset
<1>. QED  BY <1>4, FS_CardinalityType

\* A record that is appended counts for the task it is about, unless it is the
\* record of its creation.
LEMMA ChangesGrow ==
    ASSUME TypeOK, NEW e \in Event, events' = Append(events, e), NEW t \in Tasks
    PROVE  /\ Cardinality(ChangesOf(t)) \in Nat
           /\ Cardinality(ChangesOf(t)') =
                  IF e.task = t /\ e.kind # "created"
                  THEN Cardinality(ChangesOf(t)) + 1 ELSE Cardinality(ChangesOf(t))
           /\ ~ (e.task = t /\ e.kind # "created") => ChangesOf(t)' = ChangesOf(t)
<1>. DEFINE n == Len(events)
<1>1. /\ n \in Nat /\ Len(events') = n + 1
      /\ \A i \in 1..n : events'[i] = events[i]
      /\ events'[n + 1] = e
    BY AppendFacts DEF TypeOK
<1>. HIDE DEF n
<1>2. ChangesOf(t) = {i \in 1..n : events[i].task = t /\ events[i].kind # "created"}
    BY DEF ChangesOf, n
<1>3. ChangesOf(t)' = {i \in 1..(n + 1) : events'[i].task = t /\ events'[i].kind # "created"}
    BY <1>1 DEF ChangesOf
<1>4. ChangesOf(t)' = IF e.task = t /\ e.kind # "created"
                      THEN ChangesOf(t) \cup {n + 1} ELSE ChangesOf(t)
  <2>1. \A i : i \in ChangesOf(t) <=>
                   i \in 1..n /\ events'[i].task = t /\ events'[i].kind # "created"
      BY <1>1, <1>2
  <2>2. \A i : i \in 1..(n + 1) <=> i \in 1..n \/ i = n + 1
      BY <1>1
  <2>3. \A i : i \in ChangesOf(t)' <=>
                   \/ i \in ChangesOf(t)
                   \/ i = n + 1 /\ e.task = t /\ e.kind # "created"
      BY <1>1, <1>3, <2>1, <2>2
  <2>. QED  BY <2>3
<1>5. n + 1 \notin ChangesOf(t)
    BY <1>1, <1>2
<1>6. IsFiniteSet(ChangesOf(t)) /\ Cardinality(ChangesOf(t)) \in Nat
    BY ChangesFinite
<1>7. Cardinality(ChangesOf(t) \cup {n + 1}) = Cardinality(ChangesOf(t)) + 1
    BY <1>5, <1>6, FS_AddElement
<1>. QED  BY <1>4, <1>6, <1>7

LEMMA CoverInit == Init => CoverInv
<1>. SUFFICES ASSUME Init PROVE CoverInv
    OBVIOUS
<1>1. \A t \in Tasks : ChangesOf(t) = {}
    BY DEF Init, ChangesOf
<1>2. AuditCoversVersion
    BY <1>1 DEF Init, AuditCoversVersion
<1>3. LoadedCovered
    BY DEF Init, LoadedCovered
<1>. QED  BY <1>2, <1>3, CreateInit DEF CoverInv

\* The task of a session that changes one.
LEMMA ChangedTask ==
    ASSUME TypeInv, NEW s \in Sessions, pc[s] \in {"check", "commit"}
    PROVE  op[s].task \in Tasks
    BY Serving DEF Changing

\* Steps that write nothing: a session that goes on holds what it held, or the
\* row it has just loaded.
LEMMA QuietKeepsCovered ==
    ASSUME CoverInv, CreateInv', UNCHANGED db,
           \A u \in Sessions : pc'[u] \in {"check", "commit"} =>
               /\ op'[u] = op[u]
               /\ \/ pc[u] \in {"check", "commit"} /\ read'[u] = read[u]
                  \/ /\ op[u].task \in Tasks /\ row[op[u].task] # None
                     /\ read'[u] = row[op[u].task]
    PROVE  CoverInv'
<1>1. AuditCoversVersion'
    BY DEF CoverInv, AuditCoversVersion, ChangesOf, db
<1>2. ASSUME NEW u \in Sessions, pc'[u] \in {"check", "commit"}
      PROVE  read'[u].version <= Covered(op[u].task)
  <2>1. CASE pc[u] \in {"check", "commit"} /\ read'[u] = read[u]
      BY <2>1 DEF CoverInv, LoadedCovered
  <2>2. CASE /\ op[u].task \in Tasks /\ row[op[u].task] # None
             /\ read'[u] = row[op[u].task]
      BY <2>2 DEF CoverInv, AuditCoversVersion, Covered
  <2>. QED  BY <1>2, <2>1, <2>2
<1>3. events' = events
    BY DEF db
<1>4. \A t : Covered(t)' = Covered(t)
    BY <1>3 DEF Covered, ChangesOf
<1>5. \A u \in Sessions : pc'[u] \in {"check", "commit"} => op'[u] = op[u]
    OBVIOUS
<1>6. LoadedCovered'
    BY <1>2, <1>4, <1>5 DEF LoadedCovered
<1>. QED  BY <1>1, <1>6 DEF CoverInv

LEMMA CloseKeepsCovered ==
    ASSUME CoverInv, CreateInv', UNCHANGED db, NEW s \in Sessions, Close(s)
    PROVE  CoverInv'
<1>1. \A u \in Sessions : pc'[u] \in {"check", "commit"} =>
          pc[u] = pc'[u] /\ op'[u] = op[u] /\ read'[u] = read[u]
    BY DEF CoverInv, CreateInv, TypeInv, TypeOK, Close, Goto
<1>. QED  BY <1>1, QuietKeepsCovered

\* What a commit writes.
LEMMA WriteFacts ==
    ASSUME CreateInv, NEW s \in Sessions, Creates(s) \/ Changes(s)
    PROVE  \E t \in Tasks :
               /\ EventOf(key[s], op[s], t) \in Event
               /\ events' = Append(events, EventOf(key[s], op[s], t))
               /\ \A u \in Tasks \ {t} : row'[u] = row[u]
               /\ row'[t] \in Row /\ row'[t] # None
               /\ \/ /\ op[s].op = "create" /\ row[t] = None /\ row'[t].version = 1
                  \/ /\ op[s].op \in {"update", "cancel"} /\ row[t] # None
                     /\ pc[s] = "commit" /\ t = op[s].task
                     /\ row'[t].version = read[s].version + 1
               /\ Close(s)
<1>1. CASE Creates(s)
  <2>. DEFINE t == pending[s]
  <2>1. /\ t \in Tasks /\ row'[t] \in Row /\ EventOf(key[s], op[s], t) \in Event
        /\ \A u \in Tasks \ {t} : row'[u] = row[u]
        /\ op[s].op = "create"
      BY <1>1, CreatesRow DEF CreateInv, CreateRequest
  <2>2. row'[t] = NewTask(op[s], key[s])
      BY <1>1, <2>1 DEF Creates, CreateInv, TypeInv, TypeOK
  <2>3. t # None /\ row'[t] # None
      BY <2>1, ConstantsAssumption
  <2>4. row[t] = None
      BY <2>3 DEF CreateInv, PendingApart
  <2>5. row'[t].version = 1
      BY <2>2 DEF NewTask
  <2>6. events' = Append(events, EventOf(key[s], op[s], t)) /\ Close(s)
      BY <1>1 DEF Creates, Answer
  <2>. HIDE DEF t
  <2>. QED  BY <2>1, <2>3, <2>4, <2>5, <2>6
<1>2. CASE Changes(s)
  <2>. DEFINE t == op[s].task
  <2>1. /\ t \in Tasks /\ row[t] \in Row /\ row'[t] \in Row
        /\ EventOf(key[s], op[s], t) \in Event
        /\ \A u \in Tasks \ {t} : row'[u] = row[u]
        /\ op[s].op \in {"update", "cancel"}
      BY <1>2, ChangesRow DEF CreateInv, UpdateRequest, CancelRequest
  <2>2. row[t] # None /\ row'[t] # None
      BY <2>1, ConstantsAssumption
  <2>3. row'[t] = Flush(row[t], read[s], Changed(op[s], read[s]))
      BY <1>2, <2>1 DEF Changes, CreateInv, TypeInv, TypeOK
  <2>4. read[s] \in Row
      BY <1>2 DEF Changes, CreateInv, TypeInv, TypeOK, SessionConsistent, SessionFits
  <2>5. Changed(op[s], read[s]).version = read[s].version + 1
      BY <2>4 DEF Changed, VersionAfter, Row
  <2>6. row'[t].version = read[s].version + 1
      BY <2>3, <2>5 DEF Flush
  <2>7. /\ events' = Append(events, EventOf(key[s], op[s], t)) /\ Close(s)
        /\ pc[s] = "commit"
      BY <1>2 DEF Changes, Answer
  <2>8. t = op[s].task
      OBVIOUS
  <2>. HIDE DEF t
  <2>. QED  BY <2>1, <2>2, <2>6, <2>7, <2>8
<1>. QED  BY <1>1, <1>2

\* A commit: what it writes is covered by the record it appends, and no task
\* has fewer changes than before.
LEMMA WriteKeepsCovered ==
    ASSUME CoverInv, CreateInv', NEW s \in Sessions, Creates(s) \/ Changes(s)
    PROVE  CoverInv'
<1>0. CreateInv
    BY DEF CoverInv
<1>1. PICK t \in Tasks :
          /\ EventOf(key[s], op[s], t) \in Event
          /\ events' = Append(events, EventOf(key[s], op[s], t))
          /\ \A u \in Tasks \ {t} : row'[u] = row[u]
          /\ row'[t] \in Row /\ row'[t] # None
          /\ \/ /\ op[s].op = "create" /\ row[t] = None /\ row'[t].version = 1
             \/ /\ op[s].op \in {"update", "cancel"} /\ row[t] # None
                /\ pc[s] = "commit" /\ t = op[s].task
                /\ row'[t].version = read[s].version + 1
          /\ Close(s)
    BY <1>0, WriteFacts
<1>. DEFINE e == EventOf(key[s], op[s], t)
<1>2. e.task = t
    BY DEF EventOf
<1>3. /\ op[s].op = "create" => e.kind = "created"
      /\ op[s].op \in {"update", "cancel"} => e.kind # "created"
    BY DEF EventOf
<1>. HIDE DEF e
<1>4. \A u \in Tasks :
          /\ Cardinality(ChangesOf(u)) \in Nat
          /\ Cardinality(ChangesOf(u)') = IF e.task = u /\ e.kind # "created"
                                          THEN Cardinality(ChangesOf(u)) + 1
                                          ELSE Cardinality(ChangesOf(u))
          /\ (~ (e.task = u /\ e.kind # "created")) => ChangesOf(u)' = ChangesOf(u)
    BY <1>0, <1>1, ChangesGrow DEF CreateInv, TypeInv, e
<1>5. ASSUME NEW u \in Tasks
      PROVE  IF row'[u] = None THEN ChangesOf(u)' = {}
             ELSE row'[u].version <= 1 + Cardinality(ChangesOf(u)')
  <2>1. CASE u # t
      BY <1>1, <1>2, <1>4, <2>1 DEF CoverInv, AuditCoversVersion
  <2>2. CASE u = t /\ op[s].op = "create"
    <3>1. row'[u].version = 1 /\ row'[u] # None
        BY <1>1, <2>2
    <3>2. Cardinality(ChangesOf(u)') \in Nat
        BY <1>4
    <3>. QED  BY <3>1, <3>2
  <2>3. CASE u = t /\ op[s].op \in {"update", "cancel"}
    <3>1. /\ row'[u] # None /\ pc[s] = "commit" /\ u = op[s].task
          /\ row'[u].version = read[s].version + 1
        BY <1>1, <2>3
    <3>2. read[s].version <= 1 + Cardinality(ChangesOf(u))
        BY <3>1 DEF CoverInv, LoadedCovered, Covered
    <3>3. read[s].version \in Nat
        BY <1>0, <3>1, ConstantsAssumption DEF CreateInv, TypeInv, TypeOK,
           SessionConsistent, SessionFits, Row
    <3>4. Cardinality(ChangesOf(u)') = Cardinality(ChangesOf(u)) + 1
        BY <1>2, <1>3, <1>4, <2>3
    <3>5. Cardinality(ChangesOf(u)) \in Nat
        BY <1>4
    <3>. QED  BY <3>1, <3>2, <3>3, <3>4, <3>5
  <2>. QED  BY <1>1, <2>1, <2>2, <2>3
<1>6. AuditCoversVersion'
    BY <1>5 DEF AuditCoversVersion
<1>7. ASSUME NEW u \in Sessions, pc'[u] \in {"check", "commit"},
             NEW x \in Tasks, x = op'[u].task
      PROVE  read'[u].version <= 1 + Cardinality(ChangesOf(x)')
  <2>1. pc[u] = pc'[u] /\ op[u].task = x /\ read'[u] = read[u]
      BY <1>0, <1>1, <1>7 DEF CreateInv, TypeInv, TypeOK, Close, Goto
  <2>2. read[u].version <= 1 + Cardinality(ChangesOf(x))
      BY <1>7, <2>1 DEF CoverInv, LoadedCovered, Covered
  <2>3. read[u].version \in Nat
      BY <1>0, <1>7, <2>1, ConstantsAssumption DEF CreateInv, TypeInv, TypeOK,
         SessionConsistent, SessionFits, Row
  <2>4. /\ Cardinality(ChangesOf(x)) \in Nat
        /\ Cardinality(ChangesOf(x)') \in
               {Cardinality(ChangesOf(x)), Cardinality(ChangesOf(x)) + 1}
      BY <1>4
  <2>. QED  BY <2>1, <2>2, <2>3, <2>4
<1>8. ASSUME NEW u \in Sessions, pc'[u] \in {"check", "commit"}
      PROVE  read'[u].version <= Covered(op[u].task)'
  <2>1. pc[u] = pc'[u] /\ op'[u] = op[u]
      BY <1>0, <1>1, <1>8 DEF CreateInv, TypeInv, TypeOK, Close, Goto
  <2>2. op'[u].task \in Tasks
      BY <1>0, <1>8, <2>1, ChangedTask DEF CreateInv
  <2>3. PICK x \in Tasks : x = op'[u].task
      BY <2>2
  <2>4. read'[u].version <= 1 + Cardinality(ChangesOf(x)')
      BY <1>7, <1>8, <2>3
  <2>5. ChangesOf(x)' = ChangesOf(op[u].task)'
      BY <2>3 DEF ChangesOf
  <2>. QED  BY <2>4, <2>5 DEF Covered
<1>9. LoadedCovered'
    BY <1>8 DEF LoadedCovered
<1>. QED  BY <1>6, <1>9 DEF CoverInv

\* The steps of a request before its commit.
LEMMA StatementsKeepCovered ==
    ASSUME CoverInv, CreateInv', NEW s \in Sessions,
           \/ FindOwner(s) \/ AddOwner(s) \/ LookupTask(s) \/ InsertTask(s)
           \/ Load(s) \/ Check(s)
    PROVE  CoverInv'
<1>0. CreateInv /\ TypeInv /\ UNCHANGED db
    BY DEF CoverInv, CreateInv, FindOwner, AddOwner, LookupTask, InsertTask, Load, Check
<1>1. CASE Close(s)
    BY <1>0, <1>1, CloseKeepsCovered
<1>2. CASE /\ \E where \in {"addOwner", "lookup", "insert", "event"} : Goto(s, where)
           /\ UNCHANGED <<op, read>>
  <2>1. \A u \in Sessions : pc'[u] \in {"check", "commit"} => pc[u] = pc'[u]
      BY <1>0, <1>2 DEF TypeInv, TypeOK, Goto
  <2>. QED  BY <1>0, <1>2, <2>1, QuietKeepsCovered
<1>3. CASE /\ pc[s] = "load" /\ row[op[s].task] # None
           /\ read' = [read EXCEPT ![s] = row[op[s].task]]
           /\ Goto(s, "check") /\ op' = op
  <2>1. op[s].task \in Tasks
      BY <1>0, <1>3, Serving DEF Changing
  <2>2. /\ read'[s] = row[op[s].task]
        /\ \A u \in Sessions \ {s} : pc'[u] = pc[u] /\ read'[u] = read[u]
      BY <1>0, <1>3 DEF TypeInv, TypeOK, Goto
  <2>. QED  BY <1>0, <1>3, <2>1, <2>2, QuietKeepsCovered
<1>4. CASE pc[s] = "check" /\ Goto(s, "commit") /\ UNCHANGED <<op, read>>
  <2>1. \A u \in Sessions : pc'[u] \in {"check", "commit"} => pc[u] \in {"check", "commit"}
      BY <1>0, <1>4 DEF TypeInv, TypeOK, Goto
  <2>. QED  BY <1>0, <1>4, <2>1, QuietKeepsCovered
<1>5. CASE FindOwner(s) \/ AddOwner(s)
    BY <1>2, <1>5 DEF FindOwner, AddOwner
<1>6. CASE LookupTask(s) \/ InsertTask(s)
    BY <1>1, <1>2, <1>6 DEF LookupTask, InsertTask, Answer
<1>7. CASE Load(s)
    BY <1>1, <1>3, <1>7 DEF Load, Answer
<1>8. CASE Check(s)
    BY <1>1, <1>4, <1>8 DEF Check, Answer
<1>. QED  BY <1>5, <1>6, <1>7, <1>8

LEMMA CoverNext == CoverInv /\ [Next]_vars => CoverInv'
<1>. SUFFICES ASSUME CoverInv, [Next]_vars PROVE CoverInv'
    OBVIOUS
<1>0. CreateInv' /\ CreateInv /\ TypeInv
    BY CreateNext DEF CoverInv, CreateInv
<1>1. CASE UNCHANGED vars
  <2>1. UNCHANGED db /\ pc' = pc /\ op' = op /\ read' = read
      BY <1>1 DEF vars, db
  <2>. QED  BY <1>0, <2>1, QuietKeepsCovered
<1>2. ASSUME NEW s \in Sessions, FinishCreate(s) \/ Commit(s) PROVE CoverInv'
    BY <1>0, <1>2, FinishCreateCases, CommitCases, WriteKeepsCovered, CloseKeepsCovered
       DEF Answer
<1>3. ASSUME NEW s \in Sessions, Serve(s) PROVE CoverInv'
    BY <1>0, <1>2, <1>3, StatementsKeepCovered DEF Serve
<1>4. ASSUME NEW s \in Sessions, Abort(s) PROVE CoverInv'
    BY <1>0, <1>4, CloseKeepsCovered DEF Abort
<1>5. ASSUME NEW s \in Sessions, NEW k \in Keys, NEW r \in Requests, Submit(s, k, r)
      PROVE  CoverInv'
  <2>1. UNCHANGED db /\ UNCHANGED read
      BY <1>5 DEF Submit
  <2>2. \A u \in Sessions : pc'[u] \in {"check", "commit"} => pc[u] = pc'[u] /\ op'[u] = op[u]
      BY <1>0, <1>5 DEF Submit, Goto, TypeInv, TypeOK
  <2>. QED  BY <1>0, <2>1, <2>2, QuietKeepsCovered
<1>. QED  BY <1>1, <1>3, <1>4, <1>5 DEF Next

\* However requests race, no task's version counts more changes than the audit
\* log holds of it, and the log holds none of a task that was not created.
THEOREM NoVersionIsInvented == Spec => []AuditCoversVersion
<1>1. CoverInv => AuditCoversVersion
    BY DEF CoverInv
<1>. QED  BY <1>1, CoverInit, CoverNext, PTL DEF Spec

-----------------------------------------------------------------------------
\* Requests that do not overlap.

\* The one request under way sees the task as it is, and when it is about to
\* write, the transition it asks for is allowed from there.
SeesTask ==
    \A s \in Sessions :
        /\ pc[s] \in {"check", "commit"} => read[s] = row[op[s].task]
        /\ pc[s] = "commit" => TransitionAllowed(op[s], read[s])

\* The log has a last record that sets the status of a task, if it has one.
LastIsThere ==
    \A t \in Tasks : StatusChanges(t) # {} =>
        \E i \in StatusChanges(t) : \A j \in StatusChanges(t) : j <= i

SerialInv ==
    /\ CoverInv /\ OneAtATime /\ SeesTask
    /\ VersionCountsChanges /\ CompletionRecorded
    /\ LastIsThere /\ AuditReplaysStatus

\* What the history of a task leaves to be read of it: the part of the
\* invariant that is about one row and the log.
RowSerial(t) ==
    /\ row[t] # None =>
           /\ row[t].version = 1 + Cardinality(ChangesOf(t))
           /\ row[t].completed => row[t].status \in {"DONE", "CANCELLED"}
           /\ row[t].status = "DONE" /\ "DONE" \notin InitialStatus(t) => row[t].completed
           /\ row[t].status \in LoggedStatus(t)
    /\ StatusChanges(t) # {} =>
           \E i \in StatusChanges(t) : \A j \in StatusChanges(t) : j <= i

LEMMA SerialParts ==
    SerialInv <=> CoverInv /\ OneAtATime /\ SeesTask /\ \A t \in Tasks : RowSerial(t)
    BY DEF SerialInv, RowSerial, VersionCountsChanges, CompletionRecorded, LastIsThere,
       AuditReplaysStatus

LEMMA SerialInit == Init => SerialInv
<1>. SUFFICES ASSUME Init PROVE SerialInv
    OBVIOUS
<1>1. \A t \in Tasks : StatusChanges(t) = {} /\ row[t] = None
    BY DEF Init, ChangesOf, StatusChanges
<1>2. \A t \in Tasks : RowSerial(t)
    BY <1>1 DEF RowSerial
<1>3. OneAtATime /\ SeesTask
    BY DEF Init, OneAtATime, SeesTask
<1>. QED  BY <1>2, <1>3, CoverInit, SerialParts

\* A row and a log that stay, under keys that may be used once more.
LEMMA RowStaysSerial ==
    ASSUME NEW t \in Tasks, RowSerial(t), row'[t] = row[t], events' = events,
           row[t] # None => row[t].key \in Keys,
           \A k \in Keys : sent[k] \subseteq sent'[k]
    PROVE  RowSerial(t)'
<1>1. ChangesOf(t)' = ChangesOf(t) /\ StatusChanges(t)' = StatusChanges(t)
    BY DEF ChangesOf, StatusChanges
<1>2. row[t] # None => InitialStatus(t) \subseteq InitialStatus(t)'
    BY DEF InitialStatus
<1>3. row[t] # None => LoggedStatus(t) \subseteq LoggedStatus(t)'
    BY <1>1, <1>2 DEF LoggedStatus
<1>. QED  BY <1>1, <1>2, <1>3 DEF RowSerial

\* Steps that write nothing.
LEMMA QuietKeepsSerial ==
    ASSUME SerialInv, CoverInv', OneAtATime', UNCHANGED db,
           \A k \in Keys : sent[k] \subseteq sent'[k],
           \A u \in Sessions : pc'[u] \in {"check", "commit"} =>
               /\ op'[u] = op[u]
               /\ \/ pc[u] \in {"check", "commit"} /\ read'[u] = read[u]
                  \/ read'[u] = row[op[u].task]
               /\ pc'[u] = "commit" => \/ pc[u] = "commit" /\ read'[u] = read[u]
                                       \/ TransitionAllowed(op'[u], read'[u])
    PROVE  SerialInv'
<1>1. SeesTask'
    BY DEF SerialInv, SeesTask, db
<1>2. \A t \in Tasks : RowSerial(t)'
  <2>1. \A t \in Tasks : row[t] # None => row[t].key \in Keys
      BY DEF SerialInv, CoverInv, CreateInv, TypeInv, TypeOK, Row
  <2>. QED  BY <2>1, RowStaysSerial, SerialParts DEF db
<1>3. CoverInv' /\ OneAtATime' /\ SeesTask' /\ (\A t \in Tasks : RowSerial(t))'
    BY <1>1, <1>2
<1>. QED  BY <1>3 DEF SerialInv, RowSerial, VersionCountsChanges, CompletionRecorded,
          LastIsThere, AuditReplaysStatus

LEMMA CloseKeepsSerial ==
    ASSUME SerialInv, CoverInv', OneAtATime', UNCHANGED db, sent' = sent,
           NEW s \in Sessions, Close(s)
    PROVE  SerialInv'
<1>1. \A u \in Sessions : pc'[u] \in {"check", "commit"} =>
          pc[u] = pc'[u] /\ op'[u] = op[u] /\ read'[u] = read[u]
    BY DEF SerialInv, CoverInv, CreateInv, TypeInv, TypeOK, Close, Goto
<1>. QED  BY <1>1, QuietKeepsSerial

\* What the commit of the one request under way makes of its task.
LEMMA SerialWriteFacts ==
    ASSUME SerialInv, NEW s \in Sessions, Creates(s) \/ Changes(s)
    PROVE  \E t \in Tasks :
               /\ EventOf(key[s], op[s], t) \in Event
               /\ events' = Append(events, EventOf(key[s], op[s], t))
               /\ \A u \in Tasks \ {t} : row'[u] = row[u]
               /\ row'[t] \in Row /\ row'[t] # None
               /\ \/ /\ row[t] = None /\ op[s] \in CreateRequest
                     /\ row'[t] = NewTask(op[s], key[s])
                  \/ /\ row[t] \in Row /\ row[t] # None
                     /\ op[s] \in UpdateRequest \cup CancelRequest
                     /\ TransitionAllowed(op[s], row[t])
                     /\ row'[t] = Changed(op[s], row[t])
               /\ op[s] \in sent[key[s]] /\ key[s] \in Keys /\ sent' = sent
               /\ Close(s)
<1>0. CreateInv /\ TypeInv
    BY DEF SerialInv, CoverInv, CreateInv
<1>1. /\ op[s] \in sent[key[s]] /\ key[s] \in Keys /\ sent' = sent
      /\ Close(s)
    BY <1>0, Serving DEF Creates, Changes, Answer
<1>2. CASE Creates(s)
  <2>. DEFINE t == pending[s]
  <2>1. /\ t \in Tasks /\ row'[t] \in Row /\ EventOf(key[s], op[s], t) \in Event
        /\ \A u \in Tasks \ {t} : row'[u] = row[u]
        /\ op[s] \in CreateRequest
      BY <1>0, <1>2, CreatesRow
  <2>2. row'[t] = NewTask(op[s], key[s])
      BY <1>0, <1>2, <2>1 DEF Creates, TypeInv, TypeOK
  <2>3. t # None /\ row'[t] # None
      BY <2>1, ConstantsAssumption
  <2>4. row[t] = None
      BY <1>0, <2>3 DEF CreateInv, PendingApart
  <2>5. events' = Append(events, EventOf(key[s], op[s], t))
      BY <1>2 DEF Creates
  <2>. HIDE DEF t
  <2>. QED  BY <1>1, <2>1, <2>2, <2>3, <2>4, <2>5
<1>3. CASE Changes(s)
  <2>. DEFINE t == op[s].task
  <2>1. /\ t \in Tasks /\ row[t] \in Row /\ row'[t] \in Row
        /\ EventOf(key[s], op[s], t) \in Event
        /\ \A u \in Tasks \ {t} : row'[u] = row[u]
        /\ op[s] \in UpdateRequest \cup CancelRequest
      BY <1>0, <1>3, ChangesRow
  <2>2. row[t] # None /\ row'[t] # None
      BY <2>1, ConstantsAssumption
  <2>3. row'[t] = Flush(row[t], read[s], Changed(op[s], read[s]))
      BY <1>0, <1>3, <2>1 DEF Changes, TypeInv, TypeOK
  <2>4. read[s] = row[t] /\ TransitionAllowed(op[s], row[t])
      BY <1>3 DEF Changes, SerialInv, SeesTask
  <2>5. Changed(op[s], row[t]) \in Row /\ Changed(op[s], row[t]).key = row[t].key
      BY <2>1, ChangedType DEF Changed, Row
  <2>6. row'[t] = Changed(op[s], row[t])
    <3>. DEFINE new == Changed(op[s], row[t])
    <3>. HIDE DEF new
    <3>1. Flush(row[t], row[t], new) = new
        BY <2>1, <2>5 DEF Flush, Row, new
    <3>. QED  BY <2>3, <2>4, <3>1 DEF new
  <2>7. events' = Append(events, EventOf(key[s], op[s], t))
      BY <1>3 DEF Changes
  <2>. HIDE DEF t
  <2>. QED  BY <1>1, <2>1, <2>2, <2>4, <2>6, <2>7
<1>. QED  BY <1>2, <1>3

\* The records that set a task's status, after one more record.
LEMMA StatusChangesGrow ==
    ASSUME TypeOK, NEW e \in Event, events' = Append(events, e), NEW t \in Tasks
    PROVE  /\ Len(events) \in Nat /\ StatusChanges(t) \subseteq 1..Len(events)
           /\ \A i \in 1..Len(events) : events'[i] = events[i]
           /\ events'[Len(events) + 1] = e
           /\ StatusChanges(t)' =
                  IF /\ e.task = t /\ e.kind # "created"
                     /\ e.kind = "cancelled" \/ e.status # Keep
                  THEN StatusChanges(t) \cup {Len(events) + 1} ELSE StatusChanges(t)
<1>. DEFINE n == Len(events)
            sets == /\ e.task = t /\ e.kind # "created"
                    /\ e.kind = "cancelled" \/ e.status # Keep
<1>1. /\ n \in Nat /\ Len(events') = n + 1
      /\ \A i \in 1..n : events'[i] = events[i]
      /\ events'[n + 1] = e
    BY AppendFacts DEF TypeOK
<1>2. \A i : i \in StatusChanges(t) <=>
          /\ i \in 1..n /\ events[i].task = t /\ events[i].kind # "created"
          /\ events[i].kind = "cancelled" \/ events[i].status # Keep
    BY DEF StatusChanges, ChangesOf
<1>3. \A i : i \in StatusChanges(t)' <=>
          /\ i \in 1..(n + 1) /\ events'[i].task = t /\ events'[i].kind # "created"
          /\ events'[i].kind = "cancelled" \/ events'[i].status # Keep
    BY <1>1 DEF StatusChanges, ChangesOf
<1>. HIDE DEF n
<1>4. \A i : i \in 1..(n + 1) <=> i \in 1..n \/ i = n + 1
    BY <1>1
<1>5. \A i : i \in StatusChanges(t)' <=> i \in StatusChanges(t) \/ (i = n + 1 /\ sets)
    BY <1>1, <1>2, <1>3, <1>4
<1>6. StatusChanges(t) \subseteq 1..n
    BY <1>2
<1>7. StatusChanges(t)' = IF sets THEN StatusChanges(t) \cup {n + 1} ELSE StatusChanges(t)
    BY <1>5
<1>. QED  BY <1>1, <1>6, <1>7 DEF n

\* The task whose history a record does not touch.
LEMMA OtherRowSerial ==
    ASSUME SerialInv, NEW e \in Event, events' = Append(events, e), NEW u \in Tasks,
           e.task # u, row'[u] = row[u], sent' = sent
    PROVE  RowSerial(u)'
<1>0. TypeOK /\ RowSerial(u)
    BY SerialParts DEF SerialInv, CoverInv, CreateInv, TypeInv
<1>1. ChangesOf(u)' = ChangesOf(u)
    BY <1>0, ChangesGrow
<1>2. /\ StatusChanges(u)' = StatusChanges(u)
      /\ \A i \in StatusChanges(u) : events'[i] = events[i]
    BY <1>0, StatusChangesGrow
<1>3. row[u] # None => InitialStatus(u)' = InitialStatus(u)
    BY DEF InitialStatus
<1>. DEFINE last == CHOOSE i \in StatusChanges(u) : \A j \in StatusChanges(u) : j <= i
<1>4. StatusChanges(u) # {} => last \in StatusChanges(u)
    BY <1>0 DEF RowSerial
<1>5. row[u] # None => LoggedStatus(u)' = LoggedStatus(u)
    BY <1>2, <1>3, <1>4 DEF LoggedStatus
<1>. QED  BY <1>0, <1>1, <1>2, <1>3, <1>5 DEF RowSerial

\* A task that is created: its history is its creation.
LEMMA CreatedRowSerial ==
    ASSUME SerialInv, NEW e \in Event, events' = Append(events, e), NEW t \in Tasks,
           e.task = t, e.kind = "created", row[t] = None, sent' = sent,
           NEW r \in CreateRequest, NEW k \in Keys, r \in sent[k],
           row'[t] = NewTask(r, k)
    PROVE  RowSerial(t)'
<1>0. TypeOK
    BY DEF SerialInv, CoverInv, CreateInv, TypeInv
<1>1. ChangesOf(t) = {}
    BY DEF SerialInv, CoverInv, AuditCoversVersion
<1>2. ChangesOf(t)' = {}
    BY <1>0, <1>1, ChangesGrow
<1>3. StatusChanges(t)' = {}
    BY <1>2 DEF StatusChanges
<1>4. Cardinality(ChangesOf(t)') = 0
    BY <1>2, FS_EmptySet
<1>5. /\ row'[t].version = 1 /\ row'[t].completed = FALSE
      /\ row'[t].status = r.status /\ row'[t].key = k
    BY DEF NewTask
<1>6. r.status \in InitialStatus(t)'
    BY <1>5 DEF InitialStatus, CreateRequest
<1>7. row'[t].status \in LoggedStatus(t)'
    BY <1>3, <1>5, <1>6 DEF LoggedStatus
<1>8. row'[t].version = 1 + Cardinality(ChangesOf(t)')
    BY <1>4, <1>5
<1>. QED  BY <1>3, <1>5, <1>6, <1>7, <1>8 DEF RowSerial

\* The status a change leaves, and the record of it.
LEMMA StatusAfter ==
    ASSUME NEW old \in Row, NEW r \in UpdateRequest \cup CancelRequest,
           TransitionAllowed(r, old), NEW k \in Keys, NEW t \in Tasks,
           NEW new, new = Changed(r, old), NEW e, e = EventOf(k, r, t)
    PROVE  /\ new.version = old.version + 1 /\ new.key = old.key
           /\ e.task = t /\ e.kind # "created"
           /\ IF e.kind = "cancelled" THEN new.status = "CANCELLED"
              ELSE IF e.status # Keep THEN new.status = e.status
              ELSE new.status = old.status
           /\ (old.completed => old.status \in {"DONE", "CANCELLED"}) =>
                  (new.completed => new.status \in {"DONE", "CANCELLED"})
           /\ new.status = "DONE" =>
                  \/ new.completed
                  \/ old.status = "DONE" /\ new.completed = old.completed
           /\ old.status \in {"DONE", "CANCELLED"} =>
                  e.kind = "cancelled" \/ new.status = old.status
<1>1. CASE r \in CancelRequest
  <2>1. /\ new.status = "CANCELLED" /\ new.version = old.version + 1
        /\ new.key = old.key /\ new.completed = old.completed
      BY <1>1 DEF Changed, VersionAfter, CompletedAfter, CancelRequest, Row
  <2>2. e.task = t /\ e.kind = "cancelled"
      BY <1>1 DEF EventOf, CancelRequest
  <2>. QED  BY <2>1, <2>2
<1>2. CASE r \in UpdateRequest
  <2>1. /\ r.op = "update" /\ r.status \in TaskStatus \cup {Keep}
      BY <1>2 DEF UpdateRequest
  <2>2. e.task = t /\ e.kind = "changed" /\ e.status = r.status
      BY <2>1 DEF EventOf
  <2>3. /\ new.status = IF r.status = Keep THEN old.status ELSE r.status
        /\ new.version = old.version + 1 /\ new.key = old.key
        /\ new.completed = IF r.status \in {Keep, old.status} THEN old.completed
                           ELSE r.status = "DONE"
      BY <2>1 DEF Changed, VersionAfter, CompletedAfter, Row
  <2>4. old.status \in TaskStatus
      BY DEF Row
  <2>5. old.status \in {"DONE", "CANCELLED"} => r.status \in {Keep, old.status}
    <3>1. old.status \in {"DONE", "CANCELLED"} => ALLOWED_TRANSITIONS[old.status] = {}
        BY DEF ALLOWED_TRANSITIONS, TaskStatus
    <3>. QED  BY <2>1, <3>1 DEF TransitionAllowed, ValidTransition
  <2>6. CASE r.status = Keep
      BY <2>2, <2>3, <2>6
  <2>7. CASE r.status # Keep /\ r.status = old.status
      BY <2>2, <2>3, <2>7
  <2>8. CASE r.status \notin {Keep, old.status}
      BY <2>2, <2>3, <2>5, <2>8
  <2>. QED  BY <2>6, <2>7, <2>8
<1>. QED  BY <1>1, <1>2

\* A task that is changed: its history has one more change, and replaying it
\* gives the status the change leaves.
LEMMA ChangedRowSerial ==
    ASSUME SerialInv, NEW k \in Keys, NEW t \in Tasks, row[t] \in Row, row[t] # None,
           NEW r \in UpdateRequest \cup CancelRequest, EventOf(k, r, t) \in Event,
           events' = Append(events, EventOf(k, r, t)), sent' = sent,
           TransitionAllowed(r, row[t]), row'[t] = Changed(r, row[t])
    PROVE  RowSerial(t)'
<1>. DEFINE e == EventOf(k, r, t)
<1>0. TypeOK /\ RowSerial(t)
    BY SerialParts DEF SerialInv, CoverInv, CreateInv, TypeInv
<1>1. /\ row'[t].version = row[t].version + 1 /\ row'[t].key = row[t].key
      /\ e.task = t /\ e.kind # "created"
      /\ IF e.kind = "cancelled" THEN row'[t].status = "CANCELLED"
         ELSE IF e.status # Keep THEN row'[t].status = e.status
         ELSE row'[t].status = row[t].status
      /\ (row[t].completed => row[t].status \in {"DONE", "CANCELLED"}) =>
             (row'[t].completed => row'[t].status \in {"DONE", "CANCELLED"})
      /\ row'[t].status = "DONE" =>
             \/ row'[t].completed
             \/ row[t].status = "DONE" /\ row'[t].completed = row[t].completed
    BY StatusAfter
<1>. HIDE DEF e
<1>2. InitialStatus(t)' = InitialStatus(t)
    BY <1>1 DEF InitialStatus
<1>3. row'[t].version = 1 + Cardinality(ChangesOf(t)')
  <2>1. /\ Cardinality(ChangesOf(t)) \in Nat
        /\ Cardinality(ChangesOf(t)') = Cardinality(ChangesOf(t)) + 1
      BY <1>0, <1>1, ChangesGrow DEF e
  <2>2. row[t].version = 1 + Cardinality(ChangesOf(t))
      BY <1>0 DEF RowSerial
  <2>. QED  BY <1>1, <2>1, <2>2
<1>4. row'[t].completed => row'[t].status \in {"DONE", "CANCELLED"}
    BY <1>0, <1>1 DEF RowSerial
<1>5. row'[t].status = "DONE" /\ "DONE" \notin InitialStatus(t)' => row'[t].completed
    BY <1>0, <1>1, <1>2 DEF RowSerial
<1>. DEFINE n == Len(events)
            S == StatusChanges(t)
<1>6. /\ n \in Nat /\ S \subseteq 1..n
      /\ \A i \in 1..n : events'[i] = events[i]
      /\ events'[n + 1] = e
      /\ StatusChanges(t)' = IF e.kind = "cancelled" \/ e.status # Keep
                             THEN S \cup {n + 1} ELSE S
    BY <1>0, <1>1, StatusChangesGrow DEF e
<1>7. S # {} => \E i \in S : \A j \in S : j <= i
    BY <1>0 DEF RowSerial
<1>8. row[t].status \in LoggedStatus(t)
    BY <1>0 DEF RowSerial
<1>. HIDE DEF n, S
<1>9. CASE e.kind = "cancelled" \/ e.status # Keep
  <2>1. StatusChanges(t)' = S \cup {n + 1}
      BY <1>6, <1>9
  <2>2. \A j \in S \cup {n + 1} : j <= n + 1
      BY <1>6
  <2>3. \A i \in S \cup {n + 1} : (\A j \in S \cup {n + 1} : j <= i) => i = n + 1
      BY <1>6
  <2>4. (CHOOSE i \in StatusChanges(t)' : \A j \in StatusChanges(t)' : j <= i) = n + 1
      BY <2>1, <2>2, <2>3
  <2>5. LoggedStatus(t)' = IF e.kind = "cancelled" THEN {"CANCELLED"} ELSE {e.status}
      BY <1>6, <2>1, <2>4 DEF LoggedStatus
  <2>6. row'[t].status \in LoggedStatus(t)'
      BY <1>1, <1>9, <2>5
  <2>7. \E i \in StatusChanges(t)' : \A j \in StatusChanges(t)' : j <= i
      BY <2>1, <2>2
  <2>. QED  BY <1>3, <1>4, <1>5, <2>6, <2>7 DEF RowSerial
<1>10. CASE ~ (e.kind = "cancelled" \/ e.status # Keep)
  <2>1. StatusChanges(t)' = S
      BY <1>6, <1>10
  <2>2. row'[t].status = row[t].status
      BY <1>1, <1>10
  <2>. DEFINE last == CHOOSE i \in S : \A j \in S : j <= i
  <2>3. S # {} => last \in S
      BY <1>7
  <2>4. S # {} => events'[last] = events[last]
      BY <1>6, <2>3
  <2>. HIDE DEF last
  <2>5. LoggedStatus(t) = IF S = {} THEN InitialStatus(t)
                          ELSE IF events[last].kind = "cancelled" THEN {"CANCELLED"}
                          ELSE {events[last].status}
      BY DEF LoggedStatus, S, last
  <2>6. LoggedStatus(t)' = IF S = {} THEN InitialStatus(t)'
                           ELSE IF events'[last].kind = "cancelled" THEN {"CANCELLED"}
                           ELSE {events'[last].status}
      BY <2>1 DEF LoggedStatus, last
  <2>7. LoggedStatus(t)' = LoggedStatus(t)
    <3>1. CASE S = {}
        BY <1>2, <2>5, <2>6, <3>1
    <3>2. CASE S # {}
        BY <2>4, <2>5, <2>6, <3>2
    <3>. QED  BY <3>1, <3>2
  <2>. QED  BY <1>3, <1>4, <1>5, <1>7, <1>8, <2>1, <2>2, <2>7 DEF RowSerial
<1>. QED  BY <1>9, <1>10

\* The commit of the one request under way.
LEMMA WriteKeepsSerial ==
    ASSUME SerialInv, CoverInv', OneAtATime', NEW s \in Sessions,
           Creates(s) \/ Changes(s)
    PROVE  SerialInv'
<1>1. PICK t \in Tasks :
          /\ EventOf(key[s], op[s], t) \in Event
          /\ events' = Append(events, EventOf(key[s], op[s], t))
          /\ \A u \in Tasks \ {t} : row'[u] = row[u]
          /\ row'[t] \in Row /\ row'[t] # None
          /\ \/ /\ row[t] = None /\ op[s] \in CreateRequest
                /\ row'[t] = NewTask(op[s], key[s])
             \/ /\ row[t] \in Row /\ row[t] # None
                /\ op[s] \in UpdateRequest \cup CancelRequest
                /\ TransitionAllowed(op[s], row[t])
                /\ row'[t] = Changed(op[s], row[t])
          /\ op[s] \in sent[key[s]] /\ key[s] \in Keys /\ sent' = sent
          /\ Close(s)
    BY SerialWriteFacts
<1>. DEFINE e == EventOf(key[s], op[s], t)
<1>2. e.task = t /\ e \in Event
    BY <1>1 DEF EventOf
<1>3. op[s] \in CreateRequest => e.kind = "created"
    BY DEF EventOf, CreateRequest
<1>4. \A u \in Tasks \ {t} : RowSerial(u)'
  <2>. HIDE DEF e
  <2>1. events' = Append(events, e)
      BY <1>1 DEF e
  <2>. QED  BY <1>1, <1>2, <2>1, OtherRowSerial
<1>5. RowSerial(t)'
  <2>1. CASE row[t] = None /\ op[s] \in CreateRequest /\ row'[t] = NewTask(op[s], key[s])
    <3>. HIDE DEF e
    <3>1. events' = Append(events, e)
        BY <1>1 DEF e
    <3>. QED  BY <1>1, <1>2, <1>3, <2>1, <3>1, CreatedRowSerial
  <2>2. CASE /\ row[t] \in Row /\ row[t] # None
             /\ op[s] \in UpdateRequest \cup CancelRequest
             /\ TransitionAllowed(op[s], row[t])
             /\ row'[t] = Changed(op[s], row[t])
      BY <1>1, <2>2, ChangedRowSerial
  <2>. QED  BY <1>1, <2>1, <2>2
<1>6. SeesTask'
  <2>1. \A u \in Sessions : pc'[u] \in {"check", "commit"} => u # s /\ pc[u] # "idle"
      BY <1>1 DEF SerialInv, CoverInv, CreateInv, TypeInv, TypeOK, Close, Goto
  <2>2. pc[s] # "idle"
      BY DEF Creates, Changes
  <2>3. \A u \in Sessions : pc'[u] \notin {"check", "commit"}
      BY <2>1, <2>2 DEF SerialInv, OneAtATime
  <2>. QED  BY <2>3 DEF SeesTask
<1>7. \A u \in Tasks : RowSerial(u)'
    BY <1>4, <1>5
<1>. QED  BY <1>6, <1>7 DEF SerialInv, RowSerial, VersionCountsChanges,
          CompletionRecorded, LastIsThere, AuditReplaysStatus

\* The steps of a request before its commit.
LEMMA StatementsKeepSerial ==
    ASSUME SerialInv, CoverInv', OneAtATime', NEW s \in Sessions,
           \/ FindOwner(s) \/ AddOwner(s) \/ LookupTask(s) \/ InsertTask(s)
           \/ Load(s) \/ Check(s)
    PROVE  SerialInv'
<1>0. TypeInv /\ UNCHANGED db /\ sent' = sent
    BY DEF SerialInv, CoverInv, CreateInv, FindOwner, AddOwner, LookupTask, InsertTask,
       Load, Check, Answer, client
<1>1. CASE Close(s)
    BY <1>0, <1>1, CloseKeepsSerial
<1>2. CASE /\ \E where \in {"addOwner", "lookup", "insert", "event"} : Goto(s, where)
           /\ UNCHANGED <<op, read>>
  <2>1. \A u \in Sessions : pc'[u] \in {"check", "commit"} => pc[u] = pc'[u]
      BY <1>0, <1>2 DEF TypeInv, TypeOK, Goto
  <2>. QED  BY <1>0, <1>2, <2>1, QuietKeepsSerial
<1>3. CASE /\ pc[s] = "load"
           /\ read' = [read EXCEPT ![s] = row[op[s].task]]
           /\ Goto(s, "check") /\ op' = op
  <2>1. /\ pc'[s] = "check" /\ read'[s] = row[op[s].task]
        /\ \A u \in Sessions \ {s} : pc'[u] = pc[u] /\ read'[u] = read[u]
      BY <1>0, <1>3 DEF TypeInv, TypeOK, Goto
  <2>. QED  BY <1>0, <1>3, <2>1, QuietKeepsSerial
<1>4. CASE /\ pc[s] = "check" /\ Goto(s, "commit") /\ UNCHANGED <<op, read>>
           /\ TransitionAllowed(op[s], read[s])
  <2>1. pc'[s] = "commit" /\ \A u \in Sessions \ {s} : pc'[u] = pc[u]
      BY <1>0, <1>4 DEF TypeInv, TypeOK, Goto
  <2>2. \A u \in Sessions : pc'[u] \in {"check", "commit"} =>
            /\ pc[u] \in {"check", "commit"}
            /\ pc'[u] = "commit" => pc[u] = "commit" \/ TransitionAllowed(op[u], read[u])
      BY <1>4, <2>1
  <2>. QED  BY <1>0, <1>4, <2>2, QuietKeepsSerial
<1>5. CASE FindOwner(s) \/ AddOwner(s)
    BY <1>2, <1>5 DEF FindOwner, AddOwner
<1>6. CASE LookupTask(s) \/ InsertTask(s)
    BY <1>1, <1>2, <1>6 DEF LookupTask, InsertTask, Answer
<1>7. CASE Load(s)
    BY <1>1, <1>3, <1>7 DEF Load, Answer
<1>8. CASE Check(s)
    BY <1>1, <1>4, <1>8 DEF Check, Answer
<1>. QED  BY <1>5, <1>6, <1>7, <1>8

LEMMA SerialNext == SerialInv /\ [Next]_vars /\ OneAtATime' => SerialInv'
<1>. SUFFICES ASSUME SerialInv, [Next]_vars, OneAtATime' PROVE SerialInv'
    OBVIOUS
<1>0. CoverInv' /\ TypeInv
    BY CoverNext DEF SerialInv, CoverInv, CreateInv
<1>1. CASE UNCHANGED vars
  <2>1. UNCHANGED db /\ pc' = pc /\ op' = op /\ read' = read /\ sent' = sent
      BY <1>1 DEF vars, db
  <2>. QED  BY <1>0, <2>1, QuietKeepsSerial
<1>2. ASSUME NEW s \in Sessions, FinishCreate(s) \/ Commit(s) PROVE SerialInv'
  <2>1. CASE Creates(s) \/ Changes(s)
      BY <1>0, <2>1, WriteKeepsSerial
  <2>2. CASE UNCHANGED db /\ sent' = sent /\ Close(s)
      BY <1>0, <2>2, CloseKeepsSerial
  <2>. QED  BY <1>2, <2>1, <2>2, FinishCreateCases, CommitCases DEF Answer
<1>3. ASSUME NEW s \in Sessions, Serve(s) PROVE SerialInv'
    BY <1>0, <1>2, <1>3, StatementsKeepSerial DEF Serve
<1>4. ASSUME NEW s \in Sessions, Abort(s) PROVE SerialInv'
    BY <1>0, <1>4, CloseKeepsSerial DEF Abort, client
<1>5. ASSUME NEW s \in Sessions, NEW k \in Keys, NEW r \in Requests, Submit(s, k, r)
      PROVE  SerialInv'
  <2>1. UNCHANGED db /\ UNCHANGED read
      BY <1>5 DEF Submit
  <2>2. \A u \in Sessions : pc'[u] \in {"check", "commit"} => pc[u] = pc'[u] /\ op'[u] = op[u]
      BY <1>0, <1>5 DEF Submit, Goto, TypeInv, TypeOK
  <2>3. \A l \in Keys : sent[l] \subseteq sent'[l]
      BY <1>0, <1>5 DEF Submit, TypeInv, TypeOK
  <2>. QED  BY <1>0, <2>1, <2>2, <2>3, QuietKeepsSerial
<1>. QED  BY <1>1, <1>3, <1>4, <1>5 DEF Next

\* While a workload is serial, its invariant holds.
WorkInv == workload = "serial" => SerialInv

LEMMA WorkInitially == WorkInit => WorkInv
    BY SerialInit DEF WorkInit, WorkInv

LEMMA WorkGoesOn == WorkInv /\ [WorkNext]_<<vars, workload>> => WorkInv'
<1>. SUFFICES ASSUME WorkInv, [WorkNext]_<<vars, workload>>, workload' = "serial"
              PROVE  SerialInv'
    BY DEF WorkInv
<1>1. workload = "serial" /\ SerialInv
    BY DEF WorkInv, WorkNext
<1>2. CASE WorkNext
    BY <1>1, <1>2, SerialNext DEF WorkNext
<1>3. CASE UNCHANGED <<vars, workload>>
  <2>1. UNCHANGED vars /\ pc' = pc
      BY <1>3 DEF vars
  <2>2. OneAtATime'
      BY <1>1, <2>1 DEF SerialInv, OneAtATime
  <2>. QED  BY <1>1, <2>1, <2>2, SerialNext
<1>. QED  BY <1>2, <1>3

LEMMA SerialInvariance == WorkSpec => []WorkInv
<1>. QED  BY WorkInitially, WorkGoesOn, PTL DEF WorkSpec

\* While requests come one after the other, a task's version is the number of
\* changes the audit log holds of it, and one.
THEOREM VersionsCount == WorkSpec => []SerialVersionCounts
<1>1. WorkInv => SerialVersionCounts
    BY DEF WorkInv, SerialInv, SerialVersionCounts
<1>. QED  BY <1>1, SerialInvariance, PTL

\* While requests come one after the other, the audit log tells the status of
\* every task.
THEOREM AuditReplays == WorkSpec => []SerialAuditReplays
<1>1. WorkInv => SerialAuditReplays
    BY DEF WorkInv, SerialInv, SerialAuditReplays
<1>. QED  BY <1>1, SerialInvariance, PTL

\* While requests come one after the other, completed_at goes with the status.
THEOREM CompletionAgrees == WorkSpec => []SerialCompletion
<1>1. WorkInv => SerialCompletion
    BY DEF WorkInv, SerialInv, SerialCompletion
<1>. QED  BY <1>1, SerialInvariance, PTL

\* A finished task that is changed, and not cancelled, keeps its status.
LEMMA StepKeepsFinished ==
    ASSUME SerialInv, [Next]_vars, NEW t \in Tasks
    PROVE  KeepsFinished(t)
<1>0. TypeInv
    BY DEF SerialInv, CoverInv, CreateInv
<1>1. CASE row' = row
    BY <1>1 DEF KeepsFinished
<1>2. ASSUME NEW s \in Sessions, Creates(s) \/ Changes(s)
      PROVE  KeepsFinished(t)
  <2>1. PICK u \in Tasks :
            /\ EventOf(key[s], op[s], u) \in Event
            /\ events' = Append(events, EventOf(key[s], op[s], u))
            /\ \A v \in Tasks \ {u} : row'[v] = row[v]
            /\ \/ row[u] = None
               \/ /\ row[u] \in Row /\ row[u] # None
                  /\ op[s] \in UpdateRequest \cup CancelRequest
                  /\ TransitionAllowed(op[s], row[u])
                  /\ row'[u] = Changed(op[s], row[u])
            /\ key[s] \in Keys
      BY <1>2, SerialWriteFacts
  <2>2. CASE t # u \/ row[t] = None
      BY <2>1, <2>2 DEF KeepsFinished
  <2>3. CASE t = u /\ row[t] # None
    <3>1. events'[Len(events')] = EventOf(key[s], op[s], t)
        BY <1>0, <2>1, <2>3 DEF TypeInv, TypeOK
    <3>2. row[t].status \in {"DONE", "CANCELLED"} =>
              \/ EventOf(key[s], op[s], t).kind = "cancelled"
              \/ row'[t].status = row[t].status
        BY <2>1, <2>3, StatusAfter
    <3>. QED  BY <3>1, <3>2 DEF KeepsFinished
  <2>. QED  BY <2>2, <2>3
<1>3. ASSUME NEW s \in Sessions, FinishCreate(s) \/ Commit(s)
      PROVE  KeepsFinished(t)
    BY <1>1, <1>2, <1>3, FinishCreateCases, CommitCases DEF db
<1>4. row' = row \/ \E s \in Sessions : FinishCreate(s) \/ Commit(s)
    BY DEF Next, Serve, FindOwner, AddOwner, LookupTask, InsertTask, Load, Check, Abort,
       Submit, vars, db
<1>. QED  BY <1>1, <1>3, <1>4

\* While requests come one after the other, no update gives a finished task
\* another status, in histories of any length.
THEOREM FinishedIsKept == WorkSpec => UpdatesKeepFinished
<1>1. WorkInv /\ [WorkNext]_<<vars, workload>>
          => [workload = "serial" => \A t \in Tasks : KeepsFinished(t)]_<<vars, workload>>
    BY StepKeepsFinished DEF WorkInv, WorkNext
<1>. QED  BY <1>1, WorkInitially, WorkGoesOn, PTL DEF WorkSpec, UpdatesKeepFinished
=============================================================================
