--------------------------- MODULE TelegramProofs ---------------------------
(***************************************************************************)
(* Theorems about TelegramBot, for any number of updates, any kinds of     *)
(* messages and buttons, and any number of crashes, failing calls and      *)
(* mails in between.                                                       *)
(***************************************************************************)
EXTENDS TelegramBot, FiniteSetTheorems, SequenceTheorems,
        WellFoundedInduction, TLAPS

-----------------------------------------------------------------------------
\* The invariants.

Handling == pc \notin {"poll", "next"}

\* The last update that getUpdates will pass over, unless the process crashes.
Passed == IF offset > forgotten THEN offset - 1 ELSE forgotten

PollFits ==
    /\ pc = "poll" => at = 0 /\ upto = 0
    /\ ~Handling => hand = NoHand
    /\ at <= upto /\ upto <= Len(queue)
    /\ offset <= Len(queue) + 1
    /\ pc # "poll" => at = Passed
    /\ Handling => at > forgotten

\* The steps at which an update of each kind is handled.
StepsOf(kind) ==
    CASE kind = "text" -> {"text", "clear", "parse", "store", "save", "show",
                           "notify", "answer"}
      [] kind = "new" -> {"new", "answer"}
      [] kind = "candidate" -> {"candidate", "create", "confirm", "edit", "ignore",
                                "ack", "redraw"}
      [] kind = "task" -> {"task", "ack", "redraw"}
Deciding == {"create", "confirm", "edit", "ignore"}

\* What the handler holds at each step.
HandFits ==
    /\ Handling => pc \in StepsOf(queue[at].kind)
    /\ hand.task <= Len(task)
    /\ pc = "clear" => hand.task # NoTask
    /\ pc \in Deciding \cup {"save", "show", "notify"} =>
           hand.source # None /\ source[hand.source] # None
    /\ pc \in {"show", "notify"} => record[hand.source] # None
    /\ pc \in Deciding =>
           /\ hand.source = Press.card.source
           /\ hand.row # None
           /\ hand.record # None => record[hand.source] # None
           /\ hand.row.candidate # None => record[hand.source] # None
    /\ pc \in {"create", "confirm"} =>
           /\ Press.action = "create"
           /\ hand.row.candidate # None /\ hand.record # None
    /\ pc = "confirm" =>
           /\ hand.task # NoTask
           /\ task[hand.task].key = <<"candidate", hand.source>>

\* Cards in the chat, and those the owner has pressed, show existing rows.
CardsExist ==
    /\ \A c \in cards :
          IF c \in CandidateCard THEN source[c.source] # None
          ELSE c.task \in 1..Len(task)
    /\ \A p \in 1..Len(queue) :
          /\ queue[p].kind = "candidate" => source[queue[p].card.source] # None
          /\ queue[p].kind = "task" => queue[p].card.task \in 1..Len(task)

\* Every row has its place in the order of its column.
RowsOrdered ==
    /\ \A t \in 1..Len(task) : t \in ToSet(touched)
    /\ \A s \in Source : source[s] # None => s \in ToSet(created)

RowsFit ==
    \A s \in Source :
        /\ source[s] # None /\ source[s].candidate # None => record[s] # None
        /\ record[s] # None => record[s].task <= Len(task)

\* Nobody decides about a mail before its candidate is committed.
MailFits ==
    /\ mail = "none" <=> source[Mail] = None
    /\ mail = "open" => source[Mail].status = "NEW"
    /\ mail # "over" =>
          /\ source[Mail] # None => source[Mail].candidate = None
          /\ hand.source = Mail /\ hand.row # None => hand.row.candidate = None
          /\ hand.source = Mail => pc \in Deciding \cup {"ack", "redraw"}
          /\ \A t \in 1..Len(task) : task[t].source # Mail

TypeInv ==
    /\ TypeOK /\ PollFits /\ HandFits /\ CardsExist /\ RowsOrdered /\ RowsFit
    /\ MailFits

\* The key of the task an update creates.
OriginKey(u, p) == IF u.kind = "candidate" THEN <<"candidate", u.card.source>>
                   ELSE <<"new", p>>
KeyInv ==
    /\ \A t, u \in 1..Len(task) : task[t].key = task[u].key => t = u
    /\ \A t \in 1..Len(task) :
          /\ \E p \in 1..Len(queue) : task[t].key = OriginKey(queue[p], p)
          /\ \A s \in Source : task[t].source = s <=> task[t].key = <<"candidate", s>>

\* What the offset passes was handled, but for the update in hand.
PassedInv == \A p \in 1..Passed : p \in ended \cup failed \/ (Handling /\ p = at)

\* An update is yet to be handled, has failed, or is at its decision.
Pending(p) == \/ p > Passed \/ p \in failed
              \/ p = at /\ pc \in {"candidate", "create", "confirm"}
Creates(u, s) == u.kind = "candidate" /\ u.action = "create" /\ u.card.source = s
LinkInv ==
    /\ \A s \in Source : record[s] # None /\ record[s].task # NoTask =>
           task[record[s].task].source = s
    /\ \A s \in Source, t \in 1..Len(task) : task[t].source = s =>
           /\ source[s] # None /\ source[s].candidate # None
           /\ pc \in Deciding /\ hand.source = s => hand.row.candidate # None
           /\ \/ record[s].task = t
              \/ \E p \in 1..Len(queue) : Creates(queue[p], s) /\ Pending(p)
    /\ pc \in Deciding /\ hand.row.candidate # None =>
           source[hand.source].candidate # None

\* Text that has not taken effect since the last crash.
Unused(p) == p > Passed \/ (p = at /\ pc \in {"text", "parse", "store", "save", "show"})
UsesInv ==
    /\ budget.left["crash"] <= budget.limit["crash"]
    /\ \A p \in Position : p > Len(queue) => uses[p] = 0
    /\ \A p \in 1..Len(queue) :
          /\ queue[p].kind = "text" =>
                 uses[p] <= (IF Unused(p) THEN 0 ELSE 1) + Used("crash")
          /\ queue[p].kind # "text" => uses[p] <= 1
          /\ queue[p].kind \in {"new", "candidate"} /\ uses[p] > 0 =>
                 \E t \in 1..Len(task) : task[t].key = OriginKey(queue[p], p)
          /\ queue[p].kind = "task" /\ uses[p] > 0 => <<"callback", p>> \in used

-----------------------------------------------------------------------------
\* Orders: the newest of some rows, and a row that comes to the front.

LEMMA LeastIndex ==
    ASSUME NEW T, T \subseteq Nat, T # {}
    PROVE  \E i \in T : \A j \in T : ~(j < i)
<1>. DEFINE R == OpToRel(<, Nat)
<1>1. IsWellFoundedOn(R, Nat)
    BY NatLessThanWellFounded
<1>2. \A j, i \in Nat : j < i => <<j, i>> \in R
    BY DEF OpToRel
<1>. HIDE DEF R
<1>3. \E i \in T : \A j \in T : <<j, i>> \notin R
    BY <1>1, WFMin
<1>. QED  BY <1>2, <1>3

LEMMA NewestType ==
    ASSUME NEW S, NEW order \in Seq(S), NEW T, NEW x \in T, x \in ToSet(order)
    PROVE  Newest(order, T) \in T /\ Newest(order, T) \in ToSet(order)
<1>. DEFINE At == {i \in 1..Len(order) : order[i] \in T}
<1>1. At \subseteq Nat /\ At # {}
    BY DEF ToSet
<1>2. PICK i \in At : \A j \in At : ~(j < i)
    BY <1>1, LeastIndex
<1>3. i \in 1..Len(order) /\ order[i] \in T /\ \A j \in 1..(i - 1) : order[j] \notin T
    BY <1>2
<1>. DEFINE First(k) == order[k] \in T /\ \A j \in 1..(k - 1) : order[j] \notin T
            first == CHOOSE k \in 1..Len(order) : First(k)
<1>4. first \in 1..Len(order) /\ First(first)
    BY <1>3
<1>5. Newest(order, T) = order[first]
    BY DEF Newest
<1>. HIDE DEF first
<1>. QED  BY <1>4, <1>5 DEF ToSet

LEMMA ToSetFacts ==
    ASSUME NEW S, NEW order \in Seq(S)
    PROVE  /\ ToSet(order) \subseteq S
           /\ \A x : x \in ToSet(order) <=> \E i \in 1..Len(order) : order[i] = x
    BY DEF ToSet

LEMMA InFrontType ==
    ASSUME NEW S, NEW order \in Seq(S), NEW x \in S
    PROVE  /\ <<x>> \o order \in Seq(S)
           /\ x \in ToSet(<<x>> \o order)
           /\ ToSet(order) \subseteq ToSet(<<x>> \o order)
<1>. DEFINE new == <<x>> \o order
<1>1. new \in Seq(S) /\ Len(new) = Len(order) + 1 /\ new[1] = x
    OBVIOUS
<1>2. ASSUME NEW i \in 1..Len(order) PROVE new[i + 1] = order[i]
    OBVIOUS
<1>. HIDE DEF new
<1>3. x \in ToSet(new)
    BY <1>1, ToSetFacts
<1>4. ASSUME NEW y \in ToSet(order) PROVE y \in ToSet(new)
  <2>1. PICK i \in 1..Len(order) : order[i] = y
      BY ToSetFacts
  <2>2. i + 1 \in 1..Len(new) /\ new[i + 1] = y
      BY <1>1, <1>2, <2>1
  <2>. QED  BY <1>1, <2>2, ToSetFacts
<1>. QED  BY <1>1, <1>3, <1>4 DEF new

LEMMA ConcatFacts ==
    ASSUME NEW S, NEW a \in Seq(S), NEW b \in Seq(S)
    PROVE  /\ a \o b \in Seq(S) /\ Len(a \o b) = Len(a) + Len(b)
           /\ \A i \in 1..Len(a) : (a \o b)[i] = a[i]
           /\ \A i \in 1..Len(b) : (a \o b)[i + Len(a)] = b[i]
    BY ConcatProperties

LEMMA ToFrontType ==
    ASSUME NEW S, NEW order \in Seq(S), NEW x \in ToSet(order)
    PROVE  /\ ToFront(order, x) \in Seq(S)
           /\ ToSet(order) \subseteq ToSet(ToFront(order, x))
<1>. DEFINE k == CHOOSE i \in 1..Len(order) : order[i] = x
            new == ToFront(order, x)
<1>1. k \in 1..Len(order) /\ order[k] = x /\ x \in S
    BY ToSetFacts
<1>2. new = <<x>> \o RemoveAt(order, k)
    BY DEF ToFront
<1>. HIDE DEF k, new
<1>3. /\ new \in Seq(S) /\ Len(new) = Len(order) /\ new[1] = x
      /\ \A i \in 1..(k - 1) : new[i + 1] = order[i]
      /\ \A i \in (k + 1)..Len(order) : new[i] = order[i]
  <2>. DEFINE a == SubSeq(order, 1, k - 1)
              b == SubSeq(order, k + 1, Len(order))
  <2>1. a \in Seq(S) /\ Len(a) = k - 1 /\ \A i \in 1..(k - 1) : a[i] = order[i]
      BY <1>1
  <2>2. /\ b \in Seq(S) /\ Len(b) = Len(order) - k
        /\ \A i \in 1..(Len(order) - k) : b[i] = order[i + k]
      BY <1>1
  <2>3. new = <<x>> \o (a \o b)
      BY <1>2 DEF RemoveAt
  <2>. HIDE DEF a, b
  <2>4. /\ a \o b \in Seq(S) /\ Len(a \o b) = Len(order) - 1
        /\ \A i \in 1..(k - 1) : (a \o b)[i] = a[i]
        /\ \A i \in 1..(Len(order) - k) : (a \o b)[i + Len(a)] = b[i]
    <3>1. Len(a) + Len(b) = Len(order) - 1
        BY <1>1, <2>1, <2>2
    <3>. QED  BY <2>1, <2>2, <3>1, ConcatFacts
  <2>. DEFINE ab == a \o b
  <2>. HIDE DEF ab
  <2>5. /\ new \in Seq(S) /\ Len(new) = Len(order) /\ new[1] = x
        /\ \A i \in 1..(Len(order) - 1) : new[i + 1] = ab[i]
      BY <1>1, <2>3, <2>4 DEF ab
  <2>6. ASSUME NEW i \in 1..(k - 1) PROVE new[i + 1] = order[i]
    <3>1. i \in 1..(Len(order) - 1)
        BY <1>1
    <3>2. ab[i] = a[i] /\ a[i] = order[i]
        BY <2>1, <2>4 DEF ab
    <3>. QED  BY <2>5, <3>1, <3>2
  <2>7. ASSUME NEW i \in (k + 1)..Len(order) PROVE new[i] = order[i]
    <3>1. PICK j \in 1..(Len(order) - k) : i = j + k
      <4>1. i - k \in 1..(Len(order) - k) /\ i = (i - k) + k
          BY <1>1
      <4>. QED  BY <4>1
    <3>2. j + (k - 1) \in 1..(Len(order) - 1) /\ (j + (k - 1)) + 1 = i
        BY <1>1, <3>1
    <3>3. new[i] = ab[j + (k - 1)]
        BY <2>5, <3>2
    <3>4. ab[j + (k - 1)] = b[j]
        BY <2>1, <2>4 DEF ab
    <3>. QED  BY <2>2, <3>1, <3>3, <3>4
  <2>. QED  BY <2>5, <2>6, <2>7
<1>4. ASSUME NEW y \in ToSet(order) PROVE y \in ToSet(new)
  <2>1. PICK i \in 1..Len(order) : order[i] = y
      BY ToSetFacts
  <2>2. CASE i < k
    <3>1. i + 1 \in 1..Len(new) /\ new[i + 1] = y
        BY <1>1, <1>3, <2>1, <2>2
    <3>. QED  BY <1>3, <3>1, ToSetFacts
  <2>3. CASE i = k
    <3>1. 1 \in 1..Len(new) /\ new[1] = y
        BY <1>1, <1>3, <2>1, <2>3
    <3>. QED  BY <1>3, <3>1, ToSetFacts
  <2>4. CASE i > k
    <3>1. i \in 1..Len(new) /\ new[i] = y
        BY <1>1, <1>3, <2>1, <2>4
    <3>. QED  BY <1>3, <3>1, ToSetFacts
  <2>. QED  BY <1>1, <2>1, <2>2, <2>3, <2>4
<1>. QED  BY <1>3, <1>4 DEF new

-----------------------------------------------------------------------------
\* Updates and cards.

LEMMA Names ==
    /\ Mail \in Source /\ Mail \notin Position /\ Mail # None
    /\ None \notin Source /\ Position \subseteq Source /\ NoTask # None
    /\ MaxUpdates \in Nat
    BY ConstantsAssumption DEF Source, Position, NoTask

LEMMA UpdateKinds ==
    ASSUME NEW u \in Update
    PROVE  /\ u.kind \in {"text", "new", "candidate", "task"}
           /\ u.kind = "candidate" => /\ u.card \in CandidateCard
                                      /\ u.action \in CandidateActions
           /\ u.kind = "task" => u.card \in TaskCard /\ u.action \in TaskActions
    BY DEF Update

LEMMA CardsApart ==
    ASSUME NEW c \in TaskCard
    PROVE  c \notin CandidateCard
<1>1. DOMAIN c = {"task", "version"}
    BY DEF TaskCard
<1>2. ASSUME c \in CandidateCard PROVE DOMAIN c = {"source", "shows"}
    BY <1>2 DEF CandidateCard
<1>. QED  BY <1>1, <1>2

\* The update in hand.
LEMMA InHand ==
    ASSUME TypeInv, Handling
    PROVE  /\ at \in 1..Len(queue) /\ at \in Position /\ at \in Source
           /\ Press \in Update /\ at # None
<1>1. at \in 1..Len(queue) /\ Len(queue) <= MaxUpdates
    BY DEF TypeInv, TypeOK, PollFits
<1>2. at \in Position
    BY <1>1, Names DEF Position, TypeInv, TypeOK
<1>3. queue[at] \in Update
    BY <1>1 DEF TypeInv, TypeOK
<1>. QED  BY <1>1, <1>2, <1>3, Names DEF Press

\* The step tells the kind of the update.
LEMMA StepKinds ==
    ASSUME TypeInv, Handling
    PROVE  /\ pc \in {"text", "clear", "parse", "store", "save", "show", "notify"} =>
                  Press.kind = "text"
           /\ pc = "new" => Press.kind = "new"
           /\ pc = "answer" => Press.kind \in {"text", "new"}
           /\ pc \in {"candidate", "create", "confirm", "edit", "ignore"} =>
                  Press.kind = "candidate"
           /\ pc = "task" => Press.kind = "task"
           /\ pc \in {"ack", "redraw"} => Press.kind \in {"candidate", "task"}
<1>1. pc \in StepsOf(Press.kind)
    BY DEF TypeInv, HandFits, Press
<1>2. Press.kind \in {"text", "new", "candidate", "task"}
    BY InHand, UpdateKinds
<1>3. CASE Press.kind = "text"
    BY <1>1, <1>3 DEF StepsOf
<1>4. CASE Press.kind = "new"
    BY <1>1, <1>4 DEF StepsOf
<1>5. CASE Press.kind = "candidate"
    BY <1>1, <1>5 DEF StepsOf
<1>6. CASE Press.kind = "task"
    BY <1>1, <1>6 DEF StepsOf
<1>. QED  BY <1>2, <1>3, <1>4, <1>5, <1>6

\* The rows behind the card the owner has pressed.
LEMMA PressedCard ==
    ASSUME TypeInv, Handling
    PROVE  /\ Press.kind = "candidate" =>
                  /\ Press.card.source \in Source /\ Press.card.shows \in Source
                  /\ source[Press.card.source] # None
                  /\ Press.action \in {"create", "edit", "ignore"}
           /\ Press.kind = "task" =>
                  /\ Press.card.task \in 1..Len(task)
                  /\ Press.action \in EditField \cup {"done"}
<1>1. CASE Press.kind = "candidate"
  <2>1. Press.card \in CandidateCard /\ Press.action \in CandidateActions
      BY <1>1, InHand, UpdateKinds
  <2>2. source[Press.card.source] # None
      BY <1>1, InHand DEF TypeInv, CardsExist, Press
  <2>. QED  BY <1>1, <2>1, <2>2, ConstantsAssumption DEF CandidateCard
<1>2. CASE Press.kind = "task"
  <2>1. Press.action \in TaskActions
      BY <1>2, InHand, UpdateKinds
  <2>2. Press.card.task \in 1..Len(task)
      BY <1>2, InHand DEF TypeInv, CardsExist, Press
  <2>. QED  BY <1>2, <2>1, <2>2, ConstantsAssumption
<1>. QED  BY <1>1, <1>2

-----------------------------------------------------------------------------
\* The operations of the task service.

LEMMA SeqOfMore ==
    ASSUME NEW S, NEW T, S \subseteq T, NEW s \in Seq(S)
    PROVE  s \in Seq(T)
    OBVIOUS

LEMMA TaskOfType ==
    ASSUME task \in Seq(TaskRow), NEW k
    PROVE  IF \E t \in 1..Len(task) : task[t].key = k
           THEN TaskOf(k) \in 1..Len(task) /\ task[TaskOf(k)].key = k
           ELSE TaskOf(k) = Len(task) + 1
    BY DEF TaskOf

LEMMA CreateTaskMoves ==
    ASSUME TypeInv, Handling, NEW k \in OperationKey,
           NEW from \in Source \cup {None}, NEW content \in Source,
           CreateTask(k, from, content)
    PROVE  /\ hand' \in Hand
           /\ hand'.source = hand.source /\ hand'.row = hand.row
           /\ hand'.record = hand.record
           /\ hand'.task \in 1..Len(task') /\ task'[hand'.task].key = k
           /\ task' \in Seq(TaskRow) /\ Len(task) <= Len(task')
           /\ \A t \in 1..Len(task) : task'[t] = task[t]
           /\ touched' \in Seq(1..Len(task'))
           /\ \A t \in 1..Len(task') : t \in ToSet(touched')
           /\ used' \subseteq OperationKey /\ used \subseteq used'
           /\ uses' \in [Position -> Nat]
           /\ \/ UNCHANGED <<task, touched, used, uses>>
              \/ /\ \A t \in 1..Len(task) : task[t].key # k
                 /\ Len(task') = Len(task) + 1
                 /\ task'[Len(task) + 1].key = k
                 /\ task'[Len(task) + 1].source = from
                 /\ uses' = [uses EXCEPT ![at] = @ + 1]
<1>. DEFINE n == Len(task) + 1
            new == [key |-> k, source |-> from, content |-> content, status |-> "NEW",
                    version |-> 1, awaiting |-> None]
<1>1. /\ task \in Seq(TaskRow) /\ touched \in Seq(1..Len(task)) /\ hand \in Hand
      /\ used \subseteq OperationKey /\ uses \in [Position -> Nat] /\ at \in Position
      /\ \A t \in 1..Len(task) : t \in ToSet(touched)
      /\ Len(task) \in Nat
    BY InHand DEF TypeInv, TypeOK, RowsOrdered
<1>2. hand' = [hand EXCEPT !.task = TaskOf(k)]
    BY DEF CreateTask
<1>3. TaskOf(k) \in Nat
    BY <1>1, TaskOfType
<1>4. /\ hand' \in Hand /\ hand'.source = hand.source /\ hand'.row = hand.row
      /\ hand'.record = hand.record /\ hand'.task = TaskOf(k)
    BY <1>1, <1>2, <1>3 DEF Hand
<1>5. CASE TaskOf(k) <= Len(task)
  <2>1. UNCHANGED <<task, touched, used, uses>>
      BY <1>5 DEF CreateTask
  <2>2. TaskOf(k) \in 1..Len(task) /\ task[TaskOf(k)].key = k
      BY <1>1, <1>5, TaskOfType
  <2>. QED  BY <1>1, <1>4, <2>1, <2>2
<1>6. CASE ~(TaskOf(k) <= Len(task))
  <2>1. /\ task' = Append(task, new) /\ touched' = <<n>> \o touched
        /\ used' = used \cup {k} /\ uses' = [uses EXCEPT ![at] = @ + 1]
      BY <1>6 DEF CreateTask, TakesEffect
  <2>2. TaskOf(k) = n /\ \A t \in 1..Len(task) : task[t].key # k
      BY <1>1, <1>6, TaskOfType
  <2>3. new \in TaskRow /\ new.key = k /\ new.source = from
      BY DEF TaskRow
  <2>. HIDE DEF new
  <2>4. /\ task' \in Seq(TaskRow) /\ Len(task') = n /\ task'[n] = new
        /\ \A t \in 1..Len(task) : task'[t] = task[t]
      BY <1>1, <2>1, <2>3
  <2>5. n \in 1..n /\ 1..Len(task) \subseteq 1..n
      BY <1>1
  <2>6. touched \in Seq(1..n)
    <3>1. ASSUME NEW S, S = 1..n PROVE touched \in Seq(S)
        BY <1>1, <2>5, <3>1, SeqOfMore
    <3>. QED  BY <3>1
  <2>7. /\ touched' \in Seq(1..n) /\ n \in ToSet(touched')
        /\ ToSet(touched) \subseteq ToSet(touched')
      BY <2>1, <2>5, <2>6, InFrontType
  <2>8. ASSUME NEW t \in 1..n PROVE t \in ToSet(touched')
    <3>1. t \in 1..Len(task) \/ t = n
        BY <1>1
    <3>. QED  BY <1>1, <2>7, <3>1
  <2>9. uses' \in [Position -> Nat] /\ used' \subseteq OperationKey
      BY <1>1, <2>1
  <2>10. /\ hand'.task = n /\ n \in 1..Len(task') /\ task'[n].key = k
         /\ task'[n].source = from /\ Len(task) <= Len(task')
      BY <1>1, <1>4, <2>2, <2>3, <2>4, <2>5
  <2>. HIDE DEF n
  <2>. QED  BY <1>1, <1>4, <2>1, <2>2, <2>4, <2>7, <2>8, <2>9, <2>10 DEF n
<1>. QED  BY <1>5, <1>6

\* A change of an existing task.
LEMMA TaskExceptType ==
    ASSUME TypeInv, NEW t \in 1..Len(task), NEW row \in TaskRow,
           row.key = task[t].key, row.source = task[t].source,
           task' = [task EXCEPT ![t] = row], touched' = ToFront(touched, t)
    PROVE  /\ task' \in Seq(TaskRow) /\ Len(task') = Len(task)
           /\ \A u \in 1..Len(task) : task'[u].key = task[u].key
                                      /\ task'[u].source = task[u].source
           /\ touched' \in Seq(1..Len(task'))
           /\ \A u \in 1..Len(task') : u \in ToSet(touched')
<1>1. /\ task \in Seq(TaskRow) /\ touched \in Seq(1..Len(task))
      /\ \A u \in 1..Len(task) : u \in ToSet(touched)
    BY DEF TypeInv, TypeOK, RowsOrdered
<1>2. /\ task' \in Seq(TaskRow) /\ Len(task') = Len(task)
      /\ \A u \in 1..Len(task) : task'[u] = IF u = t THEN row ELSE task[u]
    BY <1>1
<1>3. /\ touched' \in Seq(1..Len(task))
      /\ ToSet(touched) \subseteq ToSet(touched')
    BY <1>1, ToFrontType
<1>. QED  BY <1>1, <1>2, <1>3

LEMMA ChangeTaskMoves ==
    ASSUME TypeInv, Handling, NEW k \in OperationKey, NEW t \in 1..Len(task),
           NEW status \in {"NEW", "DONE", "CANCELLED"}, ChangeTask(k, t, status)
    PROVE  /\ hand' \in Hand
           /\ hand'.source = hand.source /\ hand'.row = hand.row
           /\ hand'.record = hand.record /\ hand'.task = t
           /\ task' \in Seq(TaskRow) /\ Len(task') = Len(task)
           /\ \A u \in 1..Len(task) : task'[u].key = task[u].key
                                      /\ task'[u].source = task[u].source
           /\ touched' \in Seq(1..Len(task'))
           /\ \A u \in 1..Len(task') : u \in ToSet(touched')
           /\ used' \subseteq OperationKey /\ used \subseteq used'
           /\ uses' \in [Position -> Nat]
           /\ \/ UNCHANGED uses
              \/ /\ k \notin used /\ k \in used'
                 /\ uses' = [uses EXCEPT ![at] = @ + 1]
<1>1. /\ task \in Seq(TaskRow) /\ touched \in Seq(1..Len(task)) /\ hand \in Hand
      /\ used \subseteq OperationKey /\ uses \in [Position -> Nat] /\ at \in Position
      /\ \A u \in 1..Len(task) : u \in ToSet(touched)
    BY InHand DEF TypeInv, TypeOK, RowsOrdered
<1>2. hand' = [hand EXCEPT !.task = t, !.redraw = TRUE]
    BY DEF ChangeTask
<1>3. /\ hand' \in Hand /\ hand'.source = hand.source /\ hand'.row = hand.row
      /\ hand'.record = hand.record /\ hand'.task = t
  <2>1. t \in Nat
      BY <1>1
  <2>. QED  BY <1>1, <1>2, <2>1 DEF Hand
<1>4. CASE k \in used
    BY <1>1, <1>3, <1>4 DEF ChangeTask
<1>5. CASE k \notin used
  <2>. DEFINE v == task[t].version + 1
              row == [task[t] EXCEPT !.status = status, !.version = v]
  <2>1. /\ task' = [task EXCEPT ![t].status = status, ![t].version = @ + 1]
        /\ touched' = ToFront(touched, t)
        /\ used' = used \cup {k} /\ uses' = [uses EXCEPT ![at] = @ + 1]
      BY <1>5 DEF ChangeTask, TakesEffect
  <2>2. task[t] \in TaskRow
      BY <1>1
  <2>3. row \in TaskRow /\ row.key = task[t].key /\ row.source = task[t].source
    <3>1. v \in Nat
        BY <2>2 DEF TaskRow
    <3>. HIDE DEF v
    <3>. QED  BY <2>2, <3>1 DEF TaskRow
  <2>4. task' = [task EXCEPT ![t] = row]
      BY <1>1, <2>1, <2>2 DEF TaskRow
  <2>. HIDE DEF row
  <2>5. /\ task' \in Seq(TaskRow) /\ Len(task') = Len(task)
        /\ \A u \in 1..Len(task) : task'[u].key = task[u].key
                                   /\ task'[u].source = task[u].source
        /\ touched' \in Seq(1..Len(task'))
        /\ \A u \in 1..Len(task') : u \in ToSet(touched')
      BY <2>1, <2>3, <2>4, TaskExceptType
  <2>. QED  BY <1>1, <1>3, <1>5, <2>1, <2>5
<1>. QED  BY <1>4, <1>5

-----------------------------------------------------------------------------
\* What the steps of a handler leave as it is.

\* The handler goes on with its next step.
LEMMA KeepsPolling ==
    ASSUME TypeInv, Handling, Handling',
           UNCHANGED <<queue, forgotten, offset, at, upto>>
    PROVE  PollFits'
    BY DEF TypeInv, PollFits, Passed, Handling

LEMMA FinishPolling ==
    ASSUME TypeInv, Handling, Finish, UNCHANGED <<queue, forgotten>>
    PROVE  PollFits' /\ ~Handling' /\ Passed' = Passed
    BY DEF TypeInv, PollFits, Passed, Handling, Finish, Goto, poll

LEMMA RaisePolling ==
    ASSUME TypeInv, Handling, Raise, UNCHANGED <<queue, forgotten>>
    PROVE  PollFits' /\ ~Handling' /\ Passed' = Passed
    BY DEF TypeInv, TypeOK, PollFits, Passed, Handling, Raise, LeaveBatch, Goto

LEMMA NoHandFits ==
    ASSUME hand' = NoHand, ~Handling', task' \in Seq(TaskRow)
    PROVE  HandFits'
<1>1. hand'.task = 0 /\ Len(task') \in Nat
    BY DEF NoHand, NoTask
<1>2. pc' \in {"poll", "next"}
    BY DEF Handling
<1>. QED  BY <1>1, <1>2 DEF HandFits, Handling, Deciding

LEMMA NoHandType == NoHand \in Hand
    BY DEF NoHand, Hand, NoTask

LEMMA SameCards ==
    ASSUME TypeInv, UNCHANGED <<queue, cards>>, Len(task') \in Nat,
           \A s \in Source : source[s] # None => source'[s] # None,
           Len(task) <= Len(task')
    PROVE  CardsExist'
<1>1. cards \subseteq Card /\ Len(task) \in Nat /\ queue \in Seq(Update)
    BY DEF TypeInv, TypeOK
<1>2. ASSUME NEW c \in cards
      PROVE  IF c \in CandidateCard THEN source'[c.source] # None
             ELSE c.task \in 1..Len(task')
  <2>1. IF c \in CandidateCard THEN source[c.source] # None ELSE c.task \in 1..Len(task)
      BY DEF TypeInv, CardsExist
  <2>. QED  BY <1>1, <2>1 DEF CandidateCard
<1>3. ASSUME NEW p \in 1..Len(queue)
      PROVE  /\ queue[p].kind = "candidate" => source'[queue[p].card.source] # None
             /\ queue[p].kind = "task" => queue[p].card.task \in 1..Len(task')
  <2>1. /\ queue[p].kind = "candidate" => source[queue[p].card.source] # None
        /\ queue[p].kind = "task" => queue[p].card.task \in 1..Len(task)
      BY DEF TypeInv, CardsExist
  <2>2. queue[p].kind = "candidate" => queue[p].card.source \in Source
    <3>1. queue[p] \in Update
        BY <1>1
    <3>. QED  BY <3>1, UpdateKinds DEF CandidateCard
  <2>. QED  BY <1>1, <2>1, <2>2
<1>. QED  BY <1>2, <1>3 DEF CardsExist

\* A card of a candidate or a task that exists comes into the chat.
LEMMA MoreCards ==
    ASSUME TypeInv, UNCHANGED <<queue, source, task>>,
           NEW c, cards' \subseteq cards \cup {c},
           \/ c \in CandidateCard /\ source[c.source] # None
           \/ c \in TaskCard /\ c.task \in 1..Len(task)
    PROVE  cards' \subseteq Card /\ CardsExist'
<1>1. CardsExist /\ cards \subseteq Card
    BY DEF TypeInv, TypeOK
<1>2. c \in Card
    BY DEF Card
<1>3. ASSUME NEW d \in cards'
      PROVE  IF d \in CandidateCard THEN source[d.source] # None
             ELSE d.task \in 1..Len(task)
    BY <1>1, <1>3, CardsApart DEF CardsExist
<1>. QED  BY <1>1, <1>2, <1>3 DEF CardsExist

LEMMA TaskCardType ==
    ASSUME TypeInv, NEW t \in 1..Len(task)
    PROVE  TaskCardOf(t) \in TaskCard /\ TaskCardOf(t).task = t
<1>1. task[t] \in TaskRow /\ t \in Nat
    BY DEF TypeInv, TypeOK
<1>. QED  BY <1>1 DEF TaskCardOf, TaskCard, TaskRow

LEMMA SameRows ==
    ASSUME TypeInv, UNCHANGED <<source, created, record, task, touched>>
    PROVE  RowsOrdered' /\ RowsFit'
    BY DEF TypeInv, RowsOrdered, RowsFit

\* No decision about the mail begins.
LEMMA SameMail ==
    ASSUME TypeInv, UNCHANGED mail, source'[Mail] = source[Mail],
           \A t \in 1..Len(task') : mail # "over" => task'[t].source # Mail,
           hand' = NoHand
           \/ /\ hand'.source = hand.source /\ hand'.row = hand.row
              /\ hand.source = Mail => pc' \in Deciding \cup {"ack", "redraw"}
           \/ /\ hand'.source = hand.source /\ hand'.row = hand.row
              /\ mail = "over"
    PROVE  MailFits'
<1>1. NoHand.source # Mail
    BY Names DEF NoHand
<1>. QED  BY <1>1 DEF TypeInv, MailFits

LEMMA SpendFacts ==
    ASSUME TypeInv, NEW e \in Outside, Spend(e)
    PROVE  /\ budget' \in [limit : Budgets, left : [Outside -> Nat]]
           /\ budget'.limit = budget.limit
           /\ budget.left[e] \in Nat \ {0} /\ budget'.left[e] = budget.left[e] - 1
           /\ \A f \in Outside \ {e} : budget'.left[f] = budget.left[f]
<1>1. /\ budget \in [limit : Budgets, left : [Outside -> Nat]]
      /\ budget.left[e] > 0 /\ budget' = [budget EXCEPT !.left[e] = @ - 1]
    BY DEF TypeInv, TypeOK, Spend
<1>2. /\ budget'.limit = budget.limit
      /\ budget'.left = [budget.left EXCEPT ![e] = @ - 1]
      /\ budget' \in [limit : Budgets, left : [Outside -> Int]]
    BY <1>1
<1>3. budget'.left[e] = budget.left[e] - 1 /\ budget.left[e] \in Nat \ {0}
    BY <1>1, <1>2
<1>4. \A f \in Outside \ {e} : budget'.left[f] = budget.left[f]
    BY <1>1, <1>2
<1>5. budget'.left \in [Outside -> Nat]
    BY <1>1, <1>2, <1>3, <1>4
<1>6. budget' = [limit |-> budget'.limit, left |-> budget'.left]
    BY <1>2
<1>. QED  BY <1>1, <1>2, <1>3, <1>4, <1>5, <1>6

LEMMA StepSets ==
    /\ StepsOf("text") = {"text", "clear", "parse", "store", "save", "show", "notify",
                          "answer"}
    /\ StepsOf("new") = {"new", "answer"}
    /\ StepsOf("candidate") = {"candidate", "create", "confirm", "edit", "ignore",
                               "ack", "redraw"}
    /\ StepsOf("task") = {"task", "ack", "redraw"}
    BY DEF StepsOf

-----------------------------------------------------------------------------
\* Steps that leave the database alone keep the types.

LEMMA TypeInit == Init => TypeInv
<1>. SUFFICES ASSUME Init PROVE TypeInv
    OBVIOUS
<1>1. TypeOK
    BY ConstantsAssumption, Names, NoHandType DEF Init, TypeOK, PC, Outside
<1>2. PollFits
    BY DEF Init, PollFits, Handling, Passed
<1>3. HandFits
    BY DEF Init, HandFits, Handling, NoHand, NoTask, Deciding
<1>4. CardsExist /\ RowsOrdered /\ RowsFit
    BY DEF Init, CardsExist, RowsOrdered, RowsFit
<1>5. MailFits
    BY Names DEF Init, MailFits, NoHand
<1>. QED  BY <1>1, <1>2, <1>3, <1>4, <1>5 DEF TypeInv

LEMMA ParseTypes ==
    ASSUME TypeInv, ParseMessage
    PROVE  TypeInv'
<1>. USE DEF ParseMessage, telegram, db, poll, history, Goto
<1>1. Handling /\ Handling'
    BY DEF Handling
<1>2. TypeOK'
    BY DEF TypeInv, TypeOK, PC
<1>3. PollFits'
    BY <1>1, KeepsPolling
<1>4. HandFits'
    BY <1>1, StepKinds, StepSets DEF TypeInv, HandFits, Handling, Press, Deciding
<1>5. CardsExist'
    BY SameCards DEF TypeInv, TypeOK
<1>6. MailFits'
    BY SameMail DEF TypeInv, MailFits, Deciding
<1>. QED  BY <1>2, <1>3, <1>4, <1>5, <1>6, SameRows DEF TypeInv

LEMMA LoadCandidateTypes ==
    ASSUME TypeInv, LoadCandidate
    PROVE  TypeInv'
<1>. USE DEF LoadCandidate, telegram, db, poll, history, Goto
<1>. DEFINE s == Press.card.source
<1>1. Handling /\ Handling' /\ Press.kind = "candidate"
    BY StepKinds, PressedCard DEF Handling
<1>2. /\ s \in Source /\ source[s] \in SourceRow /\ source[s] # None
      /\ record[s] \in Record \cup {None}
      /\ Press.action \in {"create", "edit", "ignore"}
    BY <1>1, PressedCard DEF TypeInv, TypeOK
<1>. HIDE DEF s
<1>3. \/ /\ pc' = "ack" /\ hand' = hand
      \/ /\ pc' = Press.action
         /\ pc' = "create" => source[s].candidate # None
         /\ hand' = [hand EXCEPT !.source = s, !.row = source[s],
                                 !.record = record[s], !.redraw = TRUE]
    BY DEF s
<1>4. hand \in Hand
    BY DEF TypeInv, TypeOK
<1>5. \/ /\ pc' = "ack" /\ hand' = hand
      \/ /\ pc' = Press.action
         /\ pc' = "create" => source[s].candidate # None
         /\ hand' \in Hand /\ hand'.source = s /\ hand'.row = source[s]
         /\ hand'.record = record[s] /\ hand'.task = hand.task
    BY <1>2, <1>3, <1>4 DEF Hand
<1>6. TypeOK'
    BY <1>2, <1>4, <1>5 DEF TypeInv, TypeOK, PC
<1>7. PollFits'
    BY <1>1, KeepsPolling
<1>8. HandFits'
  <2>1. record[s] # None \/ source[s].candidate = None
      BY <1>2 DEF TypeInv, RowsFit
  <2>. QED  BY <1>1, <1>2, <1>5, <2>1, Names, StepSets
            DEF TypeInv, HandFits, Handling, Press, Deciding, s
<1>9. CardsExist'
    BY SameCards DEF TypeInv, TypeOK
<1>10. MailFits'
    BY <1>2, <1>5 DEF TypeInv, MailFits, Deciding
<1>. QED  BY <1>6, <1>7, <1>8, <1>9, <1>10, SameRows DEF TypeInv

LEMMA AnswerCallbackTypes ==
    ASSUME TypeInv, AnswerCallback
    PROVE  TypeInv'
<1>. USE DEF AnswerCallback, telegram, db, poll
<1>1. Handling /\ UNCHANGED mail
    BY DEF Handling
<1>2. told' \subseteq Source
  <2>1. Press.kind = "candidate" => Press.card.shows \in Source
      BY <1>1, PressedCard
  <2>. QED  BY <2>1 DEF TypeInv, TypeOK
<1>3. CardsExist'
    BY SameCards DEF TypeInv, TypeOK
<1>4. CASE hand.redraw
  <2>1. /\ pc' = "redraw" /\ Handling'
        /\ UNCHANGED <<offset, at, upto, hand, ended, failed>>
      BY <1>4 DEF Goto, Handling
  <2>2. TypeOK'
      BY <1>2, <2>1 DEF TypeInv, TypeOK, PC
  <2>3. PollFits'
      BY <1>1, <2>1, KeepsPolling
  <2>4. HandFits'
      BY <1>1, <2>1, StepKinds, StepSets DEF TypeInv, HandFits, Handling, Press, Deciding
  <2>5. MailFits'
      BY <2>1, SameMail DEF TypeInv, MailFits
  <2>. QED  BY <1>3, <2>2, <2>3, <2>4, <2>5, SameRows DEF TypeInv
<1>5. CASE ~hand.redraw
  <2>1. Finish
      BY <1>5
  <2>2. PollFits' /\ ~Handling'
      BY <1>1, <2>1, FinishPolling
  <2>3. TypeOK'
      BY <1>1, <1>2, <2>1, InHand, NoHandType DEF TypeInv, TypeOK, PC, Finish, Goto
  <2>4. HandFits'
      BY <2>1, <2>2, NoHandFits DEF TypeInv, TypeOK, Finish
  <2>5. MailFits'
      BY <2>1, SameMail DEF TypeInv, MailFits, Finish
  <2>. QED  BY <1>3, <2>2, <2>3, <2>4, <2>5, SameRows DEF TypeInv
<1>. QED  BY <1>4, <1>5

LEMMA CardUpdateTypes ==
    ASSUME TypeInv, Handling, Finish,
           cards' \subseteq Card, CardsExist',
           UNCHANGED <<queue, forgotten, db, mail, budget, uses, told>>
    PROVE  TypeInv'
<1>. USE DEF db
<1>1. PollFits' /\ ~Handling'
    BY FinishPolling
<1>2. TypeOK'
    BY InHand, NoHandType DEF TypeInv, TypeOK, PC, Finish, Goto, poll
<1>3. HandFits'
    BY <1>1, NoHandFits DEF TypeInv, TypeOK, Finish
<1>4. MailFits'
    BY SameMail DEF TypeInv, MailFits, Finish
<1>. QED  BY <1>1, <1>2, <1>3, <1>4, SameRows DEF TypeInv

LEMMA AnswerTypes ==
    ASSUME TypeInv, Answer \/ Redraw
    PROVE  TypeInv'
<1>. USE DEF Answer, Redraw, db
<1>1. Handling /\ Finish /\ hand.task \in Nat /\ hand.task <= Len(task)
    BY DEF Handling, TypeInv, TypeOK, Hand, HandFits
<1>2. CASE hand.task = NoTask
  <2>1. cards' \subseteq cards
      BY <1>2
  <2>2. cards' \subseteq Card /\ CardsExist'
      BY <2>1 DEF TypeInv, TypeOK, CardsExist
  <2>. QED  BY <1>1, <2>2, CardUpdateTypes
<1>3. CASE hand.task # NoTask
  <2>1. hand.task \in 1..Len(task)
      BY <1>1, <1>3 DEF NoTask
  <2>2. cards' \subseteq cards \cup {TaskCardOf(hand.task)}
      BY <1>3
  <2>3. cards' \subseteq Card /\ CardsExist'
      BY <2>1, <2>2, TaskCardType, MoreCards
  <2>. QED  BY <1>1, <2>3, CardUpdateTypes
<1>. QED  BY <1>2, <1>3

LEMMA FailureTypes ==
    ASSUME TypeInv, Handling, Raise, Spend("failure"),
           cards' \subseteq Card, CardsExist', uses' \in [Position -> Nat],
           UNCHANGED <<queue, forgotten, db, mail, told>>
    PROVE  TypeInv'
<1>. USE DEF db
<1>1. PollFits' /\ ~Handling'
    BY RaisePolling
<1>2. budget' \in [limit : Budgets, left : [Outside -> Nat]]
    BY SpendFacts DEF Outside
<1>3. TypeOK'
    BY <1>2, InHand, NoHandType, Names
    DEF TypeInv, TypeOK, PC, Raise, LeaveBatch, Goto
<1>4. HandFits'
    BY <1>1, NoHandFits DEF TypeInv, TypeOK, Raise
<1>5. MailFits'
    BY SameMail DEF TypeInv, MailFits, Raise
<1>. QED  BY <1>1, <1>3, <1>4, <1>5, SameRows DEF TypeInv

LEMMA CallFailsTypes ==
    ASSUME TypeInv, CallFails
    PROVE  TypeInv'
<1>. USE DEF CallFails, telegram
<1>1. Handling
    BY DEF Handling
<1>2. cards' \subseteq Card /\ CardsExist' /\ uses' \in [Position -> Nat]
  <2>1. CardsExist'
      BY SameCards DEF TypeInv, TypeOK, db
  <2>. QED  BY <2>1 DEF TypeInv, TypeOK
<1>. QED  BY <1>1, <1>2, FailureTypes

LEMMA CrashTypes ==
    ASSUME TypeInv, Crash
    PROVE  TypeInv'
<1>. USE DEF Crash, telegram, db, history, LeaveBatch, Goto
<1>1. PollFits' /\ ~Handling'
    BY DEF TypeInv, TypeOK, PollFits, Passed, Handling
<1>2. budget' \in [limit : Budgets, left : [Outside -> Nat]]
    BY SpendFacts DEF Outside
<1>3. TypeOK'
    BY <1>2, NoHandType, Names DEF TypeInv, TypeOK, PC
<1>4. HandFits'
    BY <1>1, NoHandFits DEF TypeInv, TypeOK
<1>5. CardsExist'
    BY SameCards DEF TypeInv, TypeOK
<1>6. MailFits'
    BY SameMail DEF TypeInv, MailFits
<1>. QED  BY <1>1, <1>3, <1>4, <1>5, <1>6, SameRows DEF TypeInv

LEMMA GetUpdatesTypes ==
    ASSUME TypeInv, GetUpdates
    PROVE  TypeInv' /\ forgotten' = Passed /\ Passed' = Passed /\ ~Handling'
<1>. USE DEF GetUpdates, db, history, Goto
<1>1. /\ forgotten \in Nat /\ forgotten <= Len(queue) /\ Len(queue) \in Nat
      /\ Len(queue) <= MaxUpdates /\ MaxUpdates \in Nat
      /\ offset \in Nat /\ offset <= Len(queue) + 1 /\ hand = NoHand
    BY Names DEF TypeInv, TypeOK, PollFits, Handling
<1>2. /\ forgotten' = Passed /\ Passed' = Passed /\ forgotten' \in 0..Len(queue)
      /\ ~Handling'
    BY <1>1 DEF Passed, Handling
<1>3. PollFits'
    BY <1>1, <1>2 DEF PollFits, Handling
<1>4. TypeOK'
  <2>1. {offset', at', upto'} \subseteq 0..(MaxUpdates + 1)
      BY <1>1, <1>2
  <2>2. /\ pc' \in PC /\ forgotten' \in 0..Len(queue')
        /\ UNCHANGED <<queue, cards, source, created, record, task, touched, used,
                       hand, mail, budget, ended, failed, uses, told>>
      BY <1>2 DEF PC
  <2>3. TypeOK
      BY DEF TypeInv
  <2>. HIDE DEF GetUpdates
  <2>. QED  BY <2>1, <2>2, <2>3 DEF TypeOK
<1>5. HandFits'
    BY <1>1, <1>2, NoHandFits DEF TypeInv, TypeOK
<1>6. CardsExist'
    BY SameCards DEF TypeInv, TypeOK
<1>7. MailFits'
    BY <1>1, SameMail DEF TypeInv, MailFits
<1>. QED  BY <1>2, <1>3, <1>4, <1>5, <1>6, <1>7, SameRows DEF TypeInv

LEMMA NextUpdateTypes ==
    ASSUME TypeInv, NextUpdate
    PROVE  /\ TypeInv'
           /\ \/ Passed' = Passed /\ ~Handling'
              \/ Passed' = Passed + 1 /\ at' = Passed' /\ Handling'
                 /\ at' \in 1..Len(queue) /\ pc' = queue[at'].kind
<1>. USE DEF NextUpdate, telegram, db, history, Goto, LeaveBatch
<1>1. /\ forgotten \in Nat /\ forgotten <= Len(queue) /\ Len(queue) \in Nat
      /\ Len(queue) <= MaxUpdates /\ MaxUpdates \in Nat
      /\ offset \in Nat /\ offset <= Len(queue) + 1 /\ hand = NoHand
      /\ at \in Nat /\ upto \in Nat /\ at <= upto /\ upto <= Len(queue)
      /\ at = Passed
    BY Names DEF TypeInv, TypeOK, PollFits, Handling
<1>2. CardsExist'
    BY SameCards DEF TypeInv, TypeOK
<1>3. MailFits'
    BY <1>1, SameMail DEF TypeInv, MailFits
<1>4. CASE at = upto
  <2>1. pc' = "poll" /\ at' = 0 /\ upto' = 0 /\ UNCHANGED offset
      BY <1>1, <1>4
  <2>2. Passed' = Passed /\ ~Handling'
      BY <2>1 DEF Passed, Handling
  <2>3. PollFits'
      BY <1>1, <2>1, <2>2 DEF PollFits, Handling
  <2>4. TypeOK'
      BY <1>1, <2>1 DEF TypeInv, TypeOK, PC
  <2>5. HandFits'
      BY <1>1, <2>2, NoHandFits DEF TypeInv, TypeOK
  <2>. QED  BY <1>2, <1>3, <2>2, <2>3, <2>4, <2>5, SameRows DEF TypeInv
<1>5. CASE at # upto
  <2>1. /\ at' = at + 1 /\ offset' = at + 2 /\ pc' = queue[at + 1].kind
        /\ UNCHANGED upto /\ at < upto
      BY <1>1, <1>5 DEF OffsetAfter, Handler
  <2>2. at' \in 1..Len(queue) /\ queue[at'] \in Update /\ queue' = queue
      BY <1>1, <2>1 DEF TypeInv, TypeOK
  <2>3. pc' \in {"text", "new", "candidate", "task"} /\ pc' = queue[at'].kind
      BY <2>1, <2>2, UpdateKinds
  <2>4. Handling' /\ Passed' = Passed + 1 /\ at' = Passed'
      BY <1>1, <2>1, <2>3 DEF Handling, Passed
  <2>5. PollFits'
      BY <1>1, <2>1, <2>2, <2>3, <2>4 DEF PollFits, Handling, Passed
  <2>6. TypeOK'
      BY <1>1, <2>1, <2>3 DEF TypeInv, TypeOK, PC
  <2>7. pc' \in StepsOf(queue'[at'].kind)
      BY <2>2, <2>3, StepSets
  <2>8. HandFits'
      BY <1>1, <2>3, <2>7 DEF HandFits, TypeInv, Deciding
  <2>. QED  BY <1>2, <1>3, <2>2, <2>3, <2>4, <2>5, <2>6, <2>8, SameRows DEF TypeInv
<1>. QED  BY <1>4, <1>5

LEMMA ShowCandidateTypes ==
    ASSUME TypeInv, ShowCandidate
    PROVE  TypeInv'
<1>. USE DEF ShowCandidate, db
<1>. DEFINE c == [source |-> hand.source, shows |-> at]
<1>1. /\ Handling /\ at \in Position /\ at \in Source /\ UNCHANGED <<queue, forgotten>>
      /\ hand.source \in Source /\ source[hand.source] # None
    BY InHand, Names DEF Handling, TypeInv, TypeOK, HandFits, Hand
<1>2. c \in CandidateCard /\ c.source = hand.source
    BY <1>1 DEF CandidateCard
<1>. HIDE DEF c
<1>3. cards' \subseteq Card /\ CardsExist'
  <2>1. cards' \subseteq cards \cup {c}
      BY DEF c
  <2>. QED  BY <1>1, <1>2, <2>1, MoreCards
<1>4. uses' \in [Position -> Nat]
    BY <1>1 DEF TypeInv, TypeOK, TakesEffect
<1>5. CASE Goto("notify") /\ UNCHANGED <<poll, hand, budget, ended, failed>>
  <2>1. pc' = "notify" /\ Handling' /\ UNCHANGED <<offset, at, upto>>
      BY <1>5 DEF Goto, Handling, poll
  <2>2. TypeOK'
      BY <1>3, <1>4, <1>5, <2>1 DEF TypeInv, TypeOK, PC
  <2>3. PollFits'
      BY <1>1, <2>1, KeepsPolling
  <2>4. HandFits'
      BY <1>1, <1>5, <2>1, StepKinds, StepSets
      DEF TypeInv, HandFits, Handling, Press, Deciding
  <2>5. MailFits'
      BY <1>5, <2>1, SameMail DEF TypeInv, MailFits, Deciding
  <2>. QED  BY <1>3, <2>2, <2>3, <2>4, <2>5, SameRows DEF TypeInv
<1>6. CASE Spend("failure") /\ Raise
    BY <1>1, <1>3, <1>4, <1>6, FailureTypes
<1>. QED  BY <1>5, <1>6

\* What the owner sends.
LEMMA AppendFacts ==
    ASSUME NEW S, NEW s \in Seq(S), NEW x \in S
    PROVE  /\ Append(s, x) \in Seq(S) /\ Len(Append(s, x)) = Len(s) + 1
           /\ \A i \in 1..Len(s) : Append(s, x)[i] = s[i]
           /\ Append(s, x)[Len(s) + 1] = x
    OBVIOUS

\* A message or a button of a card in the chat.
Sends(u) ==
    /\ Send(u) /\ u \in Update
    /\ u.kind = "candidate" => u.card \in cards
    /\ u.kind = "task" => u.card \in cards

LEMMA OwnerSends ==
    ASSUME TypeInv, Type \/ PressButton
    PROVE  \E u : Sends(u)
<1>1. CASE Type
  <2>1. PICK m \in Messages : Send([kind |-> m])
      BY <1>1 DEF Type
  <2>2. [kind |-> m] \in Update /\ [kind |-> m].kind \in {"text", "new"}
      BY ConstantsAssumption DEF Update
  <2>. QED  BY <2>1, <2>2 DEF Sends
<1>2. CASE PressButton
  <2>1. PICK c \in cards :
            \/ /\ c \in CandidateCard
               /\ \E a \in CandidateActions :
                      Send([kind |-> "candidate", action |-> a, card |-> c])
            \/ /\ c \notin CandidateCard
               /\ \E a \in TaskActions :
                      Send([kind |-> "task", action |-> a, card |-> c])
      BY <1>2 DEF PressButton
  <2>2. c \in Card
      BY DEF TypeInv, TypeOK
  <2>3. CASE c \in CandidateCard
    <3>1. PICK a \in CandidateActions :
              Send([kind |-> "candidate", action |-> a, card |-> c])
        BY <2>1, <2>3
    <3>. DEFINE u == [kind |-> "candidate", action |-> a, card |-> c]
    <3>2. u \in Update /\ u.kind = "candidate" /\ u.card = c
        BY <2>3 DEF Update
    <3>. QED  BY <3>1, <3>2 DEF Sends
  <2>4. CASE c \notin CandidateCard
    <3>1. PICK a \in TaskActions : Send([kind |-> "task", action |-> a, card |-> c])
        BY <2>1, <2>4
    <3>. DEFINE u == [kind |-> "task", action |-> a, card |-> c]
    <3>2. u \in Update /\ u.kind = "task" /\ u.card = c
        BY <2>2, <2>4 DEF Update, Card
    <3>. QED  BY <3>1, <3>2 DEF Sends
  <2>. QED  BY <2>3, <2>4
<1>. QED  BY <1>1, <1>2

LEMMA SendsQueue ==
    ASSUME TypeInv, NEW u, Sends(u)
    PROVE  /\ queue' \in Seq(Update) /\ Len(queue') = Len(queue) + 1
           /\ Len(queue') <= MaxUpdates
           /\ \A p \in 1..Len(queue) : queue'[p] = queue[p]
           /\ queue'[Len(queue) + 1] = u
           /\ UNCHANGED <<forgotten, cards, source, created, record, task, touched,
                          used, pc, offset, at, upto, hand, mail, budget, ended,
                          failed, uses, told>>
<1>1. /\ queue \in Seq(Update) /\ Len(queue) \in Nat /\ MaxUpdates \in Nat
      /\ u \in Update /\ Len(queue) < MaxUpdates /\ queue' = Append(queue, u)
    BY Names DEF TypeInv, TypeOK, Sends, Send
<1>2. UNCHANGED <<forgotten, cards, source, created, record, task, touched,
                  used, pc, offset, at, upto, hand, mail, budget, ended,
                  failed, uses, told>>
    BY DEF Sends, Send, db, poll, history
<1>. QED  BY <1>1, <1>2, AppendFacts

LEMMA SendTypes ==
    ASSUME TypeInv, Type \/ PressButton
    PROVE  TypeInv'
<1>1. PICK u : Sends(u)
    BY OwnerSends
<1>2. /\ queue' \in Seq(Update) /\ Len(queue') = Len(queue) + 1
      /\ Len(queue') <= MaxUpdates
      /\ \A p \in 1..Len(queue) : queue'[p] = queue[p]
      /\ queue'[Len(queue) + 1] = u
      /\ UNCHANGED <<forgotten, cards, source, created, record, task, touched,
                     used, pc, offset, at, upto, hand, mail, budget, ended,
                     failed, uses, told>>
    BY <1>1, SendsQueue
<1>3. Len(queue) \in Nat
    BY DEF TypeInv, TypeOK
<1>4. TypeOK'
    BY <1>2, <1>3 DEF TypeInv, TypeOK
<1>5. PollFits'
    BY <1>2, <1>3 DEF TypeInv, TypeOK, PollFits, Handling, Passed
<1>6. HandFits'
  <2>1. Handling => queue'[at] = queue[at]
      BY <1>2, InHand
  <2>. QED  BY <1>2, <2>1 DEF TypeInv, HandFits, Handling, Press, Deciding
<1>7. CardsExist'
  <2>1. ASSUME NEW p \in 1..Len(queue')
        PROVE  /\ queue'[p].kind = "candidate" => source[queue'[p].card.source] # None
               /\ queue'[p].kind = "task" => queue'[p].card.task \in 1..Len(task)
    <3>1. CASE p \in 1..Len(queue)
        BY <1>2, <3>1 DEF TypeInv, CardsExist
    <3>2. CASE p = Len(queue) + 1
      <4>1. queue'[p] = u /\ u \in Update
          BY <1>1, <1>2, <3>2 DEF Sends
      <4>2. u.kind = "candidate" => u.card \in CandidateCard /\ u.card \in cards
          BY <1>1, <4>1, UpdateKinds DEF Sends
      <4>3. u.kind = "task" => u.card \notin CandidateCard /\ u.card \in cards
          BY <1>1, <4>1, UpdateKinds, CardsApart DEF Sends
      <4>. QED  BY <4>1, <4>2, <4>3 DEF TypeInv, CardsExist
    <3>. QED  BY <1>2, <1>3, <3>1, <3>2
  <2>. QED  BY <1>2, <2>1 DEF TypeInv, CardsExist
<1>8. MailFits'
    BY <1>2 DEF TypeInv, MailFits
<1>. QED  BY <1>2, <1>4, <1>5, <1>6, <1>7, <1>8, SameRows DEF TypeInv

LEMMA RollBackMailTypes ==
    ASSUME TypeInv, RollBackMail
    PROVE  TypeInv'
<1>. USE DEF RollBackMail, telegram, db, poll, history
<1>1. budget' \in [limit : Budgets, left : [Outside -> Nat]]
    BY SpendFacts DEF Outside
<1>2. TypeOK'
    BY <1>1 DEF TypeInv, TypeOK
<1>3. PollFits' /\ HandFits'
    BY DEF TypeInv, PollFits, HandFits, Handling, Passed, Press, Deciding
<1>4. CardsExist'
    BY SameCards DEF TypeInv, TypeOK
<1>5. MailFits'
    BY DEF TypeInv, MailFits
<1>. QED  BY <1>2, <1>3, <1>4, <1>5, SameRows DEF TypeInv

-----------------------------------------------------------------------------
\* Steps that create or change a task keep the types.

LEMMA TaskStepTypes ==
    ASSUME TypeInv, Handling, pc' \in StepsOf(Press.kind),
           \/ pc' \in {"answer", "clear"} /\ pc \in {"text", "clear", "new"}
           \/ pc' = "ack"
           \/ /\ pc = "create" /\ pc' = "confirm" /\ hand'.task # NoTask
              /\ task'[hand'.task].key = <<"candidate", hand.source>>,
           hand' \in Hand, hand'.source = hand.source, hand'.row = hand.row,
           hand'.record = hand.record, hand'.task <= Len(task'),
           pc' = "clear" => hand'.task # NoTask,
           task' \in Seq(TaskRow), Len(task) <= Len(task'),
           touched' \in Seq(1..Len(task')),
           \A t \in 1..Len(task') : t \in ToSet(touched'),
           mail # "over" => \A t \in 1..Len(task') : task'[t].source # Mail,
           used' \subseteq OperationKey, uses' \in [Position -> Nat],
           UNCHANGED <<queue, forgotten, cards, source, created, record, offset, at,
                       upto, mail, budget, ended, failed, told>>
    PROVE  TypeInv'
<1>1. Handling' /\ Len(task') \in Nat /\ Len(task) \in Nat /\ pc' \in PC
    BY DEF Handling, PC, TypeInv, TypeOK
<1>2. TypeOK'
    BY <1>1 DEF TypeInv, TypeOK
<1>3. PollFits'
    BY <1>1, KeepsPolling
<1>4. HandFits'
    BY <1>1 DEF TypeInv, HandFits, Handling, Press, Deciding
<1>5. CardsExist'
    BY <1>1, SameCards
<1>6. RowsOrdered'
    BY DEF TypeInv, RowsOrdered
<1>7. RowsFit'
    BY <1>1 DEF TypeInv, TypeOK, RowsFit, Record
<1>8. MailFits'
    BY DEF TypeInv, MailFits, Deciding
<1>. QED  BY <1>2, <1>3, <1>4, <1>5, <1>6, <1>7, <1>8 DEF TypeInv

\* An update takes effect on a task.
LEMMA CreateKeys ==
    ASSUME TypeInv, Handling
    PROVE  /\ <<"new", at>> \in OperationKey /\ <<"callback", at>> \in OperationKey
           /\ \A s \in Source : CreateKey(s) \in OperationKey
    BY InHand DEF OperationKey, CreateKey

LEMMA NewTaskTypes ==
    ASSUME TypeInv, NewTask
    PROVE  TypeInv'
<1>. USE DEF NewTask, telegram, poll, Goto
<1>1. Handling /\ pc' \in StepsOf(Press.kind)
    BY StepKinds, StepSets DEF Handling
<1>2. CreateTask(<<"new", at>>, None, at) /\ <<"new", at>> \in OperationKey
      /\ at \in Source
    BY <1>1, CreateKeys, InHand
<1>3. /\ hand' \in Hand /\ hand'.source = hand.source /\ hand'.row = hand.row
      /\ hand'.record = hand.record /\ hand'.task \in 1..Len(task')
      /\ task' \in Seq(TaskRow) /\ Len(task) <= Len(task')
      /\ \A t \in 1..Len(task) : task'[t] = task[t]
      /\ touched' \in Seq(1..Len(task'))
      /\ \A t \in 1..Len(task') : t \in ToSet(touched')
      /\ used' \subseteq OperationKey /\ uses' \in [Position -> Nat]
      /\ \/ task' = task
         \/ /\ Len(task') = Len(task) + 1
            /\ task'[Len(task) + 1].source = None
    BY <1>1, <1>2, CreateTaskMoves
<1>4. mail # "over" => \A t \in 1..Len(task') : task'[t].source # Mail
  <2>1. mail # "over" => \A t \in 1..Len(task) : task[t].source # Mail
      BY DEF TypeInv, MailFits
  <2>2. Len(task) \in Nat
      BY DEF TypeInv, TypeOK
  <2>3. \A t \in 1..(Len(task) + 1) : t \in 1..Len(task) \/ t = Len(task) + 1
      BY <2>2
  <2>. QED  BY <1>3, <2>1, <2>3, Names
<1>. QED  BY <1>1, <1>3, <1>4, TaskStepTypes

LEMMA CreateFromCandidateTypes ==
    ASSUME TypeInv, CreateFromCandidate
    PROVE  TypeInv'
<1>. USE DEF CreateFromCandidate, telegram, poll, Goto
<1>. DEFINE s == hand.source
<1>1. Handling /\ pc' \in StepsOf(Press.kind)
    BY StepKinds, StepSets DEF Handling
<1>2. /\ s \in Source /\ hand.row \in SourceRow /\ hand.row.candidate \in Source
      /\ hand.row # None /\ hand.row.candidate # None
  <2>1. hand.source # None /\ hand.row # None /\ hand.row.candidate # None
      BY DEF TypeInv, HandFits, Deciding
  <2>. QED  BY <2>1 DEF TypeInv, TypeOK, Hand, SourceRow
<1>3. CreateTask(CreateKey(s), s, hand.row.candidate) /\ CreateKey(s) \in OperationKey
    BY <1>1, <1>2, CreateKeys
<1>4. /\ hand' \in Hand /\ hand'.source = hand.source /\ hand'.row = hand.row
      /\ hand'.record = hand.record /\ hand'.task \in 1..Len(task')
      /\ task'[hand'.task].key = CreateKey(s)
      /\ task' \in Seq(TaskRow) /\ Len(task) <= Len(task')
      /\ \A t \in 1..Len(task) : task'[t] = task[t]
      /\ touched' \in Seq(1..Len(task'))
      /\ \A t \in 1..Len(task') : t \in ToSet(touched')
      /\ used' \subseteq OperationKey /\ uses' \in [Position -> Nat]
      /\ \/ task' = task
         \/ /\ Len(task') = Len(task) + 1
            /\ task'[Len(task) + 1].source = s
    BY <1>1, <1>2, <1>3, CreateTaskMoves
<1>5. mail # "over" => s # Mail
    BY <1>2 DEF TypeInv, MailFits
<1>6. mail # "over" => \A t \in 1..Len(task') : task'[t].source # Mail
  <2>1. mail # "over" => \A t \in 1..Len(task) : task[t].source # Mail
      BY DEF TypeInv, MailFits
  <2>2. Len(task) \in Nat
      BY DEF TypeInv, TypeOK
  <2>3. \A t \in 1..(Len(task) + 1) : t \in 1..Len(task) \/ t = Len(task) + 1
      BY <2>2
  <2>. QED  BY <1>4, <1>5, <2>1, <2>3
<1>7. hand'.task # NoTask /\ task'[hand'.task].key = <<"candidate", hand.source>>
    BY <1>4 DEF NoTask, CreateKey
<1>. QED  BY <1>1, <1>4, <1>6, <1>7, TaskStepTypes

\* A change of an existing task that leaves no candidate's source to it.
LEMMA ChangeStepTypes ==
    ASSUME TypeInv, Handling, NEW k \in OperationKey, NEW t \in 1..Len(task),
           NEW status \in {"NEW", "DONE", "CANCELLED"}, ChangeTask(k, t, status),
           pc' \in StepsOf(Press.kind),
           (pc' = "clear" /\ pc = "text") \/ pc' = "ack",
           UNCHANGED <<queue, forgotten, cards, source, created, record, offset, at,
                       upto, mail, budget, ended, failed, told>>
    PROVE  TypeInv'
<1>1. /\ hand' \in Hand /\ hand'.source = hand.source /\ hand'.row = hand.row
      /\ hand'.record = hand.record /\ hand'.task = t
      /\ task' \in Seq(TaskRow) /\ Len(task') = Len(task)
      /\ \A u \in 1..Len(task) : task'[u].key = task[u].key
                                 /\ task'[u].source = task[u].source
      /\ touched' \in Seq(1..Len(task'))
      /\ \A u \in 1..Len(task') : u \in ToSet(touched')
      /\ used' \subseteq OperationKey /\ uses' \in [Position -> Nat]
    BY ChangeTaskMoves
<1>2. mail # "over" => \A u \in 1..Len(task') : task'[u].source # Mail
    BY <1>1 DEF TypeInv, MailFits
<1>3. hand'.task <= Len(task') /\ hand'.task # NoTask /\ Len(task) <= Len(task')
    BY <1>1 DEF NoTask, TypeInv, TypeOK
<1>. QED  BY <1>1, <1>2, <1>3, TaskStepTypes

\* The field that is asked for, and for which task.
LEMMA AskedTask ==
    ASSUME TypeInv, Handling, Len(task) <= MaxUpdates, AwaitingTasks # {}
    PROVE  LET t == Newest(touched, AwaitingTasks)
           IN  /\ t \in 1..Len(task)
               /\ <<"edit-pending", t, task[t].version, at>> \in OperationKey
               /\ \A reading \in Readings(task[t].awaiting) : reading # Unreadable =>
                      (IF reading = Same THEN task[t].status ELSE reading)
                      \in {"NEW", "DONE", "CANCELLED"}
<1>. DEFINE t == Newest(touched, AwaitingTasks)
<1>1. PICK x : x \in AwaitingTasks
    OBVIOUS
<1>2. x \in ToSet(touched) /\ touched \in Seq(1..Len(task)) /\ Len(task) \in Nat
    BY <1>1 DEF AwaitingTasks, TypeInv, TypeOK, RowsOrdered
<1>3. t \in AwaitingTasks
  <2>1. ASSUME NEW S, S = 1..Len(task) PROVE t \in AwaitingTasks
      BY <1>1, <1>2, <2>1, NewestType
  <2>. QED  BY <2>1
<1>. HIDE DEF t
<1>4. t \in 1..Len(task) /\ task[t] \in TaskRow
    BY <1>3 DEF AwaitingTasks, TypeInv, TypeOK
<1>5. <<"edit-pending", t, task[t].version, at>> \in OperationKey
  <2>1. t \in 1..MaxUpdates /\ task[t].version \in Nat /\ at \in Position
      BY <1>2, <1>4, InHand, Names DEF TaskRow
  <2>. QED  BY <2>1 DEF OperationKey
<1>6. ASSUME NEW reading \in Readings(task[t].awaiting), reading # Unreadable
      PROVE  (IF reading = Same THEN task[t].status ELSE reading)
             \in {"NEW", "DONE", "CANCELLED"}
    BY <1>4, <1>6 DEF Readings, TaskRow, Same, Unreadable
<1>. QED  BY <1>4, <1>5, <1>6 DEF t

LEMMA ReadTextMoves ==
    ASSUME TypeInv, Len(task) <= MaxUpdates, ReadText
    PROVE  /\ pc = "text" /\ Handling
           /\ UNCHANGED <<queue, forgotten, cards, source, created, record, mail, budget,
                          told>>
           /\ \/ /\ pc' \in {"parse", "answer"}
                 /\ UNCHANGED <<task, touched, used, offset, at, upto, hand, ended,
                                failed, uses>>
              \/ Raise /\ UNCHANGED <<task, touched, used, uses>>
              \/ \E k \in OperationKey, t \in 1..Len(task),
                    status \in {"NEW", "DONE", "CANCELLED"} :
                    /\ pc' = "clear" /\ ChangeTask(k, t, status)
                    /\ UNCHANGED <<offset, at, upto, ended, failed>>
<1>. USE DEF telegram, poll, db, history, Goto
<1>1. /\ pc = "text" /\ Handling
      /\ UNCHANGED <<queue, forgotten, cards, mail, budget>>
    BY DEF ReadText, Handling
<1>2. CASE AwaitingTasks = {}
    BY <1>1, <1>2 DEF ReadText
<1>3. CASE AwaitingTasks # {}
  <2>. DEFINE t == Newest(touched, AwaitingTasks)
              k == <<"edit-pending", t, task[t].version, at>>
  <2>1. /\ t \in 1..Len(task) /\ k \in OperationKey
        /\ \A reading \in Readings(task[t].awaiting) : reading # Unreadable =>
               (IF reading = Same THEN task[t].status ELSE reading)
               \in {"NEW", "DONE", "CANCELLED"}
      BY <1>1, <1>3, AskedTask
  <2>2. PICK reading \in Readings(task[t].awaiting) :
            LET status == IF reading = Same THEN task[t].status ELSE reading
            IN  \/ /\ reading = Unreadable
                   /\ Goto("answer")
                   /\ UNCHANGED <<db, poll, hand, history>>
                \/ /\ reading # Unreadable
                   /\ Raise
                   /\ UNCHANGED <<db, uses, told>>
                \/ /\ reading # Unreadable
                   /\ Goto("clear")
                   /\ ChangeTask(k, t, status)
                   /\ UNCHANGED <<source, created, record, poll, ended,
                                 failed, told>>
      BY <1>3 DEF ReadText
  <2>. DEFINE status == IF reading = Same THEN task[t].status ELSE reading
  <2>3. reading # Unreadable => status \in {"NEW", "DONE", "CANCELLED"}
      BY <2>1
  <2>. HIDE DEF t, k, status
  <2>4. CASE Goto("answer") /\ UNCHANGED <<db, poll, hand, history>>
      BY <1>1, <2>4
  <2>5. CASE Raise /\ UNCHANGED <<db, uses, told>>
      BY <1>1, <2>5
  <2>6. CASE /\ reading # Unreadable /\ Goto("clear") /\ ChangeTask(k, t, status)
             /\ UNCHANGED <<source, created, record, poll, ended, failed, told>>
      BY <1>1, <2>1, <2>3, <2>6
  <2>. QED  BY <2>2, <2>4, <2>5, <2>6 DEF status
<1>. QED  BY <1>2, <1>3

LEMMA ReadTextTypes ==
    ASSUME TypeInv, Len(task) <= MaxUpdates, ReadText
    PROVE  TypeInv'
<1>1. /\ pc = "text" /\ Handling
      /\ UNCHANGED <<queue, forgotten, cards, source, created, record, mail, budget, told>>
    BY ReadTextMoves
<1>2. CASE /\ pc' \in {"parse", "answer"}
           /\ UNCHANGED <<task, touched, used, offset, at, upto, hand, ended, failed, uses>>
  <2>1. Handling'
      BY <1>2 DEF Handling
  <2>2. TypeOK'
      BY <1>1, <1>2 DEF TypeInv, TypeOK, PC
  <2>3. PollFits'
      BY <1>1, <1>2, <2>1, KeepsPolling
  <2>4. HandFits'
      BY <1>1, <1>2, StepKinds, StepSets DEF TypeInv, HandFits, Handling, Press, Deciding
  <2>5. CardsExist'
      BY <1>1, <1>2, SameCards DEF TypeInv, TypeOK
  <2>6. MailFits'
      BY <1>1, <1>2, SameMail DEF TypeInv, MailFits, Deciding
  <2>. QED  BY <1>1, <1>2, <2>2, <2>3, <2>4, <2>5, <2>6, SameRows DEF TypeInv
<1>3. CASE Raise /\ UNCHANGED <<task, touched, used, uses>>
  <2>1. PollFits' /\ ~Handling'
      BY <1>1, <1>3, RaisePolling
  <2>2. TypeOK'
      BY <1>1, <1>3, InHand, NoHandType, Names
      DEF TypeInv, TypeOK, PC, Raise, LeaveBatch, Goto
  <2>3. HandFits'
      BY <1>3, <2>1, NoHandFits DEF TypeInv, TypeOK, Raise
  <2>4. CardsExist'
      BY <1>1, <1>3, SameCards DEF TypeInv, TypeOK
  <2>5. MailFits'
      BY <1>1, <1>3, SameMail DEF TypeInv, MailFits, Raise
  <2>. QED  BY <1>1, <1>3, <2>1, <2>2, <2>3, <2>4, <2>5, SameRows DEF TypeInv
<1>4. CASE \E k \in OperationKey, t \in 1..Len(task),
              status \in {"NEW", "DONE", "CANCELLED"} :
              /\ pc' = "clear" /\ ChangeTask(k, t, status)
              /\ UNCHANGED <<offset, at, upto, ended, failed>>
  <2>1. pc' = "clear" /\ pc' \in StepsOf(Press.kind)
      BY <1>1, <1>4, StepKinds, StepSets
  <2>. QED  BY <1>1, <1>4, <2>1, ChangeStepTypes
<1>. QED  BY <1>2, <1>3, <1>4, ReadTextMoves

LEMMA ClearAwaitingTypes ==
    ASSUME TypeInv, ClearAwaiting
    PROVE  TypeInv'
<1>. USE DEF ClearAwaiting, telegram, poll, history, Goto
<1>. DEFINE t == hand.task
            row == [task[t] EXCEPT !.awaiting = None]
<1>1. Handling /\ pc' \in StepsOf(Press.kind)
    BY StepKinds, StepSets DEF Handling
<1>2. t \in 1..Len(task) /\ hand \in Hand
    BY DEF TypeInv, TypeOK, HandFits, Hand, NoTask
<1>3. task[t] \in TaskRow
    BY <1>2 DEF TypeInv, TypeOK
<1>4. row \in TaskRow /\ row.key = task[t].key /\ row.source = task[t].source
    BY <1>3 DEF TaskRow
<1>5. task' = [task EXCEPT ![t] = row] /\ touched' = ToFront(touched, t)
    BY <1>2
<1>. HIDE DEF row
<1>6. /\ task' \in Seq(TaskRow) /\ Len(task') = Len(task)
      /\ \A u \in 1..Len(task) : task'[u].key = task[u].key
                                 /\ task'[u].source = task[u].source
      /\ touched' \in Seq(1..Len(task'))
      /\ \A u \in 1..Len(task') : u \in ToSet(touched')
    BY <1>2, <1>4, <1>5, TaskExceptType
<1>7. mail # "over" => \A u \in 1..Len(task') : task'[u].source # Mail
    BY <1>6 DEF TypeInv, MailFits
<1>8. /\ hand'.task <= Len(task') /\ Len(task) <= Len(task')
      /\ used' \subseteq OperationKey /\ uses' \in [Position -> Nat]
    BY <1>2, <1>6 DEF TypeInv, TypeOK
<1>. QED  BY <1>1, <1>2, <1>6, <1>7, <1>8, TaskStepTypes

LEMMA PressTaskTypes ==
    ASSUME TypeInv, PressTask
    PROVE  TypeInv'
<1>. DEFINE t == Press.card.task
            k == <<"callback", at>>
<1>1. /\ Handling /\ pc' = "ack" /\ pc' \in StepsOf(Press.kind)
      /\ Press.kind = "task"
      /\ UNCHANGED <<queue, forgotten, cards, source, created, record, offset, at, upto,
                     mail, budget, ended, failed, told>>
    BY StepKinds, StepSets DEF PressTask, Handling, Goto, telegram, poll
<1>2. t \in 1..Len(task) /\ k \in OperationKey
    BY <1>1, PressedCard, CreateKeys
<1>. HIDE DEF t, k
<1>3. \/ ChangeTask(k, t, "DONE")
      \/ UNCHANGED <<task, touched, used, hand, uses>>
      \/ /\ Press.action \in EditField
         /\ task' = [task EXCEPT ![t].awaiting = Press.action]
         /\ touched' = ToFront(touched, t)
         /\ hand' = [hand EXCEPT !.redraw = TRUE]
         /\ UNCHANGED <<used, uses>>
    BY DEF PressTask, t, k
<1>4. /\ hand \in Hand /\ task \in Seq(TaskRow) /\ Len(task) \in Nat
      /\ touched \in Seq(1..Len(task))
      /\ used \subseteq OperationKey /\ uses \in [Position -> Nat]
      /\ \A u \in 1..Len(task) : u \in ToSet(touched)
      /\ mail # "over" => \A u \in 1..Len(task) : task[u].source # Mail
      /\ hand.task <= Len(task)
    BY DEF TypeInv, TypeOK, RowsOrdered, MailFits, HandFits
<1>5. CASE ChangeTask(k, t, "DONE")
    BY <1>1, <1>2, <1>5, ChangeStepTypes
<1>6. CASE UNCHANGED <<task, touched, used, hand, uses>>
    BY <1>1, <1>4, <1>6, TaskStepTypes
<1>7. CASE /\ Press.action \in EditField
           /\ task' = [task EXCEPT ![t].awaiting = Press.action]
           /\ touched' = ToFront(touched, t)
           /\ hand' = [hand EXCEPT !.redraw = TRUE]
           /\ UNCHANGED <<used, uses>>
  <2>. DEFINE row == [task[t] EXCEPT !.awaiting = Press.action]
  <2>1. task[t] \in TaskRow
      BY <1>2, <1>4
  <2>2. row \in TaskRow /\ row.key = task[t].key /\ row.source = task[t].source
      BY <1>7, <2>1 DEF TaskRow
  <2>3. task' = [task EXCEPT ![t] = row]
      BY <1>7
  <2>. HIDE DEF row
  <2>4. /\ task' \in Seq(TaskRow) /\ Len(task') = Len(task)
        /\ \A u \in 1..Len(task) : task'[u].key = task[u].key
                                   /\ task'[u].source = task[u].source
        /\ touched' \in Seq(1..Len(task'))
        /\ \A u \in 1..Len(task') : u \in ToSet(touched')
      BY <1>2, <1>7, <2>2, <2>3, TaskExceptType
  <2>5. /\ hand' \in Hand /\ hand'.source = hand.source /\ hand'.row = hand.row
        /\ hand'.record = hand.record /\ hand'.task = hand.task
      BY <1>4, <1>7 DEF Hand
  <2>6. mail # "over" => \A u \in 1..Len(task') : task'[u].source # Mail
      BY <1>4, <2>4
  <2>. QED  BY <1>1, <1>4, <1>7, <2>4, <2>5, <2>6, TaskStepTypes
<1>. QED  BY <1>3, <1>5, <1>6, <1>7

-----------------------------------------------------------------------------
\* Steps that write source messages and candidates keep the types.

\* The rows of one source message are written.
LEMMA SourceRowTypes ==
    ASSUME TypeInv, NEW s \in Source, source[s] # None,
           NEW row \in SourceRow, NEW r \in Record \cup {None},
           record[s] # None => r # None, row.candidate # None => r # None,
           r # None => r.task <= Len(task),
           source' = [source EXCEPT ![s] = row],
           record' = [record EXCEPT ![s] = r],
           UNCHANGED <<created, task, touched>>
    PROVE  /\ source' \in [Source -> SourceRow \cup {None}]
           /\ record' \in [Source -> Record \cup {None}]
           /\ \A x \in Source : source[x] # None => source'[x] # None
           /\ \A x \in Source : record[x] # None => record'[x] # None
           /\ RowsOrdered' /\ RowsFit'
<1>1. /\ source \in [Source -> SourceRow \cup {None}]
      /\ record \in [Source -> Record \cup {None}]
    BY DEF TypeInv, TypeOK
<1>2. row # None
    BY NoneAssumption
<1>3. \A x \in Source : /\ source'[x] = IF x = s THEN row ELSE source[x]
                        /\ record'[x] = IF x = s THEN r ELSE record[x]
    BY <1>1
<1>4. RowsOrdered'
    BY <1>1, <1>3 DEF TypeInv, RowsOrdered
<1>5. RowsFit'
    BY <1>3 DEF TypeInv, RowsFit
<1>. QED  BY <1>1, <1>2, <1>3, <1>4, <1>5

LEMMA SourceStepTypes ==
    ASSUME TypeInv, Handling, NEW s \in Source, source[s] # None,
           NEW row \in SourceRow, NEW r \in Record \cup {None},
           record[s] # None => r # None, row.candidate # None => r # None,
           r # None => r.task <= Len(task),
           source' = [source EXCEPT ![s] = row],
           record' = [record EXCEPT ![s] = r],
           s = Mail => mail = "over",
           pc' \in StepsOf(Press.kind),
           pc' = "ack" \/ (pc = "save" /\ pc' = "show" /\ s = hand.source /\ r # None),
           UNCHANGED <<queue, forgotten, cards, created, task, touched, used, offset, at,
                       upto, hand, mail, budget, ended, failed, uses, told>>
    PROVE  TypeInv'
<1>1. /\ source' \in [Source -> SourceRow \cup {None}]
      /\ record' \in [Source -> Record \cup {None}]
      /\ \A x \in Source : source[x] # None => source'[x] # None
      /\ \A x \in Source : record[x] # None => record'[x] # None
      /\ RowsOrdered' /\ RowsFit'
    BY SourceRowTypes
<1>2. Handling' /\ pc' \in PC
    BY DEF Handling, PC
<1>3. TypeOK'
    BY <1>1, <1>2 DEF TypeInv, TypeOK
<1>4. PollFits'
    BY <1>2, KeepsPolling
<1>5. HandFits'
  <2>1. record'[s] = r /\ hand \in Hand
      BY DEF TypeInv, TypeOK
  <2>. QED  BY <1>1, <2>1 DEF TypeInv, HandFits, Handling, Press, Deciding, Hand
<1>6. CardsExist'
    BY <1>1, SameCards DEF TypeInv, TypeOK
<1>7. MailFits'
  <2>1. mail # "over" => source'[Mail] = source[Mail]
      BY Names DEF TypeInv, TypeOK
  <2>2. mail = "over" => source'[Mail] # None
      BY <1>1, Names DEF TypeInv, MailFits
  <2>. QED  BY <2>1, <2>2 DEF TypeInv, MailFits, Deciding
<1>. QED  BY <1>1, <1>3, <1>4, <1>5, <1>6, <1>7 DEF TypeInv

\* The source in hand when a decision is taken.
LEMMA DecidedSource ==
    ASSUME TypeInv, pc \in Deciding
    PROVE  /\ Handling
           /\ hand.source \in Source /\ source[hand.source] \in SourceRow
           /\ source[hand.source] # None /\ hand.row \in SourceRow
           /\ record[hand.source] \in Record \cup {None}
           /\ hand.record # None => record[hand.source] # None
           /\ Unlocked(hand.source) => (hand.source = Mail => mail = "over")
<1>1. /\ hand.source # None /\ source[hand.source] # None /\ hand.row # None
      /\ hand.record # None => record[hand.source] # None
      /\ Handling
    BY DEF TypeInv, HandFits, Deciding, Handling
<1>2. hand \in Hand
    BY DEF TypeInv, TypeOK
<1>3. hand.source \in Source /\ hand.row \in SourceRow
    BY <1>1, <1>2 DEF Hand
<1>4. Unlocked(hand.source) => (hand.source = Mail => mail = "over")
    BY <1>1 DEF TypeInv, TypeOK, MailFits, Unlocked
<1>. QED  BY <1>1, <1>3, <1>4 DEF TypeInv, TypeOK

\* What the decision makes of the record.
Decided(decision, t) ==
    IF hand.record = None THEN record[hand.source]
    ELSE [status |-> decision,
          task |-> IF t = NoTask THEN record[hand.source].task ELSE t]
LEMMA DecidedType ==
    ASSUME TypeInv, pc \in Deciding, NEW decision \in {"CONFIRMED", "REJECTED"},
           NEW t \in Nat, t <= Len(task), Decide(hand.source, decision, t)
    PROVE  /\ Decided(decision, t) \in Record \cup {None}
           /\ record[hand.source] # None => Decided(decision, t) # None
           /\ Decided(decision, t) # None => Decided(decision, t).task <= Len(task)
           /\ record' = [record EXCEPT ![hand.source] = Decided(decision, t)]
<1>. DEFINE s == hand.source
<1>1. /\ s \in Source /\ record[s] \in Record \cup {None}
      /\ hand.record # None => record[s] # None
      /\ record \in [Source -> Record \cup {None}]
      /\ record[s] # None => record[s].task <= Len(task)
    BY DecidedSource DEF TypeInv, TypeOK, RowsFit
<1>. HIDE DEF s
<1>2. CASE hand.record = None
  <2>1. Decided(decision, t) = record[s]
      BY <1>2 DEF Decided, s
  <2>2. record' = record
      BY <1>2 DEF Decide
  <2>. QED  BY <1>1, <2>1, <2>2 DEF s
<1>3. CASE hand.record # None
  <2>. DEFINE r == [status |-> decision, task |-> IF t = NoTask THEN record[s].task ELSE t]
  <2>1. Decided(decision, t) = r /\ record' = [record EXCEPT ![s] = r]
      BY <1>3 DEF Decided, Decide, s
  <2>2. r \in Record /\ r.task <= Len(task)
      BY <1>1, <1>3 DEF Record
  <2>. HIDE DEF r
  <2>. QED  BY <2>1, <2>2, NoneAssumption DEF s
<1>. QED  BY <1>2, <1>3

LEMMA IgnoreTypes ==
    ASSUME TypeInv, Ignore
    PROVE  TypeInv'
<1>. DEFINE s == hand.source
            row == [source[s] EXCEPT !.status = "IGNORED"]
            r == Decided("REJECTED", NoTask)
<1>1. /\ pc \in Deciding /\ Unlocked(s) /\ Decide(s, "REJECTED", NoTask)
      /\ source' = [source EXCEPT ![s].status = "IGNORED"]
      /\ pc = "ignore" /\ pc' = "ack"
      /\ UNCHANGED <<queue, forgotten, cards, created, task, touched, used, offset, at,
                     upto, hand, mail, budget, ended, failed, uses, told>>
    BY DEF Ignore, Deciding, Goto, telegram, poll, history
<1>2. /\ Handling /\ s \in Source /\ source[s] \in SourceRow /\ source[s] # None
      /\ s = Mail => mail = "over"
    BY <1>1, DecidedSource
<1>3. /\ r \in Record \cup {None} /\ (record[s] # None => r # None)
      /\ r # None => r.task <= Len(task)
      /\ record' = [record EXCEPT ![s] = r]
  <2>1. NoTask \in Nat /\ NoTask <= Len(task)
      BY DEF NoTask, TypeInv, TypeOK
  <2>. QED  BY <1>1, <2>1, DecidedType
<1>4. row \in SourceRow /\ row.candidate = source[s].candidate
    BY <1>2 DEF SourceRow
<1>5. row.candidate # None => r # None
    BY <1>2, <1>3, <1>4 DEF TypeInv, RowsFit
<1>6. source' = [source EXCEPT ![s] = row]
    BY <1>1
<1>7. pc' \in StepsOf(Press.kind)
    BY <1>1, <1>2, StepKinds, StepSets
<1>. HIDE DEF s, row, r
<1>. QED  BY <1>1, <1>2, <1>3, <1>4, <1>5, <1>6, <1>7, SourceStepTypes

LEMMA AwaitNewTextTypes ==
    ASSUME TypeInv, AwaitNewText
    PROVE  TypeInv'
<1>. DEFINE s == hand.source
            row == [source[s] EXCEPT !.candidate = hand.row.candidate, !.awaiting = TRUE]
            r == record[s]
<1>1. /\ pc \in Deciding /\ Unlocked(s)
      /\ source' = [source EXCEPT ![s].candidate = hand.row.candidate,
                                  ![s].awaiting = TRUE]
      /\ pc = "edit" /\ pc' = "ack" /\ UNCHANGED record
      /\ UNCHANGED <<queue, forgotten, cards, created, task, touched, used, offset, at,
                     upto, hand, mail, budget, ended, failed, uses, told>>
    BY DEF AwaitNewText, Deciding, Goto, telegram, poll, history
<1>2. /\ Handling /\ s \in Source /\ source[s] \in SourceRow /\ source[s] # None
      /\ s = Mail => mail = "over"
      /\ hand.row \in SourceRow
      /\ record \in [Source -> Record \cup {None}]
    BY <1>1, DecidedSource DEF TypeInv, TypeOK
<1>3. row \in SourceRow /\ row.candidate = hand.row.candidate
    BY <1>2 DEF SourceRow
<1>4. row.candidate # None => r # None
    BY <1>1, <1>2, <1>3 DEF TypeInv, HandFits
<1>5. source' = [source EXCEPT ![s] = row]
    BY <1>1, <1>2
<1>6. pc' \in StepsOf(Press.kind)
    BY <1>1, <1>2, StepKinds, StepSets
<1>7. /\ r \in Record \cup {None} /\ (record[s] # None => r # None)
      /\ r # None => r.task <= Len(task)
      /\ record' = [record EXCEPT ![s] = r]
    BY <1>1, <1>2 DEF TypeInv, RowsFit
<1>. HIDE DEF s, row, r
<1>. QED  BY <1>1, <1>2, <1>3, <1>4, <1>5, <1>6, <1>7, SourceStepTypes

LEMMA ConfirmTypes ==
    ASSUME TypeInv, Confirm
    PROVE  TypeInv'
<1>. DEFINE s == hand.source
            row == [source[s] EXCEPT !.candidate = hand.row.candidate,
                                     !.awaiting = hand.row.awaiting]
            r == Decided("CONFIRMED", hand.task)
<1>1. /\ pc \in Deciding /\ Unlocked(s) /\ Decide(s, "CONFIRMED", hand.task)
      /\ source' = [source EXCEPT ![s].candidate = hand.row.candidate,
                                  ![s].awaiting = hand.row.awaiting]
      /\ pc = "confirm" /\ pc' = "ack"
      /\ UNCHANGED <<queue, forgotten, cards, created, task, touched, used, offset, at,
                     upto, hand, mail, budget, ended, failed, uses, told>>
    BY DEF Confirm, Deciding, Goto, telegram, poll, history
<1>2. /\ Handling /\ s \in Source /\ source[s] \in SourceRow /\ source[s] # None
      /\ s = Mail => mail = "over"
      /\ hand.row \in SourceRow /\ record[s] # None
    BY <1>1, DecidedSource DEF TypeInv, HandFits
<1>3. hand.task \in Nat /\ hand.task <= Len(task)
    BY DEF TypeInv, TypeOK, HandFits, Hand
<1>4. /\ r \in Record \cup {None} /\ (record[s] # None => r # None)
      /\ r # None => r.task <= Len(task)
      /\ record' = [record EXCEPT ![s] = r]
    BY <1>1, <1>3, DecidedType
<1>5. row \in SourceRow
    BY <1>2 DEF SourceRow
<1>6. source' = [source EXCEPT ![s] = row]
    BY <1>1, <1>2
<1>7. pc' \in StepsOf(Press.kind)
    BY <1>1, <1>2, StepKinds, StepSets
<1>. HIDE DEF s, row, r
<1>. QED  BY <1>1, <1>2, <1>4, <1>5, <1>6, <1>7, SourceStepTypes

LEMMA SaveCandidateTypes ==
    ASSUME TypeInv, SaveCandidate
    PROVE  TypeInv'
<1>. DEFINE s == hand.source
            row == [source[s] EXCEPT !.status = "PROCESSED", !.candidate = at]
            r == IF record[s] = None THEN [status |-> "PENDING", task |-> NoTask]
                 ELSE record[s]
<1>1. /\ source' = [source EXCEPT ![s].status = "PROCESSED", ![s].candidate = at]
      /\ record' = [record EXCEPT ![s] = r]
      /\ pc = "save" /\ pc' = "show"
      /\ UNCHANGED <<queue, forgotten, cards, created, task, touched, used, offset, at,
                     upto, hand, mail, budget, ended, failed, uses, told>>
    BY DEF SaveCandidate, Goto, telegram, poll, history
<1>2. /\ Handling /\ s # None /\ source[s] # None /\ hand \in Hand
      /\ s = Mail => mail = "over"
    BY <1>1 DEF TypeInv, TypeOK, HandFits, MailFits, Deciding, Handling
<1>3. s \in Source /\ source[s] \in SourceRow /\ record[s] \in Record \cup {None}
    BY <1>2 DEF TypeInv, TypeOK, Hand
<1>4. row \in SourceRow
    BY <1>2, <1>3, InHand DEF SourceRow
<1>5. r \in Record /\ r.task <= Len(task)
    BY <1>3 DEF TypeInv, TypeOK, RowsFit, Record, NoTask
<1>6. source' = [source EXCEPT ![s] = row]
    BY <1>1, <1>3
<1>7. pc' \in StepsOf(Press.kind)
    BY <1>1, <1>2, StepKinds, StepSets
<1>8. r # None
    BY <1>5, NoneAssumption
<1>. HIDE DEF row, r
<1>9. /\ pc = "save" /\ pc' = "show" /\ s = hand.source /\ r # None
    BY <1>1, <1>8
<1>. HIDE DEF s
<1>. QED  BY <1>1, <1>2, <1>3, <1>4, <1>5, <1>6, <1>7, <1>9, SourceStepTypes

LEMMA MarkNotifiedTypes ==
    ASSUME TypeInv, MarkNotified
    PROVE  TypeInv'
<1>. DEFINE s == hand.source
            r == [record[s] EXCEPT !.status = "NOTIFIED"]
<1>1. /\ record' = [record EXCEPT ![s].status = "NOTIFIED"]
      /\ pc = "notify" /\ Handling /\ Finish
      /\ UNCHANGED <<queue, forgotten, cards, source, created, task, touched, used, mail,
                     budget, uses, told>>
    BY DEF MarkNotified, Handling, telegram
<1>2. /\ s # None /\ source[s] # None /\ record[s] # None /\ hand \in Hand
      /\ record \in [Source -> Record \cup {None}]
      /\ source \in [Source -> SourceRow \cup {None}]
    BY <1>1 DEF TypeInv, TypeOK, HandFits
<1>3. s \in Source /\ source[s] \in SourceRow /\ record[s] \in Record
    BY <1>2 DEF Hand
<1>4. r \in Record /\ r.task <= Len(task)
    BY <1>2, <1>3 DEF TypeInv, RowsFit, Record
<1>5. record' = [record EXCEPT ![s] = r] /\ source' = [source EXCEPT ![s] = source[s]]
    BY <1>1, <1>2, <1>3
<1>6. r # None
    BY <1>4, NoneAssumption
<1>. HIDE DEF s, r
<1>7. RowsOrdered' /\ RowsFit' /\ record' \in [Source -> Record \cup {None}]
    BY <1>1, <1>2, <1>3, <1>4, <1>5, <1>6, SourceRowTypes DEF TypeInv, RowsFit
<1>8. PollFits' /\ ~Handling'
    BY <1>1, FinishPolling
<1>9. TypeOK'
    BY <1>1, <1>7, InHand, NoHandType DEF TypeInv, TypeOK, PC, Finish, Goto, poll
<1>10. HandFits'
    BY <1>1, <1>8, NoHandFits DEF TypeInv, TypeOK, Finish
<1>11. CardsExist'
    BY <1>1, SameCards DEF TypeInv, TypeOK
<1>12. MailFits'
    BY <1>1, SameMail DEF TypeInv, MailFits, Finish
<1>. QED  BY <1>7, <1>8, <1>9, <1>10, <1>11, <1>12 DEF TypeInv

\* The text becomes a source message, or is one that waits for its text.
LEMMA TextTakenTypes ==
    ASSUME TypeInv, pc = "store", pc' = "save", NEW s \in Source,
           hand' = [hand EXCEPT !.source = s],
           source' \in [Source -> SourceRow \cup {None}], source'[s] # None,
           source'[Mail] = source[Mail],
           created' \in Seq(Source),
           \A x \in Source : source[x] # None => source'[x] # None,
           s = Mail => mail = "over",
           RowsOrdered', RowsFit',
           UNCHANGED <<queue, forgotten, cards, record, task, touched, used, offset, at,
                       upto, mail, budget, ended, failed, uses, told>>
    PROVE  TypeInv'
<1>1. Handling /\ Handling' /\ pc' \in StepsOf(Press.kind) /\ pc' \in PC
    BY StepKinds, StepSets DEF Handling, PC
<1>2. /\ hand' \in Hand /\ hand'.source = s /\ hand'.row = hand.row
      /\ hand'.record = hand.record /\ hand'.task = hand.task
    BY DEF TypeInv, TypeOK, Hand
<1>3. TypeOK'
    BY <1>1, <1>2 DEF TypeInv, TypeOK
<1>4. PollFits'
    BY <1>1, KeepsPolling
<1>5. HandFits'
    BY <1>1, <1>2, Names DEF TypeInv, HandFits, Handling, Press, Deciding
<1>6. CardsExist'
    BY SameCards DEF TypeInv, TypeOK
<1>7. MailFits'
    BY <1>2 DEF TypeInv, MailFits
<1>. QED  BY <1>3, <1>4, <1>5, <1>6, <1>7 DEF TypeInv

LEMMA StoreTextTypes ==
    ASSUME TypeInv, StoreText
    PROVE  TypeInv'
<1>. USE DEF telegram, poll, Goto
<1>1. /\ pc = "store" /\ Handling /\ at \in Source /\ at # Mail
      /\ UNCHANGED <<queue, forgotten, cards, mail, budget, uses, told>>
    BY InHand, Names DEF StoreText, Handling
<1>2. /\ source \in [Source -> SourceRow \cup {None}] /\ created \in Seq(Source)
      /\ RowsOrdered /\ RowsFit
    BY DEF TypeInv, TypeOK
<1>3. CASE /\ PendingSources # {} /\ pc' = "save"
           /\ hand' = [hand EXCEPT !.source = Newest(created, PendingSources)]
           /\ UNCHANGED <<db, poll, ended, failed>>
  <2>. DEFINE s == Newest(created, PendingSources)
  <2>1. PICK x \in PendingSources : x \in ToSet(created)
      BY <1>2, <1>3 DEF PendingSources, RowsOrdered
  <2>2. s \in PendingSources
      BY <1>2, <2>1, NewestType
  <2>. HIDE DEF s
  <2>3. s \in Source /\ source[s] # None /\ source[s].status = "PROCESSED"
      BY <2>2 DEF PendingSources
  <2>4. s = Mail => mail = "over"
      BY <2>3 DEF TypeInv, TypeOK, MailFits
  <2>5. RowsOrdered' /\ RowsFit'
      BY <1>3, SameRows DEF db
  <2>6. hand' = [hand EXCEPT !.source = s]
      BY <1>3 DEF s
  <2>. QED  BY <1>1, <1>2, <1>3, <2>3, <2>4, <2>5, <2>6, TextTakenTypes DEF db
<1>4. CASE /\ source[at] = None /\ pc' = "save"
           /\ hand' = [hand EXCEPT !.source = at]
           /\ source' = [source EXCEPT ![at] =
                  [status |-> "NEW", candidate |-> None, awaiting |-> FALSE]]
           /\ created' = <<at>> \o created
           /\ UNCHANGED <<record, task, touched, used, poll, ended, failed>>
  <2>. DEFINE row == [status |-> "NEW", candidate |-> None, awaiting |-> FALSE]
  <2>1. row \in SourceRow /\ row.candidate = None
      BY DEF SourceRow
  <2>2. source' = [source EXCEPT ![at] = row]
      BY <1>4
  <2>. HIDE DEF row
  <2>3. row # None
      BY <2>1, NoneAssumption
  <2>4. /\ source' \in [Source -> SourceRow \cup {None}] /\ source'[at] # None
        /\ \A x \in Source : source'[x] = IF x = at THEN row ELSE source[x]
      BY <1>1, <1>2, <2>1, <2>2, <2>3
  <2>5. /\ created' \in Seq(Source) /\ at \in ToSet(created')
        /\ ToSet(created) \subseteq ToSet(created')
      BY <1>1, <1>2, <1>4, InFrontType
  <2>6. RowsOrdered'
      BY <1>2, <1>4, <2>4, <2>5 DEF RowsOrdered
  <2>7. RowsFit'
      BY <1>2, <1>4, <2>1, <2>4 DEF RowsFit
  <2>8. /\ source'[Mail] = source[Mail]
        /\ \A x \in Source : source[x] # None => source'[x] # None
      BY <1>1, <2>3, <2>4, Names
  <2>. QED  BY <1>1, <1>4, <2>4, <2>5, <2>6, <2>7, <2>8, TextTakenTypes
<1>5. CASE Raise /\ UNCHANGED db
  <2>1. PollFits' /\ ~Handling'
      BY <1>1, <1>5, RaisePolling
  <2>2. TypeOK'
      BY <1>1, <1>5, InHand, NoHandType, Names
      DEF TypeInv, TypeOK, PC, Raise, LeaveBatch, db
  <2>3. HandFits'
      BY <1>5, <2>1, NoHandFits DEF TypeInv, TypeOK, Raise, db
  <2>4. CardsExist'
      BY <1>1, <1>5, SameCards DEF TypeInv, TypeOK, db
  <2>5. MailFits'
      BY <1>1, <1>5, SameMail DEF TypeInv, MailFits, Raise, db
  <2>. QED  BY <1>5, <2>1, <2>2, <2>3, <2>4, <2>5, SameRows DEF TypeInv, db
<1>. QED  BY <1>3, <1>4, <1>5 DEF StoreText

-----------------------------------------------------------------------------
\* The mail's steps keep the types.

LEMMA ShowMailTypes ==
    ASSUME TypeInv, ShowMail
    PROVE  TypeInv'
<1>. DEFINE row == [status |-> "NEW", candidate |-> None, awaiting |-> FALSE]
            card == [source |-> Mail, shows |-> Mail]
<1>1. /\ mail = "none" /\ mail' = "open" /\ Spend("mail")
      /\ source' = [source EXCEPT ![Mail] = row] /\ created' = <<Mail>> \o created
      /\ cards' = cards \cup {card}
      /\ UNCHANGED <<queue, forgotten, record, task, touched, used, pc, offset, at, upto,
                     hand, ended, failed, uses, told>>
    BY DEF ShowMail, poll, history
<1>2. /\ source \in [Source -> SourceRow \cup {None}] /\ created \in Seq(Source)
      /\ RowsOrdered /\ RowsFit /\ source[Mail] = None
    BY <1>1 DEF TypeInv, TypeOK, MailFits
<1>3. row \in SourceRow /\ row.candidate = None /\ row.status = "NEW"
    BY DEF SourceRow
<1>4. card \in CandidateCard /\ card.source = Mail
    BY Names DEF CandidateCard
<1>. HIDE DEF row, card
<1>5. /\ source' \in [Source -> SourceRow \cup {None}] /\ source'[Mail] = row
      /\ row # None
      /\ \A x \in Source : source'[x] = IF x = Mail THEN row ELSE source[x]
      /\ \A x \in Source : source[x] # None => source'[x] # None
    BY <1>1, <1>2, <1>3, Names, NoneAssumption
<1>6. /\ created' \in Seq(Source) /\ Mail \in ToSet(created')
      /\ ToSet(created) \subseteq ToSet(created')
    BY <1>1, <1>2, Names, InFrontType
<1>7. budget' \in [limit : Budgets, left : [Outside -> Nat]]
    BY <1>1, SpendFacts DEF Outside
<1>8. TypeOK'
    BY <1>1, <1>4, <1>5, <1>6, <1>7 DEF TypeInv, TypeOK, Card
<1>9. PollFits'
    BY <1>1 DEF TypeInv, PollFits, Handling, Passed
<1>10. HandFits'
  <2>1. hand \in Hand
      BY DEF TypeInv, TypeOK
  <2>. QED  BY <1>1, <1>5, <2>1
            DEF TypeInv, HandFits, Handling, Press, Deciding, Hand
<1>11. RowsOrdered' /\ RowsFit'
  <2>1. RowsOrdered'
      BY <1>1, <1>2, <1>5, <1>6 DEF RowsOrdered
  <2>2. RowsFit'
      BY <1>1, <1>2, <1>3, <1>5 DEF RowsFit
  <2>. QED  BY <2>1, <2>2
<1>12. CardsExist'
  <2>1. CardsExist /\ cards \subseteq Card /\ queue \in Seq(Update)
      BY DEF TypeInv, TypeOK
  <2>2. ASSUME NEW c \in cards'
        PROVE  IF c \in CandidateCard THEN source'[c.source] # None
               ELSE c.task \in 1..Len(task)
    <3>1. CASE c = card
        BY <1>4, <1>5, <3>1
    <3>2. CASE c \in cards
      <4>1. IF c \in CandidateCard THEN source[c.source] # None ELSE c.task \in 1..Len(task)
          BY <2>1, <3>2 DEF CardsExist
      <4>. QED  BY <1>5, <4>1 DEF CandidateCard
    <3>. QED  BY <1>1, <3>1, <3>2
  <2>3. ASSUME NEW p \in 1..Len(queue)
        PROVE  /\ queue[p].kind = "candidate" => source'[queue[p].card.source] # None
               /\ queue[p].kind = "task" => queue[p].card.task \in 1..Len(task)
    <3>1. /\ queue[p].kind = "candidate" => source[queue[p].card.source] # None
          /\ queue[p].kind = "task" => queue[p].card.task \in 1..Len(task)
        BY <2>1 DEF CardsExist
    <3>2. queue[p].kind = "candidate" => queue[p].card.source \in Source
      <4>1. queue[p] \in Update
          BY <2>1
      <4>. QED  BY <4>1, UpdateKinds DEF CandidateCard
    <3>. QED  BY <1>5, <3>1, <3>2
  <2>4. \A c \in cards' : IF c \in CandidateCard THEN source'[c.source] # None
                           ELSE c.task \in 1..Len(task')
      BY <1>1, <2>2
  <2>5. \A p \in 1..Len(queue') :
            /\ queue'[p].kind = "candidate" => source'[queue'[p].card.source] # None
            /\ queue'[p].kind = "task" => queue'[p].card.task \in 1..Len(task')
      BY <1>1, <2>3
  <2>. QED  BY <2>4, <2>5 DEF CardsExist
<1>13. MailFits'
    BY <1>1, <1>3, <1>5 DEF TypeInv, MailFits
<1>. QED  BY <1>8, <1>9, <1>10, <1>11, <1>12, <1>13 DEF TypeInv

LEMMA CommitMailTypes ==
    ASSUME TypeInv, CommitMail
    PROVE  TypeInv'
<1>. DEFINE row == [source[Mail] EXCEPT !.status = "PROCESSED", !.candidate = Mail]
            r == [status |-> "NOTIFIED", task |-> NoTask]
<1>1. /\ mail = "open" /\ mail' = "over"
      /\ source' = [source EXCEPT ![Mail].status = "PROCESSED", ![Mail].candidate = Mail]
      /\ record' = [record EXCEPT ![Mail] = r]
      /\ UNCHANGED <<queue, forgotten, cards, created, task, touched, used, pc, offset,
                     at, upto, hand, budget, ended, failed, uses, told>>
    BY DEF CommitMail, telegram, poll, history
<1>2. source[Mail] # None /\ source[Mail] \in SourceRow /\ Mail \in Source
    BY <1>1, Names DEF TypeInv, TypeOK, MailFits
<1>3. row \in SourceRow /\ source' = [source EXCEPT ![Mail] = row]
    BY <1>1, <1>2 DEF SourceRow
<1>4. r \in Record /\ r # None /\ r.task <= Len(task)
  <2>1. r \in Record /\ r.task = 0 /\ Len(task) \in Nat
      BY DEF Record, NoTask, TypeInv, TypeOK
  <2>. QED  BY <2>1, NoneAssumption
<1>. HIDE DEF row, r
<1>5. /\ source' \in [Source -> SourceRow \cup {None}]
      /\ record' \in [Source -> Record \cup {None}]
      /\ \A x \in Source : source[x] # None => source'[x] # None
      /\ \A x \in Source : record[x] # None => record'[x] # None
      /\ RowsOrdered' /\ RowsFit'
    BY <1>1, <1>2, <1>3, <1>4, SourceRowTypes
<1>6. TypeOK'
    BY <1>1, <1>5 DEF TypeInv, TypeOK
<1>7. PollFits'
    BY <1>1 DEF TypeInv, PollFits, Handling, Passed
<1>8. HandFits'
  <2>1. hand \in Hand
      BY DEF TypeInv, TypeOK
  <2>. QED  BY <1>1, <1>5, <2>1
            DEF TypeInv, HandFits, Handling, Press, Deciding, Hand
<1>9. CardsExist'
  <2>1. Len(task') \in Nat /\ Len(task) <= Len(task') /\ UNCHANGED <<queue, cards>>
      BY <1>1 DEF TypeInv, TypeOK
  <2>. QED  BY <1>5, <2>1, SameCards
<1>10. MailFits'
    BY <1>1, <1>2, <1>5 DEF TypeInv, MailFits
<1>. QED  BY <1>5, <1>6, <1>7, <1>8, <1>9, <1>10 DEF TypeInv

\* Every step keeps the types.  Tasks are no more than updates (KeyInv): the
\* keys of TelegramBot name a task by its position.
LEMMA TypeNext ==
    ASSUME TypeInv, Len(task) <= MaxUpdates, [Next]_vars
    PROVE  TypeInv'
<1>1. CASE UNCHANGED vars
  <2>1. UNCHANGED <<queue, forgotten, cards, source, created, record, task, touched,
                    used, pc, offset, at, upto, hand, mail, budget, ended, failed,
                    uses, told>>
      BY <1>1 DEF vars
  <2>2. TypeOK' /\ PollFits' /\ HandFits'
      BY <2>1 DEF TypeInv, TypeOK, PollFits, HandFits, Handling, Passed, Press
  <2>3. CardsExist' /\ MailFits'
      BY <2>1 DEF TypeInv, CardsExist, MailFits
  <2>. QED  BY <2>1, <2>2, <2>3, SameRows DEF TypeInv
<1>2. CASE GetUpdates
    BY <1>2, GetUpdatesTypes
<1>3. CASE Handle
    BY <1>3, NextUpdateTypes, ReadTextTypes, ClearAwaitingTypes, ParseTypes,
       StoreTextTypes, SaveCandidateTypes, ShowCandidateTypes, MarkNotifiedTypes,
       NewTaskTypes, AnswerTypes, LoadCandidateTypes, IgnoreTypes, AwaitNewTextTypes,
       CreateFromCandidateTypes, ConfirmTypes, PressTaskTypes, AnswerCallbackTypes
    DEF Handle
<1>4. CASE CallFails
    BY <1>4, CallFailsTypes
<1>5. CASE Crash
    BY <1>5, CrashTypes
<1>6. CASE ShowMail
    BY <1>6, ShowMailTypes
<1>7. CASE CommitMail
    BY <1>7, CommitMailTypes
<1>8. CASE RollBackMail
    BY <1>8, RollBackMailTypes
<1>9. CASE Type \/ PressButton
    BY <1>9, SendTypes
<1>. QED  BY <1>1, <1>2, <1>3, <1>4, <1>5, <1>6, <1>7, <1>8, <1>9 DEF Next

-----------------------------------------------------------------------------
\* The keys of tasks.

\* Queue and tasks grow at their ends; keys and sources of tasks stay.
QueueGrows ==
    /\ Len(queue) <= Len(queue')
    /\ \A p \in 1..Len(queue) : queue'[p] = queue[p]
SameTasks ==
    /\ Len(task') = Len(task)
    /\ \A t \in 1..Len(task) : task'[t].key = task[t].key
                               /\ task'[t].source = task[t].source

LEMMA QueueStep ==
    ASSUME TypeInv, [Next]_vars
    PROVE  QueueGrows
<1>1. CASE Type \/ PressButton
  <2>1. PICK u : Sends(u)
      BY <1>1, OwnerSends
  <2>2. Len(queue) \in Nat
      BY DEF TypeInv, TypeOK
  <2>. QED  BY <2>1, <2>2, SendsQueue DEF QueueGrows
<1>2. CASE ~(Type \/ PressButton)
  <2>1. UNCHANGED queue
      BY <1>2
      DEF Next, vars, telegram, GetUpdates, Handle, NextUpdate, ReadText, ClearAwaiting,
          ParseMessage, StoreText, SaveCandidate, ShowCandidate, MarkNotified, NewTask,
          Answer, LoadCandidate, Ignore, AwaitNewText, CreateFromCandidate, Confirm,
          PressTask, AnswerCallback, Redraw, CallFails, Crash, ShowMail, CommitMail,
          RollBackMail
  <2>2. Len(queue) \in Nat
      BY DEF TypeInv, TypeOK
  <2>. QED  BY <2>1, <2>2 DEF QueueGrows
<1>. QED  BY <1>1, <1>2

\* A button or a field that is asked for changes a task's status.
LEMMA ChangeKeepsTasks ==
    ASSUME TypeInv, Len(task) <= MaxUpdates, ReadText \/ ClearAwaiting \/ PressTask
    PROVE  SameTasks
<1>1. ASSUME TypeInv, Handling, NEW k \in OperationKey, NEW t \in 1..Len(task),
             NEW status \in {"NEW", "DONE", "CANCELLED"}, ChangeTask(k, t, status)
      PROVE  SameTasks
    BY <1>1, ChangeTaskMoves DEF SameTasks
<1>2. task \in Seq(TaskRow)
    BY DEF TypeInv, TypeOK
<1>3. ASSUME NEW t \in 1..Len(task), NEW value,
             task' = [task EXCEPT ![t].awaiting = value]
      PROVE  SameTasks
  <2>1. /\ Len(task') = Len(task)
        /\ \A u \in 1..Len(task) :
               task'[u] = IF u = t THEN [task[t] EXCEPT !.awaiting = value] ELSE task[u]
      BY <1>2, <1>3
  <2>2. task[t] \in TaskRow
      BY <1>2
  <2>. QED  BY <2>1, <2>2 DEF SameTasks, TaskRow
<1>4. UNCHANGED task => SameTasks
    BY DEF SameTasks
<1>5. CASE ReadText
    BY <1>1, <1>4, <1>5, ReadTextMoves
<1>6. CASE ClearAwaiting
  <2>1. hand.task \in 1..Len(task)
      BY <1>6 DEF ClearAwaiting, TypeInv, TypeOK, HandFits, Hand, NoTask
  <2>. QED  BY <1>3, <1>6, <2>1 DEF ClearAwaiting
<1>7. CASE PressTask
  <2>1. Handling /\ Press.card.task \in 1..Len(task) /\ <<"callback", at>> \in OperationKey
      BY <1>7, StepKinds, PressedCard, CreateKeys DEF PressTask, Handling
  <2>. QED  BY <1>1, <1>3, <1>4, <1>7, <2>1 DEF PressTask
<1>. QED  BY <1>5, <1>6, <1>7

LEMMA TaskStep ==
    ASSUME TypeInv, Len(task) <= MaxUpdates, [Next]_vars
    PROVE  SameTasks \/ NewTask \/ CreateFromCandidate
<1>1. CASE ReadText \/ ClearAwaiting \/ PressTask
    BY <1>1, ChangeKeepsTasks
<1>2. CASE ~(ReadText \/ ClearAwaiting \/ PressTask \/ NewTask \/ CreateFromCandidate)
  <2>1. UNCHANGED task
      BY <1>2
      DEF Next, vars, db, GetUpdates, Handle, NextUpdate, ParseMessage, StoreText,
          SaveCandidate, ShowCandidate, MarkNotified, Answer, LoadCandidate, Ignore,
          AwaitNewText, Confirm, AnswerCallback, Redraw, CallFails, Crash, ShowMail,
          CommitMail, RollBackMail, Type, PressButton, Send
  <2>. QED  BY <2>1 DEF SameTasks
<1>. QED  BY <1>1, <1>2

LEMMA IntervalSize ==
    ASSUME NEW n \in Nat
    PROVE  IsFiniteSet(1..n) /\ Cardinality(1..n) = n
<1>1. IsFiniteSet(1..n) /\ Cardinality(1..n) = IF 1 > n THEN 0 ELSE n - 1 + 1
    BY FS_Interval
<1>. QED  BY <1>1

\* Keys differ, and each is that of an update: no more tasks than updates.
LEMMA TasksBounded ==
    ASSUME TypeInv, KeyInv
    PROVE  Len(task) <= MaxUpdates
<1>. DEFINE T == 1..Len(task)
            Q == 1..Len(queue)
            origin == [t \in T |-> CHOOSE p \in Q : task[t].key = OriginKey(queue[p], p)]
<1>1. /\ Len(task) \in Nat /\ Len(queue) \in Nat /\ Len(queue) <= MaxUpdates
      /\ MaxUpdates \in Nat
    BY Names DEF TypeInv, TypeOK
<1>2. ASSUME NEW t \in T
      PROVE  origin[t] \in Q /\ task[t].key = OriginKey(queue[origin[t]], origin[t])
    BY DEF KeyInv
<1>3. \A t, u \in T : task[t].key = task[u].key => t = u
    BY DEF KeyInv
<1>4. origin \in [T -> Q]
    BY <1>2
<1>. HIDE DEF origin
<1>5. \A t, u \in T : origin[t] = origin[u] => t = u
    BY <1>2, <1>3
<1>6. origin \in Injection(T, Q)
    BY <1>4, <1>5 DEF Injection, IsInjective
<1>7. Cardinality(T) = Len(task) /\ Cardinality(Q) = Len(queue) /\ IsFiniteSet(Q)
    BY <1>1, IntervalSize
<1>8. Cardinality(T) <= Cardinality(Q)
    BY <1>6, <1>7, FS_Injection
<1>. QED  BY <1>1, <1>7, <1>8

\* An update creates a task with its own key, unless there is one.
LEMMA KeyCreated ==
    ASSUME TypeInv, KeyInv, Handling, UNCHANGED queue,
           NEW k, NEW from \in Source \cup {None},
           k = OriginKey(Press, at),
           \A s \in Source : from = s <=> k = <<"candidate", s>>,
           \/ UNCHANGED task
           \/ /\ \A t \in 1..Len(task) : task[t].key # k
              /\ Len(task') = Len(task) + 1
              /\ \A t \in 1..Len(task) : task'[t] = task[t]
              /\ task'[Len(task) + 1].key = k /\ task'[Len(task) + 1].source = from
    PROVE  KeyInv'
<1>1. CASE UNCHANGED task
    BY <1>1 DEF KeyInv
<1>2. CASE /\ \A t \in 1..Len(task) : task[t].key # k
           /\ Len(task') = Len(task) + 1
           /\ \A t \in 1..Len(task) : task'[t] = task[t]
           /\ task'[Len(task) + 1].key = k /\ task'[Len(task) + 1].source = from
  <2>. DEFINE n == Len(task) + 1
  <2>1. Len(task) \in Nat /\ n \in Nat /\ Len(task') = n
      BY <1>2 DEF TypeInv, TypeOK
  <2>2. \A t \in 1..n : t \in 1..Len(task) \/ t = n
      BY <2>1
  <2>3. at \in 1..Len(queue) /\ task'[n].key = OriginKey(queue[at], at)
      BY <1>2, InHand DEF Press
  <2>4. /\ task'[n].key = k /\ task'[n].source = from
        /\ \A t \in 1..Len(task) : task'[t] = task[t] /\ task[t].key # k
      BY <1>2
  <2>. HIDE DEF n
  <2>5. \A t, u \in 1..n : task'[t].key = task'[u].key => t = u
      BY <2>2, <2>4 DEF KeyInv
  <2>6. ASSUME NEW t \in 1..n
        PROVE  /\ \E p \in 1..Len(queue) : task'[t].key = OriginKey(queue[p], p)
               /\ \A s \in Source :
                      task'[t].source = s <=> task'[t].key = <<"candidate", s>>
    <3>1. CASE t = n
        BY <2>3, <2>4, <3>1
    <3>2. CASE t \in 1..Len(task)
      <4>1. task'[t] = task[t]
          BY <2>4, <3>2
      <4>2. \E p \in 1..Len(queue) : task[t].key = OriginKey(queue[p], p)
          BY <3>2 DEF KeyInv
      <4>3. \A s \in Source : task[t].source = s <=> task[t].key = <<"candidate", s>>
          BY <3>2 DEF KeyInv
      <4>. QED  BY <4>1, <4>2, <4>3
    <3>. QED  BY <2>2, <3>1, <3>2
  <2>. QED  BY <2>1, <2>5, <2>6 DEF KeyInv
<1>. QED  BY <1>1, <1>2

\* The two creations, and what they create.
LEMMA NewTaskMoves ==
    ASSUME TypeInv, NewTask
    PROVE  /\ Handling /\ Press.kind = "new" /\ <<"new", at>> = OriginKey(Press, at)
           /\ <<"new", at>> \in OperationKey /\ at \in Source
           /\ CreateTask(<<"new", at>>, None, at)
           /\ pc' = "answer"
           /\ UNCHANGED <<queue, forgotten, cards, source, created, record, offset, at,
                          upto, mail, budget, ended, failed, told>>
<1>1. Handling /\ Press.kind = "new"
    BY StepKinds DEF NewTask, Handling
<1>. QED  BY <1>1, InHand, CreateKeys DEF NewTask, OriginKey, telegram, poll, Goto

LEMMA CreateFromCandidateMoves ==
    ASSUME TypeInv, CreateFromCandidate
    PROVE  /\ Handling /\ pc = "create" /\ pc' = "confirm"
           /\ Press.kind = "candidate" /\ Press.action = "create"
           /\ hand.source \in Source /\ hand.source = Press.card.source
           /\ hand.row.candidate \in Source /\ hand.row.candidate # None
           /\ CreateKey(hand.source) = <<"candidate", hand.source>>
           /\ CreateKey(hand.source) = OriginKey(Press, at)
           /\ CreateKey(hand.source) \in OperationKey
           /\ CreateTask(CreateKey(hand.source), hand.source, hand.row.candidate)
           /\ UNCHANGED <<queue, forgotten, cards, source, created, record, offset, at,
                          upto, mail, budget, ended, failed, told>>
<1>1. Handling /\ pc = "create" /\ Press.kind = "candidate"
    BY StepKinds DEF CreateFromCandidate, Handling
<1>2. /\ Press.action = "create" /\ hand.source = Press.card.source
      /\ hand.row # None /\ hand.row.candidate # None /\ hand.source # None
    BY <1>1 DEF TypeInv, HandFits, Deciding
<1>3. hand.source \in Source /\ hand.row.candidate \in Source
    BY <1>2 DEF TypeInv, TypeOK, Hand, SourceRow
<1>4. CreateKey(hand.source) \in OperationKey
    BY <1>1, <1>3, CreateKeys
<1>. QED  BY <1>1, <1>2, <1>3, <1>4
          DEF CreateFromCandidate, CreateKey, OriginKey, telegram, poll, Goto

LEMMA KeyInit == Init => KeyInv
    BY DEF Init, KeyInv

LEMMA KeyNext ==
    ASSUME TypeInv, KeyInv, [Next]_vars
    PROVE  KeyInv'
<1>1. QueueGrows /\ Len(task) <= MaxUpdates
    BY QueueStep, TasksBounded
<1>2. CASE SameTasks
  <2>1. Len(queue) \in Nat /\ Len(queue') \in Nat
    <3>1. TypeInv'
        BY <1>1, TypeNext
    <3>. QED  BY <3>1 DEF TypeInv, TypeOK
  <2>2. \A p \in 1..Len(queue) : p \in 1..Len(queue') /\ queue'[p] = queue[p]
      BY <1>1, <2>1 DEF QueueGrows
  <2>3. /\ Len(task') = Len(task)
        /\ \A t \in 1..Len(task) : task'[t].key = task[t].key
                                   /\ task'[t].source = task[t].source
      BY <1>2 DEF SameTasks
  <2>4. \A t, u \in 1..Len(task') : task'[t].key = task'[u].key => t = u
      BY <2>3 DEF KeyInv
  <2>5. ASSUME NEW t \in 1..Len(task')
        PROVE  /\ \E p \in 1..Len(queue') : task'[t].key = OriginKey(queue'[p], p)
               /\ \A s \in Source :
                      task'[t].source = s <=> task'[t].key = <<"candidate", s>>
    <3>1. PICK p \in 1..Len(queue) : task[t].key = OriginKey(queue[p], p)
        BY <2>3 DEF KeyInv
    <3>2. p \in 1..Len(queue') /\ task'[t].key = OriginKey(queue'[p], p)
        BY <2>2, <2>3, <3>1
    <3>3. \E x \in 1..Len(queue') : task'[t].key = OriginKey(queue'[x], x)
        BY <3>2
    <3>4. \A s \in Source : task'[t].source = s <=> task'[t].key = <<"candidate", s>>
        BY <2>3 DEF KeyInv
    <3>. QED  BY <3>3, <3>4
  <2>. QED  BY <2>4, <2>5 DEF KeyInv
<1>3. CASE NewTask
  <2>1. /\ Handling /\ UNCHANGED queue
        /\ <<"new", at>> = OriginKey(Press, at) /\ <<"new", at>> \in OperationKey
        /\ at \in Source /\ CreateTask(<<"new", at>>, None, at)
      BY <1>3, NewTaskMoves
  <2>2. \/ UNCHANGED task
        \/ /\ \A t \in 1..Len(task) : task[t].key # <<"new", at>>
           /\ Len(task') = Len(task) + 1
           /\ \A t \in 1..Len(task) : task'[t] = task[t]
           /\ task'[Len(task) + 1].key = <<"new", at>>
           /\ task'[Len(task) + 1].source = None
      BY <2>1, CreateTaskMoves
  <2>3. \A s \in Source : None = s <=> <<"new", at>> = <<"candidate", s>>
      BY Names
  <2>. QED  BY <2>1, <2>2, <2>3, KeyCreated
<1>4. CASE CreateFromCandidate
  <2>. DEFINE k == CreateKey(hand.source)
  <2>1. /\ Handling /\ UNCHANGED queue /\ hand.source \in Source
        /\ hand.row.candidate \in Source
        /\ k = OriginKey(Press, at) /\ k \in OperationKey
        /\ k = <<"candidate", hand.source>>
        /\ CreateTask(k, hand.source, hand.row.candidate)
      BY <1>4, CreateFromCandidateMoves
  <2>. HIDE DEF k
  <2>2. \/ UNCHANGED task
        \/ /\ \A t \in 1..Len(task) : task[t].key # k
           /\ Len(task') = Len(task) + 1
           /\ \A t \in 1..Len(task) : task'[t] = task[t]
           /\ task'[Len(task) + 1].key = k
           /\ task'[Len(task) + 1].source = hand.source
      BY <2>1, CreateTaskMoves
  <2>3. \A s \in Source : hand.source = s <=> k = <<"candidate", s>>
      BY <2>1
  <2>. QED  BY <2>1, <2>2, <2>3, KeyCreated
<1>. QED  BY <1>1, <1>2, <1>3, <1>4, TaskStep

-----------------------------------------------------------------------------
\* The updates that were passed.

\* A step within the handling of an update; its last step; a step of somebody
\* else.
WithText == {"text", "parse", "store", "save", "show"}
AtDecision == {"candidate", "create", "confirm"}
GoesOn ==
    /\ Handling /\ Handling'
    /\ UNCHANGED <<queue, forgotten, offset, at, upto, ended, failed>>
    /\ pc' \in WithText => pc \in WithText
    /\ pc' \in Deciding => LoadCandidate \/ CreateFromCandidate
    /\ pc \in AtDecision => LoadCandidate \/ CreateFromCandidate \/ Confirm
Ends ==
    /\ Handling /\ ~Handling' /\ hand' = NoHand
    /\ Passed' = Passed
    /\ at \in ended' \cup failed'
    /\ pc \in AtDecision => at \in failed'
    /\ ended \subseteq ended' /\ failed \subseteq failed'
    /\ UNCHANGED <<queue, forgotten>>
Elsewhere == UNCHANGED <<forgotten, pc, offset, at, upto, hand, ended, failed>>

LEMMA FinishEnds ==
    ASSUME TypeInv, Handling, Finish, pc \notin AtDecision,
           UNCHANGED <<queue, forgotten>>
    PROVE  Ends /\ UNCHANGED failed
<1>1. Passed' = Passed /\ ~Handling'
    BY FinishPolling
<1>. QED  BY <1>1 DEF Ends, Finish

LEMMA RaiseEnds ==
    ASSUME TypeInv, Handling, Raise, UNCHANGED <<queue, forgotten>>
    PROVE  Ends /\ at \in failed'
<1>1. Passed' = Passed /\ ~Handling'
    BY RaisePolling
<1>. QED  BY <1>1 DEF Ends, Raise

\* What each step of a handler does to the polling.
LEMMA HandlerStep ==
    ASSUME TypeInv, Len(task) <= MaxUpdates, Handle \/ CallFails
    PROVE  NextUpdate \/ GoesOn \/ Ends
<1>. USE DEF Goto, telegram, poll, db, history
<1>1. CASE ReadText
  <2>1. /\ pc = "text" /\ Handling /\ UNCHANGED <<queue, forgotten>>
        /\ \/ /\ pc' \in {"parse", "answer", "clear"}
              /\ UNCHANGED <<offset, at, upto, ended, failed>>
           \/ Raise
      BY <1>1, ReadTextMoves
  <2>. QED  BY <2>1, RaiseEnds DEF GoesOn, Handling, WithText, Deciding, AtDecision
<1>2. CASE ClearAwaiting \/ ParseMessage \/ SaveCandidate
    BY <1>2
    DEF ClearAwaiting, ParseMessage, SaveCandidate, GoesOn, Handling, WithText, Deciding,
        AtDecision
<1>3. CASE StoreText
  <2>1. /\ pc = "store" /\ Handling /\ UNCHANGED <<queue, forgotten>>
        /\ \/ pc' = "save" /\ UNCHANGED <<offset, at, upto, ended, failed>>
           \/ Raise
      BY <1>3 DEF StoreText, Handling
  <2>. QED  BY <2>1, RaiseEnds DEF GoesOn, Handling, WithText, Deciding, AtDecision
<1>4. CASE ShowCandidate
  <2>1. /\ pc = "show" /\ Handling /\ UNCHANGED <<queue, forgotten>>
        /\ \/ pc' = "notify" /\ UNCHANGED <<offset, at, upto, ended, failed>>
           \/ Raise
      BY <1>4 DEF ShowCandidate, Handling
  <2>. QED  BY <2>1, RaiseEnds DEF GoesOn, Handling, WithText, Deciding, AtDecision
<1>5. CASE MarkNotified \/ Answer \/ Redraw
  <2>1. Handling /\ Finish /\ pc \notin AtDecision /\ UNCHANGED <<queue, forgotten>>
      BY <1>5 DEF MarkNotified, Answer, Redraw, Handling, AtDecision
  <2>. QED  BY <2>1, FinishEnds
<1>6. CASE NewTask \/ CreateFromCandidate
  <2>1. /\ Handling
        /\ CreateFromCandidate \/ (pc = "new" /\ pc' = "answer")
        /\ pc' \in {"answer", "confirm"}
        /\ UNCHANGED <<queue, forgotten, offset, at, upto, ended, failed>>
      BY <1>6, NewTaskMoves, CreateFromCandidateMoves DEF NewTask
  <2>. QED  BY <2>1 DEF GoesOn, Handling, WithText, Deciding, AtDecision
<1>7. CASE LoadCandidate
  <2>1. Handling /\ pc = "candidate"
      BY <1>7 DEF LoadCandidate, Handling
  <2>2. Press.action \in {"create", "edit", "ignore"}
      BY <2>1, StepKinds, PressedCard
  <2>. QED  BY <1>7, <2>1, <2>2
            DEF LoadCandidate, GoesOn, Handling, WithText, Deciding, AtDecision
<1>8. CASE Ignore \/ AwaitNewText \/ Confirm \/ PressTask
    BY <1>8
    DEF Ignore, AwaitNewText, Confirm, PressTask, GoesOn, Handling, WithText, Deciding,
        AtDecision
<1>9. CASE AnswerCallback
  <2>1. /\ pc = "ack" /\ Handling /\ UNCHANGED <<queue, forgotten>>
        /\ \/ pc' = "redraw" /\ UNCHANGED <<offset, at, upto, ended, failed>>
           \/ Finish
      BY <1>9 DEF AnswerCallback, Handling
  <2>. QED  BY <2>1, FinishEnds DEF GoesOn, Handling, WithText, Deciding, AtDecision
<1>10. CASE CallFails
  <2>1. Handling /\ Raise /\ UNCHANGED <<queue, forgotten>>
      BY <1>10 DEF CallFails, Handling
  <2>. QED  BY <2>1, RaiseEnds
<1>. QED  BY <1>1, <1>2, <1>3, <1>4, <1>5, <1>6, <1>7, <1>8, <1>9, <1>10 DEF Handle

LEMMA PollStep ==
    ASSUME TypeInv, Len(task) <= MaxUpdates, [Next]_vars
    PROVE  GetUpdates \/ NextUpdate \/ Crash \/ GoesOn \/ Ends \/ Elsewhere
<1>1. CASE Handle \/ CallFails
    BY <1>1, HandlerStep
<1>2. CASE ShowMail \/ CommitMail \/ RollBackMail
    BY <1>2 DEF ShowMail, CommitMail, RollBackMail, Elsewhere, telegram, poll, history
<1>3. CASE Type \/ PressButton
  <2>1. PICK u : Sends(u)
      BY <1>3, OwnerSends
  <2>. QED  BY <2>1, SendsQueue DEF Elsewhere
<1>4. CASE UNCHANGED vars
    BY <1>4 DEF vars, Elsewhere
<1>. QED  BY <1>1, <1>2, <1>3, <1>4 DEF Next

LEMMA CrashFacts ==
    ASSUME TypeInv, Crash
    PROVE  /\ ~Handling' /\ Passed' = forgotten /\ forgotten <= Passed
           /\ UNCHANGED <<queue, forgotten, ended, failed>>
           /\ pc # "poll" => at = Passed
           /\ Handling => at > forgotten
    BY DEF TypeInv, TypeOK, PollFits, Crash, LeaveBatch, Goto, Passed, Handling,
           telegram, history

LEMMA PassedInit == Init => PassedInv
    BY DEF Init, PassedInv, Passed

LEMMA PassedNext ==
    ASSUME TypeInv, Len(task) <= MaxUpdates, PassedInv, [Next]_vars
    PROVE  PassedInv'
<1>1. /\ Passed \in Nat /\ forgotten \in Nat
      /\ \A p \in 1..Passed : p \in ended \cup failed \/ (Handling /\ p = at)
    BY DEF TypeInv, TypeOK, PassedInv, Passed
<1>2. CASE GetUpdates
  <2>1. Passed' = Passed /\ ~Handling /\ UNCHANGED <<ended, failed>>
      BY <1>2, GetUpdatesTypes DEF GetUpdates, Handling, history
  <2>. QED  BY <1>1, <2>1 DEF PassedInv
<1>3. CASE NextUpdate
  <2>1. /\ ~Handling /\ UNCHANGED <<ended, failed>>
        /\ \/ Passed' = Passed
           \/ Passed' = Passed + 1 /\ at' = Passed' /\ Handling'
      BY <1>3, NextUpdateTypes DEF NextUpdate, Handling, history
  <2>. QED  BY <1>1, <2>1 DEF PassedInv
<1>4. CASE Crash
    BY <1>1, <1>4, CrashFacts DEF PassedInv
<1>5. CASE GoesOn
  <2>1. Passed' = Passed /\ at' = at
      BY <1>5 DEF GoesOn, Passed
  <2>. QED  BY <1>1, <1>5, <2>1 DEF GoesOn, PassedInv
<1>6. CASE Ends
    BY <1>1, <1>6 DEF Ends, PassedInv
<1>7. CASE Elsewhere
  <2>1. Passed' = Passed /\ Handling' = Handling
      BY <1>7 DEF Elsewhere, Passed, Handling
  <2>. QED  BY <1>1, <1>7, <2>1 DEF Elsewhere, PassedInv
<1>. QED  BY <1>2, <1>3, <1>4, <1>5, <1>6, <1>7, PollStep

-----------------------------------------------------------------------------
\* Candidates and their tasks.

HasTask(s) == \E t \in 1..Len(task) : task[t].source = s

\* Records keep their tasks, and a source with a task its candidate.
LinksKept ==
    \A s \in Source :
        /\ record'[s] # None /\ record'[s].task # NoTask =>
               record[s] # None /\ record'[s].task = record[s].task
        /\ HasTask(s) => /\ record'[s].task = record[s].task
                         /\ source'[s] # None /\ source'[s].candidate # None
CandidatesKept ==
    \A s \in Source : source[s] # None /\ source[s].candidate # None =>
        source'[s].candidate # None

LEMMA SameLinks ==
    ASSUME LinkInv, UNCHANGED <<source, record>>
    PROVE  LinksKept /\ CandidatesKept
    BY DEF LinkInv, HasTask, LinksKept, CandidatesKept

\* A source with a task has its record.
LEMMA TaskHasRecord ==
    ASSUME TypeInv, LinkInv, NEW s \in Source, HasTask(s)
    PROVE  /\ source[s] # None /\ source[s].candidate # None /\ record[s] # None
           /\ pc \in Deciding /\ hand.source = s => hand.row.candidate # None
    BY DEF TypeInv, RowsFit, LinkInv, HasTask

LEMMA StoreLinks ==
    ASSUME TypeInv, LinkInv, StoreText
    PROVE  LinksKept
<1>1. CASE UNCHANGED source
    BY <1>1, SameLinks DEF StoreText, db
<1>2. CASE source[at] = None /\ UNCHANGED record
           /\ source' = [source EXCEPT ![at] =
                  [status |-> "NEW", candidate |-> None, awaiting |-> FALSE]]
  <2>1. \A s \in Source : s # at => source'[s] = source[s]
      BY <1>2 DEF TypeInv, TypeOK
  <2>2. \A s \in Source : HasTask(s) => s # at /\ source[s] # None
                                        /\ source[s].candidate # None
      BY <1>2, TaskHasRecord
  <2>. QED  BY <1>2, <2>1, <2>2 DEF LinksKept
<1>. QED  BY <1>1, <1>2 DEF StoreText, db

LEMMA SaveLinks ==
    ASSUME TypeInv, LinkInv, SaveCandidate
    PROVE  LinksKept
<1>. DEFINE x == hand.source
            r == IF record[x] = None THEN [status |-> "PENDING", task |-> NoTask]
                 ELSE record[x]
            row == [source[x] EXCEPT !.status = "PROCESSED", !.candidate = at]
<1>1. /\ pc = "save" /\ Handling
      /\ source' = [source EXCEPT ![x].status = "PROCESSED", ![x].candidate = at]
      /\ record' = [record EXCEPT ![x] = r]
    BY DEF SaveCandidate, Handling
<1>2. /\ source \in [Source -> SourceRow \cup {None}]
      /\ record \in [Source -> Record \cup {None}]
      /\ x # None /\ source[x] # None /\ hand \in Hand /\ at # None
    BY <1>1, InHand DEF TypeInv, TypeOK, HandFits
<1>3. x \in Source /\ source[x] \in SourceRow
    BY <1>2 DEF Hand
<1>4. row.candidate = at /\ row \in SourceRow /\ source' = [source EXCEPT ![x] = row]
    BY <1>1, <1>2, <1>3, InHand DEF SourceRow
<1>5. record[x] = None => r.task = NoTask
    OBVIOUS
<1>6. record[x] # None => r = record[x]
    OBVIOUS
<1>. HIDE DEF x, r, row
<1>7. row # None
    BY <1>4, NoneAssumption
<1>8. /\ \A s \in Source : s # x => source'[s] = source[s] /\ record'[s] = record[s]
      /\ source'[x] = row /\ record'[x] = r
    BY <1>1, <1>2, <1>3, <1>4
<1>9. ASSUME NEW s \in Source
      PROVE  /\ record'[s] # None /\ record'[s].task # NoTask =>
                    record[s] # None /\ record'[s].task = record[s].task
             /\ HasTask(s) => /\ record'[s].task = record[s].task
                              /\ source'[s] # None /\ source'[s].candidate # None
  <2>1. HasTask(s) => source[s] # None /\ source[s].candidate # None /\ record[s] # None
      BY TaskHasRecord
  <2>2. CASE s = x
      BY <1>2, <1>4, <1>5, <1>6, <1>7, <1>8, <2>1, <2>2
  <2>3. CASE s # x
      BY <1>8, <2>1, <2>3
  <2>. QED  BY <2>2, <2>3
<1>. QED  BY <1>9 DEF LinksKept

LEMMA NotifiedLinks ==
    ASSUME TypeInv, LinkInv, MarkNotified
    PROVE  LinksKept
<1>. DEFINE x == hand.source
<1>1. /\ record' = [record EXCEPT ![x].status = "NOTIFIED"]
      /\ record \in [Source -> Record \cup {None}] /\ record[x] # None
      /\ hand \in Hand /\ x # None /\ UNCHANGED source
    BY DEF MarkNotified, TypeInv, TypeOK, HandFits
<1>2. x \in Source /\ record[x] \in Record
    BY <1>1 DEF Hand
<1>. HIDE DEF x
<1>3. \A s \in Source : s # x => record'[s] = record[s]
    BY <1>1
<1>4. record'[x].task = record[x].task
    BY <1>1, <1>2 DEF Record
<1>5. \A s \in Source : HasTask(s) => source[s] # None /\ source[s].candidate # None
    BY TaskHasRecord
<1>. QED  BY <1>1, <1>3, <1>4, <1>5 DEF LinksKept

LEMMA IgnoreLinks ==
    ASSUME TypeInv, LinkInv, Ignore
    PROVE  LinksKept
<1>. DEFINE x == hand.source
            r == Decided("REJECTED", NoTask)
<1>1. /\ pc \in Deciding /\ Decide(x, "REJECTED", NoTask)
      /\ source' = [source EXCEPT ![x].status = "IGNORED"]
    BY DEF Ignore, Deciding
<1>2. /\ x \in Source /\ source[x] \in SourceRow /\ source[x] # None
      /\ source \in [Source -> SourceRow \cup {None}]
      /\ record \in [Source -> Record \cup {None}]
      /\ hand.record # None => record[x] # None
    BY <1>1, DecidedSource DEF TypeInv, TypeOK
<1>3. record' = [record EXCEPT ![x] = r]
  <2>1. NoTask \in Nat /\ NoTask <= Len(task)
      BY DEF NoTask, TypeInv, TypeOK
  <2>. QED  BY <1>1, <2>1, DecidedType
<1>4. /\ hand.record = None => r = record[x]
      /\ hand.record # None => r.task = record[x].task
    BY DEF Decided
<1>. DEFINE row == [source[x] EXCEPT !.status = "IGNORED"]
<1>5. /\ row \in SourceRow /\ row.candidate = source[x].candidate
      /\ source' = [source EXCEPT ![x] = row]
    BY <1>1, <1>2 DEF SourceRow
<1>. HIDE DEF x, r, row
<1>6. /\ \A s \in Source : s # x => source'[s] = source[s] /\ record'[s] = record[s]
      /\ source'[x] = row /\ record'[x] = r
    BY <1>2, <1>3, <1>5
<1>7. ASSUME NEW s \in Source
      PROVE  /\ record'[s] # None /\ record'[s].task # NoTask =>
                    record[s] # None /\ record'[s].task = record[s].task
             /\ HasTask(s) => /\ record'[s].task = record[s].task
                              /\ source'[s] # None /\ source'[s].candidate # None
  <2>1. HasTask(s) => source[s] # None /\ source[s].candidate # None /\ record[s] # None
      BY TaskHasRecord
  <2>2. CASE s = x
    <3>1. source'[s] # None /\ source'[s].candidate = source[s].candidate
        BY <1>5, <1>6, <2>2, NoneAssumption
    <3>2. CASE hand.record = None
        BY <1>4, <1>6, <2>1, <2>2, <3>1, <3>2
    <3>3. CASE hand.record # None
        BY <1>2, <1>4, <1>6, <2>1, <2>2, <3>1, <3>3
    <3>. QED  BY <3>2, <3>3
  <2>3. CASE s # x
      BY <1>6, <2>1, <2>3
  <2>. QED  BY <2>2, <2>3
<1>. QED  BY <1>7 DEF LinksKept

LEMMA AwaitLinks ==
    ASSUME TypeInv, LinkInv, AwaitNewText
    PROVE  LinksKept
<1>. DEFINE x == hand.source
            row == [source[x] EXCEPT !.candidate = hand.row.candidate, !.awaiting = TRUE]
<1>1. /\ pc \in Deciding /\ UNCHANGED record
      /\ source' = [source EXCEPT ![x].candidate = hand.row.candidate,
                                  ![x].awaiting = TRUE]
    BY DEF AwaitNewText, Deciding
<1>2. /\ x \in Source /\ source[x] \in SourceRow /\ hand.row \in SourceRow
      /\ source \in [Source -> SourceRow \cup {None}]
    BY <1>1, DecidedSource DEF TypeInv, TypeOK
<1>3. /\ row \in SourceRow /\ row.candidate = hand.row.candidate
      /\ source' = [source EXCEPT ![x] = row]
    BY <1>1, <1>2 DEF SourceRow
<1>4. HasTask(x) => hand.row.candidate # None
    BY <1>1, <1>2, TaskHasRecord
<1>. HIDE DEF x, row
<1>5. /\ \A s \in Source : s # x => source'[s] = source[s]
      /\ source'[x] = row /\ row # None
    BY <1>2, <1>3, NoneAssumption
<1>6. \A s \in Source : HasTask(s) => source[s] # None /\ source[s].candidate # None
    BY TaskHasRecord
<1>. QED  BY <1>1, <1>3, <1>4, <1>5, <1>6 DEF LinksKept

LEMMA MailLinks ==
    ASSUME TypeInv, LinkInv, ShowMail \/ CommitMail
    PROVE  LinksKept /\ CandidatesKept
<1>1. /\ source \in [Source -> SourceRow \cup {None}] /\ Mail \in Source
      /\ record \in [Source -> Record \cup {None}]
    BY Names DEF TypeInv, TypeOK
<1>2. \A s \in Source : HasTask(s) => /\ source[s] # None /\ source[s].candidate # None
                                      /\ s # Mail
    BY TaskHasRecord DEF HasTask, ShowMail, CommitMail, TypeInv, MailFits
<1>3. CASE ShowMail
  <2>1. \A s \in Source : s # Mail => source'[s] = source[s]
      BY <1>1, <1>3 DEF ShowMail
  <2>2. source[Mail] = None /\ UNCHANGED record
      BY <1>3 DEF ShowMail, TypeInv, MailFits
  <2>. QED  BY <1>2, <2>1, <2>2 DEF LinksKept, CandidatesKept
<1>4. CASE CommitMail
  <2>1. /\ \A s \in Source : s # Mail => source'[s] = source[s] /\ record'[s] = record[s]
        /\ record'[Mail].task = NoTask
      BY <1>1, <1>4 DEF CommitMail
  <2>2. source'[Mail].candidate # None
    <3>1. source[Mail] \in SourceRow /\ Mail # None
        BY <1>1, <1>4, Names DEF CommitMail, TypeInv, MailFits
    <3>. QED  BY <1>1, <1>4, <3>1 DEF CommitMail, SourceRow
  <2>. QED  BY <1>2, <2>1, <2>2 DEF LinksKept, CandidatesKept
<1>. QED  BY <1>3, <1>4

LEMMA LinksStep ==
    ASSUME TypeInv, LinkInv, Len(task) <= MaxUpdates, [Next]_vars, ~Confirm
    PROVE  LinksKept /\ (Elsewhere => CandidatesKept)
<1>1. CASE StoreText
    BY <1>1, StoreLinks DEF StoreText, Elsewhere, Goto, Raise, LeaveBatch
<1>2. CASE SaveCandidate
    BY <1>2, SaveLinks DEF SaveCandidate, Elsewhere, Goto
<1>3. CASE MarkNotified
    BY <1>3, NotifiedLinks DEF MarkNotified, Elsewhere, Goto, Finish
<1>4. CASE Ignore
    BY <1>4, IgnoreLinks DEF Ignore, Elsewhere, Goto
<1>5. CASE AwaitNewText
    BY <1>5, AwaitLinks DEF AwaitNewText, Elsewhere, Goto
<1>6. CASE ShowMail \/ CommitMail
    BY <1>6, MailLinks
<1>7. CASE ~(StoreText \/ SaveCandidate \/ MarkNotified \/ Ignore \/ AwaitNewText
             \/ ShowMail \/ CommitMail)
  <2>1. UNCHANGED <<source, record>>
    <3>1. CASE ReadText
        BY <3>1, ReadTextMoves
    <3>2. CASE ~ReadText
        BY <1>7, <3>2
        DEF Next, vars, db, GetUpdates, Handle, NextUpdate, ClearAwaiting, ParseMessage,
            ShowCandidate, NewTask, Answer, LoadCandidate, CreateFromCandidate, PressTask,
            AnswerCallback, Redraw, CallFails, Crash, RollBackMail, Type, PressButton, Send
    <3>. QED  BY <3>1, <3>2
  <2>. QED  BY <2>1, SameLinks
<1>. QED  BY <1>1, <1>2, <1>3, <1>4, <1>5, <1>6, <1>7

\* An update that will or may create a task does not lose that state but at its
\* decision.
LEMMA PendingStep ==
    ASSUME TypeInv, Len(task) <= MaxUpdates, [Next]_vars,
           NEW p \in 1..Len(queue), queue[p].kind = "candidate", Pending(p),
           GoesOn /\ p = at /\ pc \in AtDecision => pc' \in AtDecision
    PROVE  Pending(p)'
<1>1. /\ Passed \in Nat /\ forgotten \in Nat
      /\ \/ p > Passed \/ p \in failed
         \/ p = at /\ pc \in AtDecision
      /\ pc \in AtDecision => Handling
    BY DEF TypeInv, TypeOK, Passed, Pending, AtDecision, Handling
<1>2. CASE GetUpdates
  <2>1. Passed' = Passed /\ ~Handling /\ UNCHANGED failed
      BY <1>2, GetUpdatesTypes DEF GetUpdates, Handling, history
  <2>. QED  BY <1>1, <2>1 DEF Pending
<1>3. CASE NextUpdate
  <2>1. /\ ~Handling /\ UNCHANGED failed
        /\ \/ Passed' = Passed
           \/ Passed' = Passed + 1 /\ at' = Passed' /\ pc' = queue[at'].kind
      BY <1>3, NextUpdateTypes DEF NextUpdate, Handling, history
  <2>. QED  BY <1>1, <2>1 DEF Pending
<1>4. CASE Crash
    BY <1>1, <1>4, CrashFacts DEF Pending, Handling
<1>5. CASE GoesOn
  <2>1. Passed' = Passed /\ at' = at /\ failed' = failed
      BY <1>5 DEF GoesOn, Passed
  <2>. QED  BY <1>1, <1>5, <2>1 DEF Pending, AtDecision
<1>6. CASE Ends
    BY <1>1, <1>6 DEF Ends, Pending
<1>7. CASE Elsewhere
  <2>1. Passed' = Passed
      BY <1>7 DEF Elsewhere, Passed
  <2>. QED  BY <1>1, <1>7, <2>1 DEF Elsewhere, Pending, AtDecision
<1>. QED  BY <1>2, <1>3, <1>4, <1>5, <1>6, <1>7, PollStep

\* Tasks keep their sources; a new task may have none.
TasksKept ==
    /\ \A t \in 1..Len(task) : t \in 1..Len(task') /\ task'[t].source = task[t].source
    /\ \A t \in 1..Len(task') : task'[t].source \in Source => t \in 1..Len(task)

LEMMA LinkKept ==
    ASSUME TypeInv, LinkInv, QueueGrows, TasksKept, LinksKept, Len(queue') \in Nat,
           \A s \in Source, p \in 1..Len(queue) :
               Creates(queue[p], s) /\ HasTask(s) /\ Pending(p) => Pending(p)',
           pc' \in Deciding => \A s \in Source :
               HasTask(s) /\ hand'.source = s => hand'.row.candidate # None,
           pc' \in Deciding /\ hand'.row.candidate # None =>
               source'[hand'.source].candidate # None
    PROVE  LinkInv'
<1>1. ASSUME NEW s \in Source, record'[s] # None, record'[s].task # NoTask
      PROVE  task'[record'[s].task].source = s
  <2>1. /\ record[s] # None /\ record[s].task # NoTask
        /\ record'[s].task = record[s].task
      BY <1>1 DEF LinksKept
  <2>2. record[s].task \in 1..Len(task)
      BY <2>1 DEF TypeInv, TypeOK, RowsFit, Record, NoTask
  <2>. QED  BY <2>1, <2>2 DEF LinkInv, TasksKept
<1>2. ASSUME NEW s \in Source, NEW t \in 1..Len(task'), task'[t].source = s
      PROVE  /\ source'[s] # None /\ source'[s].candidate # None
             /\ pc' \in Deciding /\ hand'.source = s => hand'.row.candidate # None
             /\ \/ record'[s].task = t
                \/ \E p \in 1..Len(queue') : Creates(queue'[p], s) /\ Pending(p)'
  <2>1. t \in 1..Len(task) /\ task[t].source = s
      BY <1>2 DEF TasksKept
  <2>2. HasTask(s)
      BY <2>1 DEF HasTask
  <2>3. /\ record'[s].task = record[s].task
        /\ source'[s] # None /\ source'[s].candidate # None
      BY <2>2 DEF LinksKept
  <2>4. CASE record[s].task = t
      BY <2>2, <2>3, <2>4
  <2>5. CASE record[s].task # t
    <3>1. PICK p \in 1..Len(queue) : Creates(queue[p], s) /\ Pending(p)
        BY <2>1, <2>5 DEF LinkInv
    <3>2. p \in 1..Len(queue') /\ Creates(queue'[p], s)
      <4>1. Len(queue) \in Nat
          BY DEF TypeInv, TypeOK
      <4>. QED  BY <3>1, <4>1 DEF QueueGrows
    <3>3. Pending(p)'
        BY <2>2, <3>1
    <3>4. \E x \in 1..Len(queue') : Creates(queue'[x], s) /\ Pending(x)'
        BY <3>2, <3>3
    <3>. QED  BY <2>2, <2>3, <3>4
  <2>. QED  BY <2>4, <2>5
<1>. QED  BY <1>1, <1>2 DEF LinkInv

\* A task is created from a candidate: the update in hand will link it.
LEMMA CreateLinks ==
    ASSUME TypeInv, LinkInv, CreateFromCandidate
    PROVE  LinkInv'
<1>. DEFINE x == hand.source
            n == Len(task) + 1
<1>1. /\ Handling /\ pc = "create" /\ pc' = "confirm"
      /\ Press.kind = "candidate" /\ Press.action = "create"
      /\ x \in Source /\ x = Press.card.source
      /\ hand.row.candidate \in Source /\ hand.row.candidate # None
      /\ CreateKey(x) \in OperationKey
      /\ CreateTask(CreateKey(x), x, hand.row.candidate)
      /\ UNCHANGED <<queue, forgotten, source, record, offset, at, failed>>
    BY CreateFromCandidateMoves
<1>2. /\ hand'.source = x /\ hand'.row = hand.row
      /\ \A t \in 1..Len(task) : task'[t] = task[t]
      /\ \/ task' = task
         \/ Len(task') = n /\ task'[n].source = x
    BY <1>1, CreateTaskMoves
<1>3. /\ pc \in Deciding /\ pc' \in Deciding
      /\ source[x] # None /\ source[x].candidate # None
  <2>1. pc \in Deciding /\ pc' \in Deciding
      BY <1>1 DEF Deciding
  <2>2. source[x].candidate # None
      BY <1>1, <2>1 DEF LinkInv
  <2>. QED  BY <2>1, <2>2 DEF TypeInv, HandFits
<1>4. at \in 1..Len(queue) /\ Creates(queue[at], x)
    BY <1>1, InHand DEF Creates, Press
<1>5. Pending(at)' /\ \A p \in 1..Len(queue) : Pending(p) => Pending(p)'
    BY <1>1 DEF Pending, Passed
<1>6. Len(task) \in Nat /\ \A t \in 1..n : t \in 1..Len(task) \/ t = n
  <2>1. Len(task) \in Nat
      BY DEF TypeInv, TypeOK
  <2>. QED  BY <2>1
<1>. HIDE DEF n
<1>7. ASSUME NEW s \in Source, record[s] # None, record[s].task # NoTask
      PROVE  task'[record[s].task].source = s
  <2>1. record[s].task \in 1..Len(task)
      BY <1>7 DEF TypeInv, TypeOK, RowsFit, Record, NoTask
  <2>. QED  BY <1>2, <1>7, <2>1 DEF LinkInv
<1>8. ASSUME NEW s \in Source, NEW t \in 1..Len(task'), task'[t].source = s
      PROVE  /\ source[s] # None /\ source[s].candidate # None
             /\ x = s => hand.row.candidate # None
             /\ \/ record[s].task = t
                \/ \E p \in 1..Len(queue) : Creates(queue[p], s) /\ Pending(p)'
  <2>1. CASE t \in 1..Len(task)
    <3>1. task[t].source = s
        BY <1>2, <1>8, <2>1
    <3>2. /\ source[s] # None /\ source[s].candidate # None
          /\ \/ record[s].task = t
             \/ \E p \in 1..Len(queue) : Creates(queue[p], s) /\ Pending(p)
        BY <2>1, <3>1 DEF LinkInv
    <3>. QED  BY <1>1, <1>5, <3>2
  <2>2. CASE t \notin 1..Len(task)
    <3>1. s = x
        BY <1>2, <1>6, <1>8, <2>2
    <3>. QED  BY <1>1, <1>3, <1>4, <1>5, <3>1
  <2>. QED  BY <2>1, <2>2
<1>9. source'[hand'.source].candidate # None
    BY <1>1, <1>2, <1>3
<1>10. \A s \in Source : record'[s] # None /\ record'[s].task # NoTask =>
           task'[record'[s].task].source = s
    BY <1>1, <1>7
<1>11. \A s \in Source, t \in 1..Len(task') : task'[t].source = s =>
           /\ source'[s] # None /\ source'[s].candidate # None
           /\ pc' \in Deciding /\ hand'.source = s => hand'.row.candidate # None
           /\ \/ record'[s].task = t
              \/ \E p \in 1..Len(queue') : Creates(queue'[p], s) /\ Pending(p)'
    BY <1>1, <1>2, <1>8
<1>. QED  BY <1>9, <1>10, <1>11 DEF LinkInv

\* The decision names the one task of its source.
LEMMA ConfirmLinks ==
    ASSUME TypeInv, KeyInv, LinkInv, Confirm
    PROVE  LinkInv'
<1>. DEFINE x == hand.source
            t0 == hand.task
            row == [source[x] EXCEPT !.candidate = hand.row.candidate,
                                     !.awaiting = hand.row.awaiting]
            r == Decided("CONFIRMED", t0)
<1>1. /\ pc = "confirm" /\ pc' = "ack" /\ pc \in Deciding /\ Handling
      /\ Decide(x, "CONFIRMED", t0)
      /\ source' = [source EXCEPT ![x].candidate = hand.row.candidate,
                                  ![x].awaiting = hand.row.awaiting]
      /\ UNCHANGED <<queue, forgotten, task, offset, at, failed>>
    BY DEF Confirm, Deciding, Handling, Goto, telegram, poll, history
<1>2. /\ x \in Source /\ source[x] \in SourceRow /\ hand.row \in SourceRow
      /\ source \in [Source -> SourceRow \cup {None}]
      /\ record \in [Source -> Record \cup {None}]
    BY <1>1, DecidedSource DEF TypeInv, TypeOK
<1>3. /\ x = Press.card.source /\ hand.record # None
      /\ hand.row.candidate # None /\ Press.action = "create"
      /\ t0 \in Nat /\ t0 <= Len(task) /\ t0 # NoTask
      /\ task[t0].key = <<"candidate", x>>
    BY <1>1 DEF TypeInv, TypeOK, HandFits, Hand
<1>4. t0 \in 1..Len(task) /\ task[t0].source = x
  <2>1. Len(task) \in Nat
      BY DEF TypeInv, TypeOK
  <2>2. t0 \in 1..Len(task)
      BY <1>3, <2>1 DEF NoTask
  <2>. QED  BY <1>2, <1>3, <2>2 DEF KeyInv
<1>5. \A t \in 1..Len(task) : task[t].source = x => t = t0
    BY <1>2, <1>3, <1>4 DEF KeyInv
<1>6. record' = [record EXCEPT ![x] = r] /\ r.task = t0
    BY <1>1, <1>3, DecidedType DEF Decided
<1>7. /\ row \in SourceRow /\ row.candidate # None
      /\ source' = [source EXCEPT ![x] = row]
    BY <1>1, <1>2, <1>3 DEF SourceRow
<1>. HIDE DEF x, t0, row, r
<1>8. /\ \A s \in Source : s # x => source'[s] = source[s] /\ record'[s] = record[s]
      /\ source'[x] = row /\ record'[x] = r /\ row # None
    BY <1>2, <1>6, <1>7, NoneAssumption
<1>9. \A s \in Source, p \in 1..Len(queue) :
          s # x /\ Creates(queue[p], s) /\ Pending(p) => Pending(p)'
    BY <1>1, <1>3 DEF Pending, Passed, Creates, Press
<1>10. pc' \notin Deciding
    BY <1>1 DEF Deciding
<1>11. ASSUME NEW s \in Source, record'[s] # None, record'[s].task # NoTask
       PROVE  task[record'[s].task].source = s
    BY <1>4, <1>6, <1>8, <1>11 DEF LinkInv
<1>12. ASSUME NEW s \in Source, NEW t \in 1..Len(task), task[t].source = s
       PROVE  /\ source'[s] # None /\ source'[s].candidate # None
              /\ \/ record'[s].task = t
                 \/ \E p \in 1..Len(queue) : Creates(queue[p], s) /\ Pending(p)'
  <2>1. CASE s = x
      BY <1>5, <1>6, <1>7, <1>8, <1>12, <2>1
  <2>2. CASE s # x
    <3>1. /\ source[s] # None /\ source[s].candidate # None
          /\ \/ record[s].task = t
             \/ \E p \in 1..Len(queue) : Creates(queue[p], s) /\ Pending(p)
        BY <1>12 DEF LinkInv
    <3>. QED  BY <1>8, <1>9, <2>2, <3>1
  <2>. QED  BY <2>1, <2>2
<1>13. queue' = queue /\ task' = task
    BY <1>1
<1>. QED  BY <1>10, <1>11, <1>12, <1>13 DEF LinkInv

\* The step at which a press of "create" finds its candidate.
LEMMA LoadedCandidate ==
    ASSUME TypeInv, LinkInv, LoadCandidate
    PROVE  /\ \A s \in Source : HasTask(s) /\ Creates(queue[at], s) => pc' = "create"
           /\ pc' \in Deciding =>
                  /\ hand'.source \in Source /\ hand'.row = source[hand'.source]
                  /\ UNCHANGED source
<1>. DEFINE x == Press.card.source
<1>1. /\ pc = "candidate" /\ Handling /\ x \in Source /\ UNCHANGED source
      /\ \/ Press.action = "create" /\ source[x].candidate = None /\ pc' = "ack"
         \/ /\ pc' = Press.action
            /\ hand' = [hand EXCEPT !.source = x, !.row = source[x],
                                    !.record = record[x], !.redraw = TRUE]
    BY StepKinds, PressedCard DEF LoadCandidate, Handling, Goto, db
<1>2. \A s \in Source : HasTask(s) /\ Creates(queue[at], s) =>
          s = x /\ Press.action = "create" /\ source[s].candidate # None
    BY TaskHasRecord DEF Creates, Press
<1>3. hand \in Hand
    BY DEF TypeInv, TypeOK
<1>. HIDE DEF x
<1>4. pc' \in Deciding => hand'.source = x /\ hand'.row = source[x]
    BY <1>1, <1>3 DEF Deciding, Hand
<1>. QED  BY <1>1, <1>2, <1>4

LEMMA DecidingSteps ==
    ASSUME TypeInv, Len(task) <= MaxUpdates, [Next]_vars, pc' \in Deciding
    PROVE  LoadCandidate \/ CreateFromCandidate \/ (Elsewhere /\ pc \in Deciding)
<1>1. ~GetUpdates
    BY DEF GetUpdates, Goto, Deciding
<1>2. ~Crash
    BY DEF Crash, LeaveBatch, Goto, Deciding
<1>3. ~NextUpdate
  <2>1. SUFFICES ASSUME NextUpdate, Handling' PROVE FALSE
      BY DEF Handling, Deciding
  <2>2. at' \in 1..Len(queue) /\ pc' = queue[at'].kind
      BY <2>1, NextUpdateTypes
  <2>3. queue[at'] \in Update
      BY <2>2 DEF TypeInv, TypeOK
  <2>. QED  BY <2>2, <2>3, UpdateKinds DEF Deciding
<1>4. ~Ends
    BY DEF Ends, Handling, Deciding
<1>. QED  BY <1>1, <1>2, <1>3, <1>4, PollStep DEF GoesOn, Elsewhere

LEMMA LinkInit == Init => LinkInv
    BY DEF Init, LinkInv, Deciding

LEMMA LinkNext ==
    ASSUME TypeInv, KeyInv, LinkInv, [Next]_vars
    PROVE  LinkInv'
<1>1. Len(task) <= MaxUpdates /\ QueueGrows
    BY TasksBounded, QueueStep
<1>2. CASE Confirm
    BY <1>2, ConfirmLinks
<1>3. CASE CreateFromCandidate
    BY <1>3, CreateLinks
<1>4. CASE ~Confirm /\ ~CreateFromCandidate
  <2>1. LinksKept /\ (Elsewhere => CandidatesKept)
      BY <1>1, <1>4, LinksStep
  <2>2. TasksKept
    <3>1. CASE SameTasks
        BY <3>1 DEF SameTasks, TasksKept
    <3>2. CASE NewTask
      <4>1. /\ Len(task) <= Len(task') /\ \A t \in 1..Len(task) : task'[t] = task[t]
            /\ \/ task' = task
               \/ Len(task') = Len(task) + 1 /\ task'[Len(task) + 1].source = None
          BY <3>2, NewTaskMoves, CreateTaskMoves
      <4>2. Len(task) \in Nat /\ Len(task') \in Nat
        <5>1. TypeInv'
            BY <1>1, TypeNext
        <5>. QED  BY <5>1 DEF TypeInv, TypeOK
      <4>3. \A t \in 1..Len(task) : t \in 1..Len(task')
          BY <4>1, <4>2
      <4>4. \A t \in 1..Len(task') : t \in 1..Len(task) \/ task'[t].source = None
          BY <4>1, <4>2
      <4>. QED  BY <4>1, <4>3, <4>4, Names DEF TasksKept
    <3>. QED  BY <1>1, <1>4, <3>1, <3>2, TaskStep
  <2>3. Len(queue') \in Nat
    <3>1. TypeInv'
        BY <1>1, TypeNext
    <3>. QED  BY <3>1 DEF TypeInv, TypeOK
  <2>4. ASSUME NEW s \in Source, NEW p \in 1..Len(queue),
               Creates(queue[p], s), HasTask(s), Pending(p)
        PROVE  Pending(p)'
    <3>1. GoesOn /\ p = at /\ pc \in AtDecision => pc' \in AtDecision
      <4>1. GoesOn /\ pc \in AtDecision => LoadCandidate
          BY <1>4 DEF GoesOn
      <4>. QED  BY <2>4, <4>1, LoadedCandidate DEF AtDecision
    <3>. QED  BY <1>1, <2>4, <3>1, PendingStep DEF Creates
  <2>5. ASSUME pc' \in Deciding
        PROVE  /\ \A s \in Source : HasTask(s) /\ hand'.source = s =>
                      hand'.row.candidate # None
               /\ hand'.row.candidate # None => source'[hand'.source].candidate # None
    <3>1. CASE LoadCandidate
      <4>1. /\ hand'.source \in Source /\ hand'.row = source[hand'.source]
            /\ UNCHANGED source
          BY <2>5, <3>1, LoadedCandidate
      <4>. QED  BY <4>1, TaskHasRecord
    <3>2. CASE Elsewhere /\ pc \in Deciding
      <4>1. hand' = hand /\ CandidatesKept /\ hand.source \in Source
            /\ source[hand.source] # None
          BY <2>1, <3>2, DecidedSource DEF Elsewhere
      <4>2. hand.row.candidate # None => source[hand.source].candidate # None
          BY <3>2 DEF LinkInv
      <4>. QED  BY <3>2, <4>1, <4>2, TaskHasRecord DEF CandidatesKept
    <3>. QED  BY <1>1, <1>4, <2>5, <3>1, <3>2, DecidingSteps
  <2>. QED  BY <1>1, <2>1, <2>2, <2>3, <2>4, <2>5, LinkKept
<1>. QED  BY <1>2, <1>3, <1>4

-----------------------------------------------------------------------------
\* How often an update takes effect.

\* The update in hand takes effect: on a text, for the first time it can; on
\* another update under a key that was not used before.
Effect ==
    /\ Handling /\ Passed' = Passed
    /\ uses' = [uses EXCEPT ![at] = @ + 1]
    /\ \/ Press.kind = "text" /\ pc \in WithText /\ pc' \notin WithText
       \/ /\ Press.kind \in {"new", "candidate"}
          /\ \A t \in 1..Len(task) : task[t].key # OriginKey(Press, at)
          /\ \E t \in 1..Len(task') : task'[t].key = OriginKey(Press, at)
       \/ /\ Press.kind = "task"
          /\ <<"callback", at>> \notin used /\ <<"callback", at>> \in used'

LEMMA ReadEffect ==
    ASSUME TypeInv, Len(task) <= MaxUpdates, ReadText
    PROVE  used \subseteq used' /\ (UNCHANGED uses \/ Effect)
<1>1. pc = "text" /\ Handling /\ Press.kind = "text" /\ UNCHANGED forgotten
    BY ReadTextMoves, StepKinds
<1>2. CASE UNCHANGED <<used, uses>>
    BY <1>2
<1>3. CASE \E k \in OperationKey, t \in 1..Len(task),
              status \in {"NEW", "DONE", "CANCELLED"} :
              /\ pc' = "clear" /\ ChangeTask(k, t, status)
              /\ UNCHANGED <<offset, at, upto, ended, failed>>
  <2>1. /\ used \subseteq used' /\ pc' = "clear" /\ UNCHANGED offset
        /\ UNCHANGED uses \/ uses' = [uses EXCEPT ![at] = @ + 1]
      BY <1>1, <1>3, ChangeTaskMoves
  <2>. QED  BY <1>1, <2>1 DEF Effect, Passed, WithText
<1>. QED  BY <1>2, <1>3, ReadTextMoves

LEMMA ShowEffect ==
    ASSUME TypeInv, ShowCandidate
    PROVE  used \subseteq used' /\ Effect
<1>1. /\ pc = "show" /\ Handling /\ UNCHANGED <<queue, forgotten, used>>
      /\ uses' = [uses EXCEPT ![at] = @ + 1]
    BY DEF ShowCandidate, Handling, TakesEffect, db
<1>2. Passed' = Passed /\ pc' \in {"notify", "poll"}
  <2>1. CASE Raise
      BY <1>1, <2>1, RaisePolling DEF Raise, LeaveBatch, Goto
  <2>2. CASE pc' = "notify" /\ UNCHANGED offset
      BY <1>1, <2>2 DEF Passed
  <2>. QED  BY <2>1, <2>2 DEF ShowCandidate, Goto, poll
<1>. QED  BY <1>1, <1>2, StepKinds DEF Effect, WithText

LEMMA CreateEffect ==
    ASSUME TypeInv, NewTask \/ CreateFromCandidate
    PROVE  used \subseteq used' /\ (UNCHANGED uses \/ Effect)
<1>1. PICK k \in OperationKey, from \in Source \cup {None}, content \in Source :
          /\ Handling /\ k = OriginKey(Press, at) /\ Press.kind \in {"new", "candidate"}
          /\ CreateTask(k, from, content) /\ UNCHANGED <<offset, forgotten>>
    BY NewTaskMoves, CreateFromCandidateMoves
<1>2. /\ used \subseteq used'
      /\ hand'.task \in 1..Len(task') /\ task'[hand'.task].key = k
      /\ \/ UNCHANGED uses
         \/ /\ \A t \in 1..Len(task) : task[t].key # k
            /\ uses' = [uses EXCEPT ![at] = @ + 1]
    BY <1>1, CreateTaskMoves
<1>3. \E t \in 1..Len(task') : task'[t].key = OriginKey(Press, at)
    BY <1>1, <1>2
<1>. QED  BY <1>1, <1>2, <1>3 DEF Effect, Passed

LEMMA PressEffect ==
    ASSUME TypeInv, PressTask
    PROVE  used \subseteq used' /\ (UNCHANGED uses \/ Effect)
<1>. DEFINE t == Press.card.task
            k == <<"callback", at>>
<1>1. /\ Handling /\ Press.kind = "task" /\ UNCHANGED <<offset, forgotten>>
      /\ t \in 1..Len(task) /\ k \in OperationKey
    BY StepKinds, PressedCard, CreateKeys DEF PressTask, Handling, poll, telegram
<1>2. ChangeTask(k, t, "DONE") \/ UNCHANGED <<used, uses>>
    BY DEF PressTask
<1>3. CASE ChangeTask(k, t, "DONE")
  <2>1. /\ used \subseteq used'
        /\ \/ UNCHANGED uses
           \/ k \notin used /\ k \in used' /\ uses' = [uses EXCEPT ![at] = @ + 1]
      BY <1>1, <1>3, ChangeTaskMoves
  <2>. QED  BY <1>1, <2>1 DEF Effect, Passed
<1>. QED  BY <1>2, <1>3

LEMMA UsesStep ==
    ASSUME TypeInv, Len(task) <= MaxUpdates, [Next]_vars
    PROVE  used \subseteq used' /\ (UNCHANGED uses \/ Effect)
<1>1. CASE ReadText
    BY <1>1, ReadEffect
<1>2. CASE ShowCandidate
    BY <1>2, ShowEffect
<1>3. CASE NewTask \/ CreateFromCandidate
    BY <1>3, CreateEffect
<1>4. CASE PressTask
    BY <1>4, PressEffect
<1>5. CASE ~(ReadText \/ ShowCandidate \/ NewTask \/ CreateFromCandidate \/ PressTask)
    BY <1>5
    DEF Next, vars, db, history, GetUpdates, Handle, NextUpdate, ClearAwaiting,
        ParseMessage, StoreText, SaveCandidate, MarkNotified, Answer, LoadCandidate,
        Ignore, AwaitNewText, Confirm, AnswerCallback, Redraw, CallFails, Crash,
        ShowMail, CommitMail, RollBackMail, Type, PressButton, Send
<1>. QED  BY <1>1, <1>2, <1>3, <1>4, <1>5

\* The budget counts the crashes.
LEMMA CrashesStep ==
    ASSUME TypeInv, [Next]_vars
    PROVE  /\ budget'.limit = budget.limit
           /\ budget.left["crash"] \in Nat /\ budget.limit["crash"] \in Nat
           /\ Crash => /\ budget.left["crash"] > 0
                       /\ budget'.left["crash"] = budget.left["crash"] - 1
           /\ ~Crash => budget'.left["crash"] = budget.left["crash"]
<1>1. budget.left["crash"] \in Nat /\ budget.limit["crash"] \in Nat
    BY ConstantsAssumption DEF TypeInv, TypeOK, Outside
<1>2. ASSUME NEW e \in Outside, Spend(e)
      PROVE  /\ budget'.limit = budget.limit
             /\ budget.left[e] > 0 /\ budget'.left[e] = budget.left[e] - 1
             /\ e # "crash" => budget'.left["crash"] = budget.left["crash"]
    BY <1>2, SpendFacts DEF Outside
<1>3. "crash" \in Outside /\ "failure" \in Outside /\ "mail" \in Outside
    BY DEF Outside
<1>4. CASE Crash
    BY <1>1, <1>2, <1>3, <1>4 DEF Crash
<1>5. CASE ~Crash /\ (Spend("failure") \/ Spend("mail"))
    BY <1>1, <1>2, <1>3, <1>5
<1>6. CASE ~Crash /\ ~(Spend("failure") \/ Spend("mail"))
  <2>1. UNCHANGED budget
    <3>1. CASE ReadText
        BY <3>1 DEF ReadText
    <3>2. CASE ~ReadText
        BY <1>6, <3>2
        DEF Next, vars, GetUpdates, Handle, NextUpdate, ClearAwaiting, ParseMessage,
            StoreText, SaveCandidate, ShowCandidate, MarkNotified, NewTask, Answer,
            LoadCandidate, Ignore, AwaitNewText, CreateFromCandidate, Confirm, PressTask,
            AnswerCallback, Redraw, CallFails, ShowMail, CommitMail, RollBackMail, Type,
            PressButton, Send
    <3>. QED  BY <3>1, <3>2
  <2>. QED  BY <1>1, <1>6, <2>1
<1>. QED  BY <1>4, <1>5, <1>6

LEMMA UnusedStep ==
    ASSUME TypeInv, Len(task) <= MaxUpdates, [Next]_vars, ~Crash,
           NEW p \in 1..Len(queue), Unused(p)'
    PROVE  Unused(p)
<1>1. /\ Passed \in Nat
      /\ p > Passed' \/ (p = at' /\ pc' \in WithText)
      /\ pc' \in WithText => Handling'
      /\ p > Passed \/ (p = at /\ pc \in WithText) => Unused(p)
    BY DEF TypeInv, TypeOK, Passed, Unused, WithText, Handling
<1>2. CASE GetUpdates
    BY <1>1, <1>2, GetUpdatesTypes
<1>3. CASE NextUpdate
  <2>1. \/ Passed' = Passed /\ ~Handling'
        \/ Passed' = Passed + 1 /\ at' = Passed'
      BY <1>3, NextUpdateTypes
  <2>. QED  BY <1>1, <2>1
<1>4. CASE GoesOn
  <2>1. Passed' = Passed /\ at' = at
      BY <1>4 DEF GoesOn, Passed
  <2>. QED  BY <1>1, <1>4, <2>1 DEF GoesOn
<1>5. CASE Ends
    BY <1>1, <1>5 DEF Ends
<1>6. CASE Elsewhere
  <2>1. Passed' = Passed
      BY <1>6 DEF Elsewhere, Passed
  <2>. QED  BY <1>1, <1>6, <2>1 DEF Elsewhere
<1>. QED  BY <1>2, <1>3, <1>4, <1>5, <1>6, PollStep

\* A task keeps its place and its key.
LEMMA KeysGrow ==
    ASSUME TypeInv, Len(task) <= MaxUpdates, [Next]_vars
    PROVE  \A t \in 1..Len(task) : t \in 1..Len(task') /\ task'[t].key = task[t].key
<1>1. Len(task) \in Nat /\ Len(task') \in Nat
  <2>1. TypeInv'
      BY TypeNext
  <2>. QED  BY <2>1 DEF TypeInv, TypeOK
<1>2. CASE SameTasks
    BY <1>2 DEF SameTasks
<1>3. CASE NewTask \/ CreateFromCandidate
  <2>1. Len(task) <= Len(task') /\ \A t \in 1..Len(task) : task'[t] = task[t]
      BY <1>3, NewTaskMoves, CreateFromCandidateMoves, CreateTaskMoves
  <2>. QED  BY <1>1, <2>1
<1>. QED  BY <1>2, <1>3, TaskStep

LEMMA UsesInit == Init => UsesInv
<1>. SUFFICES ASSUME Init PROVE UsesInv
    OBVIOUS
<1>1. PICK b \in Budgets : budget = [limit |-> b, left |-> b]
    BY DEF Init
<1>2. b["crash"] \in Nat
    BY ConstantsAssumption DEF Outside
<1>. QED  BY <1>1, <1>2 DEF Init, UsesInv

LEMMA UsesNext ==
    ASSUME TypeInv, KeyInv, UsesInv, [Next]_vars
    PROVE  UsesInv'
<1>1. /\ Len(task) <= MaxUpdates /\ QueueGrows /\ TypeInv'
      /\ used \subseteq used' /\ (UNCHANGED uses \/ Effect)
    BY TasksBounded, QueueStep, TypeNext, UsesStep
<1>2. /\ Len(queue) \in Nat /\ Len(queue') \in Nat /\ Len(queue') <= MaxUpdates
      /\ uses \in [Position -> Nat] /\ uses' \in [Position -> Nat]
      /\ MaxUpdates \in Nat /\ Position = 1..MaxUpdates
      /\ \A p \in 1..Len(queue) : p \in Position /\ uses[p] \in Nat
  <2>1. /\ Len(queue) \in Nat /\ Len(queue) <= MaxUpdates /\ MaxUpdates \in Nat
        /\ uses \in [Position -> Nat]
      BY Names DEF TypeInv, TypeOK
  <2>2. /\ Len(queue') \in Nat /\ Len(queue') <= MaxUpdates
        /\ uses' \in [Position -> Nat]
      BY <1>1 DEF TypeInv, TypeOK
  <2>3. Position = 1..MaxUpdates
      BY DEF Position
  <2>4. \A p \in 1..Len(queue) : p \in Position
      BY <2>1, <2>3
  <2>. QED  BY <2>1, <2>2, <2>3, <2>4
<1>. DEFINE crashes == budget.limit["crash"] - budget.left["crash"]
<1>3. /\ Used("crash") = crashes /\ crashes \in Nat
      /\ Crash => Used("crash")' = crashes + 1
      /\ ~Crash => Used("crash")' = crashes
      /\ budget'.left["crash"] <= budget'.limit["crash"]
    BY CrashesStep DEF UsesInv, Used
<1>. HIDE DEF crashes
<1>4. Effect => /\ at \in 1..Len(queue) /\ at = Passed /\ ~Crash /\ Handling
                /\ uses'[at] = uses[at] + 1
                /\ \A p \in Position : p # at => uses'[p] = uses[p]
  <2>1. Effect => at \in 1..Len(queue) /\ at \in Position /\ at = Passed
      BY InHand DEF Effect, TypeInv, PollFits, Handling
  <2>2. Crash => UNCHANGED uses
      BY DEF Crash, history
  <2>3. Effect => /\ uses'[at] = uses[at] + 1 /\ uses[at] \in Nat
                  /\ \A p \in Position : p # at => uses'[p] = uses[p]
      BY <1>2, <2>1 DEF Effect
  <2>4. Effect => ~Crash
      BY <2>2, <2>3
  <2>5. Effect => Handling
      BY DEF Effect
  <2>. QED  BY <2>1, <2>3, <2>4, <2>5
<1>5. ASSUME NEW p \in Position, p > Len(queue') PROVE uses'[p] = 0
  <2>1. p > Len(queue) /\ p \notin 1..Len(queue)
      BY <1>1, <1>2, <1>5 DEF QueueGrows
  <2>2. uses[p] = 0
      BY <2>1 DEF UsesInv
  <2>. QED  BY <1>1, <1>4, <2>1, <2>2
<1>6. ASSUME NEW p \in 1..Len(queue'), p \notin 1..Len(queue)
      PROVE  uses'[p] = 0
  <2>1. p \in Position /\ p > Len(queue)
      BY <1>2, <1>6
  <2>2. uses[p] = 0
      BY <2>1 DEF UsesInv
  <2>. QED  BY <1>1, <1>4, <1>6, <2>1, <2>2
<1>7. ASSUME NEW p \in 1..Len(queue), queue[p].kind = "text"
      PROVE  uses'[p] <= (IF Unused(p)' THEN 0 ELSE 1) + Used("crash")'
  <2>1. /\ uses[p] \in Nat /\ p \in Position
        /\ uses[p] <= (IF Unused(p) THEN 0 ELSE 1) + crashes
    <3>1. uses[p] <= (IF Unused(p) THEN 0 ELSE 1) + Used("crash")
        BY <1>7 DEF UsesInv
    <3>. QED  BY <1>2, <1>3, <3>1
  <2>2. CASE Crash
      BY <1>1, <1>3, <1>4, <2>1, <2>2
  <2>3. CASE ~Crash /\ (UNCHANGED uses \/ p # at)
    <3>1. uses'[p] = uses[p]
        BY <1>1, <1>4, <2>1, <2>3
    <3>2. Unused(p)' => Unused(p)
        BY <1>1, <2>3, UnusedStep
    <3>. QED  BY <1>3, <2>1, <2>3, <3>1, <3>2
  <2>4. CASE Effect /\ p = at
    <3>1. uses'[p] = uses[p] + 1 /\ ~Crash
        BY <1>4, <2>4
    <3>2. pc \in WithText /\ pc' \notin WithText /\ Passed' = Passed
        BY <1>7, <2>4 DEF Effect, Press
    <3>3. Unused(p)
        BY <2>4, <3>2 DEF Unused, WithText
    <3>4. ~Unused(p)'
        BY <1>2, <1>4, <2>4, <3>2 DEF Unused, WithText
    <3>. QED  BY <1>3, <2>1, <3>1, <3>3, <3>4
  <2>. QED  BY <1>1, <2>2, <2>3, <2>4
<1>8. ASSUME NEW p \in 1..Len(queue), queue[p].kind \in {"new", "candidate"}
      PROVE  /\ uses'[p] <= 1
             /\ uses'[p] > 0 =>
                    \E t \in 1..Len(task') : task'[t].key = OriginKey(queue[p], p)
  <2>1. /\ uses[p] \in Nat /\ p \in Position /\ uses[p] <= 1
        /\ uses[p] > 0 => \E t \in 1..Len(task) : task[t].key = OriginKey(queue[p], p)
    <3>1. uses[p] <= 1
        BY <1>8 DEF UsesInv
    <3>2. uses[p] > 0 => \E t \in 1..Len(task) : task[t].key = OriginKey(queue[p], p)
        BY <1>8 DEF UsesInv
    <3>. QED  BY <1>2, <3>1, <3>2
  <2>2. \A t \in 1..Len(task) : t \in 1..Len(task') /\ task'[t].key = task[t].key
      BY <1>1, KeysGrow
  <2>3. CASE UNCHANGED uses \/ p # at
    <3>1. uses'[p] = uses[p]
        BY <1>1, <1>4, <2>1, <2>3
    <3>2. CASE uses[p] > 0
      <4>1. PICK t \in 1..Len(task) : task[t].key = OriginKey(queue[p], p)
          BY <2>1, <3>2
      <4>. QED  BY <2>1, <2>2, <3>1, <4>1
    <3>. QED  BY <2>1, <3>1, <3>2
  <2>4. CASE Effect /\ p = at
    <3>1. /\ \A t \in 1..Len(task) : task[t].key # OriginKey(queue[p], p)
          /\ \E t \in 1..Len(task') : task'[t].key = OriginKey(queue[p], p)
        BY <1>8, <2>4 DEF Effect, Press
    <3>2. uses'[p] = uses[p] + 1
        BY <1>4, <2>4
    <3>. QED  BY <2>1, <3>1, <3>2
  <2>. QED  BY <1>1, <2>3, <2>4
<1>9. ASSUME NEW p \in 1..Len(queue), queue[p].kind = "task"
      PROVE  uses'[p] <= 1 /\ (uses'[p] > 0 => <<"callback", p>> \in used')
  <2>1. /\ uses[p] \in Nat /\ p \in Position /\ uses[p] <= 1
        /\ uses[p] > 0 => <<"callback", p>> \in used
    <3>1. uses[p] <= 1 /\ (uses[p] > 0 => <<"callback", p>> \in used)
        BY <1>9 DEF UsesInv
    <3>. QED  BY <1>2, <3>1
  <2>2. CASE UNCHANGED uses \/ p # at
    <3>1. uses'[p] = uses[p]
        BY <1>1, <1>4, <2>1, <2>2
    <3>. QED  BY <1>1, <2>1, <3>1
  <2>3. CASE Effect /\ p = at
    <3>1. <<"callback", p>> \notin used /\ <<"callback", p>> \in used'
        BY <1>9, <2>3 DEF Effect, Press
    <3>2. uses'[p] = uses[p] + 1
        BY <1>4, <2>3
    <3>. QED  BY <2>1, <3>1, <3>2
  <2>. QED  BY <1>1, <2>2, <2>3
<1>10. ASSUME NEW p \in 1..Len(queue')
       PROVE  /\ queue'[p].kind = "text" =>
                     uses'[p] <= (IF Unused(p)' THEN 0 ELSE 1) + Used("crash")'
              /\ queue'[p].kind # "text" => uses'[p] <= 1
              /\ queue'[p].kind \in {"new", "candidate"} /\ uses'[p] > 0 =>
                     \E t \in 1..Len(task') : task'[t].key = OriginKey(queue'[p], p)
              /\ queue'[p].kind = "task" /\ uses'[p] > 0 => <<"callback", p>> \in used'
  <2>1. CASE p \in 1..Len(queue)
    <3>1. queue'[p] = queue[p] /\ queue[p].kind \in {"text", "new", "candidate", "task"}
      <4>1. queue[p] \in Update
          BY <2>1 DEF TypeInv, TypeOK
      <4>. QED  BY <1>1, <2>1, <4>1, UpdateKinds DEF QueueGrows
    <3>2. CASE queue[p].kind = "text"
        BY <1>7, <2>1, <3>1, <3>2
    <3>3. CASE queue[p].kind \in {"new", "candidate"}
        BY <1>8, <2>1, <3>1, <3>3
    <3>4. CASE queue[p].kind = "task"
        BY <1>9, <2>1, <3>1, <3>4
    <3>. QED  BY <3>1, <3>2, <3>3, <3>4
  <2>2. CASE p \notin 1..Len(queue)
    <3>1. uses'[p] = 0 /\ Used("crash")' \in Nat
        BY <1>3, <1>6, <2>2
    <3>. QED  BY <3>1
  <2>. QED  BY <2>1, <2>2
<1>. QED  BY <1>3, <1>5, <1>10 DEF UsesInv

-----------------------------------------------------------------------------
\* The theorems.

Inv == TypeInv /\ KeyInv /\ PassedInv /\ LinkInv /\ UsesInv

LEMMA Invariance == Spec => []Inv
<1>1. Init => Inv
    BY TypeInit, KeyInit, PassedInit, LinkInit, UsesInit DEF Inv
<1>2. Inv /\ [Next]_vars => Inv'
    BY TasksBounded, TypeNext, KeyNext, PassedNext, LinkNext, UsesNext DEF Inv
<1>. QED  BY <1>1, <1>2, PTL DEF Spec

\* Type correctness.
THEOREM TypeCorrect == Spec => []TypeOK
<1>1. Inv => TypeOK
    BY DEF Inv, TypeInv
<1>. QED  BY <1>1, Invariance, PTL

\* run_polling: whatever crashes, fails or is delivered again in between,
\* Telegram forgets no update whose handling has not ended.
THEOREM NoUpdateIsLost == Spec => []OnlyFailedIsLost
<1>1. Inv => OnlyFailedIsLost
  <2>. SUFFICES ASSUME Inv, NEW p \in 1..forgotten PROVE p \in ended \cup failed
      BY DEF OnlyFailedIsLost
  <2>1. forgotten \in Nat /\ offset \in Nat /\ (Handling => at > forgotten)
      BY DEF Inv, TypeInv, TypeOK, PollFits
  <2>2. p \in 1..Passed /\ ~(Handling /\ p = at)
      BY <2>1 DEF Passed
  <2>. QED  BY <2>2 DEF Inv, PassedInv
<1>. QED  BY <1>1, Invariance, PTL

\* The keys of tasks: one source message, and one /new message, have one task.
THEOREM OriginsHaveOneTask == Spec => []OneTaskPerOrigin
<1>1. Inv => OneTaskPerOrigin
  <2>. SUFFICES ASSUME Inv, NEW t \in 1..Len(task), NEW u \in 1..Len(task),
                       \/ task[t].key = task[u].key
                       \/ task[t].source # None /\ task[t].source = task[u].source
                PROVE  t = u
      BY DEF OneTaskPerOrigin
  <2>1. CASE task[t].key = task[u].key
      BY <2>1 DEF Inv, KeyInv
  <2>2. CASE task[t].source # None /\ task[t].source = task[u].source
    <3>1. task[t] \in TaskRow /\ KeyInv
        BY DEF Inv, TypeInv, TypeOK
    <3>2. PICK s \in Source : task[t].source = s /\ task[u].source = s
        BY <2>2, <3>1 DEF TaskRow
    <3>3. task[t].key = <<"candidate", s>> /\ task[u].key = <<"candidate", s>>
        BY <3>1, <3>2 DEF KeyInv
    <3>. QED  BY <3>1, <3>3 DEF KeyInv
  <2>. QED  BY <2>1, <2>2
<1>. QED  BY <1>1, Invariance, PTL

\* The two commits of a creation: a record names its source's task, and a task
\* without its record's link is that of a press still to be handled or failed.
THEOREM CandidatesAreLinked == Spec => []CandidateLinked
<1>1. Inv => CandidateLinked
  <2>. SUFFICES ASSUME Inv PROVE CandidateLinked
      OBVIOUS
  <2>1. /\ forgotten \in Nat /\ offset \in Nat /\ (Handling => at > forgotten)
        /\ LinkInv /\ task \in Seq(TaskRow)
      BY DEF Inv, TypeInv, TypeOK, PollFits
  <2>2. ASSUME NEW p \in 1..Len(queue), Pending(p)
        PROVE  p > forgotten \/ p \in failed
      BY <2>1, <2>2 DEF Pending, Passed, Handling
  <2>3. ASSUME NEW s \in Source, NEW t \in 1..Len(task), task[t].source = s
        PROVE  \/ record[s].task = t
               \/ \E p \in 1..Len(queue) :
                      /\ queue[p].kind = "candidate" /\ queue[p].action = "create"
                      /\ queue[p].card.source = s
                      /\ p > forgotten \/ p \in failed
      BY <2>1, <2>2, <2>3 DEF LinkInv, Creates
  <2>4. ASSUME NEW t \in 1..Len(task), task[t].source # None
        PROVE  task[t].source \in Source
    <3>1. task[t] \in TaskRow
        BY <2>1
    <3>. QED  BY <2>4, <3>1 DEF TaskRow
  <2>. QED  BY <2>1, <2>3, <2>4 DEF CandidateLinked, LinkInv
<1>. QED  BY <1>1, Invariance, PTL

\* The operation keys: handling an update again has no second effect; a text,
\* which has no key, has one more for each crash at most.
THEOREM EffectsAreAccounted == Spec => []EffectsAccounted
<1>1. Inv => EffectsAccounted
  <2>. SUFFICES ASSUME Inv, NEW p \in 1..Len(queue)
                PROVE  uses[p] <= IF queue[p].kind = "text" THEN 1 + Used("crash") ELSE 1
      BY DEF EffectsAccounted
  <2>1. uses[p] \in Nat /\ Used("crash") \in Int
    <3>1. p \in Position
        BY Names DEF Inv, TypeInv, TypeOK, Position
    <3>2. budget.left["crash"] \in Nat /\ budget.limit["crash"] \in Nat
        BY ConstantsAssumption DEF Inv, TypeInv, TypeOK, Outside
    <3>. QED  BY <3>1, <3>2 DEF Inv, TypeInv, TypeOK, Used
  <2>2. CASE queue[p].kind = "text"
    <3>1. uses[p] <= (IF Unused(p) THEN 0 ELSE 1) + Used("crash")
        BY <2>2 DEF Inv, UsesInv
    <3>. QED  BY <2>1, <2>2, <3>1
  <2>3. CASE queue[p].kind # "text"
      BY <2>3 DEF Inv, UsesInv
  <2>. QED  BY <2>2, <2>3
<1>. QED  BY <1>1, Invariance, PTL
=============================================================================
