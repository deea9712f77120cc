---------------------------- MODULE DigestProofs ----------------------------
(***************************************************************************)
(* Theorems about DigestDelivery, for any number of workers, any times of  *)
(* the digests, any length of the run and any number of failures.          *)
(***************************************************************************)
EXTENDS DigestDelivery, Division, SequenceTheorems, FiniteSetTheorems,
        WellFoundedInduction, TLAPS

-----------------------------------------------------------------------------
\* The clock.

\* Today is a date of the run.
LEMMA TodayIsDate ==
    ASSUME now \in 0..MaxTime
    PROVE  Today \in Date
<1>1. /\ DayLength \in Nat \ {0} /\ ZoneOffset \in Nat /\ MaxTime \in Nat
    BY ClockAssumption
<1>2. now + ZoneOffset \in Nat /\ MaxTime + ZoneOffset \in Nat
      /\ now + ZoneOffset <= MaxTime + ZoneOffset
    BY <1>1
<1>3. (now + ZoneOffset) \div DayLength \in Nat
      /\ (MaxTime + ZoneOffset) \div DayLength \in Nat
    BY <1>1, <1>2, DivisionFacts
<1>4. (now + ZoneOffset) \div DayLength <= (MaxTime + ZoneOffset) \div DayLength
    BY <1>1, <1>2, DivisionIsMonotonic
<1>. QED  BY <1>3, <1>4 DEF Today, Date, LocalDate

\* A digest's window is now exactly when it is that date's minute of the day.
LEMMA WindowIsNow ==
    ASSUME NEW key \in Key, now \in 0..MaxTime, Window(key) = now
    PROVE  key.date = Today /\ IsDigestWindow(key.type)
<1>. DEFINE r == DigestTime(key.type)
<1>1. /\ DayLength \in Nat \ {0} /\ ZoneOffset \in Nat
      /\ key.date \in Nat /\ now \in Nat
  <2>1. LocalDate(MaxTime) \in Nat
      BY ClockAssumption, DivisionFacts DEF LocalDate
  <2>. QED  BY <2>1, ClockAssumption DEF Key, Date
<1>2. r \in 0..(DayLength - 1)
    BY ConstantsAssumption DEF DigestTime
<1>. HIDE DEF r
<1>3. now + ZoneOffset = key.date * DayLength + r
  <2>1. now = key.date * DayLength + r - ZoneOffset
      BY DEF Window, r
  <2>2. key.date * DayLength \in Nat
      BY <1>1
  <2>. QED  BY <1>1, <1>2, <2>1, <2>2
<1>4. (now + ZoneOffset) \div DayLength = key.date /\ (now + ZoneOffset) % DayLength = r
    BY <1>1, <1>2, <1>3, DivisionIsUnique
<1>. QED  BY <1>4 DEF Today, LocalDate, IsDigestWindow, Minute, r

-----------------------------------------------------------------------------
\* Types.

LEMMA TypeInit == Init => TypeOK
<1>. SUFFICES ASSUME Init PROVE TypeOK
    OBVIOUS
<1>1. 0 \in 0..MaxTime /\ 0 \in 0..MaxFaults
    BY ClockAssumption, ConstantsAssumption
<1>2. <<>> \in Seq(DigestType)
    OBVIOUS
<1>. QED  BY <1>1, <1>2 DEF Init, TypeOK

\* The digest at the head of what a worker has left, today.
HeadKey(w) == [type |-> Head(todo[w]), date |-> Today]

LEMMA HeadKeyType ==
    ASSUME TypeOK, NEW w \in Worker, todo[w] # <<>>
    PROVE  /\ Head(todo[w]) \in DigestType /\ Tail(todo[w]) \in Seq(DigestType)
           /\ HeadKey(w) \in Key /\ HeadKey(w) # None
<1>1. todo[w] \in Seq(DigestType)
    BY DEF TypeOK
<1>2. Head(todo[w]) \in DigestType /\ Tail(todo[w]) \in Seq(DigestType)
    BY <1>1
<1>3. HeadKey(w) \in Key
    BY <1>2, TodayIsDate DEF HeadKey, Key, TypeOK
<1>. QED  BY <1>2, <1>3, ConstantsAssumption

\* A worker that handles a digest has its key.
LEMMA JobType ==
    ASSUME TypeOK, NEW w \in Worker, pc[w] \in {"flush", "send", "commit"}
    PROVE  job[w] \in Key /\ job[w] # None
    BY DEF TypeOK

\* The end of an iteration, and a failure.
LEMMA EndTypes ==
    ASSUME TypeOK, NEW w \in Worker, EndIteration(w)
    PROVE  /\ pc' \in [Worker -> {"sleep", "next", "flush", "send", "commit"}]
           /\ todo' \in [Worker -> Seq(DigestType)]
           /\ job' \in [Worker -> Key \cup {None}]
           /\ \A v \in Worker : job'[v] = None <=> pc'[v] \in {"sleep", "next"}
           /\ begun' \subseteq Worker
<1>1. <<>> \in Seq(DigestType)
    OBVIOUS
<1>. QED  BY <1>1 DEF EndIteration, TypeOK

LEMMA FaultTypes ==
    ASSUME TypeOK, CountFault
    PROVE  spoilt' \subseteq 0..MaxTime /\ faults' \in 0..MaxFaults
    BY ConstantsAssumption DEF CountFault, TypeOK

LEMMA TypeNext == TypeOK /\ [Next]_vars => TypeOK'
<1>. SUFFICES ASSUME TypeOK, [Next]_vars PROVE TypeOK'
    OBVIOUS
<1>1. CASE UNCHANGED vars
    BY <1>1 DEF TypeOK, vars
<1>2. CASE Tick
  <2>1. now' \in 0..MaxTime /\ spoilt' \subseteq 0..MaxTime
    <3>1. now \in 0..MaxTime /\ spoilt \subseteq 0..MaxTime /\ MaxTime \in Nat
        BY ClockAssumption DEF TypeOK
    <3>2. now < MaxTime /\ now' = now + 1 /\ spoilt' \subseteq spoilt \cup {now}
        BY <1>2 DEF Tick
    <3>. QED  BY <3>1, <3>2
  <2>. QED  BY <1>2, <2>1 DEF Tick, TypeOK
<1>. SUFFICES ASSUME NEW w \in Worker, RunDigestLoop(w) PROVE TypeOK'
    BY <1>1, <1>2 DEF Next
<1>3. CASE Wake(w)
  <2>1. <<"MORNING", "EVENING", "WEEKLY">> \in Seq(DigestType)
      BY DEF DigestType
  <2>. QED  BY <1>3, <2>1 DEF Wake, TypeOK
<1>4. CASE Skip(w)
  <2>1. Tail(todo[w]) \in Seq(DigestType) /\ todo' = [todo EXCEPT ![w] = Tail(todo[w])]
      BY <1>4, HeadKeyType DEF Skip
  <2>. QED  BY <1>4, <2>1 DEF Skip, TypeOK
<1>5. CASE Begin(w)
  <2>1. HeadKey(w) \in Key /\ HeadKey(w) # None /\ Tail(todo[w]) \in Seq(DigestType)
      BY <1>5, HeadKeyType DEF Begin
  <2>2. /\ pc' = [pc EXCEPT ![w] = "flush"] /\ job' = [job EXCEPT ![w] = HeadKey(w)]
        /\ todo' = [todo EXCEPT ![w] = Tail(todo[w])]
      BY <1>5 DEF Begin, HeadKey
  <2>3. UNCHANGED <<now, rows, begun, prompt, sent, doubtful, spoilt, faults>>
      BY <1>5 DEF Begin
  <2>. QED  BY <2>1, <2>2, <2>3 DEF TypeOK
<1>6. CASE Flush(w)
    BY <1>6, JobType DEF Flush, RowsAfterFlush, TypeOK
<1>7. CASE Send(w)
    BY <1>7, JobType DEF Send, TypeOK
<1>8. CASE Commit(w)
    BY <1>8, JobType DEF Commit, TypeOK
<1>9. CASE Sleep(w)
    BY <1>9, EndTypes DEF Sleep, TypeOK
<1>10. CASE SendFails(w)
  <2>1. job[w] \in Key
      BY <1>10, JobType DEF SendFails
  <2>2. sent' \in [Key -> Nat] /\ doubtful' \in [Key -> Nat]
      BY <1>10, <2>1 DEF SendFails, TypeOK
  <2>. QED  BY <1>10, <2>2, EndTypes, FaultTypes DEF SendFails, TypeOK
<1>11. CASE Crash(w)
  <2>1. doubtful' \in [Key -> Nat]
      BY <1>11, JobType DEF Crash, TypeOK
  <2>. QED  BY <1>11, <2>1, EndTypes, FaultTypes DEF Crash, TypeOK
<1>. QED
    BY <1>3, <1>4, <1>5, <1>6, <1>7, <1>8, <1>9, <1>10, <1>11 DEF RunDigestLoop

\* Every variable keeps its type, and a session is about a digest exactly
\* while it handles one.
THEOREM TypeCorrect == Spec => []TypeOK
<1>. QED  BY TypeInit, TypeNext, PTL DEF Spec

-----------------------------------------------------------------------------
\* A digest is sent once per date.

\* Workers whose transaction has inserted a row and not committed it.
Holding(w) == pc[w] \in {"send", "commit"}

\* No two of them hold one digest, and none holds a committed one.
Apart ==
    /\ \A v, w \in Worker : v # w /\ Holding(v) /\ Holding(w) => job[v] # job[w]
    /\ \A w \in Worker : Holding(w) => job[w] \notin rows

\* The messages the user got: the doubtful ones, and one more for a digest
\* that is on record or about to be.
Arrived(key) == key \in rows \/ \E w \in Worker : pc[w] = "commit" /\ job[w] = key
Balanced ==
    \A key \in Key : sent[key] = doubtful[key] + (IF Arrived(key) THEN 1 ELSE 0)

OnceInv == TypeOK /\ Apart /\ Balanced

LEMMA OnceInit == Init => OnceInv
<1>. SUFFICES ASSUME Init PROVE OnceInv
    OBVIOUS
<1>1. Apart
    BY DEF Init, Apart, Holding
<1>2. Balanced
    BY DEF Init, Balanced, Arrived
<1>. QED  BY <1>1, <1>2, TypeInit DEF OnceInv

\* Steps of a worker that neither holds a digest before nor holds one after.
LEMMA QuietKeepsOnce ==
    ASSUME OnceInv, NEW w \in Worker, ~ Holding(w), ~ Holding(w)',
           \A v \in Worker \ {w} : pc'[v] = pc[v] /\ job'[v] = job[v],
           UNCHANGED <<rows, sent, doubtful>>
    PROVE  (Apart /\ Balanced)'
<1>1. Apart'
    BY DEF OnceInv, Apart, Holding
<1>2. \A key \in Key : Arrived(key)' <=> Arrived(key)
    BY DEF Arrived, Holding
<1>3. Balanced'
    BY <1>2 DEF OnceInv, Balanced
<1>. QED  BY <1>1, <1>3

LEMMA EndOthers ==
    ASSUME TypeOK, NEW w \in Worker, EndIteration(w)
    PROVE  /\ ~ Holding(w)' /\ pc'[w] = "sleep"
           /\ \A v \in Worker \ {w} : pc'[v] = pc[v] /\ job'[v] = job[v]
                                       /\ todo'[v] = todo[v]
           /\ begun' = begun \ {w}
    BY DEF EndIteration, Holding, TypeOK

LEMMA FlushKeepsOnce ==
    ASSUME OnceInv, NEW w \in Worker, Flush(w)
    PROVE  (Apart /\ Balanced)'
<1>1. \A v \in Worker \ {w} : pc'[v] = pc[v] /\ job'[v] = job[v]
    BY DEF Flush, OnceInv, TypeOK
<1>2. CASE UniqueViolation(w)
  <2>1. ~ Holding(w) /\ ~ Holding(w)'
      BY <1>2 DEF Flush, Holding, OnceInv, TypeOK
  <2>. QED  BY <1>1, <1>2, <2>1, QuietKeepsOnce DEF Flush
<1>3. CASE ~ UniqueViolation(w)
  <2>1. /\ pc[w] = "flush" /\ pc'[w] = "send" /\ job'[w] = job[w]
        /\ UNCHANGED <<rows, sent, doubtful>> /\ job[w] \notin rows
      BY <1>3 DEF Flush, UniqueViolation, RowsAfterFlush, OnceInv, TypeOK
  <2>2. \A v \in Worker \ {w} : Holding(v) => job[v] # job[w]
      BY DEF Flush, Held, Holding
  <2>3. Apart'
      BY <1>1, <2>1, <2>2 DEF OnceInv, Apart, Holding
  <2>4. \A key \in Key : Arrived(key)' <=> Arrived(key)
      BY <1>1, <2>1 DEF Arrived
  <2>5. Balanced'
      BY <2>1, <2>4 DEF OnceInv, Balanced
  <2>. QED  BY <2>3, <2>5
<1>. QED  BY <1>2, <1>3

LEMMA SendKeepsOnce ==
    ASSUME OnceInv, NEW w \in Worker, Send(w)
    PROVE  (Apart /\ Balanced)'
<1>1. /\ pc[w] = "send" /\ pc'[w] = "commit" /\ job' = job /\ job[w] \in Key
      /\ UNCHANGED <<rows, doubtful>> /\ sent' = [sent EXCEPT ![job[w]] = @ + 1]
      /\ \A v \in Worker \ {w} : pc'[v] = pc[v]
    BY JobType DEF Send, OnceInv, TypeOK
<1>2. Apart'
    BY <1>1 DEF OnceInv, Apart, Holding
<1>3. Arrived(job[w])' /\ ~ Arrived(job[w])
    BY <1>1 DEF Arrived, OnceInv, Apart, Holding
<1>4. \A key \in Key \ {job[w]} : Arrived(key)' <=> Arrived(key)
    BY <1>1 DEF Arrived
<1>5. ASSUME NEW key \in Key
      PROVE  sent'[key] = doubtful'[key] + (IF Arrived(key)' THEN 1 ELSE 0)
  <2>1. sent[key] = doubtful[key] + (IF Arrived(key) THEN 1 ELSE 0)
        /\ sent[key] \in Nat /\ doubtful[key] \in Nat
      BY DEF OnceInv, Balanced, TypeOK
  <2>2. CASE key = job[w]
    <3>1. sent'[key] = sent[key] + 1
        BY <1>1, <2>2 DEF OnceInv, TypeOK
    <3>. QED  BY <1>1, <1>3, <2>1, <2>2, <3>1
  <2>3. CASE key # job[w]
    <3>1. sent'[key] = sent[key]
        BY <1>1, <2>3 DEF OnceInv, TypeOK
    <3>. QED  BY <1>1, <1>4, <2>1, <2>3, <3>1
  <2>. QED  BY <2>2, <2>3
<1>6. Balanced'
    BY <1>5 DEF Balanced
<1>. QED  BY <1>2, <1>6

LEMMA CommitKeepsOnce ==
    ASSUME OnceInv, NEW w \in Worker, Commit(w)
    PROVE  (Apart /\ Balanced)'
<1>1. /\ pc[w] = "commit" /\ pc'[w] = "next" /\ job[w] \in Key
      /\ UNCHANGED <<sent, doubtful>> /\ rows' = rows \cup {job[w]}
      /\ \A v \in Worker \ {w} : pc'[v] = pc[v] /\ job'[v] = job[v]
    BY JobType DEF Commit, OnceInv, TypeOK
<1>2. Apart'
    BY <1>1 DEF OnceInv, Apart, Holding
<1>3. \A key \in Key : Arrived(key)' <=> Arrived(key)
    BY <1>1 DEF Arrived
<1>4. Balanced'
    BY <1>1, <1>3 DEF OnceInv, Balanced
<1>. QED  BY <1>2, <1>4

\* A worker that stops between the send and the commit leaves a message
\* nobody will know of; one that stops earlier leaves nothing.
LEMMA StopKeepsOnce ==
    ASSUME OnceInv, NEW w \in Worker, SendFails(w) \/ Crash(w)
    PROVE  (Apart /\ Balanced)'
<1>1. /\ EndIteration(w) /\ rows' = rows
      /\ ~ Holding(w)' /\ pc'[w] = "sleep"
      /\ \A v \in Worker \ {w} : pc'[v] = pc[v] /\ job'[v] = job[v]
    BY EndOthers DEF SendFails, Crash, OnceInv
<1>2. Apart'
    BY <1>1 DEF OnceInv, Apart, Holding
<1>3. \A key \in Key : Arrived(key)' <=>
          Arrived(key) /\ ~ (pc[w] = "commit" /\ job[w] = key)
    BY <1>1 DEF Arrived, OnceInv, Apart, Holding
<1>4. CASE SendFails(w)
  <2>1. pc[w] = "send" /\ job[w] \in Key
      BY <1>4, JobType DEF SendFails, OnceInv
  <2>2. PICK n \in {0, 1} :
            /\ sent' = [sent EXCEPT ![job[w]] = @ + n]
            /\ doubtful' = [doubtful EXCEPT ![job[w]] = @ + n]
      BY <1>4 DEF SendFails
  <2>3. \A key \in Key : \E d \in {0, 1} :
            sent'[key] = sent[key] + d /\ doubtful'[key] = doubtful[key] + d
      BY <2>1, <2>2 DEF OnceInv, TypeOK
  <2>4. \A key \in Key : sent[key] \in Nat /\ doubtful[key] \in Nat
      BY DEF OnceInv, TypeOK
  <2>5. \A key \in Key : Arrived(key)' <=> Arrived(key)
      BY <1>3, <2>1
  <2>. QED  BY <1>2, <2>3, <2>4, <2>5 DEF OnceInv, Balanced
<1>5. CASE Crash(w) /\ pc[w] # "commit"
  <2>1. UNCHANGED <<sent, doubtful>>
      BY <1>5 DEF Crash
  <2>. QED  BY <1>2, <1>3, <1>5, <2>1 DEF OnceInv, Balanced
<1>6. CASE Crash(w) /\ pc[w] = "commit"
  <2>1. /\ job[w] \in Key /\ sent' = sent
        /\ doubtful' = [doubtful EXCEPT ![job[w]] = @ + 1]
      BY <1>6, JobType DEF Crash, OnceInv
  <2>2. \A key \in Key : key = job[w] => Arrived(key) /\ ~ Arrived(key)'
      BY <1>3, <1>6, <2>1 DEF Arrived
  <2>3. ASSUME NEW key \in Key
        PROVE  sent'[key] = doubtful'[key] + (IF Arrived(key)' THEN 1 ELSE 0)
    <3>1. sent[key] = doubtful[key] + (IF Arrived(key) THEN 1 ELSE 0)
          /\ sent[key] \in Nat /\ doubtful[key] \in Nat
        BY DEF OnceInv, Balanced, TypeOK
    <3>2. CASE key = job[w]
      <4>1. doubtful'[key] = doubtful[key] + 1
          BY <2>1, <3>2 DEF OnceInv, TypeOK
      <4>. QED  BY <2>1, <2>2, <3>1, <3>2, <4>1
    <3>3. CASE key # job[w]
      <4>1. doubtful'[key] = doubtful[key]
          BY <2>1, <3>3 DEF OnceInv, TypeOK
      <4>. QED  BY <1>3, <2>1, <3>1, <3>3, <4>1
    <3>. QED  BY <3>2, <3>3
  <2>. QED  BY <1>2, <2>3 DEF Balanced
<1>. QED  BY <1>4, <1>5, <1>6

LEMMA OnceNext == OnceInv /\ [Next]_vars => OnceInv'
<1>. SUFFICES ASSUME OnceInv, [Next]_vars PROVE OnceInv'
    OBVIOUS
<1>1. TypeOK'
    BY TypeNext DEF OnceInv
<1>2. CASE UNCHANGED <<rows, pc, job, sent, doubtful>>
    BY <1>1, <1>2 DEF OnceInv, Apart, Balanced, Arrived, Holding
<1>3. ASSUME NEW w \in Worker, Wake(w) \/ Skip(w) \/ Begin(w) \/ Sleep(w)
      PROVE  (Apart /\ Balanced)'
  <2>1. ~ Holding(w) /\ ~ Holding(w)' /\ UNCHANGED <<rows, sent, doubtful>>
      BY <1>3 DEF Wake, Skip, Begin, Sleep, EndIteration, Holding, OnceInv, TypeOK
  <2>2. \A v \in Worker \ {w} : pc'[v] = pc[v] /\ job'[v] = job[v]
      BY <1>3 DEF Wake, Skip, Begin, Sleep, EndIteration, OnceInv, TypeOK
  <2>. QED  BY <2>1, <2>2, QuietKeepsOnce
<1>. QED
    BY <1>1, <1>2, <1>3, FlushKeepsOnce, SendKeepsOnce, CommitKeepsOnce, StopKeepsOnce
    DEF Next, RunDigestLoop, Tick, vars, OnceInv

\* The user gets a digest once per date, but for messages whose outcome the
\* worker never learnt.
THEOREM OncePerDate == Spec => []SentOncePerDate
<1>1. OnceInv => SentOncePerDate
  <2>. SUFFICES ASSUME OnceInv, NEW key \in Key PROVE sent[key] <= 1 + doubtful[key]
      BY DEF SentOncePerDate
  <2>1. sent[key] \in Nat /\ doubtful[key] \in Nat
      BY DEF OnceInv, TypeOK
  <2>. QED  BY <2>1 DEF OnceInv, Balanced
<1>. QED  BY <1>1, OnceInit, OnceNext, PTL DEF Spec

\* A digest on record is one the user got.
THEOREM RecordMeansSent == Spec => []RecordedWasSent
<1>1. OnceInv => RecordedWasSent
  <2>. SUFFICES ASSUME OnceInv, NEW key \in rows PROVE sent[key] > 0
      BY DEF RecordedWasSent
  <2>1. key \in Key /\ Arrived(key)
      BY DEF OnceInv, TypeOK, Arrived
  <2>2. doubtful[key] \in Nat
      BY <2>1 DEF OnceInv, TypeOK
  <2>. QED  BY <2>1, <2>2 DEF OnceInv, Balanced
<1>. QED  BY <1>1, OnceInit, OnceNext, PTL DEF Spec

-----------------------------------------------------------------------------
\* The one minute of a digest is enough.

\* While nothing has failed in this minute, a worker whose iteration began in
\* it still has each due digest before it, has it in hand, or found or left
\* it on record; and after a whole iteration each due digest is on record.
Left(w) == {todo[w][i] : i \in 1..Len(todo[w])}
KeyOf(type) == [type |-> type, date |-> Today]
Covers(w, type) == KeyOf(type) \in rows \/ type \in Left(w) \/ job[w] = KeyOf(type)
Covered ==
    now \notin spoilt =>
        \A w \in begun, type \in DigestType : Due(type) => Covers(w, type)
Prompted ==
    now \notin spoilt /\ prompt => \A type \in DigestType : Due(type) => KeyOf(type) \in rows

DeliverInv == TypeOK /\ Covered /\ Prompted /\ WindowDelivers

LEMMA DeliverInit == Init => DeliverInv
<1>. SUFFICES ASSUME Init PROVE DeliverInv
    OBVIOUS
<1>1. Covered /\ Prompted
    BY DEF Init, Covered, Prompted
<1>2. WindowDelivers
    BY DEF Init, WindowDelivers
<1>. QED  BY <1>1, <1>2, TypeInit DEF DeliverInv

\* What a worker has left after it took the head.
LEMMA LeftAfterHead ==
    ASSUME NEW q \in Seq(DigestType), q # <<>>
    PROVE  {q[i] : i \in 1..Len(q)}
               = {Head(q)} \cup {Tail(q)[i] : i \in 1..Len(Tail(q))}
<1>1. Len(q) \in Nat \ {0} /\ Len(Tail(q)) = Len(q) - 1 /\ Head(q) = q[1]
    OBVIOUS
<1>2. \A i \in 1..Len(Tail(q)) : Tail(q)[i] = q[i + 1]
    OBVIOUS
<1>3. \A i \in 1..Len(q) : i = 1 \/ (i - 1 \in 1..Len(Tail(q)) /\ q[i] = Tail(q)[i - 1])
    BY <1>1, <1>2
<1>4. \A i \in 1..Len(Tail(q)) : i + 1 \in 1..Len(q)
    BY <1>1
<1>. QED  BY <1>1, <1>2, <1>3, <1>4

LEMMA HeadIsTaken ==
    ASSUME NEW w \in Worker, todo[w] \in Seq(DigestType), todo[w] # <<>>,
           todo'[w] = Tail(todo[w])
    PROVE  Left(w) = {Head(todo[w])} \cup Left(w)'
<1>1. {todo[w][i] : i \in 1..Len(todo[w])}
          = {Head(todo[w])} \cup {Tail(todo[w])[i] : i \in 1..Len(Tail(todo[w]))}
    BY LeftAfterHead
<1>2. Left(w)' = {todo'[w][i] : i \in 1..Len(todo'[w])}
    BY DEF Left
<1>3. Left(w)' = {Tail(todo[w])[i] : i \in 1..Len(Tail(todo[w]))}
    BY <1>2
<1>. QED  BY <1>1, <1>3 DEF Left

\* In a step of a worker the clock stands still, rows stay on record and
\* failures stay known: what held of the past holds still.
LEMMA PastStays ==
    ASSUME WindowDelivers, now' = now, rows \subseteq rows', spoilt \subseteq spoilt'
    PROVE  WindowDelivers'
    BY DEF WindowDelivers, Window, DigestTime, OnItsDay

\* A step of a worker that covers what the worker covered before.
LEMMA CoverageStays ==
    ASSUME DeliverInv, NEW w \in Worker,
           now' = now, rows \subseteq rows', spoilt' = spoilt, prompt' = prompt,
           begun' = begun,
           \A v \in Worker \ {w} : todo'[v] = todo[v] /\ job'[v] = job[v],
           \A type \in DigestType :
               Due(type) /\ Covers(w, type) =>
                   \/ KeyOf(type) \in rows' \/ job'[w] = KeyOf(type)
                   \/ type \in Left(w)'
    PROVE  (Covered /\ Prompted /\ WindowDelivers)'
<1>1. WindowDelivers'
    BY PastStays DEF DeliverInv
<1>2. \A type \in DigestType : (Due(type)' <=> Due(type)) /\ KeyOf(type)' = KeyOf(type)
    BY DEF Due, IsDigestWindow, IsoWeekday, Minute, Today, DigestTime, KeyOf
<1>3. Prompted'
    BY <1>2 DEF DeliverInv, Prompted
<1>4. ASSUME NEW v \in begun, NEW type \in DigestType, Due(type), now \notin spoilt
      PROVE  Covers(v, type)'
  <2>1. v \in Worker /\ Covers(v, type)
      BY <1>4 DEF DeliverInv, Covered, TypeOK
  <2>2. CASE v = w
      BY <1>2, <1>4, <2>1, <2>2 DEF Covers
  <2>3. CASE v # w
      BY <1>2, <2>1, <2>3 DEF Covers, Left
  <2>. QED  BY <2>2, <2>3
<1>5. Covered'
    BY <1>2, <1>4 DEF Covered
<1>. QED  BY <1>1, <1>3, <1>5

LEMMA WakeDelivers ==
    ASSUME DeliverInv, NEW w \in Worker, Wake(w)
    PROVE  (Covered /\ Prompted /\ WindowDelivers)'
<1>1. /\ UNCHANGED <<now, rows, job, prompt, spoilt>> /\ begun' = begun \cup {w}
      /\ todo'[w] = <<"MORNING", "EVENING", "WEEKLY">>
      /\ \A v \in Worker \ {w} : todo'[v] = todo[v]
    BY DEF Wake, DeliverInv, TypeOK
<1>2. WindowDelivers'
    BY <1>1, PastStays DEF DeliverInv
<1>3. \A type \in DigestType : (Due(type)' <=> Due(type)) /\ KeyOf(type)' = KeyOf(type)
    BY <1>1 DEF Due, IsDigestWindow, IsoWeekday, Minute, Today, DigestTime, KeyOf
<1>4. Prompted'
    BY <1>1, <1>3 DEF DeliverInv, Prompted
<1>5. Left(w)' = DigestType
  <2>1. /\ Len(todo'[w]) = 3 /\ todo'[w][1] = "MORNING" /\ todo'[w][2] = "EVENING"
        /\ todo'[w][3] = "WEEKLY"
      BY <1>1
  <2>2. 1..3 = {1, 2, 3}
      OBVIOUS
  <2>. QED  BY <2>1, <2>2 DEF Left, DigestType
<1>6. ASSUME NEW v \in begun', NEW type \in DigestType, Due(type), now \notin spoilt
      PROVE  Covers(v, type)'
  <2>1. CASE v = w
      BY <1>5, <2>1 DEF Covers
  <2>2. CASE v # w
    <3>1. v \in begun /\ v \in Worker
        BY <1>1, <2>2 DEF DeliverInv, TypeOK
    <3>2. Covers(v, type)
        BY <1>6, <3>1 DEF DeliverInv, Covered
    <3>. QED  BY <1>1, <1>3, <2>2, <3>1, <3>2 DEF Covers, Left
  <2>. QED  BY <2>1, <2>2
<1>7. Covered'
    BY <1>1, <1>3, <1>6 DEF Covered
<1>. QED  BY <1>2, <1>4, <1>7

LEMMA SkipDelivers ==
    ASSUME DeliverInv, NEW w \in Worker, Skip(w)
    PROVE  (Covered /\ Prompted /\ WindowDelivers)'
<1>1. /\ UNCHANGED <<now, rows, job, begun, prompt, spoilt>>
      /\ todo[w] \in Seq(DigestType) /\ todo[w] # <<>> /\ todo'[w] = Tail(todo[w])
      /\ \A v \in Worker \ {w} : todo'[v] = todo[v]
      /\ ~ Due(Head(todo[w])) \/ KeyOf(Head(todo[w])) \in rows
    BY DEF Skip, Existing, KeyOf, DeliverInv, TypeOK
<1>2. Left(w) = {Head(todo[w])} \cup Left(w)'
    BY <1>1, HeadIsTaken
<1>. QED  BY <1>1, <1>2, CoverageStays DEF Covers

LEMMA BeginDelivers ==
    ASSUME DeliverInv, NEW w \in Worker, Begin(w)
    PROVE  (Covered /\ Prompted /\ WindowDelivers)'
<1>1. /\ UNCHANGED <<now, rows, begun, prompt, spoilt>> /\ pc[w] = "next"
      /\ todo[w] \in Seq(DigestType) /\ todo[w] # <<>> /\ todo'[w] = Tail(todo[w])
      /\ job'[w] = KeyOf(Head(todo[w]))
      /\ \A v \in Worker \ {w} : todo'[v] = todo[v] /\ job'[v] = job[v]
    BY DEF Begin, KeyOf, DeliverInv, TypeOK
<1>2. Left(w) = {Head(todo[w])} \cup Left(w)'
  <2>1. todo[w] \in Seq(DigestType) /\ todo[w] # <<>> /\ todo'[w] = Tail(todo[w])
      BY <1>1
  <2>. QED  BY <2>1, HeadIsTaken
<1>3. \A type \in DigestType : job[w] # KeyOf(type)
  <2>1. \A type \in DigestType : KeyOf(type) \in Key
      BY TodayIsDate DEF KeyOf, Key, DeliverInv, TypeOK
  <2>. QED  BY <1>1, <2>1, ConstantsAssumption DEF DeliverInv, TypeOK
<1>. QED  BY <1>1, <1>2, <1>3, CoverageStays DEF Covers

LEMMA TransactionDelivers ==
    ASSUME DeliverInv, NEW w \in Worker, Flush(w) \/ Send(w) \/ Commit(w)
    PROVE  (Covered /\ Prompted /\ WindowDelivers)'
<1>1. /\ UNCHANGED <<now, todo, begun, prompt, spoilt>> /\ rows \subseteq rows'
      /\ \A v \in Worker \ {w} : job'[v] = job[v]
      /\ job[w] \in rows' \/ job'[w] = job[w]
    BY DEF Flush, Send, Commit, RowsAfterFlush, UniqueViolation, DeliverInv, TypeOK
<1>2. Left(w)' = Left(w)
    BY <1>1 DEF Left
<1>. QED  BY <1>1, <1>2, CoverageStays DEF Covers

LEMMA SleepDelivers ==
    ASSUME DeliverInv, NEW w \in Worker, Sleep(w)
    PROVE  (Covered /\ Prompted /\ WindowDelivers)'
<1>1. /\ UNCHANGED <<now, rows, spoilt>> /\ begun' = begun \ {w}
      /\ prompt' = (prompt \/ w \in begun)
      /\ pc[w] = "next" /\ todo[w] = <<>>
      /\ \A v \in Worker \ {w} : todo'[v] = todo[v] /\ job'[v] = job[v]
    BY EndOthers DEF Sleep, DeliverInv
<1>2. WindowDelivers'
    BY <1>1, PastStays DEF DeliverInv
<1>3. \A type \in DigestType : (Due(type)' <=> Due(type)) /\ KeyOf(type)' = KeyOf(type)
    BY <1>1 DEF Due, IsDigestWindow, IsoWeekday, Minute, Today, DigestTime, KeyOf
<1>4. Prompted'
  <2>1. ASSUME w \in begun, now \notin spoilt, NEW type \in DigestType, Due(type)
        PROVE  KeyOf(type) \in rows
    <3>1. Covers(w, type)
        BY <2>1 DEF DeliverInv, Covered
    <3>2. Left(w) = {}
        BY <1>1 DEF Left
    <3>3. KeyOf(type) \in Key
        BY <2>1, TodayIsDate DEF KeyOf, Key, DeliverInv, TypeOK
    <3>4. job[w] = None
        BY <1>1 DEF DeliverInv, TypeOK
    <3>. QED  BY <3>1, <3>2, <3>3, <3>4, ConstantsAssumption DEF Covers
  <2>. QED  BY <1>1, <1>3, <2>1 DEF DeliverInv, Prompted
<1>5. Covered'
  <2>1. ASSUME NEW v \in begun', NEW type \in DigestType, Due(type), now \notin spoilt
        PROVE  Covers(v, type)'
    <3>1. v \in begun /\ v # w /\ v \in Worker
        BY <1>1 DEF DeliverInv, TypeOK
    <3>2. Covers(v, type)
        BY <2>1, <3>1 DEF DeliverInv, Covered
    <3>. QED  BY <1>1, <1>3, <3>1, <3>2 DEF Covers, Left
  <2>. QED  BY <1>1, <1>3, <2>1 DEF Covered
<1>. QED  BY <1>2, <1>4, <1>5

\* A failure spoils the minute.
LEMMA FaultDelivers ==
    ASSUME DeliverInv, NEW w \in Worker, SendFails(w) \/ Crash(w)
    PROVE  (Covered /\ Prompted /\ WindowDelivers)'
<1>1. UNCHANGED <<now, rows>> /\ spoilt' = spoilt \cup {now}
    BY DEF SendFails, Crash, CountFault
<1>2. WindowDelivers'
    BY <1>1, PastStays DEF DeliverInv
<1>. QED  BY <1>1, <1>2 DEF Covered, Prompted

\* When the minute ends, its digests are on record or it is spoilt.
LEMMA TickDelivers ==
    ASSUME DeliverInv, Tick
    PROVE  (Covered /\ Prompted /\ WindowDelivers)'
<1>1. /\ now \in 0..MaxTime /\ now' = now + 1 /\ rows' = rows
      /\ begun' = {} /\ prompt' = FALSE
      /\ spoilt \subseteq spoilt'
      /\ now \notin spoilt' => prompt
    BY DEF Tick, DeliverInv, TypeOK
<1>2. Covered' /\ Prompted'
    BY <1>1 DEF Covered, Prompted
<1>3. ASSUME NEW key \in Key, Window(key) \in 0..(now' - 1), OnItsDay(key),
             Window(key) \notin spoilt'
      PROVE  key \in rows
  <2>1. CASE Window(key) = now
    <3>1. key.date = Today /\ IsDigestWindow(key.type) /\ key.type \in DigestType
        BY <1>1, <2>1, WindowIsNow DEF Key
    <3>2. Due(key.type)
        BY <1>3, <3>1 DEF Due, OnItsDay, IsoWeekday
    <3>3. KeyOf(key.type) = key
        BY <3>1 DEF KeyOf, Key
    <3>. QED  BY <1>1, <1>3, <2>1, <3>1, <3>2, <3>3 DEF DeliverInv, Prompted
  <2>2. CASE Window(key) # now
    <3>1. Window(key) \in 0..(now - 1)
        BY <1>1, <1>3, <2>2, ClockAssumption
    <3>. QED  BY <1>1, <1>3, <3>1 DEF DeliverInv, WindowDelivers
  <2>. QED  BY <2>1, <2>2
<1>4. WindowDelivers'
    BY <1>1, <1>3 DEF WindowDelivers, Window, DigestTime, OnItsDay
<1>. QED  BY <1>2, <1>4

LEMMA DeliverNext == DeliverInv /\ [Next]_vars => DeliverInv'
<1>. SUFFICES ASSUME DeliverInv, [Next]_vars PROVE DeliverInv'
    OBVIOUS
<1>1. TypeOK'
    BY TypeNext DEF DeliverInv
<1>2. CASE UNCHANGED vars
  <2>1. Covered' /\ Prompted'
      BY <1>2 DEF DeliverInv, Covered, Prompted, Covers, Left, KeyOf, Due, IsDigestWindow,
         IsoWeekday, Minute, Today, DigestTime, vars
  <2>2. WindowDelivers'
      BY <1>2, PastStays DEF DeliverInv, vars
  <2>. QED  BY <1>1, <2>1, <2>2 DEF DeliverInv
<1>. QED
    BY <1>1, <1>2, WakeDelivers, SkipDelivers, BeginDelivers, TransactionDelivers,
       SleepDelivers, FaultDelivers, TickDelivers
    DEF Next, RunDigestLoop, DeliverInv

\* A digest whose minute held a whole iteration and no failure is on record.
THEOREM OneMinuteIsEnough == Spec => []WindowDelivers
<1>1. DeliverInv => WindowDelivers
    BY DEF DeliverInv
<1>. QED  BY <1>1, DeliverInit, DeliverNext, PTL DEF Spec

-----------------------------------------------------------------------------
\* Days and deadlines.

\* The days of instants, and their order.
LEMMA DaysOfInstants ==
    ASSUME NEW s \in Time, NEW t \in Time
    PROVE  /\ s \in Nat /\ s # None /\ LocalDate(s) \in Date /\ LocalDate(s) \in Nat
           /\ LocalDate(s) # None
           /\ LocalDate(s) < LocalDate(t) => s < t
<1>1. /\ DayLength \in Nat \ {0} /\ ZoneOffset \in Nat /\ MaxTime \in Nat
      /\ s \in Nat /\ t \in Nat /\ s <= MaxTime
    BY ClockAssumption DEF Time
<1>2. /\ s + ZoneOffset \in Nat /\ t + ZoneOffset \in Nat /\ MaxTime + ZoneOffset \in Nat
      /\ s + ZoneOffset <= MaxTime + ZoneOffset
      /\ t <= s => t + ZoneOffset <= s + ZoneOffset
    BY <1>1
<1>3. LocalDate(s) \in Nat /\ LocalDate(t) \in Nat /\ LocalDate(MaxTime) \in Nat
    BY <1>1, <1>2, DivisionFacts DEF LocalDate
<1>4. LocalDate(s) <= LocalDate(MaxTime)
    BY <1>1, <1>2, DivisionIsMonotonic DEF LocalDate
<1>5. LocalDate(s) \in Date
    BY <1>3, <1>4 DEF Date
<1>6. t <= s => LocalDate(t) <= LocalDate(s)
    BY <1>1, <1>2, DivisionIsMonotonic DEF LocalDate
<1>7. LocalDate(s) < LocalDate(t) => s < t
    BY <1>1, <1>3, <1>6
<1>. QED  BY <1>1, <1>3, <1>5, <1>7, ClockAssumption

\* The last minute of a day.
LastMinute(d) == (d + 1) * DayLength - ZoneOffset - 1

LEMMA LastMinuteOfDay ==
    ASSUME NEW d \in Date, NEW t \in Time
    PROVE  /\ d \in Nat /\ d # None /\ LastMinute(d) \in Int
           /\ LocalDate(LastMinute(d)) = d
           /\ LastMinute(d) < t <=> d < LocalDate(t)
<1>0. LocalDate(MaxTime) \in Nat
  <2>1. MaxTime \in Time
      BY ClockAssumption DEF Time
  <2>. QED  BY <2>1, DaysOfInstants
<1>1. /\ DayLength \in Nat \ {0} /\ ZoneOffset \in Nat /\ d \in Nat /\ t \in Nat
    BY <1>0, ClockAssumption DEF Time, Date
<1>2. (d + 1) * DayLength = d * DayLength + DayLength /\ d * DayLength \in Nat
    BY <1>1
<1>. DEFINE e == d * DayLength
<1>3. LastMinute(d) = e + DayLength - ZoneOffset - 1 /\ e \in Nat
  <2>. DEFINE f == (d + 1) * DayLength
  <2>1. e \in Nat /\ f = e + DayLength /\ LastMinute(d) = f - ZoneOffset - 1
      BY <1>2 DEF LastMinute
  <2>. HIDE DEF e, f
  <2>. QED  BY <1>1, <2>1
<1>4. LastMinute(d) \in Int /\ LastMinute(d) + ZoneOffset = e + (DayLength - 1)
    BY <1>1, <1>3
<1>5. LocalDate(LastMinute(d)) = d
  <2>1. DayLength - 1 \in 0..(DayLength - 1)
      BY <1>1
  <2>2. (d * DayLength + (DayLength - 1)) \div DayLength = d
      BY <1>1, <2>1, DivisionIsUnique
  <2>. QED  BY <1>4, <2>2 DEF LocalDate
<1>. DEFINE q == LocalDate(t)
            r == (t + ZoneOffset) % DayLength
<1>6. q \in Nat /\ r \in 0..(DayLength - 1) /\ t + ZoneOffset = DayLength * q + r
  <2>1. t + ZoneOffset \in Nat
      BY <1>1
  <2>. QED  BY <1>1, <2>1, DivisionFacts DEF LocalDate
<1>. HIDE DEF q, r, e
<1>7. LastMinute(d) < t <=> e + DayLength <= DayLength * q + r
    BY <1>1, <1>3, <1>4, <1>6
<1>8. d < q => e + DayLength <= DayLength * q
  <2>1. ASSUME d < q PROVE (d + 1) * DayLength <= q * DayLength
      BY <1>1, <1>6, <2>1
  <2>2. q * DayLength = DayLength * q
      BY <1>1, <1>6
  <2>. QED  BY <1>2, <2>1, <2>2 DEF e
<1>9. q <= d => DayLength * q <= e
  <2>1. ASSUME q <= d PROVE q * DayLength <= d * DayLength
      BY <1>1, <1>6, <2>1
  <2>2. q * DayLength = DayLength * q
      BY <1>1, <1>6
  <2>. QED  BY <2>1, <2>2 DEF e
<1>10. DayLength * q \in Nat
    BY <1>1, <1>6
<1>11. LastMinute(d) < t <=> d < q
    BY <1>1, <1>3, <1>6, <1>7, <1>8, <1>9, <1>10
<1>. QED  BY <1>1, <1>4, <1>5, <1>11, ClockAssumption DEF q

\* A task is overdue by the documented rule, unless its deadlines are in
\* dispute, and due today when one falls on today, or its date does.
LEMMA DeadlinesOf ==
    ASSUME NEW task \in Task, NEW t \in Time
    PROVE  /\ Undisputed(task, t) => (IsOverdue(task, t) <=> PastDue(task, t))
           /\ AgreeingDeadlines(task) =>
                  (IsDueToday(task, t) <=>
                       \E d \in Deadlines(task) : LocalDate(d) = LocalDate(t))
<1>. DEFINE a == task.due_at
            d == task.due_date
<1>1. a \in Time \cup {None} /\ d \in Date \cup {None}
    BY DEF Task
<1>2. LocalDate(t) \in Nat /\ LocalDate(t) # None /\ t \in Nat
    BY DaysOfInstants
<1>3. a # None =>
          /\ a \in Nat /\ LocalDate(a) \in Nat /\ LocalDate(a) # None
          /\ LocalDate(a) < LocalDate(t) => a < t
          /\ a < t => LocalDate(a) <= LocalDate(t)
  <2>. SUFFICES ASSUME a # None
                PROVE  /\ a \in Nat /\ LocalDate(a) \in Nat /\ LocalDate(a) # None
                       /\ LocalDate(a) < LocalDate(t) => a < t
                       /\ a < t => LocalDate(a) <= LocalDate(t)
      OBVIOUS
  <2>1. a \in Time
      BY <1>1
  <2>2. /\ a \in Nat /\ LocalDate(a) \in Nat /\ LocalDate(a) # None
        /\ LocalDate(a) < LocalDate(t) => a < t
      BY <2>1, DaysOfInstants
  <2>3. LocalDate(t) < LocalDate(a) => t < a
      BY <2>1, DaysOfInstants
  <2>. QED  BY <1>2, <2>2, <2>3
<1>4. d # None =>
          /\ d \in Nat /\ LastMinute(d) \in Int /\ LocalDate(LastMinute(d)) = d
          /\ LastMinute(d) < t <=> d < LocalDate(t)
    BY <1>1, LastMinuteOfDay
<1>6. \A x : x \in Deadlines(task) <=>
                 \/ a # None /\ x = a
                 \/ d # None /\ x = LastMinute(d)
    BY DEF Deadlines, LastMinute
<1>7. LocalDueDate(task) = IF d # None THEN d ELSE IF a # None THEN LocalDate(a) ELSE None
    BY DEF LocalDueDate
<1>8. IsOverdue(task, t) <=>
          \/ a # None /\ a < t
          \/ LocalDueDate(task) # None /\ LocalDueDate(task) < LocalDate(t)
    BY DEF IsOverdue
<1>9. IsDueToday(task, t) <=> LocalDueDate(task) = LocalDate(t)
    BY DEF IsDueToday
<1>10. AgreeingDeadlines(task) <=> a = None \/ d = None \/ LocalDate(a) = d
    BY DEF AgreeingDeadlines
<1>. HIDE DEF a, d
<1>11. Undisputed(task, t) => (IsOverdue(task, t) <=> a # None /\ a < t)
  <2>1. Undisputed(task, t) =>
            /\ a = None \/ d = None \/ LocalDate(a) = d
            /\ a = None /\ d # None => d >= LocalDate(t)
      BY <1>10 DEF Undisputed, a, d
  <2>. QED  BY <1>2, <1>3, <1>4, <1>7, <1>8, <2>1
<1>12. AgreeingDeadlines(task) =>
           (IsDueToday(task, t) <=>
                \E x \in Deadlines(task) : LocalDate(x) = LocalDate(t))
    BY <1>2, <1>3, <1>4, <1>6, <1>7, <1>9, <1>10
<1>. QED  BY <1>11, <1>12 DEF PastDue, a

-----------------------------------------------------------------------------
\* The evening review.

\* The review of one task: nothing of a finished one, and an open one in the
\* first of the sections that fits.
LEMMA ReviewOfOne ==
    ASSUME NEW task \in Task, NEW t \in Time
    PROVE  LET review == EveningReview(<<task>>, t)
               sections == {s \in DOMAIN review : 1 \in review[s]}
           IN  /\ task.status \in Finished => sections = {}
               /\ task.status \notin Finished =>
                      sections = IF IsOverdue(task, t) THEN {"overdue"}
                                 ELSE IF IsDueToday(task, t) THEN {"today"}
                                 ELSE IF task.type = "AWAITING" THEN {"waiting"}
                                 ELSE {"open"}
               /\ review.overdue =
                      IF task.status \notin Finished /\ IsOverdue(task, t)
                      THEN {1} ELSE {}
<1>. DEFINE tasks == <<task>>
            review == EveningReview(tasks, t)
            sections == {s \in DOMAIN review : 1 \in review[s]}
            open == Open(tasks)
            overdue == {i \in open : IsOverdue(tasks[i], t)}
            today == {i \in open : IsDueToday(tasks[i], t)} \ overdue
            waiting == {i \in open : tasks[i].type = "AWAITING"} \ (overdue \cup today)
            listed == overdue \cup today \cup waiting
            rest == IF listed = {} THEN FirstOf(OpenShown, open) ELSE {}
<1>1. DOMAIN tasks = {1} /\ tasks[1] = task
    OBVIOUS
<1>2. open = IF task.status \in Finished THEN {} ELSE {1}
    BY <1>1 DEF Open
<1>3. /\ DOMAIN review = {"overdue", "today", "waiting", "open"}
      /\ review["overdue"] = overdue /\ review.overdue = overdue
      /\ review["today"] = today /\ review["waiting"] = waiting /\ review["open"] = rest
    BY DEF EveningReview
<1>4. FirstOf(OpenShown, open) = open
  <2>1. \A i \in open : {j \in open : j < i} = {}
      BY <1>2
  <2>2. Cardinality({}) = 0
      BY FS_EmptySet
  <2>. QED  BY <2>1, <2>2 DEF FirstOf, OpenShown
<1>5. overdue = IF task.status \notin Finished /\ IsOverdue(task, t) THEN {1} ELSE {}
    BY <1>1, <1>2
<1>. HIDE DEF review
<1>6. CASE task.status \in Finished
    BY <1>2, <1>3, <1>4, <1>5, <1>6 DEF review
<1>7. CASE task.status \notin Finished
  <2>. HIDE DEF tasks
  <2>1. /\ 1 \in overdue <=> IsOverdue(task, t)
        /\ 1 \in today <=> IsDueToday(task, t) /\ ~ IsOverdue(task, t)
        /\ 1 \in waiting <=> /\ task.type = "AWAITING"
                             /\ ~ IsOverdue(task, t) /\ ~ IsDueToday(task, t)
      BY <1>1, <1>2, <1>7
  <2>2. listed = {} <=> 1 \notin listed
      BY <1>2, <1>7
  <2>. HIDE DEF overdue, today, waiting
  <2>3. 1 \in rest <=> 1 \notin overdue /\ 1 \notin today /\ 1 \notin waiting
      BY <1>2, <1>4, <1>7, <2>2
  <2>4. \A s : s \in sections <=>
                   \/ s = "overdue" /\ 1 \in overdue
                   \/ s = "today" /\ 1 \in today
                   \/ s = "waiting" /\ 1 \in waiting
                   \/ s = "open" /\ 1 \in rest
      BY <1>3
  <2>. HIDE DEF rest, sections
  <2>5. sections = IF IsOverdue(task, t) THEN {"overdue"}
                   ELSE IF IsDueToday(task, t) THEN {"today"}
                   ELSE IF task.type = "AWAITING" THEN {"waiting"}
                   ELSE {"open"}
      BY <2>1, <2>3, <2>4
  <2>. QED  BY <1>3, <1>5, <1>7, <2>5 DEF review, sections, tasks, overdue
<1>. QED  BY <1>6, <1>7

LEMMA ReviewIsRight == EveningListsWhatIsDue
<1>. SUFFICES ASSUME NEW task \in Task, NEW t \in Time
     PROVE  LET review == EveningReview(<<task>>, t)
                sections == {s \in DOMAIN review : 1 \in review[s]}
                dueToday == \E d \in Deadlines(task) : LocalDate(d) = LocalDate(t)
            IN  IF task.status \in Finished THEN sections = {}
                ELSE /\ Cardinality(sections) = 1
                     /\ Undisputed(task, t) =>
                            /\ "overdue" \in sections <=> PastDue(task, t)
                            /\ "today" \in sections <=> dueToday /\ ~ PastDue(task, t)
                     /\ OverdueButton(<<task>>, t) \subseteq review.overdue
    BY DEF EveningListsWhatIsDue
<1>. DEFINE review == EveningReview(<<task>>, t)
            sections == {s \in DOMAIN review : 1 \in review[s]}
            dueToday == \E d \in Deadlines(task) : LocalDate(d) = LocalDate(t)
<1>1. /\ task.status \in Finished => sections = {}
      /\ task.status \notin Finished =>
             sections = IF IsOverdue(task, t) THEN {"overdue"}
                        ELSE IF IsDueToday(task, t) THEN {"today"}
                        ELSE IF task.type = "AWAITING" THEN {"waiting"}
                        ELSE {"open"}
      /\ review.overdue = IF task.status \notin Finished /\ IsOverdue(task, t)
                          THEN {1} ELSE {}
    BY ReviewOfOne
<1>. HIDE DEF review, sections
<1>. SUFFICES ASSUME task.status \notin Finished
              PROVE  /\ Cardinality(sections) = 1
                     /\ Undisputed(task, t) =>
                            /\ "overdue" \in sections <=> PastDue(task, t)
                            /\ "today" \in sections <=> dueToday /\ ~ PastDue(task, t)
                     /\ OverdueButton(<<task>>, t) \subseteq review.overdue
    BY <1>1 DEF review, sections
<1>2. Cardinality(sections) = 1
    BY <1>1, FS_Singleton
<1>3. /\ "overdue" \in sections <=> IsOverdue(task, t)
      /\ "today" \in sections <=> IsDueToday(task, t) /\ ~ IsOverdue(task, t)
    BY <1>1
<1>4. Undisputed(task, t) =>
          /\ IsOverdue(task, t) <=> PastDue(task, t)
          /\ IsDueToday(task, t) <=> dueToday
    BY DeadlinesOf DEF Undisputed
<1>5. OverdueButton(<<task>>, t) \subseteq review.overdue
  <2>1. DOMAIN <<task>> = {1} /\ <<task>>[1] = task
      OBVIOUS
  <2>2. \A i \in OverdueButton(<<task>>, t) :
            i = 1 /\ task.due_at # None /\ task.due_at < t
      BY <2>1 DEF OverdueButton, Open
  <2>. QED  BY <1>1, <2>2 DEF IsOverdue
<1>. QED  BY <1>2, <1>3, <1>4, <1>5

\* The evening review tells what is due, for every task with undisputed
\* deadlines at every instant, with days of any length in a zone any number of
\* minutes ahead.
THEOREM ReviewTellsWhatIsDue == Spec => []EveningTellsWhatIsDue
<1>1. EveningTellsWhatIsDue
    BY ReviewIsRight DEF EveningTellsWhatIsDue
<1>. QED  BY <1>1, PTL

-----------------------------------------------------------------------------
\* The morning digest.

\* Numbers have a least one.
LEMMA LeastOf ==
    ASSUME NEW m \in Nat, NEW F \in SUBSET (1..m), F # {}
    PROVE  \E i \in F : \A j \in F : ~ (j < i)
<1>. DEFINE R == OpToRel(<, Nat)
<1>1. IsWellFoundedOn(R, Nat)
    BY NatLessThanWellFounded
<1>2. \A j, i \in Nat : j < i => <<j, i>> \in R
    BY DEF OpToRel
<1>3. F \subseteq Nat
    OBVIOUS
<1>. HIDE DEF R
<1>4. \E i \in F : \A j \in F : <<j, i>> \notin R
    BY <1>1, <1>3, WFMin
<1>. QED  BY <1>2, <1>3, <1>4

\* Numbers that are bounded have a greatest one.
LEMMA GreatestOf ==
    ASSUME NEW m \in Nat, NEW F \in SUBSET (1..m), F # {}
    PROVE  \E i \in F : \A j \in F : j <= i
<1>. DEFINE R == OpToRel(<, Nat)
            T == {m - i : i \in F}
<1>1. IsWellFoundedOn(R, Nat)
    BY NatLessThanWellFounded
<1>2. \A j, i \in Nat : j < i => <<j, i>> \in R
    BY DEF OpToRel
<1>3. T \subseteq Nat /\ T # {}
  <2>1. \A i \in F : m - i \in Nat
      OBVIOUS
  <2>2. T \subseteq Nat
      BY <2>1, Zenon
  <2>. QED  BY <2>2
<1>. HIDE DEF R
<1>4. PICK x \in T : \A y \in T : <<y, x>> \notin R
    BY <1>1, <1>3, WFMin
<1>5. \A y \in T : ~ (y < x)
    BY <1>2, <1>3, <1>4
<1>6. PICK i \in F : x = m - i
    OBVIOUS
<1>7. \A j \in F : ~ (m - j < m - i)
    BY <1>5, <1>6
<1>. QED  BY <1>7

\* A finite set of numbers has at most n of which less than n are smaller.
LEMMA FirstOfIsShort ==
    ASSUME NEW n \in Nat, NEW m \in Nat, NEW S \in SUBSET (1..m)
    PROVE  Cardinality(FirstOf(n, S)) <= n
<1>. DEFINE F == FirstOf(n, S)
<1>1. IsFiniteSet(1..m)
    BY FS_Interval
<1>2. F \in SUBSET (1..m) /\ F \subseteq S
    BY DEF FirstOf
<1>3. IsFiniteSet(F) /\ IsFiniteSet(S)
    BY <1>1, <1>2, FS_Subset
<1>. HIDE DEF F
<1>4. CASE F = {}
    BY <1>4, FS_EmptySet DEF F
<1>5. CASE F # {}
  <2>1. PICK i \in F : \A j \in F : j <= i
      BY <1>2, <1>5, GreatestOf
  <2>. DEFINE smaller == {j \in S : j < i}
  <2>2. smaller \in SUBSET S /\ IsFiniteSet(smaller) /\ Cardinality(smaller) \in Nat
    <3>1. smaller \in SUBSET S
        OBVIOUS
    <3>2. IsFiniteSet(smaller)
        BY <1>3, <3>1, FS_Subset
    <3>. QED  BY <3>1, <3>2, FS_CardinalityType
  <2>3. Cardinality(smaller) < n
      BY <2>1 DEF FirstOf, F
  <2>4. F \ {i} \in SUBSET smaller
      BY <1>2, <2>1
  <2>5. Cardinality(F \ {i}) <= Cardinality(smaller)
      BY <2>2, <2>4, FS_Subset
  <2>6. Cardinality(F \ {i}) = Cardinality(F) - 1 /\ Cardinality(F) \in Nat
      BY <1>3, <2>1, FS_RemoveElement, FS_CardinalityType
  <2>. HIDE DEF smaller
  <2>7. Cardinality(F) <= n
      BY <2>2, <2>3, <2>5, <2>6
  <2>. QED  BY <2>7 DEF F
<1>. QED  BY <1>4, <1>5

\* The morning digest of any list of tasks: three risks at most, nothing
\* finished, and every open task that is due today, delegated or awaited.
MorningOfAnyTasks ==
    \A tasks \in Seq(Task), t \in Time :
        LET digest == MorningDigest(tasks, t)
            shown == UNION {digest[s] : s \in DOMAIN digest}
        IN  /\ Cardinality(digest.risks) <= RisksShown
            /\ shown \subseteq Open(tasks)
            /\ \A i \in Open(tasks) :
                   /\ \/ tasks[i].type # "MY_TASK"
                      \/ \E d \in Deadlines(tasks[i]) : LocalDate(d) = LocalDate(t)
                   /\ AgreeingDeadlines(tasks[i])
                   => i \in shown

\* digest.morning_digest: whatever the tasks are, and however many, the limit of
\* risks hides none that the other sections should list.
THEOREM MorningIsComplete == MorningOfAnyTasks
<1>. SUFFICES ASSUME NEW tasks \in Seq(Task), NEW t \in Time
     PROVE  LET digest == MorningDigest(tasks, t)
                shown == UNION {digest[s] : s \in DOMAIN digest}
            IN  /\ Cardinality(digest.risks) <= RisksShown
                /\ shown \subseteq Open(tasks)
                /\ \A i \in Open(tasks) :
                       /\ \/ tasks[i].type # "MY_TASK"
                          \/ \E d \in Deadlines(tasks[i]) : LocalDate(d) = LocalDate(t)
                       /\ AgreeingDeadlines(tasks[i])
                       => i \in shown
    BY DEF MorningOfAnyTasks
<1>. DEFINE digest == MorningDigest(tasks, t)
            shown == UNION {digest[s] : s \in DOMAIN digest}
            risks == Risks(tasks, t)
            rest == RestOf(tasks, t)
<1>1. /\ DOMAIN digest = {"risks", "today", "delegated", "waiting"}
      /\ digest.risks = risks
      /\ digest["risks"] = risks
      /\ digest["today"] = {i \in rest : IsDueToday(tasks[i], t)}
      /\ digest["delegated"] = {i \in rest : tasks[i].type = "DELEGATED"}
      /\ digest["waiting"] = {i \in rest : tasks[i].type = "AWAITING"}
    BY DEF MorningDigest
<1>2. /\ Len(tasks) \in Nat /\ Open(tasks) \in SUBSET (1..Len(tasks))
      /\ \A i \in Open(tasks) : tasks[i] \in Task
    BY DEF Open
<1>3. rest = Open(tasks) \ risks /\ risks \subseteq Open(tasks)
    BY DEF RestOf, Risks, FirstOf
<1>. HIDE DEF digest, risks, rest
<1>4. Cardinality(digest.risks) <= RisksShown
  <2>. DEFINE S == {i \in Open(tasks) : IsRisk(tasks[i], t)}
  <2>1. S \in SUBSET (1..Len(tasks)) /\ RisksShown \in Nat
      BY <1>2 DEF RisksShown
  <2>. HIDE DEF S
  <2>2. Cardinality(FirstOf(RisksShown, S)) <= RisksShown
      BY <1>2, <2>1, FirstOfIsShort
  <2>. QED  BY <1>1, <2>2 DEF S, risks, Risks
<1>5. \A i : i \in shown <=>
          \/ i \in risks
          \/ /\ i \in rest
             /\ IsDueToday(tasks[i], t) \/ tasks[i].type \in {"DELEGATED", "AWAITING"}
    BY <1>1
<1>. HIDE DEF shown
<1>6. shown \subseteq Open(tasks)
    BY <1>3, <1>5
<1>7. ASSUME NEW i \in Open(tasks),
             \/ tasks[i].type # "MY_TASK"
             \/ \E d \in Deadlines(tasks[i]) : LocalDate(d) = LocalDate(t),
             AgreeingDeadlines(tasks[i])
      PROVE  i \in shown
  <2>1. i \in risks \/ i \in rest
      BY <1>3, <1>7
  <2>2. tasks[i] \in Task
      BY <1>2
  <2>3. IsDueToday(tasks[i], t) \/ tasks[i].type # "MY_TASK"
      BY <1>7, <2>2, DeadlinesOf
  <2>4. tasks[i].type \in {"MY_TASK", "DELEGATED", "AWAITING"}
      BY <2>2 DEF Task
  <2>. QED  BY <1>5, <2>1, <2>3, <2>4
<1>. QED  BY <1>4, <1>6, <1>7 DEF shown, digest

LEMMA MorningIsRight == MorningShowsWhatIsDue
<1>. SUFFICES ASSUME NEW task \in Task, NEW t \in Time, NEW before \in 0..(RisksShown + 1)
     PROVE  LET tasks == Append([i \in 1..before |-> Urgent], task)
                digest == MorningDigest(tasks, t)
                shown == UNION {digest[s] : s \in DOMAIN digest}
            IN  /\ Cardinality(digest.risks) <= RisksShown
                /\ task.status \in Finished => before + 1 \notin shown
                /\ /\ task.status \notin Finished
                   /\ \/ task.type # "MY_TASK"
                      \/ \E d \in Deadlines(task) : LocalDate(d) = LocalDate(t)
                   /\ AgreeingDeadlines(task)
                   => before + 1 \in shown
    BY DEF MorningShowsWhatIsDue
<1>. DEFINE first == [i \in 1..before |-> Urgent]
            tasks == Append(first, task)
            n == before + 1
            digest == MorningDigest(tasks, t)
            shown == UNION {digest[s] : s \in DOMAIN digest}
<1>1. before \in Nat /\ n \in Nat
    BY DEF RisksShown
<1>2. Urgent \in Task
    BY DEF Urgent, Task
<1>3. first \in Seq(Task) /\ Len(first) = before
    BY <1>1, <1>2
<1>. HIDE DEF first
<1>4. tasks \in Seq(Task) /\ DOMAIN tasks = 1..n /\ tasks[n] = task
    BY <1>1, <1>3
<1>5. n \in Open(tasks) <=> task.status \notin Finished
    BY <1>1, <1>4 DEF Open
<1>. HIDE DEF tasks, n
<1>6. /\ Cardinality(digest.risks) <= RisksShown
      /\ shown \subseteq Open(tasks)
      /\ \A i \in Open(tasks) :
             /\ \/ tasks[i].type # "MY_TASK"
                \/ \E d \in Deadlines(tasks[i]) : LocalDate(d) = LocalDate(t)
             /\ AgreeingDeadlines(tasks[i])
             => i \in shown
    BY <1>4, MorningIsComplete DEF MorningOfAnyTasks
<1>. HIDE DEF shown, digest
<1>7. task.status \in Finished => n \notin shown
    BY <1>5, <1>6
<1>8. /\ task.status \notin Finished
      /\ \/ task.type # "MY_TASK"
         \/ \E d \in Deadlines(task) : LocalDate(d) = LocalDate(t)
      /\ AgreeingDeadlines(task)
      => n \in shown
    BY <1>4, <1>5, <1>6
<1>. QED  BY <1>6, <1>7, <1>8 DEF shown, digest, tasks, first, n

\* The morning digest hides nothing that is due, delegated or awaited behind
\* its limit of risks, for every task at every instant.
THEOREM MorningTellsWhatIsDue == Spec => []MorningHidesNothingDue
<1>1. MorningHidesNothingDue
    BY MorningIsRight DEF MorningHidesNothingDue
<1>. QED  BY <1>1, PTL

-----------------------------------------------------------------------------
\* The evening review of any list of tasks.

\* The sections say of each open task with undisputed deadlines what the rule
\* and the owner's zone say, no task is in two of them, and a review of open
\* tasks is never empty.
EveningOfAnyTasks ==
    \A tasks \in Seq(Task), t \in Time :
        LET review == EveningReview(tasks, t)
        IN  /\ \A i \in Open(tasks) : Undisputed(tasks[i], t) =>
                   /\ i \in review.overdue <=> PastDue(tasks[i], t)
                   /\ i \in review.today <=>
                          /\ ~ PastDue(tasks[i], t)
                          /\ \E d \in Deadlines(tasks[i]) :
                                 LocalDate(d) = LocalDate(t)
            /\ \A r, s \in DOMAIN review : r # s => review[r] \cap review[s] = {}
            /\ UNION {review[s] : s \in DOMAIN review} \subseteq Open(tasks)
            /\ Open(tasks) # {} => \E s \in DOMAIN review : review[s] # {}
            /\ Cardinality(review.open) <= OpenShown
            /\ OverdueButton(tasks, t) \subseteq review.overdue

\* digest.evening_review, for any tasks: what is listed as overdue or due is so by
\* the rule and in the owner's zone, and what is so is listed, where the
\* deadlines are undisputed.
THEOREM EveningIsComplete == EveningOfAnyTasks
<1>. SUFFICES ASSUME NEW tasks \in Seq(Task), NEW t \in Time
     PROVE  LET review == EveningReview(tasks, t)
            IN  /\ \A i \in Open(tasks) : Undisputed(tasks[i], t) =>
                       /\ i \in review.overdue <=> PastDue(tasks[i], t)
                       /\ i \in review.today <=>
                              /\ ~ PastDue(tasks[i], t)
                              /\ \E d \in Deadlines(tasks[i]) :
                                     LocalDate(d) = LocalDate(t)
                /\ \A r, s \in DOMAIN review : r # s => review[r] \cap review[s] = {}
                /\ UNION {review[s] : s \in DOMAIN review} \subseteq Open(tasks)
                /\ Open(tasks) # {} => \E s \in DOMAIN review : review[s] # {}
                /\ Cardinality(review.open) <= OpenShown
                /\ OverdueButton(tasks, t) \subseteq review.overdue
    BY DEF EveningOfAnyTasks
<1>. DEFINE review == EveningReview(tasks, t)
            open == Open(tasks)
            overdue == {i \in open : IsOverdue(tasks[i], t)}
            today == {i \in open : IsDueToday(tasks[i], t)} \ overdue
            waiting == {i \in open : tasks[i].type = "AWAITING"} \ (overdue \cup today)
            listed == overdue \cup today \cup waiting
            first == FirstOf(OpenShown, open)
            rest == IF listed = {} THEN first ELSE {}
<1>1. /\ DOMAIN review = {"overdue", "today", "waiting", "open"}
      /\ review["overdue"] = overdue /\ review.overdue = overdue
      /\ review["today"] = today /\ review.today = today
      /\ review["waiting"] = waiting
      /\ review["open"] = rest /\ review.open = rest
    BY DEF EveningReview
<1>2. /\ Len(tasks) \in Nat /\ open \in SUBSET (1..Len(tasks))
      /\ \A i \in open : tasks[i] \in Task
    BY DEF Open
<1>3. first \subseteq open /\ Cardinality(first) <= OpenShown
  <2>1. OpenShown \in Nat
      BY DEF OpenShown
  <2>2. Cardinality(first) <= OpenShown
      BY <1>2, <2>1, FirstOfIsShort
  <2>. QED  BY <2>2 DEF FirstOf
<1>4. open # {} => first # {}
  <2>. SUFFICES ASSUME open # {} PROVE first # {}
      OBVIOUS
  <2>1. PICK i \in open : \A j \in open : ~ (j < i)
      BY <1>2, LeastOf
  <2>. DEFINE before == {j \in open : j < i}
  <2>2. before = {}
      BY <2>1
  <2>. HIDE DEF open
  <2>3. i \in first <=> Cardinality(before) < OpenShown
      BY <2>1 DEF FirstOf
  <2>. HIDE DEF before, first
  <2>4. Cardinality(before) = 0
      BY <2>2, FS_EmptySet
  <2>. QED  BY <2>3, <2>4 DEF OpenShown
<1>. HIDE DEF review, first
<1>5. ASSUME NEW i \in open, Undisputed(tasks[i], t)
      PROVE  /\ i \in review.overdue <=> PastDue(tasks[i], t)
             /\ i \in review.today <=>
                    /\ ~ PastDue(tasks[i], t)
                    /\ \E d \in Deadlines(tasks[i]) : LocalDate(d) = LocalDate(t)
  <2>1. /\ i \in review.overdue <=> IsOverdue(tasks[i], t)
        /\ i \in review.today <=> IsDueToday(tasks[i], t) /\ ~ IsOverdue(tasks[i], t)
      BY <1>1
  <2>2. tasks[i] \in Task
      BY <1>2
  <2>. HIDE DEF open
  <2>. QED  BY <1>5, <2>1, <2>2, DeadlinesOf DEF Undisputed
<1>6. OverdueButton(tasks, t) \subseteq review.overdue
    BY <1>1 DEF OverdueButton, IsOverdue
<1>. HIDE DEF open
<1>7. /\ overdue \cap today = {} /\ overdue \cap waiting = {} /\ today \cap waiting = {}
      /\ rest # {} => overdue = {} /\ today = {} /\ waiting = {}
      /\ overdue \subseteq open /\ today \subseteq open /\ waiting \subseteq open
      /\ rest \subseteq open
    BY <1>3
<1>8. open # {} => overdue # {} \/ today # {} \/ waiting # {} \/ rest # {}
    BY <1>4
<1>9. Cardinality(rest) <= OpenShown
    BY <1>3, FS_EmptySet DEF OpenShown
<1>. HIDE DEF overdue, today, waiting, rest
<1>10. \A r, s \in DOMAIN review : r # s => review[r] \cap review[s] = {}
    BY <1>1, <1>7
<1>11. UNION {review[s] : s \in DOMAIN review} \subseteq open
    BY <1>1, <1>7
<1>12. open # {} => \E s \in DOMAIN review : review[s] # {}
    BY <1>1, <1>8
<1>13. Cardinality(review.open) <= OpenShown
    BY <1>1, <1>9
<1>. QED  BY <1>5, <1>6, <1>10, <1>11, <1>12, <1>13 DEF review, open
=============================================================================
